--------------------------- MODULE MCHostBitmap ---------------------------
(***************************************************************************)
(* Small instances of HostBitmap for TLC.                                  *)
(***************************************************************************)
EXTENDS HostBitmapClaims

(* 1x1, the smallest crossmap, a bitmap whose second level is odd and that *)
(* as a volume has no depth, and a square of four levels.                  *)
MCShapes == {<<1, 1, 2>>, <<3, 4, 1>>, <<6, 4, 0>>, <<8, 8, 3>>}
MCFormats == {PIXEL_FORMAT_R8G8_UNORM, PIXEL_FORMAT_B8G8R8A8_UNORM, PIXEL_FORMAT_B8G8R8X8_UNORM}

(* Even, but half of six is odd.                                           *)
MCEvenShapes == {<<6, 6, 1>>, <<8, 2, 1>>}

(* Sides that CreateFromBitmapDimensions lets pass though they are no      *)
(* whole blocks, and that make a volume of three slices; a width it        *)
(* refuses; formats with and without blocks.                               *)
MCOddShapes == {<<9, 4, 4>>, <<0, 4, 4>>}
MCBlockFormats == {PIXEL_FORMAT_R8_UNORM, PIXEL_FORMAT_B8G8R8X8_UNORM, PIXEL_FORMAT_BC1_UNORM}
=============================================================================
