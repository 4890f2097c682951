------------------------------ MODULE MCDds ------------------------------
(***************************************************************************)
(* Small instances of Dds for TLC.                                         *)
(***************************************************************************)
EXTENDS Dds

Filled(b) == [b EXCEPT !.data = GetDataSize(b)]

(* Every format the library has a size for, in one texture and in two.     *)
MCFormats == {f \in PixelFormat : GetBytesPerPixel(f) + GetBlockByteSize(f) # 0}
MCAnyFormat == {Filled(Sized("2D", f, 4, 4, 1, 1, a)) : f \in MCFormats, a \in {1, 2}}

(* Long chains: square, wide, odd, whole and partial; what skips levels    *)
(* (more than 8x8) and what does not; pixels, widened pixels, blocks.      *)
MCPlane ==
  {Filled(Sized("2D", f, s[1], s[2], 1, m, a)) :
     f \in {PIXEL_FORMAT_B8G8R8A8_UNORM, PIXEL_FORMAT_R8G8_UNORM, PIXEL_FORMAT_BC1_UNORM,
            PIXEL_FORMAT_BC7_UNORM},
     s \in {<<16, 16>>, <<64, 16>>, <<13, 27>>, <<8, 32>>}, m \in {0, 1, 3}, a \in {1, 2}}

MCSolid ==
  {Filled(Sized("3D", PIXEL_FORMAT_B8G8R8A8_UNORM, 16, 16, d, m, 1)) : d \in {3, 16}, m \in {1, 4}}
MCCube ==
  {Filled(Sized("CUBE", f, 16, 16, 1, m, 6)) :
     f \in {PIXEL_FORMAT_R8G8B8A8_UNORM, PIXEL_FORMAT_BC7_UNORM}, m \in {1, 4}}

MCImages == MCAnyFormat \union MCPlane \union MCSolid \union MCCube

(* Pixels of 24 bits, and a volume that says it has mip levels.            *)
Foreign(b, pf, packed) ==
  Written(Header(b.width, b.height, b.volumeDepth, b.mipCount, TRUE, b.type = "3D", FALSE, pf,
                 PIXEL_FORMAT_UNKNOWN, 0), b, packed)

MCForeignFiles ==
  { Foreign(Filled(Sized("2D", PIXEL_FORMAT_B8G8R8X8_UNORM, 16, 24, 1, 4, 1)),
            PixelFormatOf("none", 24, "rgb888"), TRUE),
    Foreign(Filled(Sized("3D", PIXEL_FORMAT_B8G8R8X8_UNORM, 16, 12, 4, 4, 1)),
            PixelFormatOf("none", 32, "rgb888"), FALSE) }
=============================================================================
