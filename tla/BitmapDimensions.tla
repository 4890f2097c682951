------------------------- MODULE BitmapDimensions -------------------------
(***************************************************************************)
(* struct BitmapDimensions (include/BitmapDimensions.h): the seven numbers *)
(* that say how the bytes of a texture are laid out, and the accessors of  *)
(* a mip level.  An operator takes any record b that has those fields.     *)
(* The sizes are natural numbers: the model speaks of textures whose byte  *)
(* counts fit the code's uint32_t.                                         *)
(***************************************************************************)
EXTENDS PixelFormat, Recursion

TextureType ==
  {"1D", "2D", "3D", "CUBE", "TYPELESS", "INVALID"}

Dimensions ==
  [type : TextureType, format : PixelFormat, width : Nat, height : Nat,
   volumeDepth : Nat, mipCount : Nat, arraySize : Nat]

(* BitmapDimensions::BitmapDimensions()                                    *)
DefaultDimensions ==
  [type |-> "INVALID", format |-> PIXEL_FORMAT_UNKNOWN, width |-> 0, height |-> 0,
   volumeDepth |-> 0, mipCount |-> 0, arraySize |-> 1]

IsCompressed(b) == IsCompressedFormat(b.format)

(* A mip count of zero stands for the full chain, down to 1x1; the depth   *)
(* of a volume does not lengthen it.                                       *)
GetTrueMipCount(b) ==
  IF b.mipCount > 0 THEN b.mipCount ELSE BitLength(Larger(b.width, b.height))

(* (n + 3) & ~3                                                            *)
AlignUp4(n) == ((n + 3) \div 4) * 4

(* A side at a level, in pixels: whole 4x4 blocks for a compressed format. *)
LevelSide(b, side, level) ==
  IF level >= GetTrueMipCount(b) THEN 0
  ELSE IF IsCompressed(b) THEN Larger(AlignUp4(Shr(side, level)), 4)
  ELSE Larger(Shr(side, level), 1)

GetMipWidth(b, level)  == LevelSide(b, b.width, level)
GetMipHeight(b, level) == LevelSide(b, b.height, level)

GetMipDepth(b, level) ==
  IF b.type # "3D" THEN 1
  ELSE IF level >= GetTrueMipCount(b) THEN 0
  ELSE Larger(Shr(b.volumeDepth, level), 1)

GetMipPitch(b, level) ==
  IF IsCompressed(b)
  THEN (GetMipWidth(b, level) \div 4) * GetBlockByteSize(b.format)
  ELSE GetMipWidth(b, level) * GetBytesPerPixel(b.format)

(* Mutant: the size of one slice instead of all of them.                   *)
GetMipSize_FlatVolumes(b, level) ==
  IF IsCompressed(b)
  THEN ((GetMipWidth(b, level) * GetMipHeight(b, level)) \div 16) * GetBlockByteSize(b.format)
  ELSE GetMipWidth(b, level) * GetMipHeight(b, level) * GetBytesPerPixel(b.format)

GetMipSize(b, level) ==
  LET texels == GetMipWidth(b, level) * GetMipHeight(b, level) * GetMipDepth(b, level)
  IN  IF IsCompressed(b)
      THEN (texels \div 16) * GetBlockByteSize(b.format)
      ELSE texels * GetBytesPerPixel(b.format)

GetMipNumRows(b, level) ==
  IF IsCompressed(b) THEN GetMipHeight(b, level) \div 4 ELSE GetMipHeight(b, level)
=============================================================================
