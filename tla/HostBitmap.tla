---------------------------- MODULE HostBitmap ----------------------------
(***************************************************************************)
(* class HostBitmap (HostBitmap.cpp): a texture in memory, and the         *)
(* operations that create, resize, convert and hand over its buffer.       *)
(*                                                                         *)
(* A bitmap is its dimensions and the number of bytes its buffer holds;    *)
(* zero bytes is the empty buffer of an invalid bitmap.  What the bytes    *)
(* are is abstracted; where the operations read and write them is in       *)
(* HostBitmapAccess.                                                       *)
(***************************************************************************)
EXTENDS BitmapLayout

CONSTANTS
  Handles,       \* the HostBitmap objects of the program
  Shapes,        \* <<width, height, depth>> the callers ask for
  Formats,       \* pixel formats the callers ask for
  MipArgs,       \* mip counts the callers ask for
  ArraySizes,    \* numbers of array elements the callers ask for
  Edges,         \* coordinates and margins the callers ask for
  Uint32Max,     \* the value 0 - 1 wraps to, scaled down
  AllocMayFail   \* whether an allocation may be refused

ASSUME HandlesAssumption  == Handles # {}
ASSUME ShapesAssumption   == Shapes \subseteq Nat \X Nat \X Nat
ASSUME FormatsAssumption  == Formats \subseteq PixelFormat
ASSUME CountsAssumption   ==
  MipArgs \subseteq Nat /\ ArraySizes \subseteq Nat /\ Edges \subseteq Nat
ASSUME WrapAssumption     == Uint32Max \in Nat \ {0}
ASSUME AllocAssumption    == AllocMayFail \in BOOLEAN

VARIABLES
  bitmap,        \* [Handles -> Bitmap]
  result         \* the last call: its name, its handle and what it returned

vars == <<bitmap, result>>

Operations ==
  {"None", "Destroy", "Create", "Create2DArray", "CreateCube", "CreateVolume",
   "CreateFromBitmapDimensions", "ChangeFormat", "ConvertFormat", "PopulateMargin",
   "CopyChannel", "Downsample2x2", "Crop", "RotateFaceClockwise",
   "ConvertCrossmapToCubemap", "ConvertToVolume", "GenerateMipMaps", "DropMipMaps",
   "MoveConstruct", "MoveAssign"}

-----------------------------------------------------------------------------
(* What every call does to the state                                       *)

Return(op, h, ok, b) ==
  /\ bitmap' = [bitmap EXCEPT ![h] = b]
  /\ result' = [op |-> op, handle |-> h, ok |-> ok]

(* A call that returns before it changed the bitmap.                       *)
Refuse(op, h) == Return(op, h, FALSE, bitmap[h])

(* CcpMallocBuffer::resize leaves n bytes, or none when memory is refused. *)
Resized(n) == IF AllocMayFail THEN {n, 0} ELSE {n}

(* Destroy forgets the type, the format and the buffer, not the sizes.     *)
Destroyed(b) ==
  [b EXCEPT !.type = "INVALID", !.format = PIXEL_FORMAT_UNKNOWN, !.data = 0]

Destroy(h) == Return("Destroy", h, TRUE, Destroyed(bitmap[h]))

-----------------------------------------------------------------------------
(* Creation                                                                *)

NotWholeBlocks(format, w, h) ==
  IsCompressedFormat(format) /\ (w % 4 # 0 \/ h % 4 # 0)

(* Mutant: the buffer is not looked at.                                    *)
CreateChecked_NoCheck(op, h, refused, b) ==
  \/ refused /\ Return(op, h, FALSE, Destroyed(bitmap[h]))
  \/ ~ refused /\ \E n \in Resized(GetDataSize(b)) :
       Return(op, h, TRUE, [b EXCEPT !.data = n])

(* Create and Create2DArray give up, with a destroyed bitmap, when the     *)
(* buffer cannot be had.                                                   *)
CreateChecked(op, h, refused, b) ==
  \/ refused /\ Return(op, h, FALSE, Destroyed(bitmap[h]))
  \/ ~ refused /\ \E n \in Resized(GetDataSize(b)) :
       \/ n # 0 /\ Return(op, h, TRUE, [b EXCEPT !.data = n])
       \/ n = 0 /\ Return(op, h, FALSE, Destroyed(b))

(* CreateCube and CreateVolume report success whatever resize did.         *)
CreateUnchecked(op, h, refused, b) ==
  \/ refused /\ Return(op, h, FALSE, Destroyed(bitmap[h]))
  \/ ~ refused /\ \E n \in Resized(GetDataSize(b)) :
       Return(op, h, TRUE, [b EXCEPT !.data = n])

Create(h, w, ht, mips, format) ==
  CreateChecked("Create", h,
    \/ w = 0 \/ ht = 0 \/ format >= PIXEL_FORMAT_SENTINEL
    \/ NotWholeBlocks(format, w, ht),
    Sized("2D", format, w, ht, 1, mips, 1))

Create2DArray(h, w, ht, mips, array, format) ==
  CreateChecked("Create2DArray", h,
    \/ w = 0 \/ ht = 0 \/ array = 0 \/ format >= PIXEL_FORMAT_SENTINEL
    \/ NotWholeBlocks(format, w, ht),
    Sized("2D", format, w, ht, 1, mips, array))

CreateCube(h, w, mips, format) ==
  CreateUnchecked("CreateCube", h,
    w = 0 \/ format >= PIXEL_FORMAT_SENTINEL \/ NotWholeBlocks(format, w, w),
    Sized("CUBE", format, w, w, 1, mips, 6))

CreateVolume(h, w, ht, d, mips, format) ==
  CreateUnchecked("CreateVolume", h,
    w = 0 \/ format >= PIXEL_FORMAT_SENTINEL \/ NotWholeBlocks(format, w, ht),
    Sized("3D", format, w, ht, d, mips, 1))

(* The old contents are not destroyed first, and the new dimensions stay   *)
(* when the buffer cannot be had.                                          *)
CreateFromBitmapDimensions(h, b) ==
  \/ /\ b.width = 0 \/ b.format = PIXEL_FORMAT_UNKNOWN
     /\ Refuse("CreateFromBitmapDimensions", h)
  \/ /\ b.width # 0 /\ b.format # PIXEL_FORMAT_UNKNOWN
     /\ \E n \in Resized(GetDataSize(b)) :
          Return("CreateFromBitmapDimensions", h, n # 0, [b EXCEPT !.data = n])

(* The dimensions the image readers build: one slice unless it is a        *)
(* volume, six square faces for a cube map.                                *)
ReadDimensions ==
  UNION {
    {Sized("2D", f, s[1], s[2], 1, m, a) : f \in Formats, s \in Shapes, m \in MipArgs, a \in ArraySizes},
    {Sized("3D", f, s[1], s[2], s[3], m, a) : f \in Formats, s \in Shapes, m \in MipArgs, a \in ArraySizes},
    {Sized("CUBE", f, s[1], s[1], 1, m, 6) : f \in Formats, s \in Shapes, m \in MipArgs}}

(* HostBitmap( HostBitmap&& ): the new object h takes the buffer, and both *)
(* have the dimensions of the other one.                                   *)
MoveConstruct(h, other) ==
  /\ h # other
  /\ bitmap' = [bitmap EXCEPT ![h] = bitmap[other], ![other] = [bitmap[other] EXCEPT !.data = 0]]
  /\ result' = [op |-> "MoveConstruct", handle |-> h, ok |-> TRUE]

(* Mutant: the dimensions stay behind.                                     *)
MoveAssign_BuffersOnly(h, other) ==
  /\ bitmap' = [bitmap EXCEPT ![h].data = bitmap[other].data, ![other].data = bitmap[h].data]
  /\ result' = [op |-> "MoveAssign", handle |-> h, ok |-> TRUE]

(* operator=( HostBitmap&& ) swaps dimensions and buffers.                 *)
MoveAssign(h, other) ==
  /\ bitmap' = [bitmap EXCEPT ![h] = bitmap[other], ![other] = bitmap[h]]
  /\ result' = [op |-> "MoveAssign", handle |-> h, ok |-> TRUE]

-----------------------------------------------------------------------------
(* Pixel formats                                                           *)

ChangeFormat(h, format) ==
  LET b == bitmap[h]
      refused == \/ ~ IsValid(b)
                 \/ IsCompressedFormat(format) \/ IsCompressed(b)
                 \/ GetBytesPerPixel(format) # GetBytesPerPixel(b.format)
  IN  \/ refused /\ Refuse("ChangeFormat", h)
      \/ ~ refused /\ Return("ChangeFormat", h, TRUE, [b EXCEPT !.format = format])

(* Transitions between formats of four bytes: the buffer keeps its size.   *)
InPlace ==
  LET bgr == {PIXEL_FORMAT_B8G8R8A8_UNORM, PIXEL_FORMAT_B8G8R8X8_UNORM}
      rgb == {PIXEL_FORMAT_R8G8B8A8_UNORM}
  IN  (bgr \X bgr) \union (bgr \X rgb) \union (rgb \X bgr)

(* The first byte of every four-byte pixel is kept.                        *)
Narrowing ==
  {PIXEL_FORMAT_B8G8R8A8_UNORM, PIXEL_FORMAT_B8G8R8X8_UNORM} \X {PIXEL_FORMAT_R8_UNORM}

(* Every pixel becomes four bytes.                                         *)
Widening ==
  {<<PIXEL_FORMAT_R8_UNORM, PIXEL_FORMAT_B8G8R8A8_UNORM>>,
   <<PIXEL_FORMAT_R8_UNORM, PIXEL_FORMAT_B8G8R8X8_UNORM>>,
   <<PIXEL_FORMAT_R8G8_UNORM, PIXEL_FORMAT_B8G8R8A8_UNORM>>}

(* Mutant: bytes counted as pixels.                                        *)
ConvertedSize_Bytes(b, format) ==
  CASE <<b.format, format>> \in InPlace   -> b.data
    [] <<b.format, format>> \in Narrowing -> b.data \div 4
    [] <<b.format, format>> \in Widening  -> b.data * 4

(* The size of the buffer after a transition.                              *)
ConvertedSize(b, format) ==
  LET pixelCount == b.data \div GetBytesPerPixel(b.format)
  IN  CASE <<b.format, format>> \in InPlace   -> b.data
        [] <<b.format, format>> \in Narrowing -> pixelCount
        [] <<b.format, format>> \in Widening  -> pixelCount * 4

(* Mutant: the new format is set before the memory is asked for.           *)
ConvertFormat_Early(h, format) ==
  LET b    == bitmap[h]
      step == <<b.format, format>>
      op   == "ConvertFormat"
  IN  \/ ~ IsValid(b) /\ Refuse(op, h)
      \/ /\ IsValid(b) /\ step \in InPlace
         /\ Return(op, h, TRUE, [b EXCEPT !.format = format])
      \/ /\ IsValid(b) /\ step \in Narrowing \union Widening
         /\ \/ AllocMayFail /\ Return(op, h, FALSE, [b EXCEPT !.format = format])
            \/ \E n \in Resized(ConvertedSize(b, format)) :
                 \/ n = 0 /\ Return(op, h, FALSE, Destroyed(b))
                 \/ n # 0 /\ Return(op, h, TRUE, [b EXCEPT !.data = n, !.format = format])

(* The copy of the old buffer may be refused before anything changed, the  *)
(* resize after it destroys the bitmap.                                    *)
ConvertFormat(h, format) ==
  LET b    == bitmap[h]
      step == <<b.format, format>>
      op   == "ConvertFormat"
  IN  \/ ~ IsValid(b) /\ Refuse(op, h)
      \/ IsValid(b) /\ format = b.format /\ Return(op, h, TRUE, b)
      \/ /\ IsValid(b) /\ format # b.format /\ step \in InPlace
         /\ Return(op, h, TRUE, [b EXCEPT !.format = format])
      \/ /\ IsValid(b) /\ step \in Narrowing \union Widening
         /\ \/ AllocMayFail /\ Refuse(op, h)
            \/ \E n \in Resized(ConvertedSize(b, format)) :
                 \/ n = 0 /\ Return(op, h, FALSE, Destroyed(b))
                 \/ n # 0 /\ Return(op, h, TRUE, [b EXCEPT !.data = n, !.format = format])
      \/ /\ IsValid(b) /\ format # b.format /\ step \notin InPlace \union Narrowing \union Widening
         /\ Refuse(op, h)

(* Same type, array, mip count and sides; the depth is not compared.       *)
ChannelsMatch(d, s, srcChannel, dstChannel) ==
  /\ IsValid(d) /\ ~ IsCompressed(d) /\ IsValid(s) /\ ~ IsCompressed(s)
  /\ d.type = s.type /\ d.arraySize = s.arraySize /\ d.mipCount = s.mipCount
  /\ d.width = s.width /\ d.height = s.height
  /\ dstChannel < GetBytesPerPixel(d.format)
  /\ srcChannel < GetBytesPerPixel(s.format)

CopyChannel(h, source, srcChannel, dstChannel) ==
  Return("CopyChannel", h, ChannelsMatch(bitmap[h], bitmap[source], srcChannel, dstChannel), bitmap[h])

-----------------------------------------------------------------------------
(* Geometry                                                                *)

CanPopulateMargin(b, margin) ==
  /\ IsValid(b) /\ ~ IsCompressed(b) /\ b.mipCount = 1
  /\ 2 * margin < b.width /\ 2 * margin < b.height
  /\ b.type = "2D" /\ b.arraySize <= 1

PopulateMargin(h, margin) ==
  Return("PopulateMargin", h, CanPopulateMargin(bitmap[h], margin), bitmap[h])

(* Mutant: the dimensions of a bitmap without a buffer will do.            *)
CanDownsample_NoBuffer(b) ==
  /\ b.width % 2 = 0 /\ b.height % 2 = 0
  /\ b.type \in {"2D", "CUBE"} /\ b.format \in EightBitFormats

CanDownsample(b) ==
  /\ IsValid(b) /\ b.width % 2 = 0 /\ b.height % 2 = 0
  /\ b.type \in {"2D", "CUBE"} /\ b.format \in EightBitFormats

(* std::max( m_mipCount - 1, 1u ), unsigned: a full chain given as zero    *)
(* wraps to the largest count.                                             *)
DownsampledMipCount(b) ==
  IF b.mipCount = 0 THEN Uint32Max ELSE Larger(b.mipCount - 1, 1)

Downsampled(b) ==
  [b EXCEPT !.mipCount = DownsampledMipCount(b), !.width = b.width \div 2, !.height = b.height \div 2]

Downsample2x2(h) ==
  LET b == bitmap[h]
      s == Downsampled(b)
  IN  \/ ~ CanDownsample(b) /\ Refuse("Downsample2x2", h)
      \/ /\ CanDownsample(b)
         /\ \E n \in Resized(FlatChainSize(s, s.mipCount) * s.arraySize) :
              \/ n = 0 /\ Return("Downsample2x2", h, FALSE, Destroyed(s))
              \/ n # 0 /\ Return("Downsample2x2", h, TRUE, [s EXCEPT !.data = n])

CanCrop(b) ==
  IsValid(b) /\ b.mipCount = 1 /\ b.type = "2D" /\ b.arraySize <= 1 /\ ~ IsCompressed(b)

(* The coordinates are clipped first; an empty rectangle destroys the      *)
(* bitmap and is a success.  The last resize is not checked.               *)
Crop(h, left, top, right, bottom) ==
  LET b == bitmap[h]
      l == Smaller(left, b.width)
      r == Smaller(right, b.width)
      t == Smaller(top, b.height)
      u == Smaller(bottom, b.height)
  IN  \/ ~ CanCrop(b) /\ Refuse("Crop", h)
      \/ CanCrop(b) /\ (l >= r \/ t >= u) /\ Return("Crop", h, TRUE, Destroyed(b))
      \/ /\ CanCrop(b) /\ l < r /\ t < u
         /\ \E n \in Resized((r - l) * (u - t) * GetBytesPerPixel(b.format)) :
              Return("Crop", h, TRUE, [b EXCEPT !.width = r - l, !.height = u - t, !.data = n])

(* Mutant: any rectangle is turned.                                        *)
CanRotateFace_AnyShape(b, face) ==
  /\ IsValid(b) /\ b.type \in {"2D", "CUBE"} /\ b.mipCount <= 1
  /\ face < b.arraySize /\ ~ IsCompressed(b)

CanRotateFace(b, face) ==
  /\ IsValid(b) /\ b.type \in {"2D", "CUBE"} /\ b.mipCount <= 1
  /\ face < b.arraySize /\ b.width = b.height /\ ~ IsCompressed(b)

(* A multiple of four quarter turns needs no second buffer.                *)
RotateFaceClockwise(h, face, times) ==
  LET b == bitmap[h]
  IN  \/ ~ CanRotateFace(b, face) /\ Refuse("RotateFaceClockwise", h)
      \/ CanRotateFace(b, face) /\ Return("RotateFaceClockwise", h, TRUE, b)
      \/ CanRotateFace(b, face) /\ times % 4 # 0 /\ AllocMayFail /\ Refuse("RotateFaceClockwise", h)

(* Three faces wide and four faces high.                                   *)
IsCrossmap(b) ==
  /\ IsValid(b) /\ b.type = "2D" /\ b.arraySize <= 1 /\ b.mipCount = 1
  /\ b.width % 3 = 0 /\ b.height % 4 = 0 /\ b.width \div 3 = b.height \div 4
  /\ ~ IsCompressed(b)

(* The turn of the last face may be refused its buffer without a word.     *)
ConvertCrossmapToCubemap(h) ==
  LET b    == bitmap[h]
      side == b.width \div 3
      cube == [b EXCEPT !.type = "CUBE", !.width = side, !.height = side, !.arraySize = 6,
                        !.data = side * GetBytesPerPixel(b.format) * side * 6]
  IN  \/ ~ IsCrossmap(b) /\ Refuse("ConvertCrossmapToCubemap", h)
      \/ IsCrossmap(b) /\ AllocMayFail /\ Refuse("ConvertCrossmapToCubemap", h)
      \/ IsCrossmap(b) /\ Return("ConvertCrossmapToCubemap", h, TRUE, cube)

CanConvertToVolume(b) ==
  /\ IsValid(b) /\ b.type = "2D" /\ b.arraySize <= 1
  /\ b.height * b.height >= b.width
  /\ IsCompressed(b) => b.height % 4 = 0

(* (unsigned)sqrtf( width )                                                *)
CubeSize(b) == CHOOSE c \in 0 .. b.width : c * c <= b.width /\ b.width < (c + 1) * (c + 1)

RowPitch(b) == (GetPitch(b) \div b.width) * CubeSize(b)

ConvertToVolume(h) ==
  LET b      == bitmap[h]
      c      == CubeSize(b)
      volume == [b EXCEPT !.type = "3D", !.mipCount = 1, !.width = c, !.height = c,
                          !.volumeDepth = c, !.data = RowPitch(b) * c * c]
  IN  \/ ~ CanConvertToVolume(b) /\ Refuse("ConvertToVolume", h)
      \/ CanConvertToVolume(b) /\ (AllocMayFail \/ volume.data = 0) /\ Refuse("ConvertToVolume", h)
      \/ CanConvertToVolume(b) /\ volume.data # 0 /\ Return("ConvertToVolume", h, TRUE, volume)

-----------------------------------------------------------------------------
(* Mip maps                                                                *)

CanGenerateMipMaps(b) ==
  b.type \in {"2D", "CUBE"} /\ b.mipCount <= 1 /\ b.format \in EightBitFormats

(* The number of levels asked for, zero for all of them.                   *)
LevelsToGenerate(b, levels) ==
  IF levels = 0 THEN GetTrueMipCount([b EXCEPT !.mipCount = 0]) ELSE levels

(* The mip count is already zero when too many levels are refused and when *)
(* the buffer cannot be had.  That the bitmap is valid is never asked.     *)
GenerateMipMaps(h, levels) ==
  LET b     == bitmap[h]
      reset == [b EXCEPT !.mipCount = 0]
      n     == LevelsToGenerate(b, levels)
      op    == "GenerateMipMaps"
  IN  \/ ~ CanGenerateMipMaps(b) /\ Refuse(op, h)
      \/ /\ CanGenerateMipMaps(b) /\ n > GetTrueMipCount(reset)
         /\ Return(op, h, FALSE, reset)
      \/ /\ CanGenerateMipMaps(b) /\ n <= GetTrueMipCount(reset)
         /\ \E size \in Resized(FlatChainSize(b, n) * b.arraySize) :
              \/ size = 0 /\ Return(op, h, FALSE, [reset EXCEPT !.data = 0])
              \/ size # 0 /\ Return(op, h, TRUE, [b EXCEPT !.mipCount = n, !.data = size])

(* Without a second level its address is null, and the difference of the   *)
(* two addresses is a size no buffer has: resize leaves nothing.  (The     *)
(* copies such a size makes for the further elements of an array are       *)
(* undefined.)                                                             *)
DropMipMaps(h) ==
  LET b      == bitmap[h]
      second == GetMipRawData(b, 1, 0)
      op     == "DropMipMaps"
  IN  \/ ~ IsValid(b) /\ Refuse(op, h)
      \/ IsValid(b) /\ b.mipCount = 1 /\ Return(op, h, TRUE, b)
      \/ /\ IsValid(b) /\ b.mipCount # 1
         /\ \E n \in IF second = NullPointer THEN {0} ELSE Resized(second * b.arraySize) :
              Return(op, h, TRUE, [b EXCEPT !.mipCount = 1, !.data = n])

-----------------------------------------------------------------------------
(* The program: any call on any handle                                     *)

Init ==
  /\ bitmap = [h \in Handles |->
                 Sized("INVALID", PIXEL_FORMAT_UNKNOWN, 0, 0, 0, 0, 1)]
  /\ result = [op |-> "None", handle |-> CHOOSE h \in Handles : TRUE, ok |-> TRUE]

CreateAny(h) ==
  \/ \E s \in Shapes, m \in MipArgs, f \in Formats :
       \/ Create(h, s[1], s[2], m, f)
       \/ \E a \in ArraySizes : Create2DArray(h, s[1], s[2], m, a, f)
       \/ CreateCube(h, s[1], m, f)
       \/ CreateVolume(h, s[1], s[2], s[3], m, f)
  \/ \E b \in ReadDimensions : CreateFromBitmapDimensions(h, b)

ConvertAny(h) ==
  \/ \E f \in Formats : ChangeFormat(h, f) \/ ConvertFormat(h, f)
  \/ \E source \in Handles, i, j \in 0 .. 3 : CopyChannel(h, source, i, j)

ReshapeAny(h) ==
  \/ \E margin \in Edges : PopulateMargin(h, margin)
  \/ \E l, t, r, u \in Edges : Crop(h, l, t, r, u)
  \/ \E face \in 0 .. 5, times \in 0 .. 4 : RotateFaceClockwise(h, face, times)
  \/ Downsample2x2(h)
  \/ ConvertCrossmapToCubemap(h)
  \/ ConvertToVolume(h)

MipMapAny(h) ==
  \/ \E levels \in MipArgs : GenerateMipMaps(h, levels)
  \/ DropMipMaps(h)

MoveAny(h) ==
  \E other \in Handles : MoveConstruct(h, other) \/ MoveAssign(h, other)

Next ==
  \E h \in Handles :
    \/ Destroy(h)
    \/ CreateAny(h)
    \/ ConvertAny(h)
    \/ ReshapeAny(h)
    \/ MipMapAny(h)
    \/ MoveAny(h)

Spec == Init /\ [][Next]_vars
=============================================================================
