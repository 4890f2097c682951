------------------------- MODULE HostBitmap_proofs -------------------------
(***************************************************************************)
(* Whatever sequence of calls a program makes on its bitmaps, and whatever *)
(* allocation is refused, their buffers match their dimensions.  The first *)
(* theorems rest on the inductive invariant IInv of HostBitmapAccess; each *)
(* call keeps it by a lemma of its own.                                    *)
(*                                                                         *)
(* Then what a single call may do to the bitmap it is given, whatever the  *)
(* caller did before: the action properties of HostBitmapAccess.  Each     *)
(* call is shown to be a Return of a bitmap that is a fair answer to the   *)
(* old one.  That conversions keep the pixels needs more than IInv, which  *)
(* asks nothing of a bitmap without height or depth: the bytes of an       *)
(* uncompressed bitmap are always a number of whole pixels.                *)
(*                                                                         *)
(* At last where in the buffer the levels lie: they tile it.  And where    *)
(* the loops over rows, faces, slices, levels and elements read and write: *)
(* inside the buffer, and never over what they still have to read.         *)
(***************************************************************************)
EXTENDS HostBitmapAccess, BitmapLayout_proofs

(* The integer square root exists.                                       *)
LEMMA CubeSizeFits ==
  ASSUME NEW b \in Bitmap, b.width >= 1
  PROVE  CubeSize(b) \in 1 .. b.width /\ CubeSize(b) * CubeSize(b) <= b.width
<1> DEFINE w == b.width
           Z == {n \in Nat : w < (n + 1) * (n + 1)}
<1>1. w \in Nat /\ w >= 1
  BY DEF Bitmap
<1> HIDE DEF w
<1>2. w \in Z
  <2>1. (w + 1) * (w + 1) = w * w + w + w + 1 /\ w * w \in Nat
    BY <1>1
  <2> QED BY <1>1, <2>1
<1>3. PICK n \in Z : \A k \in Z : n <= k
  BY <1>2, LeastElement
<1>4. n \in 0 .. w /\ w < (n + 1) * (n + 1)
  BY <1>1, <1>2, <1>3
<1>5. n * n <= w
  <2>1. CASE n = 0
    BY <2>1, <1>1
  <2>2. CASE n # 0
    <3>1. n - 1 \in Nat /\ ~ (w < ((n - 1) + 1) * ((n - 1) + 1))
      BY <2>2, <1>3, <1>4
    <3>2. (n - 1) + 1 = n /\ n * n \in Nat
      BY <1>4
    <3> QED BY <3>1, <3>2, <1>1
  <2> QED BY <2>1, <2>2
<1>6. PICK c \in 0 .. w : c = CubeSize(b) /\ c * c <= w /\ w < (c + 1) * (c + 1)
  BY <1>4, <1>5 DEF CubeSize, w
<1>7. c # 0
  BY <1>1, <1>6
<1> QED BY <1>1, <1>6, <1>7 DEF w

(* A row of the volume ConvertToVolume makes.                            *)
LEMMA RowPitchFits ==
  ASSUME NEW b \in Bitmap, IsValid(b), b.width >= 1
  PROVE  RowPitch(b) = (IF IsCompressed(b) THEN GetBlockByteSize(b.format) \div 4 ELSE Bpp(b)) * CubeSize(b)
<1>1. b.width \in Nat \ {0} /\ Bpp(b) \in Nat
  BY FormatFacts DEF Bitmap, Bpp
<1>2. CASE IsCompressed(b)
  <2>1. GetBlockByteSize(b.format) \in {8, 16}
    BY <1>2, FormatFacts DEF Bitmap, IsCompressed
  <2>2. GetPitch(b) = b.width * (GetBlockByteSize(b.format) \div 4)
    BY <1>1, <1>2, <2>1 DEF GetPitch
  <2>3. GetBlockByteSize(b.format) \div 4 \in Nat
    BY <2>1
  <2>4. GetPitch(b) \div b.width = GetBlockByteSize(b.format) \div 4
    BY <1>1, <2>2, <2>3, DivideOut
  <2> QED BY <1>2, <2>4 DEF RowPitch
<1>3. CASE ~ IsCompressed(b)
  <2>1. GetPitch(b) = b.width * Bpp(b)
    BY <1>3 DEF GetPitch, Bpp
  <2>2. GetPitch(b) \div b.width = Bpp(b)
    BY <1>1, <2>1, DivideOut
  <2> QED BY <1>3, <2>2 DEF RowPitch
<1> QED BY <1>2, <1>3

-----------------------------------------------------------------------------
(* The inductive invariant                                                 *)

(* A call that leaves a sound bitmap keeps the invariant.                  *)
LEMMA ReturnKeepsIInv ==
  ASSUME IInv, NEW h \in Handles, NEW op \in Operations, NEW ok \in BOOLEAN,
         NEW b \in Bitmap, Sound(b), Return(op, h, ok, b)
  PROVE  IInv'
<1>1. bitmap' = [bitmap EXCEPT ![h] = b] /\ bitmap \in [Handles -> Bitmap]
  BY DEF Return, IInv, TypeOK
<1>2. bitmap' \in [Handles -> Bitmap]
  BY <1>1
<1>3. result' \in [op : Operations, handle : Handles, ok : BOOLEAN]
  BY DEF Return
<1>4. ASSUME NEW g \in Handles PROVE Sound(bitmap'[g])
  BY <1>1 DEF IInv
<1> QED BY <1>2, <1>3, <1>4 DEF IInv, TypeOK

(* So does a call that is turned away.                                     *)
LEMMA RefuseKeepsIInv ==
  ASSUME IInv, NEW h \in Handles, NEW op \in Operations, Refuse(op, h)
  PROVE  IInv'
<1>1. bitmap[h] \in Bitmap /\ Sound(bitmap[h])
  BY DEF IInv, TypeOK
<1>2. Return(op, h, FALSE, bitmap[h])
  BY DEF Refuse
<1> QED BY <1>1, <1>2, ReturnKeepsIInv

(* A destroyed bitmap has no type, and nothing is asked of it.             *)
LEMMA DestroyedIsSound ==
  ASSUME NEW b \in Bitmap
  PROVE  Destroyed(b) \in Bitmap /\ Sound(Destroyed(b))
<1>1. "INVALID" \in TextureType /\ PIXEL_FORMAT_UNKNOWN \in PixelFormat
  BY DEF TextureType, PixelFormat, PIXEL_FORMAT_UNKNOWN, PIXEL_FORMAT_SENTINEL
<1>2. Destroyed(b) \in Bitmap /\ Destroyed(b).type = "INVALID" /\ Destroyed(b).data = 0
  BY <1>1 DEF Destroyed, Bitmap
<1> QED BY <1>2 DEF Sound, IsValid

(* A new buffer of the size that the dimensions call for, or none.         *)
LEMMA ResizedIsSound ==
  ASSUME NEW b \in Bitmap, b.type # "INVALID", b.width >= 1,
         b.type # "3D" => b.volumeDepth = 1, NEW n \in Resized(GetDataSize(b))
  PROVE  [b EXCEPT !.data = n] \in Bitmap /\ Sound([b EXCEPT !.data = n])
<1> DEFINE c == [b EXCEPT !.data = n]
<1>1. n \in Nat /\ (n = 0 \/ n = GetDataSize(b))
  BY DataSizeType DEF Resized
<1>2. c \in Bitmap /\ c.data = n /\ c.type = b.type /\ c.width = b.width
        /\ c.volumeDepth = b.volumeDepth /\ c.arraySize = b.arraySize
  BY <1>1 DEF Bitmap
<1>3. n # 0 => Exact(c)
  BY <1>1, <1>2, DataSizeIgnoresData DEF Exact
<1>4. n # 0 => c.arraySize >= 1
  <2> SUFFICES ASSUME n # 0, b.arraySize = 0 PROVE FALSE
    BY <1>2 DEF Bitmap
  <2> DEFINE t == Total([i \in Nat |-> LevelBytes(b, i)], GetTrueMipCount(b))
  <2>1. GetDataSize(b) = t * 0
    BY DEF GetDataSize
  <2>2. t \in Nat
    <3>1. [i \in Nat |-> LevelBytes(b, i)] \in [Nat -> Nat]
      BY LevelBytesType
    <3> QED BY <3>1, TotalUnfolds, MipCountType
  <2> HIDE DEF t
  <2> QED BY <1>1, <2>1, <2>2
<1> HIDE DEF c
<1>5. Sound(c)
  BY <1>2, <1>3, <1>4 DEF Sound, IsValid
<1> QED BY <1>2, <1>5 DEF c

-----------------------------------------------------------------------------
(* Creation and moves                                                      *)

(* The dimensions a caller asks for, without a buffer.                     *)
LEMMA SizedType ==
  ASSUME NEW type \in TextureType, NEW f \in PixelFormat, NEW w \in Nat, NEW ht \in Nat,
         NEW d \in Nat, NEW m \in Nat, NEW a \in Nat
  PROVE  Sized(type, f, w, ht, d, m, a) \in Bitmap
BY DEF Sized, Bitmap

LEMMA CreateCheckedKeepsIInv ==
  ASSUME IInv, NEW h \in Handles, NEW op \in Operations, NEW refused \in BOOLEAN, NEW b \in Bitmap,
         ~ refused => b.type # "INVALID" /\ b.width >= 1 /\ (b.type # "3D" => b.volumeDepth = 1),
         CreateChecked(op, h, refused, b)
  PROVE  IInv'
<1>1. bitmap[h] \in Bitmap
  BY DEF IInv, TypeOK
<1>2. CASE refused
  <2>1. Return(op, h, FALSE, Destroyed(bitmap[h]))
    BY <1>2 DEF CreateChecked
  <2> QED BY <1>1, <2>1, DestroyedIsSound, ReturnKeepsIInv
<1>3. CASE ~ refused
  <2>1. PICK n \in Resized(GetDataSize(b)) :
          \/ n # 0 /\ Return(op, h, TRUE, [b EXCEPT !.data = n])
          \/ n = 0 /\ Return(op, h, FALSE, Destroyed(b))
    BY <1>3 DEF CreateChecked
  <2>2. [b EXCEPT !.data = n] \in Bitmap /\ Sound([b EXCEPT !.data = n])
    BY <1>3, ResizedIsSound
  <2>3. Destroyed(b) \in Bitmap /\ Sound(Destroyed(b))
    BY DestroyedIsSound
  <2> QED BY <2>1, <2>2, <2>3, ReturnKeepsIInv
<1> QED BY <1>2, <1>3

LEMMA CreateUncheckedKeepsIInv ==
  ASSUME IInv, NEW h \in Handles, NEW op \in Operations, NEW refused \in BOOLEAN, NEW b \in Bitmap,
         ~ refused => b.type # "INVALID" /\ b.width >= 1 /\ (b.type # "3D" => b.volumeDepth = 1),
         CreateUnchecked(op, h, refused, b)
  PROVE  IInv'
<1>1. bitmap[h] \in Bitmap
  BY DEF IInv, TypeOK
<1>2. CASE refused
  <2>1. Return(op, h, FALSE, Destroyed(bitmap[h]))
    BY <1>2 DEF CreateUnchecked
  <2> QED BY <1>1, <2>1, DestroyedIsSound, ReturnKeepsIInv
<1>3. CASE ~ refused
  <2>1. PICK n \in Resized(GetDataSize(b)) : Return(op, h, TRUE, [b EXCEPT !.data = n])
    BY <1>3 DEF CreateUnchecked
  <2>2. [b EXCEPT !.data = n] \in Bitmap /\ Sound([b EXCEPT !.data = n])
    BY <1>3, ResizedIsSound
  <2> QED BY <2>1, <2>2, ReturnKeepsIInv
<1> QED BY <1>2, <1>3

LEMMA CreateKeepsIInv ==
  ASSUME IInv, NEW h \in Handles, CreateAny(h)
  PROVE  IInv'
<1> USE ShapesAssumption, FormatsAssumption, CountsAssumption
<1>1. {"2D", "3D", "CUBE"} \subseteq TextureType /\ 1 \in Nat /\ 6 \in Nat
  BY DEF TextureType
<1>2. ASSUME NEW s \in Shapes, NEW m \in MipArgs, NEW f \in Formats, Create(h, s[1], s[2], m, f)
      PROVE  IInv'
  <2> DEFINE b == Sized("2D", f, s[1], s[2], 1, m, 1)
             refused == s[1] = 0 \/ s[2] = 0 \/ f >= PIXEL_FORMAT_SENTINEL \/ NotWholeBlocks(f, s[1], s[2])
  <2>1. b \in Bitmap /\ refused \in BOOLEAN
    BY <1>1, SizedType
  <2>2. b.type = "2D" /\ b.width = s[1] /\ b.volumeDepth = 1
    BY DEF Sized
  <2>3. CreateChecked("Create", h, refused, b)
    BY <1>2 DEF Create
  <2>4. ~ refused => s[1] >= 1
    OBVIOUS
  <2> HIDE DEF b, refused
  <2> QED BY <2>1, <2>2, <2>3, <2>4, CreateCheckedKeepsIInv DEF Operations
<1>3. ASSUME NEW s \in Shapes, NEW m \in MipArgs, NEW f \in Formats, NEW a \in ArraySizes,
             Create2DArray(h, s[1], s[2], m, a, f)
      PROVE  IInv'
  <2> DEFINE b == Sized("2D", f, s[1], s[2], 1, m, a)
             refused == \/ s[1] = 0 \/ s[2] = 0 \/ a = 0 \/ f >= PIXEL_FORMAT_SENTINEL
                        \/ NotWholeBlocks(f, s[1], s[2])
  <2>1. b \in Bitmap /\ refused \in BOOLEAN
    BY <1>1, SizedType
  <2>2. b.type = "2D" /\ b.width = s[1] /\ b.volumeDepth = 1
    BY DEF Sized
  <2>3. CreateChecked("Create2DArray", h, refused, b)
    BY <1>3 DEF Create2DArray
  <2>4. ~ refused => s[1] >= 1
    OBVIOUS
  <2> HIDE DEF b, refused
  <2> QED BY <2>1, <2>2, <2>3, <2>4, CreateCheckedKeepsIInv DEF Operations
<1>4. ASSUME NEW s \in Shapes, NEW m \in MipArgs, NEW f \in Formats, CreateCube(h, s[1], m, f)
      PROVE  IInv'
  <2> DEFINE b == Sized("CUBE", f, s[1], s[1], 1, m, 6)
             refused == s[1] = 0 \/ f >= PIXEL_FORMAT_SENTINEL \/ NotWholeBlocks(f, s[1], s[1])
  <2>1. b \in Bitmap /\ refused \in BOOLEAN
    BY <1>1, SizedType
  <2>2. b.type = "CUBE" /\ b.width = s[1] /\ b.volumeDepth = 1
    BY DEF Sized
  <2>3. CreateUnchecked("CreateCube", h, refused, b)
    BY <1>4 DEF CreateCube
  <2>4. ~ refused => s[1] >= 1
    OBVIOUS
  <2> HIDE DEF b, refused
  <2> QED BY <2>1, <2>2, <2>3, <2>4, CreateUncheckedKeepsIInv DEF Operations
<1>5. ASSUME NEW s \in Shapes, NEW m \in MipArgs, NEW f \in Formats, CreateVolume(h, s[1], s[2], s[3], m, f)
      PROVE  IInv'
  <2> DEFINE b == Sized("3D", f, s[1], s[2], s[3], m, 1)
             refused == s[1] = 0 \/ f >= PIXEL_FORMAT_SENTINEL \/ NotWholeBlocks(f, s[1], s[2])
  <2>1. b \in Bitmap /\ refused \in BOOLEAN
    BY <1>1, SizedType
  <2>2. b.type = "3D" /\ b.width = s[1]
    BY DEF Sized
  <2>3. CreateUnchecked("CreateVolume", h, refused, b)
    BY <1>5 DEF CreateVolume
  <2>4. ~ refused => s[1] >= 1
    OBVIOUS
  <2> HIDE DEF b, refused
  <2> QED BY <2>1, <2>2, <2>3, <2>4, CreateUncheckedKeepsIInv DEF Operations
<1>6. ASSUME NEW b \in ReadDimensions, CreateFromBitmapDimensions(h, b)
      PROVE  IInv'
  <2>1. b \in Bitmap /\ b.type # "INVALID" /\ (b.type # "3D" => b.volumeDepth = 1)
    <3>1. CASE \E f \in Formats, s \in Shapes, m \in MipArgs, a \in ArraySizes :
                 b = Sized("2D", f, s[1], s[2], 1, m, a)
      BY <1>1, <3>1 DEF Sized, Bitmap
    <3>2. CASE \E f \in Formats, s \in Shapes, m \in MipArgs, a \in ArraySizes :
                 b = Sized("3D", f, s[1], s[2], s[3], m, a)
      BY <1>1, <3>2 DEF Sized, Bitmap
    <3>3. CASE \E f \in Formats, s \in Shapes, m \in MipArgs : b = Sized("CUBE", f, s[1], s[1], 1, m, 6)
      BY <1>1, <3>3 DEF Sized, Bitmap
    <3> QED BY <3>1, <3>2, <3>3 DEF ReadDimensions
  <2>2. CASE b.width = 0 \/ b.format = PIXEL_FORMAT_UNKNOWN
    <3>1. Refuse("CreateFromBitmapDimensions", h)
      BY <1>6, <2>2 DEF CreateFromBitmapDimensions
    <3> QED BY <3>1, RefuseKeepsIInv DEF Operations
  <2>3. CASE b.width # 0 /\ b.format # PIXEL_FORMAT_UNKNOWN
    <3>1. PICK n \in Resized(GetDataSize(b)) :
            Return("CreateFromBitmapDimensions", h, n # 0, [b EXCEPT !.data = n])
      BY <1>6, <2>3 DEF CreateFromBitmapDimensions
    <3>2. b.width >= 1
      BY <2>1, <2>3 DEF Bitmap
    <3>3. [b EXCEPT !.data = n] \in Bitmap /\ Sound([b EXCEPT !.data = n])
      BY <2>1, <3>2, ResizedIsSound
    <3> QED BY <3>1, <3>3, ReturnKeepsIInv DEF Operations
  <2> QED BY <2>2, <2>3
<1> QED BY <1>2, <1>3, <1>4, <1>5, <1>6 DEF CreateAny

(* A move hands over the dimensions with the buffer.                       *)
LEMMA MoveKeepsIInv ==
  ASSUME IInv, NEW h \in Handles, MoveAny(h)
  PROVE  IInv'
<1>1. PICK other \in Handles : MoveConstruct(h, other) \/ MoveAssign(h, other)
  BY DEF MoveAny
<1>2. bitmap \in [Handles -> Bitmap] /\ Sound(bitmap[h]) /\ Sound(bitmap[other])
        /\ bitmap[h] \in Bitmap /\ bitmap[other] \in Bitmap
  BY DEF IInv, TypeOK
<1>3. result' \in [op : Operations, handle : Handles, ok : BOOLEAN]
  <2>1. "MoveConstruct" \in Operations /\ "MoveAssign" \in Operations
    BY DEF Operations
  <2>2. CASE MoveConstruct(h, other)
    <3>1. result' = [op |-> "MoveConstruct", handle |-> h, ok |-> TRUE]
      BY <2>2 DEF MoveConstruct
    <3> QED BY <2>1, <3>1
  <2>3. CASE MoveAssign(h, other)
    <3>1. result' = [op |-> "MoveAssign", handle |-> h, ok |-> TRUE]
      BY <2>3 DEF MoveAssign
    <3> QED BY <2>1, <3>1
  <2> QED BY <1>1, <2>2, <2>3
<1>4. CASE MoveConstruct(h, other)
  <2> DEFINE left == [bitmap[other] EXCEPT !.data = 0]
  <2>1. left \in Bitmap /\ left.data = 0 /\ left.type = bitmap[other].type
          /\ left.width = bitmap[other].width /\ left.volumeDepth = bitmap[other].volumeDepth
    BY <1>2 DEF Bitmap
  <2>2. bitmap' = [bitmap EXCEPT ![h] = bitmap[other], ![other] = left]
    BY <1>4 DEF MoveConstruct
  <2> HIDE DEF left
  <2>3. Sound(left)
    BY <1>2, <2>1 DEF Sound, IsValid
  <2>4. bitmap' \in [Handles -> Bitmap] /\ \A g \in Handles : Sound(bitmap'[g])
    BY <1>2, <2>1, <2>2, <2>3 DEF IInv
  <2> QED BY <1>3, <2>4 DEF IInv, TypeOK
<1>5. CASE MoveAssign(h, other)
  <2>1. bitmap' = [bitmap EXCEPT ![h] = bitmap[other], ![other] = bitmap[h]]
    BY <1>5 DEF MoveAssign
  <2>2. bitmap' \in [Handles -> Bitmap] /\ \A g \in Handles : Sound(bitmap'[g])
    BY <1>2, <2>1 DEF IInv
  <2> QED BY <1>3, <2>2 DEF IInv, TypeOK
<1> QED BY <1>1, <1>4, <1>5

-----------------------------------------------------------------------------
(* Pixel formats                                                           *)

(* The formats of the transitions, and their bytes.                        *)
LEMMA TransitionFacts ==
  ASSUME NEW f, NEW g
  PROVE  /\ <<f, g>> \in InPlace \union Narrowing \union Widening =>
              f \in PixelFormat /\ g \in PixelFormat /\ ~ IsCompressedFormat(f) /\ ~ IsCompressedFormat(g)
         /\ <<f, g>> \in InPlace => GetBytesPerPixel(f) = 4 /\ GetBytesPerPixel(g) = 4
         /\ <<f, g>> \in Narrowing => GetBytesPerPixel(f) = 4 /\ GetBytesPerPixel(g) = 1
         /\ <<f, g>> \in Widening => GetBytesPerPixel(f) \in {1, 2} /\ GetBytesPerPixel(g) = 4
         /\ <<f, g>> \in Narrowing => <<f, g>> \notin InPlace
         /\ <<f, g>> \in Widening => <<f, g>> \notin InPlace \union Narrowing
<1> DEFINE P == {28, 49, 61, 87, 88}
<1>1. <<f, g>> \in InPlace \union Narrowing \union Widening => f \in P /\ g \in P
  BY DEF InPlace, Narrowing, Widening, PIXEL_FORMAT_R8G8B8A8_UNORM, PIXEL_FORMAT_R8G8_UNORM,
     PIXEL_FORMAT_R8_UNORM, PIXEL_FORMAT_B8G8R8A8_UNORM, PIXEL_FORMAT_B8G8R8X8_UNORM
<1>2. \A p \in P : p \in PixelFormat /\ ~ IsCompressedFormat(p)
  BY DEF PixelFormat, PIXEL_FORMAT_SENTINEL, IsCompressedFormat, IsDds10Format
<1>3. /\ GetBytesPerPixel(28) = 4 /\ GetBytesPerPixel(49) = 2 /\ GetBytesPerPixel(61) = 1
      /\ GetBytesPerPixel(87) = 4 /\ GetBytesPerPixel(88) = 4
  BY DEF GetBytesPerPixel
<1>4. <<f, g>> \in InPlace => f \in {28, 87, 88} /\ g \in {28, 87, 88}
  BY DEF InPlace, PIXEL_FORMAT_R8G8B8A8_UNORM, PIXEL_FORMAT_B8G8R8A8_UNORM, PIXEL_FORMAT_B8G8R8X8_UNORM
<1>5. <<f, g>> \in Narrowing => f \in {87, 88} /\ g = 61
  BY DEF Narrowing, PIXEL_FORMAT_R8_UNORM, PIXEL_FORMAT_B8G8R8A8_UNORM, PIXEL_FORMAT_B8G8R8X8_UNORM
<1>6. <<f, g>> \in Widening => f \in {49, 61} /\ g \in {87, 88}
  BY DEF Widening, PIXEL_FORMAT_R8G8_UNORM, PIXEL_FORMAT_R8_UNORM, PIXEL_FORMAT_B8G8R8A8_UNORM,
     PIXEL_FORMAT_B8G8R8X8_UNORM
<1> QED BY <1>1, <1>2, <1>3, <1>4, <1>5, <1>6

(* The pixels a buffer really holds: those of the chain, or of its top     *)
(* level when the chain was given up.                                      *)
LEMMA BufferIsWholePixels ==
  ASSUME NEW b \in Bitmap, Sound(b), IsValid(b), ~ Degenerate(b), ~ IsCompressed(b)
  PROVE  \E k \in Nat :
           /\ b.data = k * Bpp(b)
           /\ \A f \in PixelFormat, n \in Nat :
                /\ ~ IsCompressedFormat(f)
                /\ n = k * GetBytesPerPixel(f)
                => LET c == [b EXCEPT !.data = n, !.format = f] IN Exact(c) \/ Truncated(c)
<1>1. CASE Exact(b)
  <2>1. Pixels(b) \in Nat /\ b.data = Pixels(b) * Bpp(b)
    BY <1>1, PixelsTimesBytes DEF Exact
  <2>2. ASSUME NEW f \in PixelFormat, NEW n \in Nat, ~ IsCompressedFormat(f),
               n = Pixels(b) * GetBytesPerPixel(f)
        PROVE  Exact([b EXCEPT !.data = n, !.format = f])
    <3> DEFINE c == [b EXCEPT !.data = n, !.format = f]
    <3>1. c \in Bitmap /\ c.format = f /\ c.data = n /\ Pixels(c) = Pixels(b)
      BY PixelsIgnoreFormat DEF Bitmap
    <3> HIDE DEF c
    <3>2. GetDataSize(c) = Pixels(c) * Bpp(c)
      BY <2>2, <3>1, PixelsTimesBytes DEF IsCompressed
    <3>3. Exact(c)
      BY <2>2, <3>1, <3>2 DEF Exact, Bpp
    <3> QED BY <3>3 DEF c
  <2> QED BY <2>1, <2>2
<1>2. CASE Truncated(b)
  <2> DEFINE one == [b EXCEPT !.mipCount = 1]
  <2>1. one \in Bitmap /\ ~ IsCompressed(one) /\ Bpp(one) = Bpp(b) /\ b.data = GetDataSize(one)
    BY <1>2 DEF Bitmap, IsCompressed, Bpp, Truncated
  <2> HIDE DEF one
  <2>2. Pixels(one) \in Nat /\ b.data = Pixels(one) * Bpp(b)
    BY <2>1, PixelsTimesBytes
  <2>3. ASSUME NEW f \in PixelFormat, NEW n \in Nat, ~ IsCompressedFormat(f),
               n = Pixels(one) * GetBytesPerPixel(f)
        PROVE  Truncated([b EXCEPT !.data = n, !.format = f])
    <3> DEFINE c  == [b EXCEPT !.data = n, !.format = f]
               c1 == [c EXCEPT !.mipCount = 1]
    <3>1. c1 = [one EXCEPT !.data = n, !.format = f] /\ c1.format = f /\ c1 \in Bitmap
      BY DEF Bitmap, one
    <3>2. Pixels(c1) = Pixels(one)
      <4>1. Pixels([one EXCEPT !.data = n, !.format = f]) = Pixels(one)
        BY <2>1, PixelsIgnoreFormat
      <4> QED BY <3>1, <4>1
    <3>3. GetDataSize(c1) = Pixels(c1) * Bpp(c1)
      BY <2>3, <3>1, PixelsTimesBytes DEF IsCompressed
    <3>4. c.data = n /\ c.data = GetDataSize(c1)
      BY <2>3, <3>1, <3>2, <3>3 DEF Bpp, Bitmap
    <3>5. c.mipCount = b.mipCount /\ c.type = b.type /\ c.format = f
      BY DEF Bitmap
    <3>6. c.mipCount = 0 /\ c.type \in {"2D", "CUBE"} /\ ~ IsCompressed(c)
      BY <1>2, <2>3, <3>5 DEF Truncated, IsCompressed
    <3> HIDE DEF c
    <3> QED BY <3>4, <3>6 DEF Truncated, c
  <2> QED BY <2>2, <2>3
<1> QED BY <1>1, <1>2 DEF Sound, BlockVolume

(* A change of format that keeps the number of pixels keeps the invariant. *)
LEMMA ReformattedIsSound ==
  ASSUME NEW b \in Bitmap, Sound(b), IsValid(b), ~ IsCompressed(b), Bpp(b) >= 1,
         NEW f \in PixelFormat, ~ IsCompressedFormat(f), NEW n \in Nat,
         n = (b.data \div Bpp(b)) * GetBytesPerPixel(f)
           \/ (n = b.data /\ GetBytesPerPixel(f) = Bpp(b))
  PROVE  [b EXCEPT !.data = n, !.format = f] \in Bitmap /\ Sound([b EXCEPT !.data = n, !.format = f])
<1> DEFINE c == [b EXCEPT !.data = n, !.format = f]
<1>1. /\ c \in Bitmap /\ c.type = b.type /\ c.width = b.width /\ c.height = b.height
      /\ c.volumeDepth = b.volumeDepth /\ c.arraySize = b.arraySize
  BY DEF Bitmap
<1>2. ASSUME ~ Degenerate(b) PROVE Exact(c) \/ Truncated(c)
  <2>1. PICK k \in Nat :
           /\ b.data = k * Bpp(b)
           /\ \A g \in PixelFormat, m \in Nat :
                /\ ~ IsCompressedFormat(g)
                /\ m = k * GetBytesPerPixel(g)
                => LET d == [b EXCEPT !.data = m, !.format = g] IN Exact(d) \/ Truncated(d)
    BY <1>2, BufferIsWholePixels
  <2>2. Bpp(b) \in Nat \ {0}
    BY FormatFacts DEF Bitmap, Bpp
  <2>3. b.data \div Bpp(b) = k
    <3>1. k * Bpp(b) = Bpp(b) * k
      BY <2>2
    <3> QED BY <2>1, <2>2, <3>1, DivideOut
  <2>4. n = k * GetBytesPerPixel(f)
    BY <2>1, <2>3
  <2> QED BY <2>1, <2>4
<1>3. Degenerate(c) <=> Degenerate(b)
  BY <1>1 DEF Degenerate
<1> HIDE DEF c
<1>4. Sound(c)
  BY <1>1, <1>2, <1>3 DEF Sound
<1> QED BY <1>1, <1>4 DEF c

LEMMA ChangeFormatKeepsIInv ==
  ASSUME IInv, NEW h \in Handles, NEW f \in Formats, ChangeFormat(h, f)
  PROVE  IInv'
<1> DEFINE b == bitmap[h]
           refused == \/ ~ IsValid(b)
                      \/ IsCompressedFormat(f) \/ IsCompressed(b)
                      \/ GetBytesPerPixel(f) # GetBytesPerPixel(b.format)
<1>1. b \in Bitmap /\ Sound(b) /\ f \in PixelFormat
  BY FormatsAssumption DEF IInv, TypeOK
<1>2. "ChangeFormat" \in Operations
  BY DEF Operations
<1>3. CASE refused
  BY <1>2, <1>3, RefuseKeepsIInv DEF ChangeFormat
<1>4. CASE ~ refused
  <2> DEFINE c == [b EXCEPT !.format = f]
  <2>1. Return("ChangeFormat", h, TRUE, c)
    BY <1>4 DEF ChangeFormat
  <2>2. c = [b EXCEPT !.data = b.data, !.format = f] /\ b.data \in Nat
    BY <1>1 DEF Bitmap
  <2>3. CASE Bpp(b) >= 1
    BY <1>1, <1>2, <1>4, <2>1, <2>2, <2>3, ReformattedIsSound, ReturnKeepsIInv DEF Bpp
  <2>4. CASE ~ (Bpp(b) >= 1)
    <3>1. Bpp(b) = 0
      BY <1>1, <2>4, FormatFacts DEF Bitmap, Bpp
    <3>2. Degenerate(b)
      <4> SUFFICES ASSUME ~ Degenerate(b) PROVE FALSE
        OBVIOUS
      <4>1. PICK k \in Nat : b.data = k * Bpp(b)
        BY <1>1, <1>4, BufferIsWholePixels
      <4> QED BY <1>4, <3>1, <4>1 DEF IsValid
    <3>3. c \in Bitmap /\ Degenerate(c) /\ c.type = b.type /\ c.width = b.width
            /\ c.volumeDepth = b.volumeDepth /\ c.arraySize = b.arraySize /\ c.data = b.data
      BY <1>1, <3>2 DEF Bitmap, Degenerate
    <3> HIDE DEF c, refused
    <3>4. Sound(c)
      BY <1>1, <3>3 DEF Sound, IsValid
    <3> QED BY <1>2, <2>1, <3>3, <3>4, ReturnKeepsIInv
  <2> QED BY <2>3, <2>4
<1> QED BY <1>3, <1>4

LEMMA ConvertFormatKeepsIInv ==
  ASSUME IInv, NEW h \in Handles, NEW f \in Formats, ConvertFormat(h, f)
  PROVE  IInv'
<1> DEFINE b == bitmap[h]
           step == <<b.format, f>>
           op == "ConvertFormat"
<1>1. b \in Bitmap /\ Sound(b) /\ f \in PixelFormat /\ op \in Operations
  BY FormatsAssumption DEF IInv, TypeOK, Operations
<1>2. CASE Refuse(op, h)
  BY <1>1, <1>2, RefuseKeepsIInv
<1>3. CASE Return(op, h, TRUE, b)
  BY <1>1, <1>3, ReturnKeepsIInv
<1>4. CASE IsValid(b) /\ step \in InPlace /\ Return(op, h, TRUE, [b EXCEPT !.format = f])
  <2>1. [b EXCEPT !.format = f] = [b EXCEPT !.data = b.data, !.format = f] /\ b.data \in Nat
    BY <1>1 DEF Bitmap
  <2>2. ~ IsCompressed(b) /\ Bpp(b) = 4 /\ ~ IsCompressedFormat(f) /\ GetBytesPerPixel(f) = 4
    BY <1>4, TransitionFacts DEF IsCompressed, Bpp
  <2> HIDE DEF b
  <2>3. LET c == [b EXCEPT !.data = b.data, !.format = f] IN c \in Bitmap /\ Sound(c)
    <3>1. b.data \in Nat /\ GetBytesPerPixel(f) = Bpp(b) /\ Bpp(b) >= 1 /\ IsValid(b)
      BY <1>4, <2>1, <2>2
    <3> QED BY <1>1, <2>2, <3>1, ReformattedIsSound
  <2>4. [b EXCEPT !.format = f] \in Bitmap /\ Sound([b EXCEPT !.format = f])
    BY <2>1, <2>3
  <2> QED BY <1>1, <1>4, <2>4, ReturnKeepsIInv
<1>5. ASSUME IsValid(b), step \in Narrowing \union Widening,
             NEW n \in Resized(ConvertedSize(b, f)), n = 0, Return(op, h, FALSE, Destroyed(b))
      PROVE  IInv'
  BY <1>1, <1>5, DestroyedIsSound, ReturnKeepsIInv
<1>6. ASSUME IsValid(b), step \in Narrowing \union Widening,
             NEW n \in Resized(ConvertedSize(b, f)), n # 0,
             Return(op, h, TRUE, [b EXCEPT !.data = n, !.format = f])
      PROVE  IInv'
  <2>1. /\ ~ IsCompressed(b) /\ ~ IsCompressedFormat(f) /\ Bpp(b) >= 1
        /\ Bpp(b) \in Nat \ {0} /\ b.data \in Nat
    BY <1>1, <1>6, TransitionFacts DEF IsCompressed, Bpp, Bitmap
  <2>2. ConvertedSize(b, f) = (b.data \div Bpp(b)) * GetBytesPerPixel(f)
    <3>1. CASE step \in Narrowing
      BY <2>1, <3>1, TransitionFacts DEF ConvertedSize, Bpp
    <3>2. CASE step \in Widening
      BY <2>1, <3>2, TransitionFacts DEF ConvertedSize, Bpp
    <3> QED BY <1>6, <3>1, <3>2
  <2>3. n = ConvertedSize(b, f)
    BY <1>6 DEF Resized
  <2>4. n \in Nat
    <3>1. b.data \div Bpp(b) \in Nat /\ GetBytesPerPixel(f) \in Nat
      BY <1>1, <2>1, FormatFacts
    <3> QED BY <2>2, <2>3, <3>1, ProductType
  <2>5. LET c == [b EXCEPT !.data = n, !.format = f] IN c \in Bitmap /\ Sound(c)
    BY <1>1, <1>6, <2>1, <2>2, <2>3, <2>4, ReformattedIsSound
  <2> QED BY <1>1, <1>6, <2>5, ReturnKeepsIInv
<1> QED BY <1>2, <1>3, <1>4, <1>5, <1>6 DEF ConvertFormat

-----------------------------------------------------------------------------
(* Geometry                                                                *)

(* A bitmap is sound when its buffer is empty or the one called for.       *)
LEMMA ExactIsSound ==
  ASSUME NEW c \in Bitmap, c.type # "INVALID", c.width >= 1, c.arraySize >= 1,
         c.type # "3D" => c.volumeDepth = 1,
         IsValid(c) /\ ~ Degenerate(c) => Exact(c) \/ Truncated(c) \/ BlockVolume(c)
  PROVE  Sound(c)
BY DEF Sound

(* What is known of a bitmap that an operation goes to work on.            *)
LEMMA ValidFacts ==
  ASSUME NEW b \in Bitmap, Sound(b), IsValid(b)
  PROVE  /\ b.type # "INVALID" /\ b.width >= 1 /\ b.arraySize >= 1
         /\ b.type # "3D" => b.volumeDepth = 1
BY DEF Sound

(* PopulateMargin and CopyChannel write into the buffer they find.         *)
LEMMA InPlaceKeepsIInv ==
  ASSUME IInv, NEW h \in Handles, NEW op \in Operations, NEW ok \in BOOLEAN,
         Return(op, h, ok, bitmap[h])
  PROVE  IInv'
<1>1. bitmap[h] \in Bitmap /\ Sound(bitmap[h])
  BY DEF IInv, TypeOK
<1> QED BY <1>1, ReturnKeepsIInv

LEMMA CopyKeepsIInv ==
  ASSUME IInv, NEW h \in Handles,
         \/ \E margin \in Edges : PopulateMargin(h, margin)
         \/ \E source \in Handles, i, j \in 0 .. 3 : CopyChannel(h, source, i, j)
  PROVE  IInv'
<1>1. "PopulateMargin" \in Operations /\ "CopyChannel" \in Operations
  BY DEF Operations
<1>2. ASSUME NEW margin \in Edges, PopulateMargin(h, margin) PROVE IInv'
  <2>1. CanPopulateMargin(bitmap[h], margin) \in BOOLEAN
    BY DEF CanPopulateMargin
  <2> QED BY <1>1, <1>2, <2>1, InPlaceKeepsIInv DEF PopulateMargin
<1>3. ASSUME NEW source \in Handles, NEW i \in 0 .. 3, NEW j \in 0 .. 3, CopyChannel(h, source, i, j)
      PROVE  IInv'
  <2>1. ChannelsMatch(bitmap[h], bitmap[source], i, j) \in BOOLEAN
    BY DEF ChannelsMatch
  <2> QED BY <1>1, <1>3, <2>1, InPlaceKeepsIInv DEF CopyChannel
<1> QED BY <1>2, <1>3

LEMMA Downsample2x2KeepsIInv ==
  ASSUME IInv, NEW h \in Handles, Downsample2x2(h)
  PROVE  IInv'
<1> DEFINE b == bitmap[h]
           s == Downsampled(b)
<1>1. b \in Bitmap /\ Sound(b) /\ "Downsample2x2" \in Operations
  BY DEF IInv, TypeOK, Operations
<1>2. CASE ~ CanDownsample(b)
  <2>1. Refuse("Downsample2x2", h)
    BY <1>2 DEF Downsample2x2
  <2> QED BY <1>1, <2>1, RefuseKeepsIInv
<1>3. CASE CanDownsample(b)
  <2>1. PICK n \in Resized(FlatChainSize(s, s.mipCount) * s.arraySize) :
          \/ n = 0 /\ Return("Downsample2x2", h, FALSE, Destroyed(s))
          \/ n # 0 /\ Return("Downsample2x2", h, TRUE, [s EXCEPT !.data = n])
    BY <1>3 DEF Downsample2x2
  <2> HIDE DEF b
  <2>2. b.width >= 1 /\ b.width % 2 = 0 /\ b.volumeDepth = 1 /\ b.type \in {"2D", "CUBE"}
          /\ b.format \in EightBitFormats
    BY <1>1, <1>3, ValidFacts DEF CanDownsample
  <2>3. DownsampledMipCount(b) \in Nat \ {0}
    BY <1>1, WrapAssumption DEF DownsampledMipCount, Larger, Bitmap
  <2>4. b.width \div 2 \in Nat /\ b.width \div 2 >= 1 /\ b.height \div 2 \in Nat
    BY <1>1, <2>2 DEF Bitmap
  <2>5. /\ s \in Bitmap /\ s.type = b.type /\ s.format = b.format /\ s.width = b.width \div 2
        /\ s.mipCount = DownsampledMipCount(b) /\ s.volumeDepth = b.volumeDepth
    BY <1>1, <2>3, <2>4 DEF Downsampled, Bitmap
  <2>6. ~ IsCompressed(s)
    BY <1>1, <2>2, <2>5, FormatFacts DEF IsCompressed, Bitmap
  <2> HIDE DEF s
  <2>7. FlatChainSize(s, s.mipCount) * s.arraySize = GetDataSize(s)
    BY <2>2, <2>3, <2>5, <2>6, FlatChainFits
  <2>8. [s EXCEPT !.data = n] \in Bitmap /\ Sound([s EXCEPT !.data = n])
    BY <2>1, <2>2, <2>4, <2>5, <2>7, ResizedIsSound
  <2>9. Destroyed(s) \in Bitmap /\ Sound(Destroyed(s))
    BY <2>5, DestroyedIsSound
  <2> QED BY <1>1, <2>1, <2>8, <2>9, ReturnKeepsIInv
<1> QED BY <1>2, <1>3

LEMMA CropKeepsIInv ==
  ASSUME IInv, NEW h \in Handles, NEW left \in Edges, NEW top \in Edges, NEW right \in Edges,
         NEW bottom \in Edges, Crop(h, left, top, right, bottom)
  PROVE  IInv'
<1> DEFINE b == bitmap[h]
           l == Smaller(left, b.width)
           r == Smaller(right, b.width)
           t == Smaller(top, b.height)
           u == Smaller(bottom, b.height)
<1>1. b \in Bitmap /\ Sound(b) /\ "Crop" \in Operations
  BY DEF IInv, TypeOK, Operations
<1>2. l \in Nat /\ r \in Nat /\ t \in Nat /\ u \in Nat
  BY <1>1, CountsAssumption DEF Smaller, Bitmap
<1>3. CASE Refuse("Crop", h)
  BY <1>1, <1>3, RefuseKeepsIInv
<1>4. CASE Return("Crop", h, TRUE, Destroyed(b))
  BY <1>1, <1>4, DestroyedIsSound, ReturnKeepsIInv
<1>5. ASSUME CanCrop(b), l < r, t < u,
             NEW n \in Resized((r - l) * (u - t) * GetBytesPerPixel(b.format)),
             Return("Crop", h, TRUE, [b EXCEPT !.width = r - l, !.height = u - t, !.data = n])
      PROVE  IInv'
  <2> HIDE DEF b, l, r, t, u
  <2> DEFINE c == [b EXCEPT !.width = r - l, !.height = u - t, !.data = n]
  <2>1. b.type = "2D" /\ b.mipCount = 1 /\ b.arraySize = 1 /\ b.volumeDepth = 1 /\ ~ IsCompressed(b)
    BY <1>1, <1>5, ValidFacts DEF CanCrop, Bitmap
  <2>2. r - l \in Nat \ {0} /\ u - t \in Nat /\ GetBytesPerPixel(b.format) \in Nat
    BY <1>1, <1>2, <1>5, FormatFacts DEF Bitmap
  <2>3. (r - l) * (u - t) * GetBytesPerPixel(b.format) \in Nat
    BY <2>2, ProductType
  <2>4. n \in Nat
    BY <2>3 DEF Resized
  <2>5. /\ c \in Bitmap /\ c.type = "2D" /\ c.mipCount = 1 /\ c.arraySize = 1 /\ c.volumeDepth = 1
        /\ c.format = b.format /\ c.width = r - l /\ c.height = u - t /\ c.data = n
    BY <1>1, <2>1, <2>2, <2>4 DEF Bitmap
  <2> HIDE DEF c
  <2>6. ASSUME n # 0 PROVE Exact(c)
    <3>1. GetDataSize(c) = LevelBytes(c, 0) * 1
      BY <2>5, OneLevel
    <3>2. LevelBytes(c, 0) = (r - l) * (u - t) * 1 * GetBytesPerPixel(b.format)
      BY <2>1, <2>5, TopLevel DEF IsCompressed, Slices, Bpp
    <3>3. (r - l) * (u - t) \in Nat
      BY <2>2, ProductType
    <3>4. (r - l) * (u - t) * 1 = (r - l) * (u - t)
      BY <3>3
    <3>5. LevelBytes(c, 0) = (r - l) * (u - t) * GetBytesPerPixel(b.format)
      BY <3>2, <3>4
    <3>6. GetDataSize(c) = (r - l) * (u - t) * GetBytesPerPixel(b.format)
      BY <2>3, <3>1, <3>5
    <3> QED BY <2>5, <2>6, <3>6 DEF Exact, Resized
  <2>7. Sound(c)
    BY <2>2, <2>5, <2>6, ExactIsSound DEF IsValid
  <2> QED BY <1>1, <1>5, <2>5, <2>7, ReturnKeepsIInv DEF c
<1> QED BY <1>3, <1>4, <1>5 DEF Crop

LEMMA RotateFaceKeepsIInv ==
  ASSUME IInv, NEW h \in Handles, NEW face \in 0 .. 5, NEW times \in 0 .. 4,
         RotateFaceClockwise(h, face, times)
  PROVE  IInv'
<1>1. "RotateFaceClockwise" \in Operations
  BY DEF Operations
<1>2. Refuse("RotateFaceClockwise", h) \/ Return("RotateFaceClockwise", h, TRUE, bitmap[h])
  BY DEF RotateFaceClockwise
<1> QED BY <1>1, <1>2, RefuseKeepsIInv, InPlaceKeepsIInv

LEMMA CrossmapKeepsIInv ==
  ASSUME IInv, NEW h \in Handles, ConvertCrossmapToCubemap(h)
  PROVE  IInv'
<1> DEFINE op   == "ConvertCrossmapToCubemap"
           b    == bitmap[h]
           side == b.width \div 3
           n    == side * GetBytesPerPixel(b.format) * side * 6
           cube == [b EXCEPT !.type = "CUBE", !.width = side, !.height = side, !.arraySize = 6,
                             !.data = n]
<1>1. b \in Bitmap /\ Sound(b) /\ op \in Operations
  BY DEF IInv, TypeOK, Operations
<1>2. CASE Refuse(op, h)
  BY <1>1, <1>2, RefuseKeepsIInv
<1>3. CASE IsCrossmap(b) /\ Return(op, h, TRUE, cube)
  <2> HIDE DEF b
  <2>1. b.width >= 1 /\ b.width % 3 = 0 /\ b.volumeDepth = 1 /\ b.mipCount = 1 /\ ~ IsCompressed(b)
    BY <1>1, <1>3, ValidFacts DEF IsCrossmap
  <2>2. side \in Nat \ {0} /\ GetBytesPerPixel(b.format) \in Nat
    BY <1>1, <2>1, FormatFacts DEF Bitmap
  <2> HIDE DEF side
  <2>3. n \in Nat
    BY <2>2, ProductType
  <2>4. n = (side * side * 1 * GetBytesPerPixel(b.format)) * 6
    <3>1. \A x, k \in Nat : x * k * x * 6 = (x * x * 1 * k) * 6
      OBVIOUS
    <3> QED BY <2>2, <3>1
  <2> HIDE DEF n
  <2>5. "CUBE" \in TextureType
    BY DEF TextureType
  <2>6. /\ cube \in Bitmap /\ cube.type = "CUBE" /\ cube.width = side /\ cube.height = side
        /\ cube.arraySize = 6 /\ cube.mipCount = 1 /\ cube.volumeDepth = 1
        /\ cube.format = b.format /\ cube.data = n
    BY <1>1, <2>1, <2>2, <2>3, <2>5 DEF Bitmap
  <2> HIDE DEF cube
  <2>7. GetDataSize(cube) = LevelBytes(cube, 0) * 6
    BY <2>6, OneLevel
  <2>8. LevelBytes(cube, 0) = side * side * 1 * GetBytesPerPixel(b.format)
    BY <2>1, <2>6, TopLevel DEF IsCompressed, Slices, Bpp
  <2>9. Sound(cube)
    BY <2>2, <2>4, <2>6, <2>7, <2>8, ExactIsSound DEF Exact
  <2> QED BY <1>1, <1>3, <2>6, <2>9, ReturnKeepsIInv
<1> QED BY <1>2, <1>3 DEF ConvertCrossmapToCubemap

LEMMA ConvertToVolumeKeepsIInv ==
  ASSUME IInv, NEW h \in Handles, ConvertToVolume(h)
  PROVE  IInv'
<1> DEFINE op     == "ConvertToVolume"
           b      == bitmap[h]
           c      == CubeSize(b)
           n      == RowPitch(b) * c * c
           volume == [b EXCEPT !.type = "3D", !.mipCount = 1, !.width = c, !.height = c,
                               !.volumeDepth = c, !.data = n]
<1>1. b \in Bitmap /\ Sound(b) /\ op \in Operations
  BY DEF IInv, TypeOK, Operations
<1>2. CASE Refuse(op, h)
  BY <1>1, <1>2, RefuseKeepsIInv
<1>3. CASE CanConvertToVolume(b) /\ Return(op, h, TRUE, volume)
  <2> DEFINE k == IF IsCompressed(b) THEN GetBlockByteSize(b.format) \div 4 ELSE Bpp(b)
  <2> HIDE DEF b
  <2>1. b.width >= 1 /\ b.arraySize = 1 /\ IsValid(b)
    BY <1>1, <1>3, ValidFacts DEF CanConvertToVolume, Bitmap
  <2>2. c \in Nat \ {0}
    BY <1>1, <2>1, CubeSizeFits DEF Bitmap
  <2>3. RowPitch(b) = k * c
    BY <1>1, <2>1, RowPitchFits
  <2>4. k \in Nat
    BY <1>1, FormatFacts DEF Bitmap, Bpp
  <2> HIDE DEF c, k
  <2>5. n = k * c * c * c /\ n \in Nat
    BY <2>2, <2>3, <2>4, ProductType
  <2> HIDE DEF n
  <2>6. "3D" \in TextureType
    BY DEF TextureType
  <2>7. /\ volume \in Bitmap /\ volume.type = "3D" /\ volume.width = c /\ volume.height = c
        /\ volume.arraySize = 1 /\ volume.mipCount = 1 /\ volume.volumeDepth = c
        /\ volume.format = b.format /\ volume.data = n
    BY <1>1, <2>1, <2>2, <2>5, <2>6 DEF Bitmap
  <2> HIDE DEF volume
  <2>8. ASSUME IsCompressed(b) PROVE Sound(volume)
    <3>1. BlockVolume(volume)
      BY <2>5, <2>7, <2>8 DEF BlockVolume, IsCompressed, k
    <3> QED BY <2>2, <2>7, <3>1, ExactIsSound
  <2>9. ASSUME ~ IsCompressed(b) PROVE Sound(volume)
    <3>1. GetDataSize(volume) = LevelBytes(volume, 0) * 1
      BY <2>7, OneLevel
    <3>2. LevelBytes(volume, 0) = c * c * c * k
      BY <2>7, <2>9, TopLevel DEF IsCompressed, Slices, Bpp, k
    <3>3. \A x, y \in Nat : (x * x * x * y) * 1 = y * x * x * x
      OBVIOUS
    <3>4. Exact(volume)
      BY <2>2, <2>4, <2>5, <2>7, <3>1, <3>2, <3>3 DEF Exact
    <3> QED BY <2>2, <2>7, <3>4, ExactIsSound
  <2>10. Sound(volume)
    BY <2>8, <2>9
  <2> QED BY <1>1, <1>3, <2>7, <2>10, ReturnKeepsIInv
<1> QED BY <1>2, <1>3 DEF ConvertToVolume

-----------------------------------------------------------------------------
(* Mip maps                                                                *)

LEMMA GenerateMipMapsKeepsIInv ==
  ASSUME IInv, NEW h \in Handles, NEW levels \in MipArgs, GenerateMipMaps(h, levels)
  PROVE  IInv'
<1> DEFINE op    == "GenerateMipMaps"
           b     == bitmap[h]
           reset == [b EXCEPT !.mipCount = 0]
           n     == LevelsToGenerate(b, levels)
<1>1. b \in Bitmap /\ Sound(b) /\ op \in Operations /\ levels \in Nat
  BY CountsAssumption DEF IInv, TypeOK, Operations
<1>2. /\ reset \in Bitmap /\ reset.type = b.type /\ reset.width = b.width /\ reset.height = b.height
      /\ reset.volumeDepth = b.volumeDepth /\ reset.arraySize = b.arraySize
      /\ reset.format = b.format /\ reset.mipCount = 0 /\ reset.data = b.data
  BY <1>1 DEF Bitmap
<1>3. n \in Nat
  BY <1>1, <1>2, MipCountType DEF LevelsToGenerate
<1>4. CASE Refuse(op, h)
  BY <1>1, <1>4, RefuseKeepsIInv
<1>5. ASSUME CanGenerateMipMaps(b)
      PROVE  b.type \in {"2D", "CUBE"} /\ b.mipCount \in {0, 1} /\ ~ IsCompressed(b)
               /\ b.width >= 1 /\ b.volumeDepth = 1
  <2> HIDE DEF b
  <2>1. b.type \in {"2D", "CUBE"} /\ b.mipCount <= 1 /\ b.format \in EightBitFormats
    BY <1>5 DEF CanGenerateMipMaps
  <2>2. ~ IsCompressed(b) /\ b.mipCount \in {0, 1}
    BY <1>1, <2>1, FormatFacts DEF IsCompressed, Bitmap
  <2> QED BY <1>1, <2>1, <2>2 DEF Sound
<1>6. CASE CanGenerateMipMaps(b) /\ Return(op, h, FALSE, reset)
  <2> HIDE DEF b
  <2>1. ASSUME IsValid(b), ~ Degenerate(b) PROVE Truncated(reset) \/ Exact(reset)
    <3>1. Exact(b) \/ Truncated(b)
      BY <1>1, <1>5, <1>6, <2>1 DEF Sound, BlockVolume
    <3>2. CASE b.mipCount = 0
      <4>1. reset = b
        BY <1>1, <3>2 DEF Bitmap
      <4> QED BY <3>1, <4>1
    <3>3. CASE b.mipCount = 1
      <4>1. Exact(b)
        BY <3>1, <3>3 DEF Truncated
      <4>2. [reset EXCEPT !.mipCount = 1] = b
        BY <1>1, <3>3 DEF Bitmap
      <4>3. ~ IsCompressed(reset)
        BY <1>2, <1>5, <1>6 DEF IsCompressed
      <4> QED BY <1>2, <1>5, <1>6, <4>1, <4>2, <4>3 DEF Truncated, Exact
    <3> QED BY <1>5, <1>6, <3>2, <3>3
  <2> HIDE DEF reset
  <2>2. (IsValid(reset) <=> IsValid(b)) /\ (Degenerate(reset) <=> Degenerate(b))
    BY <1>2 DEF IsValid, Degenerate
  <2>3. Sound(reset)
    BY <1>1, <1>2, <2>1, <2>2 DEF Sound
  <2> QED BY <1>1, <1>2, <1>6, <2>3, ReturnKeepsIInv
<1>7. CASE Return(op, h, FALSE, [reset EXCEPT !.data = 0])
  <2> DEFINE c == [reset EXCEPT !.data = 0]
  <2>1. c \in Bitmap /\ c.data = 0 /\ c.type = b.type /\ c.width = b.width /\ c.volumeDepth = b.volumeDepth
    BY <1>2 DEF Bitmap
  <2> HIDE DEF c
  <2>2. Sound(c)
    BY <1>1, <2>1 DEF Sound, IsValid
  <2> QED BY <1>1, <1>7, <2>1, <2>2, ReturnKeepsIInv DEF c
<1>8. ASSUME CanGenerateMipMaps(b), NEW size \in Resized(FlatChainSize(b, n) * b.arraySize), size # 0,
             Return(op, h, TRUE, [b EXCEPT !.mipCount = n, !.data = size])
      PROVE  IInv'
  <2> DEFINE fresh == [b EXCEPT !.mipCount = n]
             c     == [b EXCEPT !.mipCount = n, !.data = size]
  <2> HIDE DEF b, n
  <2>1. size = FlatChainSize(b, n) * b.arraySize
    BY <1>8 DEF Resized
  <2>2. FlatChainSize(b, n) \in Nat /\ b.arraySize \in Nat
    BY <1>1, <1>3, <1>5, <1>8, FlatChain DEF Bitmap
  <2>3. n # 0
    <3> SUFFICES ASSUME n = 0 PROVE FALSE
      OBVIOUS
    <3>1. FlatChainSize(b, 0) = 0
      <4>1. [i \in Nat |-> LevelBytes(b, i)] \in [Nat -> Nat]
        BY <1>1, LevelBytesType
      <4>2. FlatChainSize(b, 0) = Total([i \in Nat |-> LevelBytes(b, i)], 0)
        BY <1>1, <1>5, <1>8, FlatChain
      <4> QED BY <4>1, <4>2, TotalUnfolds
    <3> QED BY <1>8, <2>1, <2>2, <3>1
  <2>4. /\ fresh \in Bitmap /\ fresh.type = b.type /\ fresh.format = b.format
        /\ fresh.width = b.width /\ fresh.height = b.height /\ fresh.mipCount = n
        /\ fresh.arraySize = b.arraySize /\ fresh.volumeDepth = b.volumeDepth
        /\ c = [fresh EXCEPT !.data = size]
    BY <1>1, <1>3 DEF Bitmap
  <2> HIDE DEF fresh
  <2>5. GetDataSize(fresh) = size
    BY <1>1, <1>3, <1>5, <1>8, <2>1, <2>3, <2>4, FlatChainFits
  <2>6. size \in Resized(GetDataSize(fresh))
    BY <1>8, <2>5 DEF Resized
  <2> HIDE DEF c
  <2>7. c \in Bitmap /\ Sound(c)
    BY <1>5, <1>8, <2>4, <2>6, ResizedIsSound
  <2> QED BY <1>1, <1>8, <2>7, ReturnKeepsIInv DEF c
<1> QED BY <1>4, <1>6, <1>7, <1>8 DEF GenerateMipMaps

(* The address of the second level is the size of the first.               *)
LEMMA SecondLevel ==
  ASSUME NEW b \in Bitmap, Sound(b), IsValid(b), ~ Degenerate(b),
         GetMipRawData(b, 1, 0) # NullPointer
  PROVE  GetMipRawData(b, 1, 0) = LevelBytes(b, 0)
<1> DEFINE wide == Larger(AlignUp4(b.width), 4)
           high == Larger(AlignUp4(b.height), 4)
           block == GetBlockByteSize(b.format)
           d == b.volumeDepth
<1>1. /\ b.width \in Nat \ {0} /\ b.height \in Nat \ {0} /\ b.volumeDepth \in Nat \ {0}
      /\ b.format \in PixelFormat /\ b.volumeDepth = Slices(b)
  BY ValidFacts DEF Degenerate, Bitmap, Slices
<1>2. GetTrueMipCount(b) > 1 /\ GetMipRawData(b, 1, 0) = Stride(b, 0)
  BY SecondLevelAddress
<1>3. Shr(b.width, 0) = b.width /\ Shr(b.height, 0) = b.height /\ Shr(b.volumeDepth, 0) = b.volumeDepth
  <2>1. b.width \in Nat /\ b.height \in Nat /\ b.volumeDepth \in Nat
    BY <1>1
  <2> QED BY <2>1, ShrUnfolds
<1>4. Stride(b, 0) = GetMipNumRows(b, 0) * GetMipPitch(b, 0) * d
  <2>1. Larger(Shr(b.volumeDepth, 0), 1) = d
    BY <1>3, <1>1 DEF Larger
  <2> QED BY <2>1 DEF Stride
<1>5. Shr(b.width, 0) = b.width /\ Shr(b.height, 0) = b.height /\ ~ (0 >= GetTrueMipCount(b))
  <2>1. GetTrueMipCount(b) \in Nat
    BY MipCountType
  <2> QED BY <1>3, <1>2, <2>1
<1>6. CASE IsCompressed(b)
  <2>1. GetMipWidth(b, 0) = wide /\ GetMipHeight(b, 0) = high
    BY <1>5, <1>6 DEF GetMipWidth, GetMipHeight, LevelSide
  <2>2. GetMipNumRows(b, 0) = high \div 4 /\ GetMipPitch(b, 0) = (wide \div 4) * block
    BY <1>6, <2>1 DEF GetMipNumRows, GetMipPitch
  <2>3. PICK x \in Nat : wide = 4 * x
    BY <1>1 DEF Larger, AlignUp4
  <2>4. PICK y \in Nat : high = 4 * y
    BY <1>1 DEF Larger, AlignUp4
  <2>5. block \in Nat
    BY <1>1, FormatFacts
  <2>6. LevelBytes(b, 0) = (wide * high * d * block) \div 16
    BY <1>1, <1>6, TopLevel
  <2> HIDE DEF wide, high, block, d
  <2>7. wide \div 4 = x /\ high \div 4 = y
    BY <2>3, <2>4
  <2>8. y * (x * block) * d \in Nat /\ wide * high * d * block = 16 * (y * (x * block) * d)
    <3>1. d \in Nat
      BY <1>1 DEF d
    <3>2. y * (x * block) * d \in Nat
      BY <2>5, <3>1, ProductType
    <3>3. (4 * x) * (4 * y) * d * block = 16 * (y * (x * block) * d)
      BY <2>5, <3>1
    <3> QED BY <2>3, <2>4, <3>2, <3>3
  <2>9. LevelBytes(b, 0) = y * (x * block) * d
    BY <2>6, <2>8
  <2> QED BY <1>2, <1>4, <2>2, <2>7, <2>9
<1>7. CASE ~ IsCompressed(b)
  <2>1. GetMipWidth(b, 0) = b.width /\ GetMipHeight(b, 0) = b.height
    BY <1>1, <1>5, <1>7 DEF GetMipWidth, GetMipHeight, LevelSide, Larger
  <2>2. GetMipNumRows(b, 0) = b.height /\ GetMipPitch(b, 0) = b.width * Bpp(b)
    BY <1>7, <2>1 DEF GetMipNumRows, GetMipPitch, Bpp
  <2>3. LevelBytes(b, 0) = b.width * b.height * d * Bpp(b)
    BY <1>1, <1>7, TopLevel
  <2>4. Bpp(b) \in Nat /\ d \in Nat /\ b.width \in Nat /\ b.height \in Nat
    BY <1>1, FormatFacts DEF Bpp
  <2>5. \A x, y, z, k \in Nat : x * y * z * k = y * (x * k) * z
    OBVIOUS
  <2> HIDE DEF d
  <2> QED BY <1>2, <1>4, <2>2, <2>3, <2>4, <2>5
<1> QED BY <1>6, <1>7

LEMMA DropMipMapsKeepsIInv ==
  ASSUME IInv, NEW h \in Handles, DropMipMaps(h)
  PROVE  IInv'
<1> DEFINE op     == "DropMipMaps"
           b      == bitmap[h]
           second == GetMipRawData(b, 1, 0)
<1>1. b \in Bitmap /\ Sound(b) /\ op \in Operations
  BY DEF IInv, TypeOK, Operations
<1>2. CASE Refuse(op, h)
  BY <1>1, <1>2, RefuseKeepsIInv
<1>3. CASE Return(op, h, TRUE, b)
  BY <1>1, <1>3, ReturnKeepsIInv
<1>4. ASSUME IsValid(b),
             NEW n \in IF second = NullPointer THEN {0} ELSE Resized(second * b.arraySize),
             Return(op, h, TRUE, [b EXCEPT !.mipCount = 1, !.data = n])
      PROVE  IInv'
  <2> DEFINE c == [b EXCEPT !.mipCount = 1, !.data = n]
  <2> HIDE DEF b, second
  <2>1. second = NullPointer \/ second \in Nat
    BY <1>1, SecondLevelAddress, StrideType DEF second
  <2>2. n \in Nat
    BY <1>1, <1>4, <2>1, ProductType DEF Resized, Bitmap
  <2>3. /\ c \in Bitmap /\ c.type = b.type /\ c.format = b.format /\ c.width = b.width
        /\ c.height = b.height /\ c.volumeDepth = b.volumeDepth /\ c.arraySize = b.arraySize
        /\ c.mipCount = 1 /\ c.data = n
    BY <1>1, <2>2 DEF Bitmap
  <2> HIDE DEF c
  <2>4. ASSUME n # 0, ~ Degenerate(c) PROVE Exact(c)
    <3>1. ~ Degenerate(b) /\ second # NullPointer /\ n = second * b.arraySize
      BY <1>4, <2>3, <2>4 DEF Degenerate, Resized
    <3>2. second = LevelBytes(b, 0)
      BY <1>1, <1>4, <3>1, SecondLevel DEF second
    <3>3. LevelBytes(c, 0) = LevelBytes(b, 0)
      BY <2>3 DEF LevelBytes, IsCompressed
    <3> QED BY <2>3, <3>1, <3>2, <3>3, OneLevel DEF Exact
  <2>5. Sound(c)
    BY <1>1, <1>4, <2>3, <2>4, ValidFacts, ExactIsSound DEF IsValid
  <2> QED BY <1>1, <1>4, <2>3, <2>5, ReturnKeepsIInv DEF c
<1> QED BY <1>2, <1>3, <1>4 DEF DropMipMaps

-----------------------------------------------------------------------------
(* The theorems                                                            *)

LEMMA DestroyKeepsIInv ==
  ASSUME IInv, NEW h \in Handles, Destroy(h)
  PROVE  IInv'
<1>1. bitmap[h] \in Bitmap /\ "Destroy" \in Operations
  BY DEF IInv, TypeOK, Operations
<1>2. Return("Destroy", h, TRUE, Destroyed(bitmap[h]))
  BY DEF Destroy
<1> QED BY <1>1, <1>2, DestroyedIsSound, ReturnKeepsIInv

(* The default bitmap has no type and no buffer.                           *)
LEMMA InitSound == Init => IInv
<1> SUFFICES ASSUME Init PROVE IInv
  OBVIOUS
<1> DEFINE b == Sized("INVALID", PIXEL_FORMAT_UNKNOWN, 0, 0, 0, 0, 1)
<1>1. b \in Bitmap
  <2>1. "INVALID" \in TextureType /\ PIXEL_FORMAT_UNKNOWN \in PixelFormat
    BY DEF TextureType, PixelFormat, PIXEL_FORMAT_UNKNOWN, PIXEL_FORMAT_SENTINEL
  <2> QED BY <2>1, SizedType
<1>2. b.type = "INVALID" /\ b.data = 0
  BY DEF Sized
<1>3. bitmap = [h \in Handles |-> b]
        /\ result = [op |-> "None", handle |-> CHOOSE h \in Handles : TRUE, ok |-> TRUE]
  BY DEF Init
<1> HIDE DEF b
<1>4. Sound(b)
  BY <1>2 DEF Sound, IsValid
<1>5. (CHOOSE h \in Handles : TRUE) \in Handles /\ "None" \in Operations
  BY HandlesAssumption DEF Operations
<1>6. result \in [op : Operations, handle : Handles, ok : BOOLEAN]
  BY <1>3, <1>5
<1> QED BY <1>1, <1>3, <1>4, <1>6 DEF IInv, TypeOK

(* Every call, with any arguments, keeps the invariant.                    *)
LEMMA NextKeepsIInv == IInv /\ [Next]_vars => IInv'
<1> SUFFICES ASSUME IInv, [Next]_vars PROVE IInv'
  OBVIOUS
<1>1. CASE UNCHANGED vars
  BY <1>1 DEF vars, IInv, TypeOK, Sound, IsValid, Degenerate, Exact, Truncated, BlockVolume
<1>2. ASSUME NEW h \in Handles,
             Destroy(h) \/ CreateAny(h) \/ ConvertAny(h) \/ ReshapeAny(h) \/ MipMapAny(h) \/ MoveAny(h)
      PROVE  IInv'
  <2>1. CASE Destroy(h)
    BY <2>1, DestroyKeepsIInv
  <2>2. CASE CreateAny(h)
    BY <2>2, CreateKeepsIInv
  <2>3. CASE ConvertAny(h)
    BY <2>3, ChangeFormatKeepsIInv, ConvertFormatKeepsIInv, CopyKeepsIInv DEF ConvertAny
  <2>4. CASE ReshapeAny(h)
    BY <2>4, CopyKeepsIInv, CropKeepsIInv, RotateFaceKeepsIInv, Downsample2x2KeepsIInv,
       CrossmapKeepsIInv, ConvertToVolumeKeepsIInv DEF ReshapeAny
  <2>5. CASE MipMapAny(h)
    BY <2>5, GenerateMipMapsKeepsIInv, DropMipMapsKeepsIInv DEF MipMapAny
  <2>6. CASE MoveAny(h)
    BY <2>6, MoveKeepsIInv
  <2> QED BY <1>2, <2>1, <2>2, <2>3, <2>4, <2>5, <2>6
<1> QED BY <1>1, <1>2 DEF Next

(* Whatever the caller does, every bitmap stays sound.                     *)
THEOREM Soundness == Spec => []IInv
<1>1. Init => IInv
  BY InitSound
<1>2. IInv /\ [Next]_vars => IInv'
  BY NextKeepsIInv
<1> QED BY <1>1, <1>2, PTL DEF Spec

(* The variables stay in their types, whatever the caller does.            *)
THEOREM Typing == Spec => []TypeOK
<1>1. IInv => TypeOK
  BY DEF IInv
<1> QED BY <1>1, Soundness, PTL

(* Every sequence of calls leaves a valid bitmap with the buffer that      *)
(* GetDataSize computes for its dimensions, but for the two leaks that     *)
(* BufferMatchesDimensions names: for all sizes, formats, mip counts and   *)
(* array sizes, and with any allocation refused.                           *)
THEOREM BufferCorrectness == Spec => []BufferMatchesDimensions
<1>1. IInv => BufferMatchesDimensions
  BY DEF IInv, Sound, BufferMatchesDimensions
<1> QED BY <1>1, Soundness, PTL

(* A valid bitmap that is no volume has one slice, so that GetMipRawData   *)
(* and GetDataSize agree about its depth.                                  *)
THEOREM DepthCorrectness == Spec => []OnlyVolumesAreDeep
<1>1. IInv => OnlyVolumesAreDeep
  BY DEF IInv, Sound, OnlyVolumesAreDeep
<1> QED BY <1>1, Soundness, PTL

-----------------------------------------------------------------------------
(* The invariant, and what a call may answer                               *)

WholePixels(b) == IsValid(b) /\ ~ IsCompressed(b) => \E k \in Nat : b.data = k * Bpp(b)

(* Every bitmap is sound and holds whole pixels.                           *)
WInv == IInv /\ \A h \in Handles : WholePixels(bitmap[h])

MayLeaveNothing ==
  {"None", "Destroy", "MoveConstruct", "MoveAssign", "CreateCube", "CreateVolume", "Crop", "DropMipMaps"}

MayRevive == Creations \union {"MoveConstruct", "MoveAssign", "GenerateMipMaps"}

Conversions == {"ConvertFormat", "ChangeFormat"}

SamePixels(a, b) == b.data * Bpp(a) = a.data * Bpp(b)

Kept(op, a, b) ==
  b = a \/ ~ IsValid(b) \/ (op = "GenerateMipMaps" /\ b = [a EXCEPT !.mipCount = 0])

(* The call op found the bitmap a, left b and answered ok.                 *)
Fair(op, ok, a, b) ==
  /\ ok => IsValid(b) \/ op \in MayLeaveNothing
  /\ ~ ok /\ op \notin Creations => Kept(op, a, b)
  /\ ~ IsValid(a) /\ IsValid(b) => op \in MayRevive
  /\ op \in Conversions /\ IsValid(b) => SamePixels(a, b)
  /\ WholePixels(b)

(* The same of the step of the program, for all of its bitmaps.            *)
FairStep ==
  /\ \A h \in Handles : WholePixels(bitmap'[h])
  /\ result'.ok => IsValid(bitmap'[result'.handle]) \/ result'.op \in MayLeaveNothing
  /\ ~ result'.ok /\ result'.op \notin Creations =>
       \A h \in Handles : Kept(result'.op, bitmap[h], bitmap'[h])
  /\ \A h \in Handles : ~ IsValid(bitmap[h]) /\ IsValid(bitmap'[h]) => result'.op \in MayRevive
  /\ \A h \in Handles :
       result'.op \in Conversions /\ IsValid(bitmap'[h]) => SamePixels(bitmap[h], bitmap'[h])

(* A call changes its own bitmap only: a fair answer makes a fair step.    *)
LEMMA ReturnIsFair ==
  ASSUME WInv, NEW h \in Handles, NEW op, NEW ok \in BOOLEAN, NEW b,
         Return(op, h, ok, b), Fair(op, ok, bitmap[h], b)
  PROVE  FairStep
<1>1. bitmap \in [Handles -> Bitmap] /\ bitmap' = [bitmap EXCEPT ![h] = b]
  BY DEF WInv, IInv, TypeOK, Return
<1>2. bitmap'[h] = b /\ \A g \in Handles : g # h => bitmap'[g] = bitmap[g]
  BY <1>1
<1>3. result'.op = op /\ result'.handle = h /\ result'.ok = ok
  BY DEF Return
<1>4. \A g \in Handles : WholePixels(bitmap'[g])
  BY <1>2 DEF WInv, Fair
<1>5. ~ ok /\ op \notin Creations => \A g \in Handles : Kept(op, bitmap[g], bitmap'[g])
  BY <1>2 DEF Fair, Kept
<1>6. \A g \in Handles : op \in Conversions /\ IsValid(bitmap'[g]) => SamePixels(bitmap[g], bitmap'[g])
  BY <1>2 DEF Fair, SamePixels
<1>7. \A g \in Handles : ~ IsValid(bitmap[g]) /\ IsValid(bitmap'[g]) => op \in MayRevive
  BY <1>2 DEF Fair
<1>8. ok => IsValid(bitmap'[h]) \/ op \in MayLeaveNothing
  BY <1>2 DEF Fair
<1> QED BY <1>3, <1>4, <1>5, <1>6, <1>7, <1>8 DEF FairStep

(* What is known of the bitmap that a call is made on.                     *)
LEMMA HandleFacts ==
  ASSUME WInv, NEW h \in Handles
  PROVE  bitmap[h] \in Bitmap /\ Sound(bitmap[h]) /\ WholePixels(bitmap[h])
BY DEF WInv, IInv, TypeOK

(* A call that leaves the bitmap as it found it: turned away, or with      *)
(* nothing to do, or writing into the buffer that is there.                *)
LEMMA UnchangedIsFair ==
  ASSUME WInv, NEW h \in Handles, NEW op, NEW ok \in BOOLEAN,
         ok => IsValid(bitmap[h]), Return(op, h, ok, bitmap[h])
  PROVE  FairStep
<1>1. Fair(op, ok, bitmap[h], bitmap[h])
  BY HandleFacts DEF Fair, Kept, SamePixels
<1> QED BY <1>1, ReturnIsFair

LEMMA RefuseIsFair ==
  ASSUME WInv, NEW h \in Handles, NEW op, Refuse(op, h)
  PROVE  FairStep
BY UnchangedIsFair DEF Refuse

(* A call that says no and leaves no buffer.                               *)
LEMMA EmptyIsFair ==
  ASSUME WInv, NEW h \in Handles, NEW op, NEW ok \in BOOLEAN, NEW b, b.data = 0,
         ok => op \in MayLeaveNothing, Return(op, h, ok, b)
  PROVE  FairStep
<1>1. Fair(op, ok, bitmap[h], b)
  BY DEF Fair, Kept, IsValid, WholePixels
<1> QED BY <1>1, ReturnIsFair

LEMMA DestroyedIsEmpty ==
  ASSUME NEW b \in Bitmap
  PROVE  Destroyed(b).data = 0
BY DEF Destroyed, Bitmap

(* A buffer as large as the dimensions call for holds whole pixels.        *)
LEMMA ExactIsWhole ==
  ASSUME NEW b \in Bitmap, Exact(b)
  PROVE  WholePixels(b)
BY PixelsTimesBytes DEF WholePixels, Exact

LEMMA ResizedIsWhole ==
  ASSUME NEW b \in Bitmap, NEW n \in Resized(GetDataSize(b))
  PROVE  WholePixels([b EXCEPT !.data = n])
<1> DEFINE c == [b EXCEPT !.data = n]
<1>1. n \in Nat /\ (n = 0 \/ n = GetDataSize(b))
  BY DataSizeType DEF Resized
<1>2. c \in Bitmap /\ c.data = n
  BY <1>1 DEF Bitmap
<1>3. n # 0 => Exact(c)
  BY <1>1, <1>2, DataSizeIgnoresData DEF Exact
<1> HIDE DEF c
<1>4. WholePixels(c)
  BY <1>2, <1>3, ExactIsWhole DEF WholePixels, IsValid
<1> QED BY <1>4 DEF c

-----------------------------------------------------------------------------
(* Creation and moves                                                      *)

LEMMA CreateCheckedIsFair ==
  ASSUME WInv, NEW h \in Handles, NEW op \in Creations, NEW refused \in BOOLEAN, NEW b \in Bitmap,
         CreateChecked(op, h, refused, b)
  PROVE  FairStep
<1>1. CASE refused
  <2>1. Return(op, h, FALSE, Destroyed(bitmap[h]))
    BY <1>1 DEF CreateChecked
  <2> QED BY <2>1, HandleFacts, DestroyedIsEmpty, EmptyIsFair
<1>2. CASE ~ refused
  <2>1. PICK n \in Resized(GetDataSize(b)) :
          \/ n # 0 /\ Return(op, h, TRUE, [b EXCEPT !.data = n])
          \/ n = 0 /\ Return(op, h, FALSE, Destroyed(b))
    BY <1>2 DEF CreateChecked
  <2> DEFINE c == [b EXCEPT !.data = n]
  <2>2. c.data = n /\ WholePixels(c)
    BY ResizedIsWhole DEF Bitmap
  <2>3. CASE n # 0 /\ Return(op, h, TRUE, c)
    <3> HIDE DEF c
    <3>1. Fair(op, TRUE, bitmap[h], c)
      BY <2>2, <2>3 DEF Fair, IsValid, MayRevive, Conversions, Creations
    <3> QED BY <2>3, <3>1, ReturnIsFair
  <2>4. CASE Return(op, h, FALSE, Destroyed(b))
    BY <2>4, DestroyedIsEmpty, EmptyIsFair
  <2> QED BY <2>1, <2>3, <2>4
<1> QED BY <1>1, <1>2

LEMMA CreateUncheckedIsFair ==
  ASSUME WInv, NEW h \in Handles, NEW op \in {"CreateCube", "CreateVolume"}, NEW refused \in BOOLEAN,
         NEW b \in Bitmap, CreateUnchecked(op, h, refused, b)
  PROVE  FairStep
<1>1. CASE refused
  <2>1. Return(op, h, FALSE, Destroyed(bitmap[h]))
    BY <1>1 DEF CreateUnchecked
  <2> QED BY <2>1, HandleFacts, DestroyedIsEmpty, EmptyIsFair
<1>2. CASE ~ refused
  <2>1. PICK n \in Resized(GetDataSize(b)) : Return(op, h, TRUE, [b EXCEPT !.data = n])
    BY <1>2 DEF CreateUnchecked
  <2> DEFINE c == [b EXCEPT !.data = n]
  <2>2. WholePixels(c)
    BY ResizedIsWhole
  <2> HIDE DEF c
  <2>3. Fair(op, TRUE, bitmap[h], c)
    BY <2>2 DEF Fair, MayLeaveNothing, MayRevive, Conversions, Creations
  <2> QED BY <2>1, <2>3, ReturnIsFair DEF c
<1> QED BY <1>1, <1>2

(* Every creation is one of the two, or allocates for given dimensions.    *)
LEMMA CreateIsFair ==
  ASSUME WInv, NEW h \in Handles, CreateAny(h)
  PROVE  FairStep
<1> USE ShapesAssumption, FormatsAssumption, CountsAssumption
<1>1. {"2D", "3D", "CUBE"} \subseteq TextureType /\ 1 \in Nat /\ 6 \in Nat
  BY DEF TextureType
<1>2. \A t \in {"2D", "3D", "CUBE"}, f \in Formats, x, y, z, m, a \in Nat : Sized(t, f, x, y, z, m, a) \in Bitmap
  BY <1>1, SizedType
<1>3. ASSUME NEW s \in Shapes, NEW m \in MipArgs, NEW f \in Formats, Create(h, s[1], s[2], m, f)
      PROVE  FairStep
  <2> DEFINE b == Sized("2D", f, s[1], s[2], 1, m, 1)
             refused == s[1] = 0 \/ s[2] = 0 \/ f >= PIXEL_FORMAT_SENTINEL \/ NotWholeBlocks(f, s[1], s[2])
  <2>1. b \in Bitmap /\ refused \in BOOLEAN /\ CreateChecked("Create", h, refused, b)
    BY <1>2, <1>3 DEF Create
  <2> HIDE DEF b, refused
  <2> QED BY <2>1, CreateCheckedIsFair DEF Creations
<1>4. ASSUME NEW s \in Shapes, NEW m \in MipArgs, NEW f \in Formats, NEW a \in ArraySizes,
             Create2DArray(h, s[1], s[2], m, a, f)
      PROVE  FairStep
  <2> DEFINE b == Sized("2D", f, s[1], s[2], 1, m, a)
             refused == \/ s[1] = 0 \/ s[2] = 0 \/ a = 0 \/ f >= PIXEL_FORMAT_SENTINEL
                        \/ NotWholeBlocks(f, s[1], s[2])
  <2>1. b \in Bitmap /\ refused \in BOOLEAN /\ CreateChecked("Create2DArray", h, refused, b)
    BY <1>2, <1>4 DEF Create2DArray
  <2> HIDE DEF b, refused
  <2> QED BY <2>1, CreateCheckedIsFair DEF Creations
<1>5. ASSUME NEW s \in Shapes, NEW m \in MipArgs, NEW f \in Formats, CreateCube(h, s[1], m, f)
      PROVE  FairStep
  <2> DEFINE b == Sized("CUBE", f, s[1], s[1], 1, m, 6)
             refused == s[1] = 0 \/ f >= PIXEL_FORMAT_SENTINEL \/ NotWholeBlocks(f, s[1], s[1])
  <2>1. b \in Bitmap /\ refused \in BOOLEAN /\ CreateUnchecked("CreateCube", h, refused, b)
    BY <1>2, <1>5 DEF CreateCube
  <2> HIDE DEF b, refused
  <2> QED BY <2>1, CreateUncheckedIsFair
<1>6. ASSUME NEW s \in Shapes, NEW m \in MipArgs, NEW f \in Formats, CreateVolume(h, s[1], s[2], s[3], m, f)
      PROVE  FairStep
  <2> DEFINE b == Sized("3D", f, s[1], s[2], s[3], m, 1)
             refused == s[1] = 0 \/ f >= PIXEL_FORMAT_SENTINEL \/ NotWholeBlocks(f, s[1], s[2])
  <2>1. b \in Bitmap /\ refused \in BOOLEAN /\ CreateUnchecked("CreateVolume", h, refused, b)
    BY <1>2, <1>6 DEF CreateVolume
  <2> HIDE DEF b, refused
  <2> QED BY <2>1, CreateUncheckedIsFair
<1>7. ASSUME NEW b \in ReadDimensions, CreateFromBitmapDimensions(h, b)
      PROVE  FairStep
  <2> DEFINE op == "CreateFromBitmapDimensions"
  <2>1. b \in Bitmap
    BY SMTT(30), <1>1, <1>2 DEF ReadDimensions
  <2>2. CASE Refuse(op, h)
    BY <2>2, RefuseIsFair
  <2>3. ASSUME NEW n \in Resized(GetDataSize(b)), Return(op, h, n # 0, [b EXCEPT !.data = n])
        PROVE  FairStep
    <3> DEFINE c == [b EXCEPT !.data = n]
    <3>1. c.data = n /\ WholePixels(c)
      BY <2>1, ResizedIsWhole DEF Bitmap
    <3> HIDE DEF c
    <3>2. Fair(op, n # 0, bitmap[h], c)
      BY <3>1 DEF Fair, IsValid, MayRevive, Conversions, Creations
    <3> QED BY <2>3, <3>2, ReturnIsFair DEF c
  <2> QED BY <1>7, <2>2, <2>3 DEF CreateFromBitmapDimensions
<1> QED BY <1>3, <1>4, <1>5, <1>6, <1>7 DEF CreateAny

(* A move always succeeds, and both bitmaps were there before.             *)
LEMMA MoveIsFair ==
  ASSUME WInv, NEW h \in Handles, MoveAny(h)
  PROVE  FairStep
<1>1. PICK other \in Handles : MoveConstruct(h, other) \/ MoveAssign(h, other)
  BY DEF MoveAny
<1>2. bitmap \in [Handles -> Bitmap] /\ \A g \in Handles : WholePixels(bitmap[g])
  BY DEF WInv, IInv, TypeOK
<1>3. result'.ok = TRUE /\ result'.op \in {"MoveConstruct", "MoveAssign"}
  BY <1>1 DEF MoveConstruct, MoveAssign
<1>4. \A g \in Handles : WholePixels(bitmap'[g])
  <2>1. CASE MoveConstruct(h, other)
    <3> DEFINE left == [bitmap[other] EXCEPT !.data = 0]
    <3>1. bitmap' = [bitmap EXCEPT ![h] = bitmap[other], ![other] = left] /\ left.data = 0
      BY <1>2, <2>1 DEF MoveConstruct, Bitmap
    <3> HIDE DEF left
    <3>2. WholePixels(left)
      BY <3>1 DEF WholePixels, IsValid
    <3> QED BY <1>2, <3>1, <3>2
  <2>2. CASE MoveAssign(h, other)
    <3>1. bitmap' = [bitmap EXCEPT ![h] = bitmap[other], ![other] = bitmap[h]]
      BY <2>2 DEF MoveAssign
    <3> QED BY <1>2, <3>1
  <2> QED BY <1>1, <2>1, <2>2
<1> QED BY <1>3, <1>4 DEF FairStep, MayLeaveNothing, MayRevive, Conversions

-----------------------------------------------------------------------------
(* Pixel formats                                                           *)

LEMMA ChangeFormatIsFair ==
  ASSUME WInv, NEW h \in Handles, NEW f \in Formats, ChangeFormat(h, f)
  PROVE  FairStep
<1> DEFINE b  == bitmap[h]
           c  == [b EXCEPT !.format = f]
           op == "ChangeFormat"
<1>1. b \in Bitmap /\ WholePixels(b) /\ f \in PixelFormat
  BY HandleFacts, FormatsAssumption
<1>2. CASE Refuse(op, h)
  BY <1>2, RefuseIsFair
<1>3. CASE /\ IsValid(b) /\ ~ IsCompressed(b) /\ GetBytesPerPixel(f) = GetBytesPerPixel(b.format)
           /\ Return(op, h, TRUE, c)
  <2> HIDE DEF b
  <2>1. c.data = b.data /\ c.format = f
    BY <1>1 DEF Bitmap
  <2> HIDE DEF c
  <2>2. IsValid(c) /\ Bpp(c) = Bpp(b)
    BY <1>3, <2>1 DEF IsValid, Bpp
  <2>3. WholePixels(c) /\ SamePixels(b, c)
    BY <1>1, <1>3, <2>1, <2>2 DEF WholePixels, SamePixels
  <2>4. Fair(op, TRUE, b, c)
    BY <1>3, <2>2, <2>3 DEF Fair
  <2> QED BY <1>3, <2>4, ReturnIsFair DEF b
<1> QED BY <1>2, <1>3 DEF ChangeFormat

(* A transition multiplies or divides the bytes of each pixel: nothing is  *)
(* lost, because there are only whole pixels.                              *)
LEMMA ConvertFormatIsFair ==
  ASSUME WInv, NEW h \in Handles, NEW f \in Formats, ConvertFormat(h, f)
  PROVE  FairStep
<1> DEFINE b    == bitmap[h]
           step == <<b.format, f>>
           op   == "ConvertFormat"
<1>1. b \in Bitmap /\ WholePixels(b) /\ f \in PixelFormat
  BY HandleFacts, FormatsAssumption
<1>2. CASE Refuse(op, h)
  BY <1>2, RefuseIsFair
<1>3. CASE IsValid(b) /\ Return(op, h, TRUE, b)
  BY <1>3, UnchangedIsFair
<1>4. CASE Return(op, h, FALSE, Destroyed(b))
  BY <1>1, <1>4, DestroyedIsEmpty, EmptyIsFair
<1>5. CASE IsValid(b) /\ step \in InPlace /\ Return(op, h, TRUE, [b EXCEPT !.format = f])
  <2> DEFINE c == [b EXCEPT !.format = f]
  <2> HIDE DEF b
  <2>1. c.data = b.data /\ c.format = f
    BY <1>1 DEF Bitmap
  <2> HIDE DEF c
  <2>2. ~ IsCompressed(b) /\ Bpp(b) = 4 /\ Bpp(c) = 4
    BY <1>5, <2>1, TransitionFacts DEF IsCompressed, Bpp
  <2>3. IsValid(c) /\ WholePixels(c) /\ SamePixels(b, c)
    BY <1>1, <1>5, <2>1, <2>2 DEF IsValid, WholePixels, SamePixels
  <2>4. Fair(op, TRUE, b, c)
    BY <1>5, <2>3 DEF Fair
  <2> QED BY <1>5, <2>4, ReturnIsFair DEF b, c
<1>6. ASSUME IsValid(b), step \in Narrowing \union Widening,
             NEW n \in Resized(ConvertedSize(b, f)), n # 0,
             Return(op, h, TRUE, [b EXCEPT !.data = n, !.format = f])
      PROVE  FairStep
  <2> DEFINE c == [b EXCEPT !.data = n, !.format = f]
  <2> HIDE DEF b
  <2>1. c.data = n /\ c.format = f
    BY <1>1 DEF Bitmap
  <2> HIDE DEF c
  <2>2. ~ IsCompressed(b) /\ Bpp(b) \in {1, 2, 4} /\ Bpp(c) \in {1, 4}
    BY <1>6, <2>1, TransitionFacts DEF IsCompressed, Bpp
  <2>3. PICK k \in Nat : b.data = k * Bpp(b)
    BY <1>1, <1>6, <2>2 DEF WholePixels
  <2>4. b.data \div GetBytesPerPixel(b.format) = k
    BY <2>2, <2>3 DEF Bpp
  <2>5. ConvertedSize(b, f) = k * Bpp(c)
    <3>1. CASE step \in Narrowing
      BY <2>1, <2>4, <3>1, TransitionFacts DEF ConvertedSize, Bpp
    <3>2. CASE step \in Widening
      BY <2>1, <2>4, <3>2, TransitionFacts DEF ConvertedSize, Bpp
    <3> QED BY <1>6, <3>1, <3>2
  <2>6. n = k * Bpp(c)
    BY <1>6, <2>5 DEF Resized
  <2>7. IsValid(c) /\ WholePixels(c)
    BY <1>6, <2>1, <2>6 DEF IsValid, WholePixels
  <2>8. SamePixels(b, c)
    BY <2>1, <2>2, <2>3, <2>6 DEF SamePixels
  <2>9. Fair(op, TRUE, b, c)
    BY <1>6, <2>7, <2>8 DEF Fair
  <2> QED BY <1>6, <2>9, ReturnIsFair DEF b, c
<1> QED BY <1>2, <1>3, <1>4, <1>5, <1>6 DEF ConvertFormat

(* PopulateMargin and CopyChannel say yes only to a bitmap with a buffer.  *)
LEMMA CopyIsFair ==
  ASSUME WInv, NEW h \in Handles,
         \/ \E margin \in Edges : PopulateMargin(h, margin)
         \/ \E source \in Handles, i, j \in 0 .. 3 : CopyChannel(h, source, i, j)
  PROVE  FairStep
<1>1. ASSUME NEW margin \in Edges, PopulateMargin(h, margin) PROVE FairStep
  <2>1. /\ CanPopulateMargin(bitmap[h], margin) \in BOOLEAN
        /\ CanPopulateMargin(bitmap[h], margin) => IsValid(bitmap[h])
    BY DEF CanPopulateMargin
  <2> QED BY <1>1, <2>1, UnchangedIsFair DEF PopulateMargin
<1>2. ASSUME NEW source \in Handles, NEW i \in 0 .. 3, NEW j \in 0 .. 3, CopyChannel(h, source, i, j)
      PROVE  FairStep
  <2>1. /\ ChannelsMatch(bitmap[h], bitmap[source], i, j) \in BOOLEAN
        /\ ChannelsMatch(bitmap[h], bitmap[source], i, j) => IsValid(bitmap[h])
    BY DEF ChannelsMatch
  <2> QED BY <1>2, <2>1, UnchangedIsFair DEF CopyChannel
<1> QED BY <1>1, <1>2

-----------------------------------------------------------------------------
(* Geometry                                                                *)

(* Calls that find a buffer and leave one of whole pixels.                 *)
LEMMA ReshapedIsFair ==
  ASSUME WInv, NEW h \in Handles, NEW op, op \notin Conversions, IsValid(bitmap[h]),
         NEW c, IsValid(c) \/ op \in MayLeaveNothing, WholePixels(c), Return(op, h, TRUE, c)
  PROVE  FairStep
<1>1. Fair(op, TRUE, bitmap[h], c)
  BY DEF Fair
<1> QED BY <1>1, ReturnIsFair

LEMMA Downsample2x2IsFair ==
  ASSUME WInv, NEW h \in Handles, Downsample2x2(h)
  PROVE  FairStep
<1> DEFINE b  == bitmap[h]
           s  == Downsampled(b)
           op == "Downsample2x2"
<1>1. b \in Bitmap /\ Sound(b)
  BY HandleFacts
<1>2. CASE Refuse(op, h)
  BY <1>2, RefuseIsFair
<1>3. ASSUME CanDownsample(b), NEW n \in Resized(FlatChainSize(s, s.mipCount) * s.arraySize),
             \/ n = 0 /\ Return(op, h, FALSE, Destroyed(s))
             \/ n # 0 /\ Return(op, h, TRUE, [s EXCEPT !.data = n])
      PROVE  FairStep
  <2> DEFINE c == [s EXCEPT !.data = n]
  <2>1. IsValid(b) /\ b.type \in {"2D", "CUBE"} /\ b.format \in EightBitFormats
    BY <1>3 DEF CanDownsample
  <2> HIDE DEF b
  <2>2. DownsampledMipCount(b) \in Nat \ {0}
    BY <1>1, WrapAssumption DEF DownsampledMipCount, Larger, Bitmap
  <2>3. b.width \div 2 \in Nat /\ b.height \div 2 \in Nat
    BY <1>1 DEF Bitmap
  <2>4. /\ s \in Bitmap /\ s.type = b.type /\ s.format = b.format
        /\ s.mipCount = DownsampledMipCount(b)
    BY <1>1, <2>2, <2>3 DEF Downsampled, Bitmap
  <2>5. ~ IsCompressed(s)
    BY <1>1, <2>1, <2>4, FormatFacts DEF IsCompressed, Bitmap
  <2> HIDE DEF s
  <2>6. FlatChainSize(s, s.mipCount) * s.arraySize = GetDataSize(s)
    BY <2>1, <2>2, <2>4, <2>5, FlatChainFits
  <2>7. WholePixels(c) /\ c.data = n
    BY <1>3, <2>4, <2>6, ResizedIsWhole DEF Bitmap
  <2>8. CASE n # 0 /\ Return(op, h, TRUE, c)
    <3> HIDE DEF c
    <3> QED BY <2>1, <2>7, <2>8, ReshapedIsFair DEF b, IsValid, Conversions
  <2>9. CASE n = 0 /\ Return(op, h, FALSE, Destroyed(s))
    BY <2>4, <2>9, DestroyedIsEmpty, EmptyIsFair
  <2> QED BY <1>3, <2>8, <2>9
<1> QED BY <1>2, <1>3 DEF Downsample2x2

LEMMA CropIsFair ==
  ASSUME WInv, NEW h \in Handles, NEW left \in Edges, NEW top \in Edges, NEW right \in Edges,
         NEW bottom \in Edges, Crop(h, left, top, right, bottom)
  PROVE  FairStep
<1> DEFINE b == bitmap[h]
           l == Smaller(left, b.width)
           r == Smaller(right, b.width)
           t == Smaller(top, b.height)
           u == Smaller(bottom, b.height)
<1>1. b \in Bitmap
  BY HandleFacts
<1>2. l \in Nat /\ r \in Nat /\ t \in Nat /\ u \in Nat
  BY <1>1, CountsAssumption DEF Smaller, Bitmap
<1>3. CASE Refuse("Crop", h)
  BY <1>3, RefuseIsFair
<1>4. CASE Return("Crop", h, TRUE, Destroyed(b))
  BY <1>1, <1>4, DestroyedIsEmpty, EmptyIsFair DEF MayLeaveNothing
<1>5. ASSUME CanCrop(b), l < r, t < u,
             NEW n \in Resized((r - l) * (u - t) * GetBytesPerPixel(b.format)),
             Return("Crop", h, TRUE, [b EXCEPT !.width = r - l, !.height = u - t, !.data = n])
      PROVE  FairStep
  <2> HIDE DEF b, l, r, t, u
  <2> DEFINE c == [b EXCEPT !.width = r - l, !.height = u - t, !.data = n]
  <2>1. r - l \in Nat /\ u - t \in Nat
    BY <1>2, <1>5
  <2>2. (r - l) * (u - t) \in Nat
    BY <2>1, ProductType
  <2>3. c.data = n /\ c.format = b.format
    BY <1>1 DEF Bitmap
  <2> HIDE DEF c
  <2>4. n = 0 \/ n = ((r - l) * (u - t)) * Bpp(c)
    BY <1>5, <2>3 DEF Resized, Bpp
  <2>5. WholePixels(c)
    BY <2>2, <2>3, <2>4 DEF WholePixels, IsValid
  <2>6. IsValid(b)
    BY <1>5 DEF CanCrop
  <2> QED BY <1>5, <2>5, <2>6, ReshapedIsFair DEF b, c, MayLeaveNothing, Conversions
<1> QED BY <1>3, <1>4, <1>5 DEF Crop

LEMMA RotateFaceIsFair ==
  ASSUME WInv, NEW h \in Handles, NEW face \in 0 .. 5, NEW times \in 0 .. 4,
         RotateFaceClockwise(h, face, times)
  PROVE  FairStep
<1> DEFINE op == "RotateFaceClockwise"
<1>1. Refuse(op, h) \/ (CanRotateFace(bitmap[h], face) /\ Return(op, h, TRUE, bitmap[h]))
  BY DEF RotateFaceClockwise
<1>2. CanRotateFace(bitmap[h], face) => IsValid(bitmap[h])
  BY DEF CanRotateFace
<1> QED BY <1>1, <1>2, RefuseIsFair, UnchangedIsFair

(* A cross has a face at least a pixel wide, and pixels of at least a      *)
(* byte: there is something in the cube.                                   *)
LEMMA CrossmapIsFair ==
  ASSUME WInv, NEW h \in Handles, ConvertCrossmapToCubemap(h)
  PROVE  FairStep
<1> DEFINE op   == "ConvertCrossmapToCubemap"
           b    == bitmap[h]
           side == b.width \div 3
           n    == side * GetBytesPerPixel(b.format) * side * 6
           cube == [b EXCEPT !.type = "CUBE", !.width = side, !.height = side, !.arraySize = 6,
                             !.data = n]
<1>1. b \in Bitmap /\ Sound(b) /\ WholePixels(b)
  BY HandleFacts
<1>2. CASE Refuse(op, h)
  BY <1>2, RefuseIsFair
<1>3. CASE IsCrossmap(b) /\ Return(op, h, TRUE, cube)
  <2> HIDE DEF b
  <2>1. b.width >= 1 /\ b.width % 3 = 0 /\ IsValid(b) /\ ~ IsCompressed(b)
    BY <1>1, <1>3, ValidFacts DEF IsCrossmap
  <2>2. side \in Nat \ {0}
    BY <1>1, <2>1 DEF Bitmap
  <2>3. Bpp(b) \in Nat \ {0}
    <3>1. PICK k \in Nat : b.data = k * Bpp(b)
      BY <1>1, <2>1 DEF WholePixels
    <3>2. Bpp(b) \in Nat
      BY <1>1, FormatFacts DEF Bpp, Bitmap
    <3> QED BY <2>1, <3>1, <3>2 DEF IsValid
  <2>4. cube.data = n /\ cube.format = b.format
    BY <1>1 DEF Bitmap
  <2> HIDE DEF cube, side
  <2>5. \A x, k \in Nat \ {0} : x * k * x * 6 = (x * x * 6) * k /\ x * x * 6 \in Nat /\ x * k * x * 6 # 0
    <3>1. TAKE x, k \in Nat \ {0}
    <3>2. x * x \in Nat \ {0}
      OBVIOUS
    <3>3. (x * x) * k \in Nat \ {0}
      BY <3>2
    <3>4. x * k * x = (x * x) * k
      OBVIOUS
    <3> QED BY <3>2, <3>3, <3>4
  <2>6. n = side * Bpp(b) * side * 6
    BY DEF Bpp
  <2>7. n = (side * side * 6) * Bpp(b) /\ side * side * 6 \in Nat /\ n # 0
    BY <2>2, <2>3, <2>5, <2>6
  <2> HIDE DEF n
  <2>8. IsValid(cube) /\ WholePixels(cube)
    BY <2>4, <2>7 DEF IsValid, WholePixels, Bpp
  <2> QED BY <1>3, <2>1, <2>8, ReshapedIsFair DEF b, Conversions
<1> QED BY <1>2, <1>3 DEF ConvertCrossmapToCubemap

LEMMA ConvertToVolumeIsFair ==
  ASSUME WInv, NEW h \in Handles, ConvertToVolume(h)
  PROVE  FairStep
<1> DEFINE op     == "ConvertToVolume"
           b      == bitmap[h]
           c      == CubeSize(b)
           n      == RowPitch(b) * c * c
           volume == [b EXCEPT !.type = "3D", !.mipCount = 1, !.width = c, !.height = c,
                               !.volumeDepth = c, !.data = n]
<1>1. b \in Bitmap /\ Sound(b)
  BY HandleFacts
<1>2. CASE Refuse(op, h)
  BY <1>2, RefuseIsFair
<1>3. CASE CanConvertToVolume(b) /\ volume.data # 0 /\ Return(op, h, TRUE, volume)
  <2> HIDE DEF b
  <2>1. IsValid(b) /\ b.width >= 1
    BY <1>1, <1>3, ValidFacts DEF CanConvertToVolume
  <2>2. volume.data = n /\ volume.format = b.format
    BY <1>1 DEF Bitmap
  <2>3. ~ IsCompressed(b) => RowPitch(b) = Bpp(b) * c
    BY <1>1, <2>1, RowPitchFits
  <2>4. c \in Nat /\ Bpp(b) \in Nat
    BY <1>1, <2>1, CubeSizeFits, FormatFacts DEF Bitmap, Bpp
  <2> HIDE DEF volume, c
  <2>5. \A x, k \in Nat : (k * x) * x * x = (x * x * x) * k /\ x * x * x \in Nat
    OBVIOUS
  <2>6. ~ IsCompressed(b) => n = (c * c * c) * Bpp(b) /\ c * c * c \in Nat
    BY <2>3, <2>4, <2>5
  <2> HIDE DEF n
  <2>7. IsValid(volume) /\ WholePixels(volume)
    BY <1>3, <2>2, <2>6 DEF IsValid, WholePixels, Bpp, IsCompressed
  <2> QED BY <1>3, <2>1, <2>7, ReshapedIsFair DEF b, Conversions
<1> QED BY <1>2, <1>3 DEF ConvertToVolume

-----------------------------------------------------------------------------
(* Mip maps                                                                *)

LEMMA GenerateMipMapsIsFair ==
  ASSUME WInv, NEW h \in Handles, NEW levels \in MipArgs, GenerateMipMaps(h, levels)
  PROVE  FairStep
<1> DEFINE op    == "GenerateMipMaps"
           b     == bitmap[h]
           reset == [b EXCEPT !.mipCount = 0]
           n     == LevelsToGenerate(b, levels)
<1>1. b \in Bitmap /\ WholePixels(b) /\ levels \in Nat
  BY HandleFacts, CountsAssumption
<1>2. reset \in Bitmap /\ reset.format = b.format /\ reset.data = b.data
  BY <1>1 DEF Bitmap
<1>3. n \in Nat
  BY <1>1, <1>2, MipCountType DEF LevelsToGenerate
<1>4. CASE Refuse(op, h)
  BY <1>4, RefuseIsFair
<1>5. CASE Return(op, h, FALSE, reset)
  <2>1. Kept(op, b, reset)
    BY DEF Kept
  <2> HIDE DEF reset, b
  <2>2. WholePixels(reset)
    BY <1>1, <1>2 DEF WholePixels, IsValid, IsCompressed, Bpp
  <2>3. Fair(op, FALSE, b, reset)
    BY <2>1, <2>2 DEF Fair, MayRevive, Conversions
  <2> QED BY <1>5, <2>3, ReturnIsFair DEF b
<1>6. CASE Return(op, h, FALSE, [reset EXCEPT !.data = 0])
  <2>1. [reset EXCEPT !.data = 0].data = 0
    BY <1>2 DEF Bitmap
  <2> QED BY <1>6, <2>1, EmptyIsFair
<1>7. ASSUME CanGenerateMipMaps(b), NEW size \in Resized(FlatChainSize(b, n) * b.arraySize), size # 0,
             Return(op, h, TRUE, [b EXCEPT !.mipCount = n, !.data = size])
      PROVE  FairStep
  <2> DEFINE fresh == [b EXCEPT !.mipCount = n]
             c     == [b EXCEPT !.mipCount = n, !.data = size]
  <2> HIDE DEF b, n
  <2>1. size = FlatChainSize(b, n) * b.arraySize
    BY <1>7 DEF Resized
  <2>2. b.type # "3D" /\ ~ IsCompressed(b)
    BY <1>1, <1>7, FormatFacts DEF CanGenerateMipMaps, IsCompressed, Bitmap
  <2>3. n # 0
    <3> SUFFICES ASSUME n = 0 PROVE FALSE
      OBVIOUS
    <3>1. FlatChainSize(b, 0) = 0
      <4>1. [i \in Nat |-> LevelBytes(b, i)] \in [Nat -> Nat]
        BY <1>1, LevelBytesType
      <4>2. FlatChainSize(b, 0) = Total([i \in Nat |-> LevelBytes(b, i)], 0)
        BY <1>1, <2>2, FlatChain
      <4> QED BY <4>1, <4>2, TotalUnfolds
    <3>2. b.arraySize \in Nat
      BY <1>1 DEF Bitmap
    <3> QED BY <1>7, <2>1, <3>1, <3>2
  <2>4. /\ fresh \in Bitmap /\ fresh.type = b.type /\ fresh.format = b.format
        /\ fresh.width = b.width /\ fresh.height = b.height /\ fresh.mipCount = n
        /\ fresh.arraySize = b.arraySize /\ c = [fresh EXCEPT !.data = size]
    BY <1>1, <1>3 DEF Bitmap
  <2> HIDE DEF fresh
  <2>5. size = GetDataSize(fresh)
    BY <1>1, <1>3, <2>1, <2>2, <2>3, <2>4, FlatChainFits
  <2>6. size \in Resized(GetDataSize(fresh))
    BY <2>5 DEF Resized
  <2> HIDE DEF c
  <2>7. c.data = size /\ WholePixels(c)
    BY <2>4, <2>6, ResizedIsWhole DEF Bitmap
  <2>8. Fair(op, TRUE, b, c)
    BY <1>7, <2>7 DEF Fair, IsValid, MayRevive, Conversions
  <2> QED BY <1>7, <2>8, ReturnIsFair DEF b, c
<1> QED BY <1>4, <1>5, <1>6, <1>7 DEF GenerateMipMaps

(* The address of the second level is a number of whole pixels, also in a  *)
(* bitmap without height or depth.                                         *)
LEMMA DropMipMapsIsFair ==
  ASSUME WInv, NEW h \in Handles, DropMipMaps(h)
  PROVE  FairStep
<1> DEFINE op     == "DropMipMaps"
           b      == bitmap[h]
           second == GetMipRawData(b, 1, 0)
<1>1. b \in Bitmap
  BY HandleFacts
<1>2. CASE Refuse(op, h)
  BY <1>2, RefuseIsFair
<1>3. CASE IsValid(b) /\ Return(op, h, TRUE, b)
  BY <1>3, UnchangedIsFair
<1>4. ASSUME IsValid(b),
             NEW n \in IF second = NullPointer THEN {0} ELSE Resized(second * b.arraySize),
             Return(op, h, TRUE, [b EXCEPT !.mipCount = 1, !.data = n])
      PROVE  FairStep
  <2> DEFINE c == [b EXCEPT !.mipCount = 1, !.data = n]
  <2> HIDE DEF b, second
  <2>1. c.data = n /\ c.format = b.format
    BY <1>1 DEF Bitmap
  <2> HIDE DEF c
  <2>2. ASSUME n # 0, ~ IsCompressed(b) PROVE \E k \in Nat : n = k * Bpp(b)
    <3> DEFINE x == GetMipNumRows(b, 0)
               y == GetMipWidth(b, 0)
               z == Larger(Shr(b.volumeDepth, 0), 1)
               a == b.arraySize
    <3>1. n = Stride(b, 0) * a
      BY <1>1, <1>4, <2>2, SecondLevelAddress DEF Resized, second
    <3>2. Stride(b, 0) = x * (y * Bpp(b)) * z
      BY <2>2 DEF Stride, GetMipPitch, Bpp
    <3>3. x \in Nat /\ y \in Nat /\ z \in Nat /\ a \in Nat /\ Bpp(b) \in Nat
      <4>1. b.width \in Nat /\ b.height \in Nat /\ b.volumeDepth \in Nat
        BY <1>1 DEF Bitmap
      <4>2. Shr(b.width, 0) = b.width /\ Shr(b.height, 0) = b.height /\ Shr(b.volumeDepth, 0) = b.volumeDepth
        BY <4>1, ShrUnfolds
      <4>3. y \in Nat /\ GetMipHeight(b, 0) \in Nat /\ z \in Nat
        BY <2>2, <4>1, <4>2 DEF GetMipWidth, GetMipHeight, LevelSide, Larger
      <4>4. x \in Nat
        BY <2>2, <4>3 DEF GetMipNumRows
      <4> QED BY <1>1, <4>3, <4>4, FormatFacts DEF Bpp, Bitmap
    <3> HIDE DEF x, y, z, a
    <3>4. \A p, q, s, e, k \in Nat : (p * (q * k) * s) * e = (p * q * s * e) * k /\ p * q * s * e \in Nat
      OBVIOUS
    <3>5. n = (x * y * z * a) * Bpp(b) /\ x * y * z * a \in Nat
      BY <3>1, <3>2, <3>3, <3>4
    <3> QED BY <3>5
  <2>3. WholePixels(c)
    BY <2>1, <2>2 DEF WholePixels, IsValid, IsCompressed, Bpp
  <2> QED BY <1>4, <2>3, ReshapedIsFair DEF b, c, MayLeaveNothing, Conversions
<1> QED BY <1>2, <1>3, <1>4 DEF DropMipMaps

-----------------------------------------------------------------------------
(* The theorems                                                            *)

LEMMA InitWhole == Init => WInv /\ SuccessMeansValid
<1> SUFFICES ASSUME Init PROVE WInv /\ SuccessMeansValid
  OBVIOUS
<1>1. IInv
  BY InitSound
<1>2. \A h \in Handles : bitmap[h].data = 0
  BY DEF Init, Sized
<1>3. result.op = "None"
  BY DEF Init
<1> QED BY <1>1, <1>2, <1>3 DEF WInv, WholePixels, IsValid, SuccessMeansValid

(* Every call, with any arguments, is fair to all bitmaps.                 *)
LEMMA NextIsFair == WInv /\ Next => FairStep
<1> SUFFICES ASSUME WInv, NEW h \in Handles,
             Destroy(h) \/ CreateAny(h) \/ ConvertAny(h) \/ ReshapeAny(h) \/ MipMapAny(h) \/ MoveAny(h)
      PROVE  FairStep
  BY DEF Next
<1>1. CASE Destroy(h)
  <2>1. Return("Destroy", h, TRUE, Destroyed(bitmap[h]))
    BY <1>1 DEF Destroy
  <2> QED BY <2>1, HandleFacts, DestroyedIsEmpty, EmptyIsFair DEF MayLeaveNothing
<1>2. CASE CreateAny(h)
  BY <1>2, CreateIsFair
<1>3. CASE ConvertAny(h)
  BY <1>3, ChangeFormatIsFair, ConvertFormatIsFair, CopyIsFair DEF ConvertAny
<1>4. CASE ReshapeAny(h)
  BY <1>4, CopyIsFair, CropIsFair, RotateFaceIsFair, Downsample2x2IsFair, CrossmapIsFair,
     ConvertToVolumeIsFair DEF ReshapeAny
<1>5. CASE MipMapAny(h)
  BY <1>5, GenerateMipMapsIsFair, DropMipMapsIsFair DEF MipMapAny
<1>6. CASE MoveAny(h)
  BY <1>6, MoveIsFair
<1> QED BY <1>1, <1>2, <1>3, <1>4, <1>5, <1>6

(* Every step either changes nothing or is fair, and keeps the invariant.  *)
LEMMA StepIsFair ==
  ASSUME WInv, [Next]_vars
  PROVE  WInv' /\ (UNCHANGED vars \/ FairStep)
<1>1. IInv'
  BY NextKeepsIInv DEF WInv
<1>2. CASE UNCHANGED vars
  BY <1>1, <1>2 DEF WInv, vars, WholePixels, IsValid
<1>3. CASE Next
  <2>1. FairStep
    BY <1>3, NextIsFair
  <2> QED BY <1>1, <2>1 DEF WInv, FairStep
<1> QED BY <1>2, <1>3

(* An uncompressed bitmap never holds part of a pixel.                     *)
THEOREM BytesAreWholePixels == Spec => []WInv
<1>1. Init => WInv
  BY InitWhole
<1>2. WInv /\ [Next]_vars => WInv'
  BY StepIsFair
<1> QED BY <1>1, <1>2, PTL DEF Spec

(* After a call said yes there is a bitmap, but for the calls that         *)
(* SuccessMeansValid names.                                                *)
THEOREM SuccessGivesBitmap == Spec => []SuccessMeansValid
<1>1. WInv /\ SuccessMeansValid /\ [Next]_vars => SuccessMeansValid'
  <2> SUFFICES ASSUME WInv, SuccessMeansValid, [Next]_vars PROVE SuccessMeansValid'
    OBVIOUS
  <2>1. CASE UNCHANGED vars
    BY <2>1 DEF vars, SuccessMeansValid, IsValid
  <2>2. CASE FairStep
    BY <2>2 DEF FairStep, SuccessMeansValid, IsValid, MayLeaveNothing
  <2> QED BY <2>1, <2>2, StepIsFair
<1>2. Init => SuccessMeansValid
  BY InitWhole
<1> QED BY <1>1, <1>2, BytesAreWholePixels, PTL DEF Spec

(* A conversion that says no has left the bitmap alone or destroyed its    *)
(* buffer, but for the mip count that GenerateMipMaps resets.              *)
THEOREM FailedCallsLeaveNoHalves == Spec => FailureKeepsOrDestroys
<1>1. WInv /\ [Next]_vars =>
        [~ result'.ok /\ result'.op \notin Creations =>
           \A h \in Handles :
             \/ bitmap'[h] = bitmap[h]
             \/ ~ IsValid(bitmap'[h])
             \/ result'.op = "GenerateMipMaps" /\ bitmap'[h] = [bitmap[h] EXCEPT !.mipCount = 0]]_vars
  BY StepIsFair DEF FairStep, Kept
<1> QED BY <1>1, BytesAreWholePixels, PTL DEF Spec, FailureKeepsOrDestroys

(* A bitmap that lost its buffer gets one again only by being created or   *)
(* moved to, or from GenerateMipMaps.                                      *)
THEOREM LostBuffersStayLost == Spec => NoRevival
<1>1. WInv /\ [Next]_vars =>
        [\A h \in Handles :
           ~ IsValid(bitmap[h]) /\ IsValid(bitmap'[h]) =>
             result'.op \in Creations \union {"MoveConstruct", "MoveAssign", "GenerateMipMaps"}]_vars
  BY StepIsFair DEF FairStep, MayRevive
<1> QED BY <1>1, BytesAreWholePixels, PTL DEF Spec, NoRevival

(* A conversion of formats keeps the number of pixels, in all levels and   *)
(* elements at once.                                                       *)
THEOREM ConversionsKeepPixels == Spec => ConversionKeepsPixels
<1>1. WInv /\ [Next]_vars =>
        [\A h \in Handles :
           result'.op \in {"ConvertFormat", "ChangeFormat"} /\ IsValid(bitmap'[h]) =>
             bitmap'[h].data * GetBytesPerPixel(bitmap[h].format)
               = bitmap[h].data * GetBytesPerPixel(bitmap'[h].format)]_vars
  BY StepIsFair DEF FairStep, SamePixels, Conversions, Bpp
<1> QED BY <1>1, BytesAreWholePixels, PTL DEF Spec, ConversionKeepsPixels

-----------------------------------------------------------------------------
(* Where the levels are                                                    *)

(* A valid bitmap that is sound and not degenerate has something in every  *)
(* direction.                                                              *)
LEMMA ValidIsSolid ==
  ASSUME NEW b \in Bitmap, Sound(b), IsValid(b), ~ Degenerate(b)
  PROVE  Solid(b)
BY ValidFacts DEF Solid, Degenerate, Bitmap

(* Each level ends where the next one or the next element begins.          *)
LEMMA LevelsMeet ==
  ASSUME NEW b, Solid(b), IsValid(b), Exact(b), b.arraySize >= 1,
         NEW level \in 0 .. GetTrueMipCount(b) - 1, NEW i \in 0 .. b.arraySize - 1
  PROVE  GetMipRawData(b, level, i) + GetMipSize(b, level) = LevelEnd(b, level, i)
<1> DEFINE s == [k \in Nat |-> Stride(b, k)]
           n == GetTrueMipCount(b)
           e == GetArrayElementSize(b)
<1>1. b \in Bitmap /\ n \in Nat /\ b.arraySize \in Nat
  BY MipCountType DEF Solid, Bitmap
<1>2. s \in [Nat -> Nat]
  BY <1>1, StrideType
<1>3. level \in Nat /\ level < n /\ i \in Nat /\ i < b.arraySize
  BY <1>1
<1>4. e = Total(s, n)
  BY ElementIsItsLevels
<1>5. s[level] = GetMipSize(b, level)
  BY <1>3, LevelSizesAgree
<1> HIDE DEF s
<1>6. Total(s, level) \in Nat /\ e \in Nat /\ Total(s, level + 1) = Total(s, level) + s[level]
        /\ s[level] \in Nat
  BY <1>1, <1>2, <1>3, <1>4, TotalUnfolds
<1>7. GetMipRawData(b, level, i) = Total(s, level) + e * i
  BY <1>1, <1>3, <1>6, LevelAddress DEF s
<1>8. CASE level + 1 < n
  <2>1. GetMipRawData(b, level + 1, i) = Total(s, level + 1) + e * i
    <3>1. level + 1 \in Nat
      BY <1>3
    <3> QED BY <1>1, <1>3, <1>6, <1>8, <3>1, LevelAddress DEF s
  <2>2. LevelEnd(b, level, i) = GetMipRawData(b, level + 1, i)
    BY <1>8 DEF LevelEnd
  <2>3. e * i \in Nat
    BY <1>3, <1>6, ProductType
  <2> HIDE DEF e, n
  <2> QED BY <1>5, <1>6, <1>7, <2>1, <2>2, <2>3
<1>9. CASE ~ (level + 1 < n)
  <2>1. level + 1 = n
    BY <1>1, <1>3, <1>9
  <2>2. LevelEnd(b, level, i) = (i + 1) * e
    BY <1>9 DEF LevelEnd
  <2> HIDE DEF e, n
  <2>3. (i + 1) * e = e + e * i /\ e * i \in Nat
    BY <1>3, <1>6
  <2>4. e = Total(s, level) + GetMipSize(b, level)
    BY <1>4, <1>5, <1>6, <2>1
  <2> QED BY <1>5, <1>6, <1>7, <2>2, <2>3, <2>4
<1> QED BY <1>8, <1>9

(* The levels of all elements tile the buffer, for all sides, formats,     *)
(* depths, mip counts and array sizes, whatever calls made the bitmap.     *)
THEOREM LayoutCorrectness == Spec => []LevelsTileBuffer
<1>1. IInv => LevelsTileBuffer
  <2> SUFFICES ASSUME IInv, NEW h \in Handles,
                      IsValid(bitmap[h]), ~ Degenerate(bitmap[h]), Exact(bitmap[h])
               PROVE  LET b == bitmap[h]
                      IN  /\ b.arraySize * GetArrayElementSize(b) = b.data
                          /\ \A level \in 0 .. GetTrueMipCount(b) - 1 :
                               /\ GetMipSize(b, level)
                                    = GetMipPitch(b, level) * GetMipNumRows(b, level) * GetMipDepth(b, level)
                               /\ \A i \in 0 .. b.arraySize - 1 :
                                    GetMipRawData(b, level, i) + GetMipSize(b, level) = LevelEnd(b, level, i)
    BY DEF LevelsTileBuffer
  <2> DEFINE b == bitmap[h]
  <2>1. b \in Bitmap /\ Sound(b)
    BY DEF IInv, TypeOK
  <2> HIDE DEF b
  <2>2. Solid(b) /\ IsValid(b) /\ Exact(b) /\ b.arraySize >= 1
    BY <2>1, ValidIsSolid, ValidFacts DEF b
  <2>3. b.arraySize * GetArrayElementSize(b) = b.data
    BY <2>2, ElementIsItsLevels
  <2>4. ASSUME NEW level \in 0 .. GetTrueMipCount(b) - 1
        PROVE  GetMipSize(b, level)
                 = GetMipPitch(b, level) * GetMipNumRows(b, level) * GetMipDepth(b, level)
    <3>1. GetTrueMipCount(b) \in Nat
      BY <2>1, MipCountType
    <3>2. level \in Nat /\ level < GetTrueMipCount(b)
      BY <3>1
    <3> QED BY <2>2, <3>2, LevelSizesAgree
  <2>5. \A level \in 0 .. GetTrueMipCount(b) - 1, i \in 0 .. b.arraySize - 1 :
          GetMipRawData(b, level, i) + GetMipSize(b, level) = LevelEnd(b, level, i)
    BY <2>2, LevelsMeet
  <2> QED BY <2>3, <2>4, <2>5 DEF b
<1> QED BY <1>1, Soundness, PTL

-----------------------------------------------------------------------------
(* The loops over rows, faces and slices                                   *)

(* Some pixels of a row lie in the row, and the row among all rows.        *)
LEMMA RowFits ==
  ASSUME NEW w \in Nat, NEW ht \in Nat, NEW p \in Nat, NEW y \in Nat, NEW x \in Nat, NEW n \in Nat,
         y < ht, x + n <= w
  PROVE  /\ 0 <= y * (w * p) + x * p
         /\ (y * (w * p) + x * p) + n * p <= (y + 1) * (w * p)
         /\ (y + 1) * (w * p) <= w * ht * p
<1>1. w * p \in Nat /\ y * (w * p) \in Nat /\ x * p \in Nat /\ n * p \in Nat
  <2>1. w * p \in Nat /\ x * p \in Nat /\ n * p \in Nat
    BY ProductType
  <2> DEFINE q == w * p
  <2>2. q \in Nat
    BY <2>1
  <2> HIDE DEF q
  <2>3. y * q \in Nat
    BY <2>2, ProductType
  <2> QED BY <2>1, <2>3 DEF q
<1>2. x * p + n * p <= w * p
  <2>1. (x + n) * p <= w * p
    BY ProductGrows
  <2>2. (x + n) * p = x * p + n * p
    OBVIOUS
  <2> QED BY <2>1, <2>2
<1>3. (y + 1) * (w * p) = y * (w * p) + w * p
  <2> DEFINE q == w * p
  <2>1. q \in Nat
    BY <1>1
  <2> HIDE DEF q
  <2>2. (y + 1) * q = y * q + q
    BY <2>1
  <2> QED BY <2>2 DEF q
<1>4. (y + 1) * (w * p) <= ht * (w * p)
  <2> DEFINE q == w * p
  <2>1. q \in Nat
    BY <1>1
  <2> HIDE DEF q
  <2>2. (y + 1) * q <= ht * q
    BY <2>1, ProductGrows
  <2> QED BY <2>2 DEF q
<1>5. ht * (w * p) = w * ht * p
  OBVIOUS
<1> QED BY <1>1, <1>2, <1>3, <1>4, <1>5

(* A valid picture has a buffer of at least its first level.               *)
LEMMA PictureFacts ==
  ASSUME NEW b \in Bitmap, Sound(b), IsValid(b), b.type \in {"2D", "CUBE"}, b.height # 0,
         ~ IsCompressed(b)
  PROVE  /\ b.width \in Nat \ {0} /\ b.height \in Nat \ {0} /\ Bpp(b) \in Nat
         /\ b.arraySize \in Nat \ {0} /\ b.data \in Nat
         /\ GetPitch(b) = b.width * Bpp(b)
         /\ LevelBytes(b, 0) = b.width * b.height * Bpp(b)
         /\ b.mipCount = 1 => b.data = (b.width * b.height * Bpp(b)) * b.arraySize
         /\ (b.width * b.height * Bpp(b)) * b.arraySize <= b.data
<1>1. /\ b.width \in Nat \ {0} /\ b.height \in Nat \ {0} /\ Bpp(b) \in Nat
      /\ b.arraySize \in Nat \ {0} /\ b.data \in Nat
  BY ValidFacts, FormatFacts DEF Bitmap, Bpp
<1>2. GetPitch(b) = b.width * Bpp(b)
  BY DEF GetPitch, Bpp
<1>3. LevelBytes(b, 0) = b.width * b.height * Bpp(b)
  <2>1. LevelBytes(b, 0) = b.width * b.height * Slices(b) * Bpp(b) /\ Slices(b) = 1
    BY TopLevel DEF Slices
  <2>2. b.width * b.height * 1 = b.width * b.height
    BY <1>1
  <2> QED BY <2>1, <2>2
<1>4. Exact(b) \/ Truncated(b)
  BY DEF Sound, Degenerate, BlockVolume
<1>5. GetTrueMipCount(b) \in Nat /\ GetTrueMipCount(b) >= 1
  BY <1>1, MipCountType, SomeLevel
<1> DEFINE t == [i \in Nat |-> LevelBytes(b, i)]
           top == LevelBytes(b, 0)
           c == [b EXCEPT !.mipCount = 1]
<1>6. t \in [Nat -> Nat] /\ t[0] = top /\ top \in Nat
  BY LevelBytesType
<1>7. CASE Exact(b)
  <2>1. b.data = Total(t, GetTrueMipCount(b)) * b.arraySize
    BY <1>7 DEF Exact, GetDataSize
  <2> HIDE DEF t, top
  <2>2. Total(t, 1) = top /\ Total(t, 1) <= Total(t, GetTrueMipCount(b))
    BY <1>5, <1>6, TotalOfOne, TotalGrows
  <2>3. Total(t, GetTrueMipCount(b)) \in Nat
    BY <1>5, <1>6, TotalUnfolds
  <2>4. top * b.arraySize <= b.data
    BY <1>1, <1>6, <2>1, <2>2, <2>3, ProductGrows
  <2>5. b.mipCount = 1 => b.data = top * b.arraySize
    BY <2>1, <2>2 DEF GetTrueMipCount
  <2> QED BY <1>1, <1>2, <1>3, <2>4, <2>5 DEF top
<1>8. CASE Truncated(b)
  <2>1. /\ c \in Bitmap /\ c.mipCount = 1 /\ c.width = b.width /\ c.height = b.height
        /\ c.type = b.type /\ c.volumeDepth = b.volumeDepth /\ c.arraySize = b.arraySize
        /\ c.format = b.format
    BY DEF Bitmap
  <2>2. b.data = GetDataSize(c) /\ b.mipCount = 0
    BY <1>8 DEF Truncated
  <2> HIDE DEF c
  <2>3. GetDataSize(c) = LevelBytes(c, 0) * b.arraySize
    BY <2>1, OneLevel
  <2>4. LevelBytes(c, 0) = LevelBytes(b, 0)
    BY <2>1 DEF LevelBytes, IsCompressed
  <2> QED BY <1>1, <1>2, <1>3, <2>2, <2>3, <2>4
<1> QED BY <1>4, <1>7, <1>8

(* One picture, of as many rows as it is high.                             *)
LEMMA OnePicture ==
  ASSUME NEW b \in Bitmap, Sound(b), IsValid(b), b.type = "2D", b.arraySize <= 1, b.height # 0,
         ~ IsCompressed(b)
  PROVE  /\ b.width \in Nat \ {0} /\ b.height \in Nat \ {0} /\ Bpp(b) \in Nat /\ b.data \in Nat
         /\ b.width * b.height * Bpp(b) <= b.data
         /\ GetPitch(b) = b.width * Bpp(b)
<1>1. /\ b.width \in Nat \ {0} /\ b.height \in Nat \ {0} /\ Bpp(b) \in Nat /\ b.data \in Nat
      /\ b.arraySize \in Nat \ {0} /\ GetPitch(b) = b.width * Bpp(b)
      /\ (b.width * b.height * Bpp(b)) * b.arraySize <= b.data
  BY PictureFacts
<1>2. b.arraySize = 1
  BY <1>1
<1>3. b.width * b.height * Bpp(b) \in Nat
  BY <1>1, ProductType
<1> QED BY <1>1, <1>2, <1>3

(* Some pixels of a row lie in the buffer.                                 *)
LEMMA RunFits ==
  ASSUME NEW w \in Nat, NEW ht \in Nat, NEW p \in Nat, NEW data \in Nat, w * ht * p <= data
  PROVE  \A y, x, n \in Nat : y < ht /\ x + n <= w =>
           Inside(<<y * (w * p) + x * p, n * p>>, data)
<1> SUFFICES ASSUME NEW y \in Nat, NEW x \in Nat, NEW n \in Nat, y < ht, x + n <= w
             PROVE  Inside(<<y * (w * p) + x * p, n * p>>, data)
  OBVIOUS
<1> DEFINE first == y * (w * p) + x * p
           size == n * p
           next == (y + 1) * (w * p)
           all == w * ht * p
<1>1. 0 <= first /\ first + size <= next /\ next <= all
  BY RowFits
<1>2. first \in Nat /\ size \in Nat /\ next \in Nat /\ all \in Nat
  BY ProductType
<1>3. all <= data
  OBVIOUS
<1> HIDE DEF first, size, next, all
<1>4. Inside(<<first, size>>, data)
  BY <1>1, <1>2, <1>3 DEF Inside
<1> QED BY <1>4 DEF first, size

(* PopulateMargin copies within the rows of the picture.                   *)
LEMMA MarginsStayInside ==
  ASSUME NEW b \in Bitmap, Sound(b), NEW m \in Nat, CanPopulateMargin(b, m),
         NEW run \in MarginRuns(b, m)
  PROVE  Inside(run, b.data)
<1> DEFINE w == b.width
           ht == b.height
           p == Bpp(b)
           u == w - 2 * m
           v == ht - 2 * m
<1>1. /\ IsValid(b) /\ b.type = "2D" /\ ht # 0 /\ ~ IsCompressed(b) /\ b.arraySize <= 1
  BY DEF CanPopulateMargin, Bitmap
<1>2. /\ w \in Nat /\ ht \in Nat /\ p \in Nat /\ b.data \in Nat /\ w * ht * p <= b.data
      /\ GetPitch(b) = w * p
  BY <1>1, OnePicture
<1>3. /\ u \in Nat /\ v \in Nat /\ m + u <= w /\ u + 2 * m = w /\ v + 2 * m = ht
  BY <1>2 DEF CanPopulateMargin
<1>4. \/ \E y \in 0 .. ht - 1 : run = <<y * (w * p) + m * p, u * p>>
      \/ \E y \in 0 .. v - 1 : run = <<(y + m) * (w * p) + 0 * p, (u + 2 * m) * p>>
  BY <1>2 DEF MarginRuns
<1> HIDE DEF w, ht, p, u, v
<1>5. \A y, x, n \in Nat : y < ht /\ x + n <= w => Inside(<<y * (w * p) + x * p, n * p>>, b.data)
  BY <1>2, RunFits
<1>6. CASE \E y \in 0 .. ht - 1 : run = <<y * (w * p) + m * p, u * p>>
  <2>1. PICK y \in 0 .. ht - 1 : run = <<y * (w * p) + m * p, u * p>>
    BY <1>6
  <2>2. y \in Nat /\ y < ht
    BY <1>2
  <2> QED BY <1>3, <1>5, <2>1, <2>2
<1>7. CASE \E y \in 0 .. v - 1 : run = <<(y + m) * (w * p) + 0 * p, (u + 2 * m) * p>>
  <2>1. PICK y \in 0 .. v - 1 : run = <<(y + m) * (w * p) + 0 * p, (u + 2 * m) * p>>
    BY <1>7
  <2>2. y + m \in Nat /\ y + m < ht /\ u + 2 * m \in Nat /\ 0 + (u + 2 * m) <= w
    BY <1>2, <1>3
  <2> QED BY <1>5, <2>1, <2>2
<1> QED BY <1>4, <1>6, <1>7

(* Crop copies the rectangle out of the picture.                           *)
LEMMA CropStaysInside ==
  ASSUME NEW b \in Bitmap, Sound(b), CanCrop(b), NEW l \in 0 .. b.width, NEW r \in 0 .. b.width,
         NEW t \in 0 .. b.height, NEW u \in 0 .. b.height, l < r, NEW run \in CropRuns(b, l, t, r, u)
  PROVE  Inside(run, b.data)
<1> DEFINE w == b.width
           ht == b.height
           p == Bpp(b)
<1>1. PICK y \in t .. u - 1 : run = <<l * p + w * p * y, (r - l) * p>>
  BY DEF CropRuns
<1>2. ht \in Nat /\ w \in Nat /\ y \in Nat /\ y < ht
  BY DEF Bitmap
<1>3. /\ p \in Nat /\ b.data \in Nat /\ w * ht * p <= b.data
  BY <1>2, OnePicture DEF CanCrop
<1>4. l \in Nat /\ r - l \in Nat /\ l + (r - l) <= w
  BY <1>2
<1> DEFINE n == r - l
<1> HIDE DEF w, ht, p, n
<1>5. Inside(<<y * (w * p) + l * p, n * p>>, b.data)
  BY <1>2, <1>3, <1>4, RunFits DEF n
<1>6. l * p + w * p * y = y * (w * p) + l * p
  BY <1>2, <1>3, <1>4
<1> QED BY <1>1, <1>5, <1>6 DEF n

(* RotateFaceClockwise turns the first level of a face.                    *)
LEMMA RotationStaysInside ==
  ASSUME NEW b \in Bitmap, Sound(b), NEW face \in 0 .. b.arraySize - 1, CanRotateFace(b, face)
  PROVE  Inside(RotateRun(b, face), b.data)
<1> DEFINE w == b.width
           p == Bpp(b)
           a == b.arraySize
           q == w * w * p
<1>1. IsValid(b) /\ b.type \in {"2D", "CUBE"} /\ ~ IsCompressed(b) /\ b.height = w /\ w # 0
  BY ValidFacts DEF CanRotateFace, Bitmap
<1>2. /\ w \in Nat /\ p \in Nat /\ a \in Nat \ {0} /\ b.data \in Nat /\ GetPitch(b) = w * p
      /\ q * a <= b.data
  BY <1>1, PictureFacts
<1>3. q \in Nat
  BY <1>2, ProductType
<1>4. face \in Nat /\ face + 1 \in Nat /\ face + 1 <= a
  BY <1>2
<1>5. RotateRun(b, face) = <<w * p * w * face, q>>
  BY <1>2 DEF RotateRun
<1>6. w * p * w = q
  BY <1>2
<1> HIDE DEF w, p, a, q
<1>7. q * face \in Nat /\ (face + 1) * q <= a * q /\ (face + 1) * q = q * face + q /\ a * q = q * a
  BY <1>2, <1>3, <1>4, ProductGrows
<1> DEFINE x == q * face
<1>8. q * a \in Nat
  BY <1>2, <1>3, ProductType
<1> DEFINE y == q * a
<1>9. x \in Nat /\ y \in Nat /\ x + q <= y /\ y <= b.data
  BY <1>2, <1>3, <1>7, <1>8
<1>10. RotateRun(b, face) = <<x, q>>
  BY <1>5, <1>6
<1> HIDE DEF x, y
<1> QED BY <1>2, <1>3, <1>9, <1>10 DEF Inside

(* Where the six faces are in the cross.                                   *)
LEMMA FaceCells ==
  ASSUME NEW face \in 0 .. 5
  PROVE  /\ FaceCell(face)[1] \in 0 .. 3 /\ FaceCell(face)[2] \in 0 .. 2
         /\ \A other \in 0 .. 5 \ {face} :
              FaceCell(other)[1] # FaceCell(face)[1] \/ FaceCell(other)[2] # FaceCell(face)[2]
<1>1. /\ FaceCell(0) = <<1, 2>> /\ FaceCell(1) = <<1, 0>> /\ FaceCell(2) = <<0, 1>>
      /\ FaceCell(3) = <<2, 1>> /\ FaceCell(4) = <<1, 1>> /\ FaceCell(5) = <<3, 1>>
  BY DEF FaceCell
<1>2. 0 .. 5 = {0, 1, 2, 3, 4, 5}
  OBVIOUS
<1> QED BY <1>1, <1>2

(* A run of a face is some pixels of a row of the cross.                   *)
LEMMA FaceRun ==
  ASSUME NEW b \in Bitmap, Sound(b), IsCrossmap(b), NEW face \in 0 .. 5, NEW run \in FaceRuns(b, face)
  PROVE  \E s \in Nat \ {0} : \E line \in 0 .. s - 1 :
           /\ b.width = 3 * s /\ b.height = 4 * s
           /\ run = <<(s * FaceCell(face)[1] + line) * (b.width * Bpp(b)) + (s * FaceCell(face)[2]) * Bpp(b),
                      s * Bpp(b)>>
<1> DEFINE w == b.width
           p == Bpp(b)
           s == w \div 3
           row == FaceCell(face)[1]
           column == FaceCell(face)[2]
<1>1. w \in Nat \ {0} /\ b.height \in Nat /\ w % 3 = 0 /\ b.height % 4 = 0 /\ s = b.height \div 4
  BY ValidFacts DEF IsCrossmap, Bitmap
<1>2. s \in Nat \ {0} /\ w = 3 * s /\ b.height = 4 * s
  BY <1>1
<1>3. p \in Nat /\ GetPitch(b) = w * p
  BY <1>2, OnePicture DEF IsCrossmap
<1>4. row \in Nat /\ column \in Nat
  BY FaceCells
<1>5. PICK line \in 0 .. s - 1 :
        run = <<(w * p) * s * row + ((w * p) \div 3) * column + line * (w * p), s * p>>
  BY <1>3 DEF FaceRuns, FaceOffset
<1>6. line \in Nat
  BY <1>2
<1> HIDE DEF p, s, row, column
<1>7. (w * p) \div 3 = s * p
  <2>1. w * p = 3 * (s * p) /\ s * p \in Nat
    BY <1>2, <1>3, ProductType
  <2> QED BY <2>1
<1> DEFINE q == w * p
<1>8. q \in Nat
  BY <1>2, <1>3, ProductType
<1>9. run = <<q * s * row + (s * p) * column + line * q, s * p>>
  BY <1>5, <1>7
<1> HIDE DEF q
<1>10. q * s * row + line * q = (s * row + line) * q
  BY <1>2, <1>4, <1>6, <1>8
<1>11. (s * p) * column = (s * column) * p
  BY <1>2, <1>3, <1>4
<1>12. q * s * row \in Nat /\ (s * p) * column \in Nat /\ line * q \in Nat
  BY <1>2, <1>3, <1>4, <1>6, <1>8, ProductType
<1>13. q * s * row + (s * p) * column + line * q = (s * row + line) * q + (s * column) * p
  BY <1>10, <1>11, <1>12
<1>14. run = <<(s * row + line) * (w * p) + (s * column) * p, s * p>>
  BY <1>9, <1>13 DEF q
<1> QED BY <1>2, <1>14 DEF p, row, column

(* Rows that differ share no byte, and neither do columns of a row.        *)
LEMMA RunsApart ==
  ASSUME NEW w \in Nat, NEW p \in Nat, NEW n \in Nat, NEW x \in Nat, NEW y \in Nat,
         NEW u \in Nat, NEW v \in Nat, x + n <= w, u + n <= w,
         y # v \/ x + n <= u \/ u + n <= x
  PROVE  Disjoint(<<y * (w * p) + x * p, n * p>>, <<v * (w * p) + u * p, n * p>>)
<1> DEFINE Q(k) == k * (w * p)
           P(k) == k * p
<1>1. \A k, m \in Nat : k < m => Q(k) + w * p <= Q(m)
  <2> DEFINE q == w * p
  <2>1. q \in Nat
    BY ProductType
  <2> HIDE DEF q
  <2> SUFFICES ASSUME NEW k \in Nat, NEW m \in Nat, k < m PROVE k * q + q <= m * q
    BY DEF q
  <2>2. (k + 1) * q <= m * q
    BY <2>1, ProductGrows
  <2>3. (k + 1) * q = k * q + q
    BY <2>1
  <2> QED BY <2>2, <2>3
<1>2. \A k, m \in Nat : k + n <= m => P(k) + n * p <= P(m)
  <2> SUFFICES ASSUME NEW k \in Nat, NEW m \in Nat, k + n <= m PROVE k * p + n * p <= m * p
    OBVIOUS
  <2>1. (k + n) * p <= m * p
    BY ProductGrows
  <2>2. (k + n) * p = k * p + n * p
    OBVIOUS
  <2> QED BY <2>1, <2>2
<1>3. P(x) + n * p <= w * p /\ P(u) + n * p <= w * p
  BY <1>2
<1>4. /\ w * p \in Nat /\ n * p \in Nat /\ P(x) \in Nat /\ P(u) \in Nat
  BY ProductType
<1>5. \A k \in Nat : Q(k) \in Nat
  <2> DEFINE q == w * p
  <2>1. q \in Nat
    BY <1>4
  <2> HIDE DEF q
  <2>2. \A k \in Nat : k * q \in Nat
    BY <2>1, ProductType
  <2> QED BY <2>2 DEF q
<1>6. y < v \/ v < y \/ (y = v /\ (x + n <= u \/ u + n <= x))
  OBVIOUS
<1> DEFINE q == w * p
           m == n * p
           a == Q(y)
           c == Q(v)
           d == P(x)
           e == P(u)
<1>7. /\ a \in Nat /\ c \in Nat /\ d \in Nat /\ e \in Nat /\ m \in Nat /\ q \in Nat
      /\ d + m <= q /\ e + m <= q
  BY <1>3, <1>4, <1>5
<1>8. a + q <= c \/ c + q <= a \/ (a = c /\ (d + m <= e \/ e + m <= d))
  BY <1>1, <1>2, <1>6
<1> HIDE DEF a, c, d, e, m, q, P, Q
<1>9. Disjoint(<<a + d, m>>, <<c + e, m>>)
  BY <1>7, <1>8 DEF Disjoint
<1> QED BY <1>9 DEF a, c, d, e, m, P, Q

(* ConvertCrossmapToCubemap takes the faces out of six parts of the cross. *)
LEMMA FacesStayInside ==
  ASSUME NEW b \in Bitmap, Sound(b), IsCrossmap(b), NEW face \in 0 .. 5, NEW run \in FaceRuns(b, face)
  PROVE  /\ Inside(run, b.data)
         /\ \A other \in 0 .. 5 \ {face} : \A two \in FaceRuns(b, other) : Disjoint(run, two)
<1> DEFINE w == b.width
           p == Bpp(b)
           row == FaceCell(face)[1]
           column == FaceCell(face)[2]
<1>1. PICK s \in Nat \ {0} : \E line \in 0 .. s - 1 :
           /\ w = 3 * s /\ b.height = 4 * s
           /\ run = <<(s * row + line) * (w * p) + (s * column) * p, s * p>>
  BY FaceRun
<1>2. PICK line \in 0 .. s - 1 :
           /\ w = 3 * s /\ b.height = 4 * s
           /\ run = <<(s * row + line) * (w * p) + (s * column) * p, s * p>>
  BY <1>1
<1>3. /\ w \in Nat /\ p \in Nat /\ b.data \in Nat /\ w * b.height * p <= b.data
  BY <1>2, OnePicture DEF IsCrossmap, Bitmap
<1>4. row \in {0, 1, 2, 3} /\ column \in {0, 1, 2}
  BY FaceCells
<1>5. line \in Nat /\ line < s
  OBVIOUS
<1> HIDE DEF w, p, row, column
<1>6. /\ s * row + line \in Nat /\ s * row + line < b.height
      /\ s * column \in Nat /\ s * column + s <= w
  BY <1>2, <1>4, <1>5
<1>7. Inside(run, b.data)
  <2>1. b.height \in Nat
    BY <1>2
  <2>2. \A y, x, n \in Nat : y < b.height /\ x + n <= w =>
          Inside(<<y * (w * p) + x * p, n * p>>, b.data)
    BY <1>3, <2>1, RunFits
  <2> QED BY <1>2, <1>6, <2>2
<1>8. ASSUME NEW other \in 0 .. 5 \ {face}, NEW two \in FaceRuns(b, other)
      PROVE  Disjoint(run, two)
  <2> DEFINE row2 == FaceCell(other)[1]
             column2 == FaceCell(other)[2]
  <2>1. PICK s2 \in Nat \ {0} : \E line2 \in 0 .. s2 - 1 :
             /\ w = 3 * s2 /\ b.height = 4 * s2
             /\ two = <<(s2 * row2 + line2) * (w * p) + (s2 * column2) * p, s2 * p>>
    BY FaceRun DEF w, p
  <2>2. s2 = s
    BY <1>2, <2>1
  <2>3. PICK line2 \in 0 .. s - 1 :
             two = <<(s * row2 + line2) * (w * p) + (s * column2) * p, s * p>>
    BY <2>1, <2>2
  <2>4. row2 \in {0, 1, 2, 3} /\ column2 \in {0, 1, 2}
    BY FaceCells
  <2>5. row2 # row \/ column2 # column
    BY FaceCells DEF row, column
  <2>6. line2 \in Nat /\ line2 < s
    OBVIOUS
  <2> HIDE DEF row2, column2
  <2>7. /\ s * row2 + line2 \in Nat /\ s * column2 \in Nat /\ s * column2 + s <= w
    BY <1>2, <2>4, <2>6
  <2>8. \/ s * row + line # s * row2 + line2
        \/ s * column + s <= s * column2 \/ s * column2 + s <= s * column
    BY <1>4, <1>5, <2>4, <2>5, <2>6
  <2> QED BY <1>2, <1>3, <1>6, <2>3, <2>7, <2>8, RunsApart
<1> QED BY <1>7, <1>8

(* A slice of the volume begins in the row it is cut from so far left that *)
(* its line fits into that row.                                            *)
LEMMA SliceFitsRow ==
  ASSUME NEW w \in Nat, NEW p \in Nat, NEW c \in Nat \ {0}, c * c <= w, NEW slice \in 0 .. c - 1
  PROVE  /\ (slice * (w * p)) \div c \in Nat
         /\ (slice * (w * p)) \div c + p * c <= w * p
<1> DEFINE q == w * p
           z == slice * q
           k == z \div c
           n == p * c
<1>1. q \in Nat /\ n \in Nat /\ slice \in Nat /\ c * c \in Nat
  BY ProductType
<1>2. (c * c) * p <= q
  BY <1>1, ProductGrows
<1>3. (c * c) * p = c * n
  OBVIOUS
<1> HIDE DEF q, n
<1>4. z \in Nat /\ z <= (c - 1) * q
  BY <1>1, ProductType, ProductGrows
<1>5. (c - 1) * q = c * q - q
  BY <1>1
<1> HIDE DEF z
<1>6. k \in Nat /\ c * k <= z
  BY <1>4
<1> HIDE DEF k
<1>7. c * k + c * n <= c * q
  <2> DEFINE ck == c * k
             cn == c * n
             cq == c * q
  <2>1. ck \in Nat /\ cn \in Nat /\ cq \in Nat
    BY <1>1, <1>6, ProductType
  <2>2. ck <= z /\ z <= cq - q /\ cn <= q
    BY <1>2, <1>3, <1>4, <1>5, <1>6
  <2> HIDE DEF ck, cn, cq
  <2>3. ck + cn <= cq
    BY <1>1, <1>4, <2>1, <2>2
  <2> QED BY <2>3 DEF ck, cn, cq
<1>8. c * k + c * n = c * (k + n)
  BY <1>1, <1>6
<1>9. k + n <= q
  <2> SUFFICES ASSUME q + 1 <= k + n PROVE FALSE
    BY <1>1, <1>6
  <2>1. (q + 1) * c <= (k + n) * c
    BY <1>1, <1>6, ProductGrows
  <2>2. (q + 1) * c = c * q + c /\ (k + n) * c = c * (k + n)
    BY <1>1, <1>6
  <2>3. c * q \in Nat /\ c * (k + n) \in Nat
    BY <1>1, <1>6, ProductType
  <2> QED BY <1>7, <1>8, <2>1, <2>2, <2>3
<1> QED BY <1>6, <1>9 DEF k, n, q, z

(* ConvertToVolume cuts slices of pixels out of the last rows.             *)
LEMMA SlicesStayInside ==
  ASSUME NEW b \in Bitmap, Sound(b), CanConvertToVolume(b), ~ IsCompressed(b), NEW run \in SliceRuns(b)
  PROVE  Inside(run, b.data)
<1> DEFINE w == b.width
           ht == b.height
           p == Bpp(b)
           c == CubeSize(b)
<1>1. IsValid(b) /\ b.type = "2D" /\ b.arraySize <= 1 /\ w \in Nat \ {0} /\ ht \in Nat /\ ht * ht >= w
  BY ValidFacts DEF CanConvertToVolume, Bitmap
<1>2. ht # 0
  BY <1>1
<1>3. /\ p \in Nat /\ b.data \in Nat /\ w * ht * p <= b.data /\ GetPitch(b) = w * p
  BY <1>1, <1>2, OnePicture
<1>4. c \in 1 .. w /\ c * c <= w
  BY <1>1, CubeSizeFits
<1>5. RowPitch(b) = p * c
  BY <1>1, RowPitchFits
<1>6. PICK slice \in 0 .. c - 1, line \in 0 .. c - 1 :
        run = <<(ht - c) * (w * p) + (slice * (w * p)) \div c + line * (w * p), p * c>>
  BY <1>3, <1>5 DEF SliceRuns, SliceRun, SliceOffset
<1> HIDE DEF w, ht, p, c
<1> DEFINE q == w * p
           k == (slice * q) \div c
           n == p * c
           all == w * ht * p
           row == ht - c + line
<1>7. c \in Nat \ {0} /\ line \in Nat
  BY <1>1, <1>4
<1>8. k \in Nat /\ k + n <= q
  BY <1>1, <1>3, <1>4, <1>7, SliceFitsRow
<1>9. c <= ht
  <2> SUFFICES ASSUME ht + 1 <= c PROVE FALSE
    BY <1>1, <1>7
  <2>1. (ht + 1) * (ht + 1) <= c * (ht + 1) /\ (ht + 1) * c <= c * c
    BY <1>1, <1>7, ProductGrows
  <2>2. c * (ht + 1) = (ht + 1) * c /\ (ht + 1) * (ht + 1) = ht * ht + ht + ht + 1 /\ ht * ht \in Nat
    BY <1>1, <1>7
  <2>3. c * c \in Nat /\ c * (ht + 1) \in Nat
    BY <1>1, <1>7, ProductType
  <2> QED BY <1>1, <1>4, <2>1, <2>2, <2>3
<1>10. row \in Nat /\ row + 1 <= ht /\ ht - c \in Nat
  BY <1>1, <1>7, <1>9
<1>11. q \in Nat /\ n \in Nat /\ all \in Nat
  BY <1>1, <1>3, <1>7, ProductType
<1>12. all = ht * q /\ all <= b.data
  BY <1>1, <1>3
<1> HIDE DEF q, n, all
<1>13. (ht - c) * q + line * q = row * q /\ (row + 1) * q = row * q + q /\ row * q \in Nat
  <2>1. (ht - c) * q + line * q = ((ht - c) + line) * q
    BY <1>7, <1>10, <1>11
  <2> QED BY <1>7, <1>10, <1>11, <2>1, ProductType
<1>14. (row + 1) * q <= ht * q
  BY <1>1, <1>10, <1>11, ProductGrows
<1> DEFINE f == (ht - c) * q
           g == line * q
<1>15. f \in Nat /\ g \in Nat
  BY <1>7, <1>10, <1>11, ProductType
<1> HIDE DEF k, row
<1>16. f + g + q <= all
  <2>1. f + g = row * q
    BY <1>13
  <2> QED BY <1>12, <1>13, <1>14, <2>1
<1>17. run = <<f + k + g, n>>
  BY <1>6 DEF q, k, n
<1> HIDE DEF f, g
<1> QED BY <1>3, <1>8, <1>11, <1>12, <1>15, <1>16, <1>17 DEF Inside

-----------------------------------------------------------------------------
(* The loop over levels                                                    *)

(* The bytes of a level whose sides are shifted and not kept above nothing.*)
ShiftedLevel(b, k) == Shr(b.height, k) * Shr(b.width, k) * Bpp(b)

(* Downsample2x2 reads no more of a level than there is, and all of it     *)
(* when its sides are even.                                                *)
LEMMA AdvanceFits ==
  ASSUME NEW b \in Bitmap, NEW k \in Nat
  PROVE  /\ LevelAdvance(b, k) \in Nat /\ ShiftedLevel(b, k) \in Nat
         /\ LevelAdvance(b, k) <= ShiftedLevel(b, k)
         /\ Shr(b.width, k) % 2 = 0 /\ Shr(b.height, k) % 2 = 0 =>
              LevelAdvance(b, k) = ShiftedLevel(b, k)
<1> DEFINE x == Shr(b.width, k)
           y == Shr(b.height, k)
           p == Bpp(b)
           u == 2 * (x \div 2) + x
           v == y \div 2
<1>1. b.width \in Nat /\ b.height \in Nat /\ p \in Nat
  BY FormatFacts DEF Bitmap, Bpp
<1>2. x \in Nat /\ y \in Nat
  BY <1>1, ShrUnfolds
<1> HIDE DEF x, y, p
<1>3. /\ u \in Nat /\ v \in Nat /\ u <= 2 * x /\ 2 * v <= y
      /\ x % 2 = 0 => u = 2 * x
      /\ y % 2 = 0 => 2 * v = y
  BY <1>2
<1> HIDE DEF u, v
<1>4. v * u <= v * (2 * x) /\ v * (2 * x) = (2 * v) * x /\ (2 * v) * x <= y * x
  <2>1. u * v <= (2 * x) * v
    BY <1>2, <1>3, ProductGrows
  <2>2. u * v = v * u /\ (2 * x) * v = v * (2 * x) /\ v * (2 * x) = (2 * v) * x
    BY <1>2, <1>3
  <2>3. (2 * v) * x <= y * x
    BY <1>2, <1>3, ProductGrows
  <2> QED BY <2>1, <2>2, <2>3
<1>5. v * u \in Nat /\ y * x \in Nat /\ v * (2 * x) \in Nat
  BY <1>2, <1>3, ProductType
<1>6. x % 2 = 0 /\ y % 2 = 0 => v * u = y * x
  BY <1>3, <1>4
<1> DEFINE r == v * u
           s == y * x
<1>7. r \in Nat /\ s \in Nat /\ r <= s
  BY <1>4, <1>5
<1>8. LevelAdvance(b, k) = r * p /\ ShiftedLevel(b, k) = s * p
  BY DEF LevelAdvance, ShiftedLevel, x, y, p, u, v
<1> HIDE DEF r, s
<1>9. r * p \in Nat /\ s * p \in Nat /\ r * p <= s * p
  BY <1>1, <1>7, ProductGrows, ProductType
<1> QED BY <1>6, <1>8, <1>9 DEF r, s, x, y

(* A shifted level is the level, or nothing.                               *)
LEMMA ShiftedLevelFits ==
  ASSUME NEW b \in Bitmap, b.width # 0, b.height # 0, ~ IsCompressed(b), b.type # "3D", NEW k \in Nat
  PROVE  /\ LevelBytes(b, k) \in Nat /\ ShiftedLevel(b, k) <= LevelBytes(b, k)
         /\ Shr(b.width, k) # 0 /\ Shr(b.height, k) # 0 => ShiftedLevel(b, k) = LevelBytes(b, k)
<1> DEFINE x == Shr(b.width, k)
           y == Shr(b.height, k)
           p == Bpp(b)
           u == Halved(b.width, k)
           v == Halved(b.height, k)
<1>1. b.width \in Nat \ {0} /\ b.height \in Nat \ {0} /\ p \in Nat
  BY FormatFacts DEF Bitmap, Bpp
<1>2. x \in Nat /\ y \in Nat /\ u = Larger(x, 1) /\ v = Larger(y, 1)
  BY <1>1, ShrUnfolds, ShrClampedIsHalved
<1>3. LevelBytes(b, k) = u * v * p
  <2>1. LevelBytes(b, k) = u * v * Halved(1, k) * p
    BY DEF LevelBytes, Bpp
  <2>2. Halved(1, k) = 1
    BY HalvedOne
  <2>3. u \in Nat /\ v \in Nat
    BY <1>2 DEF Larger
  <2> HIDE DEF u, v
  <2>4. u * v * 1 = u * v
    BY <2>3
  <2> QED BY <2>1, <2>2, <2>4
<1>4. ShiftedLevel(b, k) = y * x * p
  BY DEF ShiftedLevel
<1> HIDE DEF x, y, p, u, v
<1>5. /\ u \in Nat /\ v \in Nat /\ x <= u /\ y <= v
      /\ x # 0 => u = x
      /\ y # 0 => v = y
  BY <1>2 DEF Larger
<1>6. x * y <= u * y /\ y * u <= v * u /\ u * y = y * u /\ v * u = u * v /\ x * y = y * x
  BY <1>2, <1>5, ProductGrows
<1> DEFINE r == y * x
           s == u * v
<1>7. r \in Nat /\ s \in Nat /\ y * u \in Nat
  BY <1>2, <1>5, ProductType
<1>8. r <= s
  BY <1>6, <1>7
<1>9. x # 0 /\ y # 0 => r = s
  BY <1>2, <1>5
<1> HIDE DEF r, s
<1>10. r * p \in Nat /\ s * p \in Nat /\ r * p <= s * p
  BY <1>1, <1>7, <1>8, ProductGrows, ProductType
<1> QED BY <1>3, <1>4, <1>9, <1>10 DEF r, s, x, y

(* What Downsample2x2 asks of a bitmap.                                    *)
LEMMA DownsampleFacts ==
  ASSUME NEW b \in Bitmap, Sound(b), CanDownsample(b)
  PROVE  /\ ~ IsCompressed(b) /\ b.type \in {"2D", "CUBE"} /\ b.width \in Nat \ {0}
         /\ b.width % 2 = 0 /\ b.height % 2 = 0 /\ b.arraySize \in Nat \ {0}
         /\ DownsampledMipCount(b) \in Nat
<1>1. b.arraySize >= 1 /\ b.width >= 1 /\ b.arraySize \in Nat /\ b.width \in Nat /\ b.mipCount \in Nat
      /\ b.format \in PixelFormat
  BY ValidFacts DEF CanDownsample, Bitmap
<1>2. ~ IsCompressed(b)
  BY <1>1, FormatFacts DEF CanDownsample, IsCompressed
<1>3. DownsampledMipCount(b) \in Nat
  BY <1>1, WrapAssumption DEF DownsampledMipCount, Larger
<1> QED BY <1>1, <1>2, <1>3 DEF CanDownsample

(* However far Downsample2x2 goes, it reads no more of an element than the *)
(* element has.                                                            *)
LEMMA AdvanceStaysInElement ==
  ASSUME NEW b \in Bitmap, Sound(b), CanDownsample(b), b.height # 0
  PROVE  /\ LevelsAdvance(b) \in Nat /\ SourceAdvance(b) \in Nat
         /\ LevelsAdvance(b) <= SourceAdvance(b)
         /\ SourceAdvance(b) <= Total([k \in Nat |-> LevelBytes(b, k)], GetTrueMipCount(b))
<1> DEFINE l == [k \in Nat |-> LevelAdvance(b, k)]
           u == [k \in Nat |-> ShiftedLevel(b, k)]
           t == [k \in Nat |-> LevelBytes(b, k)]
           n == DownsampledMipCount(b)
           m == GetTrueMipCount(b)
<1>1. /\ ~ IsCompressed(b) /\ b.type # "3D" /\ b.width \in Nat \ {0} /\ b.height \in Nat \ {0}
      /\ n \in Nat /\ m \in Nat /\ b.mipCount \in Nat
  BY DownsampleFacts, MipCountType DEF Bitmap
<1>2. l \in [Nat -> Nat] /\ u \in [Nat -> Nat] /\ t \in [Nat -> Nat]
  BY <1>1, AdvanceFits, ShiftedLevelFits
<1>3. (\A k \in Nat : l[k] <= u[k]) /\ (\A k \in Nat : u[k] <= t[k])
  BY <1>1, AdvanceFits, ShiftedLevelFits
<1>4. LevelsAdvance(b) = Total(l, n)
  BY DEF LevelsAdvance
<1>5. SourceAdvance(b) = Total(l, n) + (IF b.mipCount # 1 THEN u[n] ELSE 0)
  BY <1>1 DEF SourceAdvance, LevelsAdvance, ShiftedLevel
<1>6. b.mipCount = 0 => \A k \in Nat : k >= m => u[k] = 0
  <2> SUFFICES ASSUME b.mipCount = 0, NEW k \in Nat, k >= m PROVE ShiftedLevel(b, k) = 0
    OBVIOUS
  <2> DEFINE x == Larger(b.width, b.height)
  <2>1. x \in Nat /\ m = BitLength(x) /\ (x = b.width \/ x = b.height)
    BY <1>1 DEF GetTrueMipCount, Larger
  <2> HIDE DEF x, m
  <2>2. Shr(x, m) = 0
    BY <2>1, BitLengthCounts
  <2>3. Shr(x, k) = 0
    BY <1>1, <2>1, <2>2, ShrStaysNothing
  <2>4. Shr(b.width, k) \in Nat /\ Shr(b.height, k) \in Nat /\ Bpp(b) \in Nat
    BY <1>1, ShrUnfolds, FormatFacts DEF Bitmap, Bpp
  <2>5. Shr(b.height, k) * Shr(b.width, k) = 0
    BY <2>1, <2>3, <2>4
  <2> QED BY <2>4, <2>5 DEF ShiftedLevel
<1> HIDE DEF l, u, t, n
<1>7. Total(l, n) \in Nat /\ Total(u, n) \in Nat /\ u[n] \in Nat /\ Total(u, n + 1) = Total(u, n) + u[n]
  BY <1>1, <1>2, TotalUnfolds
<1>8. Total(l, n) <= Total(u, n)
  BY <1>1, <1>2, <1>3, TotalsCompare
<1>9. Total(u, n) <= Total(u, n + 1)
  BY <1>7
<1>10. IF b.mipCount # 1 THEN Total(u, n + 1) <= Total(t, m) ELSE Total(u, n) <= Total(t, m)
  <2>1. \A k \in Nat : Total(u, k) <= Total(t, k) /\ Total(u, k) \in Nat /\ Total(t, k) \in Nat
    BY <1>2, <1>3, TotalsCompare, TotalUnfolds
  <2>2. CASE b.mipCount = 0
    <3>1. Total(u, n + 1) <= Total(u, m)
      <4>1. n + 1 \in Nat
        BY <1>1
      <4> HIDE DEF m
      <4> QED BY <1>1, <1>2, <1>6, <2>2, <4>1, TotalStays
    <3>2. n + 1 \in Nat
      BY <1>1
    <3> QED BY <1>1, <2>1, <2>2, <3>1, <3>2
  <2>3. CASE b.mipCount # 0
    <3>1. m = b.mipCount /\ n = IF m = 1 THEN 1 ELSE m - 1
      BY <1>1, <2>3 DEF n, DownsampledMipCount, GetTrueMipCount, Larger
    <3>2. IF b.mipCount # 1 THEN n + 1 = m ELSE n = m
      BY <1>1, <3>1
    <3> QED BY <1>1, <2>1, <3>2
  <2> QED BY <2>2, <2>3
<1>11. Total(t, m) \in Nat
  BY <1>1, <1>2, TotalUnfolds
<1> HIDE DEF m
<1> QED BY <1>4, <1>5, <1>7, <1>8, <1>9, <1>10, <1>11 DEF t, m

(* All the bytes Downsample2x2 reads are in the buffer.                    *)
LEMMA DownsampleStaysInside ==
  ASSUME NEW b \in Bitmap, Sound(b), CanDownsample(b), ~ Degenerate(b), ~ Truncated(b)
  PROVE  Inside(DownsampleRun(b), b.data)
<1> DEFINE a == b.arraySize
           s == SourceAdvance(b)
           l == LevelsAdvance(b)
           e == Total([k \in Nat |-> LevelBytes(b, k)], GetTrueMipCount(b))
<1>1. a \in Nat \ {0} /\ b.type \in {"2D", "CUBE"} /\ b.height # 0
  BY DownsampleFacts DEF Degenerate
<1>2. Exact(b)
  BY <1>1 DEF Sound, CanDownsample, BlockVolume
<1>3. b.data = e * a
  BY <1>2 DEF Exact, GetDataSize
<1>4. l \in Nat /\ s \in Nat /\ l <= s /\ s <= e
  BY <1>1, AdvanceStaysInElement
<1>5. e \in Nat
  <2> DEFINE t == [k \in Nat |-> LevelBytes(b, k)]
  <2>1. t \in [Nat -> Nat]
    BY LevelBytesType
  <2> HIDE DEF t
  <2>2. Total(t, GetTrueMipCount(b)) \in Nat
    BY <2>1, MipCountType, TotalUnfolds
  <2> QED BY <2>2 DEF t
<1>6. DownsampleRun(b) = <<0, (a - 1) * s + l>>
  BY DEF DownsampleRun
<1> HIDE DEF a, s, l, e
<1>7. s * (a - 1) <= e * (a - 1) /\ s * (a - 1) = (a - 1) * s /\ s * (a - 1) \in Nat
  BY <1>1, <1>4, <1>5, ProductGrows, ProductType
<1>8. e * a = e * (a - 1) + e /\ e * (a - 1) \in Nat
  BY <1>1, <1>5, ProductType
<1> DEFINE x == (a - 1) * s
           y == e * (a - 1)
<1>9. x \in Nat /\ y \in Nat /\ x <= y /\ b.data = y + e
  BY <1>3, <1>7, <1>8
<1> HIDE DEF x, y
<1>10. Inside(<<0, x + l>>, b.data)
  BY <1>4, <1>5, <1>9 DEF Inside
<1> QED BY <1>6, <1>10 DEF x

(* No loop of an accepted call leaves the buffer of its bitmap, for all    *)
(* sizes, formats, mip counts, arrays, margins, rectangles and faces, and  *)
(* whatever calls made the bitmap.                                         *)
THEOREM LoopsAreInside == Spec => []LoopsStayInside
<1>1. IInv => LoopsStayInside
  <2> SUFFICES ASSUME IInv, NEW h \in Handles
               PROVE  LET b == bitmap[h]
                      IN  /\ \A m \in Edges : CanPopulateMargin(b, m) =>
                               \A run \in MarginRuns(b, m) : Inside(run, b.data)
                          /\ CanCrop(b) => \A l, r \in 0 .. b.width, t, u \in 0 .. b.height :
                               l < r => \A run \in CropRuns(b, l, t, r, u) : Inside(run, b.data)
                          /\ \A face \in 0 .. b.arraySize - 1 :
                               CanRotateFace(b, face) => Inside(RotateRun(b, face), b.data)
                          /\ CanDownsample(b) /\ ~ Degenerate(b) /\ ~ Truncated(b) =>
                               Inside(DownsampleRun(b), b.data)
                          /\ IsCrossmap(b) => \A face \in 0 .. 5 : \A run \in FaceRuns(b, face) :
                               /\ Inside(run, b.data)
                               /\ \A other \in 0 .. 5 \ {face} : \A two \in FaceRuns(b, other) :
                                    Disjoint(run, two)
                          /\ CanConvertToVolume(b) /\ ~ IsCompressed(b) =>
                               \A run \in SliceRuns(b) : Inside(run, b.data)
    BY DEF LoopsStayInside
  <2> DEFINE b == bitmap[h]
  <2>1. b \in Bitmap /\ Sound(b)
    BY DEF IInv, TypeOK
  <2> HIDE DEF b
  <2>2. ASSUME NEW m \in Edges, CanPopulateMargin(b, m), NEW run \in MarginRuns(b, m)
        PROVE  Inside(run, b.data)
    BY <2>1, <2>2, CountsAssumption, MarginsStayInside
  <2>3. ASSUME CanCrop(b), NEW l \in 0 .. b.width, NEW r \in 0 .. b.width, NEW t \in 0 .. b.height,
               NEW u \in 0 .. b.height, l < r, NEW run \in CropRuns(b, l, t, r, u)
        PROVE  Inside(run, b.data)
    BY <2>1, <2>3, CropStaysInside
  <2>4. ASSUME NEW face \in 0 .. b.arraySize - 1, CanRotateFace(b, face)
        PROVE  Inside(RotateRun(b, face), b.data)
    BY <2>1, <2>4, RotationStaysInside
  <2>5. CanDownsample(b) /\ ~ Degenerate(b) /\ ~ Truncated(b) => Inside(DownsampleRun(b), b.data)
    BY <2>1, DownsampleStaysInside
  <2>6. ASSUME IsCrossmap(b), NEW face \in 0 .. 5, NEW run \in FaceRuns(b, face)
        PROVE  /\ Inside(run, b.data)
               /\ \A other \in 0 .. 5 \ {face} : \A two \in FaceRuns(b, other) : Disjoint(run, two)
    BY <2>1, <2>6, FacesStayInside
  <2>7. ASSUME CanConvertToVolume(b), ~ IsCompressed(b), NEW run \in SliceRuns(b)
        PROVE  Inside(run, b.data)
    BY <2>1, <2>7, SlicesStayInside
  <2> QED BY <2>2, <2>3, <2>4, <2>5, <2>6, <2>7 DEF b
<1> QED BY <1>1, Soundness, PTL

-----------------------------------------------------------------------------
(* Elements that move                                                      *)

(* A run that moves up, or stays, overwrites itself only from the first    *)
(* byte up; one that moves down only from the last one down.               *)
LEMMA UpwardCopy ==
  ASSUME NEW x \in Nat, NEW y \in Nat, x <= y, NEW n \in Nat, NEW m, NEW order \in CopyOrder,
         LosesBytes(<<x, n>>, <<y, m>>, order)
  PROVE  order = "up"
<1>1. PICK k \in 0 .. n - 1 : Earlier(order, k, k + y - x)
  BY DEF LosesBytes
<1> QED BY <1>1 DEF Earlier, CopyOrder

LEMMA DownwardCopy ==
  ASSUME NEW x \in Nat, NEW y \in Nat, x <= y, NEW n \in Nat, NEW m, NEW order \in CopyOrder,
         LosesBytes(<<y, n>>, <<x, m>>, order)
  PROVE  order = "down"
<1>1. PICK k \in 0 .. n - 1 : Earlier(order, k, k + x - y)
  BY DEF LosesBytes
<1> QED BY <1>1 DEF Earlier, CopyOrder

(* GenerateMipMaps: the top levels are moved apart.                        *)
LEMMA SpreadRuns ==
  ASSUME NEW b \in Bitmap, Sound(b), IsValid(b), ~ Degenerate(b), CanGenerateMipMaps(b), b.mipCount = 1,
         NEW n \in Nat \ {0}
  PROVE  \E x, y \in Nat :
           /\ x <= y
           /\ \A i \in Nat : SpreadFrom(b, i) = <<x * i, x>> /\ SpreadTo(b, n, i) = <<y * i, y>>
<1> DEFINE t == [k \in Nat |-> LevelBytes(b, k)]
           top == b.width * b.height * Bpp(b)
           f == FlatChainSize(b, n)
<1>1. b.type \in {"2D", "CUBE"} /\ b.height # 0 /\ ~ IsCompressed(b)
  BY FormatFacts DEF CanGenerateMipMaps, Degenerate, IsCompressed, Bitmap
<1>2. /\ b.width \in Nat /\ b.height \in Nat /\ Bpp(b) \in Nat /\ b.arraySize \in Nat \ {0}
      /\ LevelBytes(b, 0) = top /\ b.data = top * b.arraySize
  BY <1>1, PictureFacts
<1>3. top \in Nat
  BY <1>2, ProductType
<1> HIDE DEF top
<1>4. b.data \div b.arraySize = top
  <2>1. top * b.arraySize = b.arraySize * top
    BY <1>2, <1>3
  <2> QED BY <1>2, <1>3, <2>1, DivideOut
<1>5. t \in [Nat -> Nat] /\ t[0] = top
  BY <1>2, LevelBytesType
<1>6. f = Total(t, n) /\ f \in Nat
  BY <1>1, FlatChain
<1> HIDE DEF t, f
<1>7. top <= f
  <2>1. 1 \in Nat /\ 1 <= n
    OBVIOUS
  <2>2. Total(t, 1) <= Total(t, n)
    BY <1>5, <2>1, TotalGrows
  <2> QED BY <1>5, <1>6, <2>2, TotalOfOne
<1>8. ASSUME NEW i \in Nat
      PROVE  SpreadFrom(b, i) = <<top * i, top>> /\ SpreadTo(b, n, i) = <<f * i, f>>
  BY <1>4 DEF SpreadTo, SpreadFrom, TopSize, f, top
<1> QED BY <1>3, <1>6, <1>7, <1>8

(* DropMipMaps: the top levels are moved together.                         *)
LEMMA GatherRuns ==
  ASSUME NEW b \in Bitmap, Sound(b), IsValid(b), ~ Degenerate(b), Exact(b), GetTrueMipCount(b) > 1
  PROVE  \E x, y \in Nat :
           /\ x <= y
           /\ \A i \in Nat : i < b.arraySize =>
                GatherFrom(b, i) = <<y * i, x>> /\ GatherTo(b, i) = <<x * i, x>>
<1> DEFINE e == GetArrayElementSize(b)
           t == [k \in Nat |-> Stride(b, k)]
           s == GetMipRawData(b, 1, 0)
           m == GetTrueMipCount(b)
<1>1. Solid(b) /\ b.arraySize \in Nat /\ b.arraySize >= 1 /\ m \in Nat
  BY ValidIsSolid, ValidFacts, MipCountType DEF Bitmap
<1>2. e = Total(t, m)
  BY <1>1, ElementIsItsLevels
<1>3. t \in [Nat -> Nat]
  BY StrideType
<1>4. e \in Nat /\ Total(t, 0) = 0 /\ Total(t, 1) \in Nat /\ Total(t, 1) <= e
  <2> HIDE DEF e, t, m
  <2>1. 1 \in Nat /\ 1 <= m
    BY <1>1 DEF m
  <2>2. Total(t, m) \in Nat /\ Total(t, 0) = 0 /\ Total(t, 1) \in Nat
    BY <1>1, <1>3, TotalUnfolds
  <2>3. Total(t, 1) <= Total(t, m)
    BY <1>1, <1>3, <2>1, TotalGrows
  <2> QED BY <1>2, <2>2, <2>3
<1>5. s = Total(t, 1) + e * 0
  <2>1. 1 \in Nat /\ 0 \in Nat /\ 1 < m /\ 0 < b.arraySize
    BY <1>1
  <2> QED BY <1>4, <2>1, LevelAddress
<1>6. ASSUME NEW i \in Nat, i < b.arraySize
      PROVE  GetMipRawData(b, 0, i) = Total(t, 0) + e * i
  <2>1. 0 \in Nat /\ 0 < m
    BY <1>1
  <2> QED BY <1>4, <1>6, <2>1, LevelAddress
<1> HIDE DEF e, t, m
<1>7. s \in Nat /\ s <= e
  <2>1. e * 0 = 0
    BY <1>4
  <2> QED BY <1>4, <1>5, <2>1
<1> HIDE DEF s
<1>8. ASSUME NEW i \in Nat, i < b.arraySize
      PROVE  GatherFrom(b, i) = <<e * i, s>> /\ GatherTo(b, i) = <<s * i, s>>
  <2>1. e * i \in Nat
    BY <1>4, ProductType
  <2>2. GetMipRawData(b, 0, i) = e * i
    BY <1>4, <1>6, <1>8, <2>1
  <2> QED BY <2>2 DEF GatherFrom, GatherTo, s
<1> QED BY <1>4, <1>7, <1>8

(* Where the elements of x bytes are among those of y bytes.               *)
LEMMA ElementsLieLower ==
  ASSUME NEW x \in Nat, NEW y \in Nat, x <= y, NEW i \in Nat
  PROVE  x * i \in Nat /\ y * i \in Nat /\ x * i <= y * i
BY ProductType, ProductGrows

LEMMA SpreadKeepsElements ==
  ASSUME NEW b \in Bitmap, Sound(b), IsValid(b), ~ Degenerate(b), CanGenerateMipMaps(b), b.mipCount = 1,
         NEW n \in Nat \ {0}, NEW i \in Nat, NEW j \in Nat
  PROVE  /\ SpreadBefore(i, j) => Disjoint(SpreadTo(b, n, i), SpreadFrom(b, j))
         /\ \A order \in CopyOrder :
              LosesBytes(SpreadFrom(b, i), SpreadTo(b, n, i), order) => order = "up"
<1>1. PICK x, y \in Nat :
        /\ x <= y
        /\ \A k \in Nat : SpreadFrom(b, k) = <<x * k, x>> /\ SpreadTo(b, n, k) = <<y * k, y>>
  BY SpreadRuns
<1>2. ASSUME SpreadBefore(i, j)
      PROVE  Disjoint(SpreadTo(b, n, i), SpreadFrom(b, j))
  <2> DEFINE from == x * j
             to == y * i
  <2>1. from \in Nat /\ to \in Nat /\ from + x <= to
    BY <1>1, <1>2, MultiplesLieLower DEF SpreadBefore
  <2>2. SpreadTo(b, n, i) = <<to, y>> /\ SpreadFrom(b, j) = <<from, x>>
    BY <1>1
  <2> HIDE DEF from, to
  <2> QED BY <2>1, <2>2 DEF Disjoint
<1>3. ASSUME NEW order \in CopyOrder, LosesBytes(SpreadFrom(b, i), SpreadTo(b, n, i), order)
      PROVE  order = "up"
  <2>1. x * i \in Nat /\ y * i \in Nat /\ x * i <= y * i
    BY <1>1, ElementsLieLower
  <2>2. LosesBytes(<<x * i, x>>, <<y * i, y>>, order)
    BY <1>1, <1>3
  <2> QED BY <2>1, <2>2, UpwardCopy
<1> QED BY <1>2, <1>3

LEMMA GatherKeepsElements ==
  ASSUME NEW b \in Bitmap, Sound(b), IsValid(b), ~ Degenerate(b), Exact(b), GetTrueMipCount(b) > 1,
         NEW i \in Nat, NEW j \in Nat, i < b.arraySize, j < b.arraySize
  PROVE  /\ GatherBefore(i, j) => Disjoint(GatherTo(b, i), GatherFrom(b, j))
         /\ \A order \in CopyOrder :
              LosesBytes(GatherFrom(b, i), GatherTo(b, i), order) => order = "down"
<1>1. PICK x, y \in Nat :
        /\ x <= y
        /\ \A k \in Nat : k < b.arraySize =>
             GatherFrom(b, k) = <<y * k, x>> /\ GatherTo(b, k) = <<x * k, x>>
  BY GatherRuns
<1>2. ASSUME GatherBefore(i, j)
      PROVE  Disjoint(GatherTo(b, i), GatherFrom(b, j))
  <2> DEFINE from == y * j
             to == x * i
  <2>1. from \in Nat /\ to \in Nat /\ to + x <= from
    BY <1>1, <1>2, MultiplesLieLower DEF GatherBefore
  <2>2. GatherTo(b, i) = <<to, x>> /\ GatherFrom(b, j) = <<from, x>>
    BY <1>1
  <2> HIDE DEF from, to
  <2> QED BY <2>1, <2>2 DEF Disjoint
<1>3. ASSUME NEW order \in CopyOrder, LosesBytes(GatherFrom(b, i), GatherTo(b, i), order)
      PROVE  order = "down"
  <2>1. x * i \in Nat /\ y * i \in Nat /\ x * i <= y * i
    BY <1>1, ElementsLieLower
  <2>2. LosesBytes(<<y * i, x>>, <<x * i, x>>, order)
    BY <1>1, <1>3
  <2> QED BY <1>1, <2>1, <2>2, DownwardCopy
<1> QED BY <1>2, <1>3

(* GenerateMipMaps and DropMipMaps move the elements of an array in place: *)
(* none is overwritten before it is copied, but by its own copy, and that  *)
(* only when memcpy goes through it in the direction it moves.             *)
THEOREM MovesKeepElements == Spec => []ElementsSurviveMoves
<1>1. IInv => ElementsSurviveMoves
  <2> SUFFICES ASSUME IInv, NEW h \in Handles, IsValid(bitmap[h]), ~ Degenerate(bitmap[h]),
                      NEW i \in 0 .. bitmap[h].arraySize - 1, NEW j \in 0 .. bitmap[h].arraySize - 1
               PROVE  LET b == bitmap[h]
                      IN  /\ CanGenerateMipMaps(b) /\ b.mipCount = 1 =>
                               \A n \in 1 .. GetTrueMipCount([b EXCEPT !.mipCount = 0]) :
                                 /\ SpreadBefore(i, j) => Disjoint(SpreadTo(b, n, i), SpreadFrom(b, j))
                                 /\ \A order \in CopyOrder :
                                      LosesBytes(SpreadFrom(b, i), SpreadTo(b, n, i), order) => order = "up"
                          /\ b.mipCount # 1 /\ Exact(b) /\ GetTrueMipCount(b) > 1 =>
                               /\ GatherBefore(i, j) => Disjoint(GatherTo(b, i), GatherFrom(b, j))
                               /\ \A order \in CopyOrder :
                                    LosesBytes(GatherFrom(b, i), GatherTo(b, i), order) => order = "down"
    BY DEF ElementsSurviveMoves
  <2> DEFINE b == bitmap[h]
  <2>1. b \in Bitmap /\ Sound(b)
    BY DEF IInv, TypeOK
  <2>2. /\ IsValid(b) /\ ~ Degenerate(b) /\ b.arraySize \in Nat
        /\ i \in Nat /\ j \in Nat /\ i < b.arraySize /\ j < b.arraySize
    BY <2>1 DEF Bitmap
  <2> HIDE DEF b
  <2>3. ASSUME CanGenerateMipMaps(b), b.mipCount = 1,
               NEW n \in 1 .. GetTrueMipCount([b EXCEPT !.mipCount = 0])
        PROVE  /\ SpreadBefore(i, j) => Disjoint(SpreadTo(b, n, i), SpreadFrom(b, j))
               /\ \A order \in CopyOrder :
                    LosesBytes(SpreadFrom(b, i), SpreadTo(b, n, i), order) => order = "up"
    <3>1. GetTrueMipCount([b EXCEPT !.mipCount = 0]) \in Nat
      <4>1. [b EXCEPT !.mipCount = 0] \in Bitmap
        BY <2>1 DEF Bitmap
      <4> QED BY <4>1, MipCountType
    <3>2. n \in Nat \ {0}
      BY <2>3, <3>1
    <3> QED BY <2>1, <2>2, <2>3, <3>2, SpreadKeepsElements
  <2>4. ASSUME Exact(b), GetTrueMipCount(b) > 1
        PROVE  /\ GatherBefore(i, j) => Disjoint(GatherTo(b, i), GatherFrom(b, j))
               /\ \A order \in CopyOrder :
                    LosesBytes(GatherFrom(b, i), GatherTo(b, i), order) => order = "down"
    BY <2>1, <2>2, <2>4, GatherKeepsElements
  <2> QED BY <2>3, <2>4 DEF b
<1> QED BY <1>1, Soundness, PTL

(* The levels Downsample2x2 turns to, and the one it leaves out.           *)
LEMMA EvenLevels ==
  ASSUME NEW b \in Bitmap, Sound(b), CanDownsample(b), b.height # 0, DivisibleByLevels(b)
  PROVE  /\ GetTrueMipCount(b) = b.mipCount /\ b.mipCount \in Nat \ {0}
         /\ DownsampledMipCount(b) \in Nat
         /\ b.mipCount # 1 => DownsampledMipCount(b) + 1 = b.mipCount
         /\ b.mipCount = 1 => DownsampledMipCount(b) = 1
         /\ \A k \in Nat : k < DownsampledMipCount(b) =>
              Shr(b.width, k) % 2 = 0 /\ Shr(b.height, k) % 2 = 0
         /\ \A k \in Nat : k <= DownsampledMipCount(b) => Shr(b.width, k) # 0 /\ Shr(b.height, k) # 0
<1> DEFINE n == DownsampledMipCount(b)
           w == b.width
           ht == b.height
<1>1. w \in Nat \ {0} /\ ht \in Nat \ {0} /\ b.mipCount \in Nat \ {0} /\ w % 2 = 0 /\ ht % 2 = 0
  BY DownsampleFacts DEF Bitmap, DivisibleByLevels
<1>2. /\ GetTrueMipCount(b) = b.mipCount /\ n \in Nat
      /\ b.mipCount # 1 => n + 1 = b.mipCount
      /\ b.mipCount = 1 => n = 1
  BY <1>1 DEF GetTrueMipCount, DownsampledMipCount, Larger
<1>3. \A k \in Nat : k < n => Shr(w, k) % 2 = 0 /\ Shr(ht, k) % 2 = 0
  <2>1. CASE b.mipCount = 1
    <3>1. Shr(w, 0) = w /\ Shr(ht, 0) = ht
      BY <1>1, ShrUnfolds
    <3> QED BY <1>1, <1>2, <2>1, <3>1
  <2>2. CASE b.mipCount # 1
    <3>1. \A k \in Nat : k < n => k \in 0 .. b.mipCount - 2
      BY <1>1, <1>2, <2>2
    <3> QED BY <3>1 DEF DivisibleByLevels
  <2> QED BY <2>1, <2>2
<1>4. \A k \in Nat : k <= n => Shr(w, k) # 0 /\ Shr(ht, k) # 0
  <2> SUFFICES ASSUME NEW k \in Nat, k <= n PROVE Shr(w, k) # 0 /\ Shr(ht, k) # 0
    OBVIOUS
  <2>1. \A i \in Nat : i < k => Shr(w, i) % 2 = 0 /\ Shr(ht, i) % 2 = 0
    BY <1>2, <1>3
  <2> QED BY <1>1, <2>1, EvenSidesStay
<1> QED BY <1>1, <1>2, <1>3, <1>4

(* The source pointer moves over an element and no further.                *)
LEMMA SourceKeepsElements ==
  ASSUME NEW b \in Bitmap, Sound(b), CanDownsample(b), b.height # 0, Exact(b), DivisibleByLevels(b)
  PROVE  SourceAdvance(b) = GetArrayElementSize(b)
<1> DEFINE l == [k \in Nat |-> LevelAdvance(b, k)]
           t == [k \in Nat |-> LevelBytes(b, k)]
           n == DownsampledMipCount(b)
           m == b.mipCount
<1>1. /\ GetTrueMipCount(b) = m /\ m \in Nat \ {0} /\ n \in Nat
      /\ m # 1 => n + 1 = m
      /\ m = 1 => n = 1
      /\ \A k \in Nat : k < n => Shr(b.width, k) % 2 = 0 /\ Shr(b.height, k) % 2 = 0
      /\ \A k \in Nat : k <= n => Shr(b.width, k) # 0 /\ Shr(b.height, k) # 0
  BY EvenLevels
<1>2. ~ IsCompressed(b) /\ b.type # "3D" /\ b.width # 0 /\ b.arraySize \in Nat \ {0}
  BY DownsampleFacts
<1>3. l \in [Nat -> Nat] /\ t \in [Nat -> Nat]
  BY AdvanceFits, LevelBytesType
<1>4. \A k \in Nat : k <= n => ShiftedLevel(b, k) = t[k]
  BY <1>1, <1>2, ShiftedLevelFits
<1>5. \A k \in Nat : k < n => l[k] = t[k]
  <2> SUFFICES ASSUME NEW k \in Nat, k < n PROVE LevelAdvance(b, k) = LevelBytes(b, k)
    OBVIOUS
  <2>1. k <= n
    BY <1>1
  <2>2. LevelAdvance(b, k) = ShiftedLevel(b, k)
    BY <1>1, AdvanceFits
  <2> QED BY <1>4, <2>1, <2>2
<1>6. SourceAdvance(b) = Total(l, n) + IF m # 1 THEN t[n] ELSE 0
  <2>1. n <= n
    BY <1>1
  <2>2. Shr(b.height, n) * Shr(b.width, n) * Bpp(b) = t[n]
    BY <1>1, <1>4, <2>1 DEF ShiftedLevel
  <2> QED BY <2>2 DEF SourceAdvance, LevelsAdvance
<1>7. b.data = Total(t, m) * b.arraySize
  BY <1>1 DEF Exact, GetDataSize
<1> HIDE DEF l, t, n, m
<1>8. Total(l, n) = Total(t, n)
  BY <1>1, <1>3, <1>5, TotalsAgree
<1>9. Total(t, n) \in Nat /\ Total(t, n + 1) = Total(t, n) + t[n] /\ Total(t, m) \in Nat
  BY <1>1, <1>3, TotalUnfolds
<1>10. SourceAdvance(b) = Total(t, m)
  BY <1>1, <1>6, <1>8, <1>9
<1>11. GetArrayElementSize(b) = Total(t, m)
  <2> DEFINE e == Total(t, m)
  <2> HIDE DEF e
  <2>1. e * b.arraySize = b.arraySize * e /\ (b.arraySize * e) \div b.arraySize = e
    BY <1>2, <1>9, DivideOut DEF e
  <2> QED BY <1>7, <2>1 DEF e, GetArrayElementSize
<1> QED BY <1>10, <1>11

(* And the destination pointer over one of the smaller bitmap.             *)
LEMMA DestinationKeepsElements ==
  ASSUME NEW b \in Bitmap, Sound(b), CanDownsample(b), b.height # 0, DivisibleByLevels(b)
  PROVE  DestinationAdvance(b) = FlatChainSize(Downsampled(b), DownsampledMipCount(b))
<1> DEFINE n == DownsampledMipCount(b)
           w == b.width
           ht == b.height
           p == Bpp(b)
           d == [k \in Nat |-> (Shr(ht, k) \div 2) * (Shr(w, k) \div 2) * p]
           f == [k \in Nat |-> Halved(w \div 2, k) * Halved(ht \div 2, k) * p]
<1>1. w \in Nat /\ ht \in Nat /\ p \in Nat /\ n \in Nat
  BY EvenLevels, FormatFacts DEF Bitmap, Bpp
<1>2. d \in [Nat -> Nat]
  <2> SUFFICES ASSUME NEW k \in Nat PROVE (Shr(ht, k) \div 2) * (Shr(w, k) \div 2) * p \in Nat
    OBVIOUS
  <2>1. Shr(ht, k) \div 2 \in Nat /\ Shr(w, k) \div 2 \in Nat
    <3>0. k \in Nat /\ k + 1 \in Nat
      OBVIOUS
    <3>1. Shr(ht, k + 1) = Shr(ht, k) \div 2 /\ Shr(ht, k + 1) \in Nat
      BY <1>1, <3>0, ShrUnfolds
    <3>2. Shr(w, k + 1) = Shr(w, k) \div 2 /\ Shr(w, k + 1) \in Nat
      BY <1>1, <3>0, ShrUnfolds
    <3> QED BY <3>1, <3>2
  <2> QED BY <1>1, <2>1, ProductType
<1>3. f \in [Nat -> Nat]
  <2> SUFFICES ASSUME NEW k \in Nat PROVE Halved(w \div 2, k) * Halved(ht \div 2, k) * p \in Nat
    OBVIOUS
  <2>1. w \div 2 \in Nat /\ ht \div 2 \in Nat
    BY <1>1
  <2>2. Halved(w \div 2, k) \in Nat /\ Halved(ht \div 2, k) \in Nat
    BY <2>1, HalvedUnfolds
  <2> QED BY <1>1, <2>2, ProductType
<1>4. \A k \in Nat : k < n => d[k] = f[k]
  <2> SUFFICES ASSUME NEW k \in Nat, k < n
               PROVE  (Shr(ht, k) \div 2) * (Shr(w, k) \div 2) * p
                        = Halved(w \div 2, k) * Halved(ht \div 2, k) * p
    OBVIOUS
  <2>1. k + 1 \in Nat /\ k + 1 <= n
    BY <1>1
  <2>2. Shr(w, k + 1) # 0 /\ Shr(ht, k + 1) # 0
    BY <2>1, EvenLevels
  <2> DEFINE x == Halved(w \div 2, k)
             y == Halved(ht \div 2, k)
  <2>3. Shr(w, k) \div 2 = x /\ Shr(ht, k) \div 2 = y /\ x \in Nat /\ y \in Nat
    BY <1>1, <2>2, HalfOfShifted
  <2> HIDE DEF x, y
  <2>4. y * x = x * y
    BY <2>3
  <2> QED BY <2>3, <2>4 DEF x, y
<1>5. DestinationAdvance(b) = Total(d, n)
  BY DEF DestinationAdvance
<1>6. FlatChainSize(Downsampled(b), n) = Total(f, n)
  <2>1. Downsampled(b).width = w \div 2 /\ Downsampled(b).height = ht \div 2 /\ Downsampled(b).format = b.format
    BY DEF Downsampled, Bitmap
  <2> QED BY <2>1 DEF FlatChainSize, Bpp
<1> HIDE DEF d, f, n
<1> QED BY <1>1, <1>2, <1>3, <1>4, <1>5, <1>6, TotalsAgree DEF n

(* Where the sides halve evenly, Downsample2x2 is at the next element      *)
(* whenever it turns to it, in the old bitmap and in the new one.          *)
THEOREM DownsamplingKeepsElements == Spec => []DownsampleKeepsElements
<1>1. IInv => DownsampleKeepsElements
  <2> SUFFICES ASSUME IInv, NEW h \in Handles, CanDownsample(bitmap[h]), ~ Degenerate(bitmap[h]),
                      Exact(bitmap[h]), DivisibleByLevels(bitmap[h])
               PROVE  LET b == bitmap[h]
                      IN  /\ SourceAdvance(b) = GetArrayElementSize(b)
                          /\ DestinationAdvance(b) = FlatChainSize(Downsampled(b), DownsampledMipCount(b))
    BY DEF DownsampleKeepsElements
  <2> DEFINE b == bitmap[h]
  <2>1. b \in Bitmap /\ Sound(b) /\ b.height # 0
    BY DEF IInv, TypeOK, Degenerate
  <2> HIDE DEF b
  <2> QED BY <2>1, SourceKeepsElements, DestinationKeepsElements DEF b
<1> QED BY <1>1, Soundness, PTL
=============================================================================
