------------------------- MODULE HostBitmapAccess -------------------------
(***************************************************************************)
(* Where the operations of HostBitmap read and write its buffer, and the   *)
(* properties of the buffer.  A run of bytes is <<first, length>>; a copy  *)
(* loop is the set of the runs it touches.                                 *)
(***************************************************************************)
EXTENDS HostBitmap, FiniteSets

Inside(run, size)  == 0 <= run[1] /\ run[1] + run[2] <= size
Disjoint(one, two) == one[1] + one[2] <= two[1] \/ two[1] + two[2] <= one[1]

-----------------------------------------------------------------------------
(* Addresses of the loops                                                  *)

(* The rows PopulateMargin reads and writes, and how far right: the rows   *)
(* of the two horizontal margins, and the full width of the rows between.  *)
MarginRuns(b, margin) ==
  LET w == b.width - 2 * margin
      h == b.height - 2 * margin
      At(x, y) == y * GetPitch(b) + x * Bpp(b)
  IN  {<<At(margin, y), w * Bpp(b)>> : y \in 0 .. b.height - 1}
        \union {<<At(0, y + margin), (w + 2 * margin) * Bpp(b)>> : y \in 0 .. h - 1}

(* How far Downsample2x2's source pointer moves over one array element.    *)
(* At a level of w x h pixels each pair of rows moves it by w \div 2 pairs *)
(* of pixels and one more row; the level left out is skipped at the end.   *)
LevelAdvance(b, k) ==
  LET w == Shr(b.width, k)
      h == Shr(b.height, k)
  IN  (h \div 2) * (2 * (w \div 2) + w) * Bpp(b)

LevelsAdvance(b) == Total([k \in Nat |-> LevelAdvance(b, k)], DownsampledMipCount(b))

(* Mutant: a level is skipped even when there is only one.                 *)
SourceAdvance_AlwaysSkips(b) ==
  LET n == DownsampledMipCount(b)
  IN  LevelsAdvance(b) + Shr(b.height, n) * Shr(b.width, n) * Bpp(b)

SourceAdvance(b) ==
  LET n == DownsampledMipCount(b)
  IN  LevelsAdvance(b)
        + IF b.mipCount # 1 THEN Shr(b.height, n) * Shr(b.width, n) * Bpp(b) ELSE 0

(* How far the destination pointer moves over one array element.           *)
DestinationAdvance(b) ==
  Total([k \in Nat |-> (Shr(b.height, k) \div 2) * (Shr(b.width, k) \div 2) * Bpp(b)],
        DownsampledMipCount(b))

(* All the bytes Downsample2x2 reads, as one run.                          *)
DownsampleRun(b) == <<0, (b.arraySize - 1) * SourceAdvance(b) + LevelsAdvance(b)>>

CropRuns(b, l, t, r, u) ==
  {<<l * Bpp(b) + b.width * Bpp(b) * j, (r - l) * Bpp(b)>> : j \in t .. u - 1}

(* The square RotateFaceClockwise turns.                                   *)
RotateRun(b, face) ==
  <<GetPitch(b) * b.width * face, b.width * b.width * Bpp(b)>>

(* Where in the cross a face of the cube is: row and column.               *)
FaceCell(face) ==
  <<<<1, 2>>, <<1, 0>>, <<0, 1>>, <<2, 1>>, <<1, 1>>, <<3, 1>>>>[face + 1]

FaceOffset(b, face) ==
  GetPitch(b) * (b.width \div 3) * FaceCell(face)[1] + (GetPitch(b) \div 3) * FaceCell(face)[2]

FaceRuns(b, face) ==
  {<<FaceOffset(b, face) + line * GetPitch(b), (b.width \div 3) * Bpp(b)>> : line \in 0 .. (b.width \div 3) - 1}

(* The line of a slice ConvertToVolume copies.                             *)
SliceOffset(b, slice) ==
  (b.height - CubeSize(b)) * GetPitch(b) + (slice * GetPitch(b)) \div CubeSize(b)

SliceRun(b, slice, line) == <<SliceOffset(b, slice) + line * GetPitch(b), RowPitch(b)>>

SliceRuns(b) ==
  {SliceRun(b, slice, line) : slice \in 0 .. CubeSize(b) - 1, line \in 0 .. CubeSize(b) - 1}

-----------------------------------------------------------------------------
(* Moving the elements of an array to their new places                     *)

TopSize(b) == b.width * b.height * Bpp(b)

(* Mutant: the first element moved first.                                  *)
SpreadBefore_FirstFirst(i, j) == i < j

(* GenerateMipMaps moves the top levels apart, the last element first;     *)
(* DropMipMaps moves them together, the first element first.               *)
SpreadBefore(i, j) == i > j
GatherBefore(i, j) == i < j

SpreadFrom(b, i)  == <<(b.data \div b.arraySize) * i, TopSize(b)>>
SpreadTo(b, n, i) == <<FlatChainSize(b, n) * i, FlatChainSize(b, n)>>

GatherFrom(b, i) == <<GetMipRawData(b, 0, i), GetMipRawData(b, 1, 0)>>
GatherTo(b, i)   == <<GetMipRawData(b, 1, 0) * i, GetMipRawData(b, 1, 0)>>

(* Both move an element by memcpy, from and to places that may overlap.    *)
(* The order of the bytes is then undefined: up from the first one, or     *)
(* down from the last one.                                                 *)
CopyOrder == {"up", "down"}

Earlier(order, x, y) == IF order = "up" THEN x < y ELSE y < x

(* Byte x of a run goes to the place of byte y, which is still to be       *)
(* copied.                                                                 *)
LosesBytes(from, to, order) ==
  \E x \in 0 .. from[2] - 1 :
    LET y == x + to[1] - from[1]
    IN  y \in 0 .. from[2] - 1 /\ Earlier(order, x, y)

-----------------------------------------------------------------------------
(* Properties: the layout of the buffer                                    *)

TypeOK ==
  /\ bitmap \in [Handles -> Bitmap]
  /\ result \in [op : Operations, handle : Handles, ok : BOOLEAN]

(* A bitmap without height or without depth: CreateVolume and              *)
(* CreateFromBitmapDimensions let it pass.                                 *)
Degenerate(b) == b.height = 0 \/ (b.type = "3D" /\ b.volumeDepth = 0)

(* GenerateMipMaps turned a single level into "the full chain" and gave up.*)
Truncated(b) ==
  /\ b.mipCount = 0 /\ b.type \in {"2D", "CUBE"} /\ ~ IsCompressed(b)
  /\ b.data = GetDataSize([b EXCEPT !.mipCount = 1])

(* ConvertToVolume made a cube of blocks as if they were pixels.           *)
BlockVolume(b) ==
  /\ b.type = "3D" /\ b.mipCount = 1 /\ b.arraySize <= 1 /\ IsCompressed(b)
  /\ b.height = b.width /\ b.volumeDepth = b.width
  /\ b.data = (GetBlockByteSize(b.format) \div 4) * b.width * b.width * b.width

(* HostBitmap never compares its buffer with its dimensions again once it  *)
(* has allocated it (HostBitmap.cpp:465 asks whether that is safe).  Every *)
(* sequence of calls leaves a valid bitmap with the buffer GetDataSize     *)
(* computes, but for the two leaks named above.                            *)
BufferMatchesDimensions ==
  \A h \in Handles :
    LET b == bitmap[h]
    IN  IsValid(b) /\ ~ Degenerate(b) => Exact(b) \/ Truncated(b) \/ BlockVolume(b)

(* GetMipRawData scales a level by m_volumeDepth for every type, GetDataSize*)
(* only for volumes; the two agree because nothing that is valid and not a  *)
(* volume has a depth other than one, whatever it was converted from.       *)
OnlyVolumesAreDeep ==
  \A h \in Handles : LET b == bitmap[h]
                     IN  IsValid(b) /\ b.type # "3D" => b.volumeDepth = 1

(* What holds of every bitmap between two calls: the strengthening of      *)
(* BufferMatchesDimensions that every call keeps.  That a typed bitmap has *)
(* a width, and one slice unless it is a volume, must hold of bitmaps      *)
(* without a buffer too: GenerateMipMaps can give one a buffer again, by   *)
(* the dimensions that Create or a move left behind.                       *)
Sound(b) ==
  /\ b.type # "INVALID" => b.width >= 1
  /\ b.type \notin {"3D", "INVALID"} => b.volumeDepth = 1
  /\ IsValid(b) => b.type # "INVALID" /\ b.arraySize >= 1
  /\ IsValid(b) /\ ~ Degenerate(b) => Exact(b) \/ Truncated(b) \/ BlockVolume(b)

(* Every bitmap of the program is sound, the ones moved from and swapped   *)
(* included (HostBitmap.cpp:51-69): the inductive invariant.               *)
IInv == TypeOK /\ \A h \in Handles : Sound(bitmap[h])

(* The first byte after a level: the next level, or the next element.      *)
LevelEnd(b, level, i) ==
  IF level + 1 < GetTrueMipCount(b)
  THEN GetMipRawData(b, level + 1, i)
  ELSE (i + 1) * GetArrayElementSize(b)

(* The levels of all elements tile the buffer: each begins where the one   *)
(* before it ends, the last ends with the buffer, and the pitch, the rows  *)
(* and the slices a reader multiplies give the size of a level.            *)
(* GetDataSize halves sides pass by pass, GetMipRawData and GetMipSize     *)
(* shift them; the three must agree on odd sides, blocks and depths.       *)
LevelsTileBuffer ==
  \A h \in Handles :
    LET b == bitmap[h]
    IN  IsValid(b) /\ ~ Degenerate(b) /\ Exact(b) =>
          /\ b.arraySize * GetArrayElementSize(b) = b.data
          /\ \A level \in 0 .. GetTrueMipCount(b) - 1 :
               /\ GetMipSize(b, level)
                    = GetMipPitch(b, level) * GetMipNumRows(b, level) * GetMipDepth(b, level)
               /\ \A i \in 0 .. b.arraySize - 1 :
                    GetMipRawData(b, level, i) + GetMipSize(b, level) = LevelEnd(b, level, i)

-----------------------------------------------------------------------------
(* Properties: the loops                                                   *)

(* No accepted PopulateMargin, Crop, RotateFaceClockwise, Downsample2x2,   *)
(* crossmap conversion or uncompressed volume conversion touches a byte    *)
(* outside the buffer, whatever calls made the bitmap, and the six faces   *)
(* come from six parts of the cross.  The exception is a bitmap whose mip  *)
(* count GenerateMipMaps reset before it refused: Downsample2x2 reads the  *)
(* levels of a full chain that is not there.                               *)
LoopsStayInside ==
  \A h \in Handles :
    LET b == bitmap[h]
    IN  /\ \A m \in Edges : CanPopulateMargin(b, m) =>
             \A run \in MarginRuns(b, m) : Inside(run, b.data)
        /\ CanCrop(b) => \A l, r \in 0 .. b.width, t, u \in 0 .. b.height :
             l < r => \A run \in CropRuns(b, l, t, r, u) : Inside(run, b.data)
        /\ \A face \in 0 .. b.arraySize - 1 :
             CanRotateFace(b, face) => Inside(RotateRun(b, face), b.data)
        /\ CanDownsample(b) /\ ~ Degenerate(b) /\ ~ Truncated(b) => Inside(DownsampleRun(b), b.data)
        /\ IsCrossmap(b) => \A face \in 0 .. 5 : \A run \in FaceRuns(b, face) :
             /\ Inside(run, b.data)
             /\ \A other \in 0 .. 5 \ {face} : \A two \in FaceRuns(b, other) : Disjoint(run, two)
        /\ CanConvertToVolume(b) /\ ~ IsCompressed(b) =>
             \A run \in SliceRuns(b) : Inside(run, b.data)

(* Each level but the last has even sides.                                 *)
DivisibleByLevels(b) ==
  /\ b.mipCount > 0
  /\ \A k \in 0 .. b.mipCount - 2 : Shr(b.width, k) % 2 = 0 /\ Shr(b.height, k) % 2 = 0

(* Downsample2x2 walks one pointer through all levels of all elements.  On *)
(* a bitmap whose sides halve evenly down to its last level, the pointer   *)
(* is at the next element exactly when the loop turns to it, and the       *)
(* elements it wrote are as long as those of the bitmap it declares.       *)
DownsampleKeepsElements ==
  \A h \in Handles :
    LET b == bitmap[h]
    IN  CanDownsample(b) /\ ~ Degenerate(b) /\ Exact(b) /\ DivisibleByLevels(b) =>
          /\ SourceAdvance(b) = GetArrayElementSize(b)
          /\ DestinationAdvance(b) = FlatChainSize(Downsampled(b), DownsampledMipCount(b))

(* When GenerateMipMaps grows a single-level array in place, and when      *)
(* DropMipMaps shrinks one, no element is overwritten before it is copied, *)
(* but for one case, which the code leaves to memcpy: an element that      *)
(* overlaps its own new place is lost when memcpy goes up through one that *)
(* moves up (HostBitmap.cpp:1115), or down through one that moves down     *)
(* (HostBitmap.cpp:1192).  Taken the other way, as memmove would, every    *)
(* byte survives, whatever the sizes.                                      *)
ElementsSurviveMoves ==
  \A h \in Handles :
    LET b == bitmap[h]
    IN  IsValid(b) /\ ~ Degenerate(b) =>
          \A i, j \in 0 .. b.arraySize - 1 :
            /\ CanGenerateMipMaps(b) /\ b.mipCount = 1 =>
                 \A n \in 1 .. GetTrueMipCount([b EXCEPT !.mipCount = 0]) :
                   /\ SpreadBefore(i, j) => Disjoint(SpreadTo(b, n, i), SpreadFrom(b, j))
                   /\ \A order \in CopyOrder :
                        LosesBytes(SpreadFrom(b, i), SpreadTo(b, n, i), order) => order = "up"
            /\ b.mipCount # 1 /\ Exact(b) /\ GetTrueMipCount(b) > 1 =>
                 /\ GatherBefore(i, j) => Disjoint(GatherTo(b, i), GatherFrom(b, j))
                 /\ \A order \in CopyOrder :
                      LosesBytes(GatherFrom(b, i), GatherTo(b, i), order) => order = "down"

-----------------------------------------------------------------------------
(* Properties: what a call may do                                          *)

Creations ==
  {"Create", "Create2DArray", "CreateCube", "CreateVolume", "CreateFromBitmapDimensions"}

(* After a call said yes, there is a bitmap: a caller goes on to fill or   *)
(* save it.  CreateCube and CreateVolume do not look whether they got      *)
(* memory, Crop may be left with an empty rectangle or without memory, and *)
(* DropMipMaps without memory.                                             *)
SuccessMeansValid ==
  result.ok =>
    \/ IsValid(bitmap[result.handle])
    \/ result.op \in {"None", "Destroy", "MoveConstruct", "MoveAssign",
                      "CreateCube", "CreateVolume", "Crop", "DropMipMaps"}

(* A conversion that says no has left the bitmap alone, or destroyed its   *)
(* buffer for want of memory: never a bitmap that is half converted.  The  *)
(* exception is GenerateMipMaps, which has already reset the mip count.    *)
FailureKeepsOrDestroys ==
  [][~ result'.ok /\ result'.op \notin Creations =>
       \A h \in Handles :
         \/ bitmap'[h] = bitmap[h]
         \/ ~ IsValid(bitmap'[h])
         \/ result'.op = "GenerateMipMaps" /\ bitmap'[h] = [bitmap[h] EXCEPT !.mipCount = 0]]_vars

(* A bitmap that lost its buffer -- destroyed, moved from, out of memory --*)
(* gets one again only by being created or moved to, never from an         *)
(* operation on pixels it does not have.  The exception is GenerateMipMaps,*)
(* which never asks whether the bitmap is valid.                           *)
NoRevival ==
  [][\A h \in Handles :
       ~ IsValid(bitmap[h]) /\ IsValid(bitmap'[h]) =>
         result'.op \in Creations \union {"MoveConstruct", "MoveAssign", "GenerateMipMaps"}]_vars

(* A conversion of formats keeps the number of pixels: only the bytes of   *)
(* each change, in all levels and elements at once.                        *)
ConversionKeepsPixels ==
  [][\A h \in Handles :
       result'.op \in {"ConvertFormat", "ChangeFormat"} /\ IsValid(bitmap'[h]) =>
         bitmap'[h].data * GetBytesPerPixel(bitmap[h].format)
           = bitmap[h].data * GetBytesPerPixel(bitmap'[h].format)]_vars
=============================================================================
