-------------------------------- MODULE Vta --------------------------------
(***************************************************************************)
(* Volume animations (VtaHandler.cpp): a FileWriter collects the frames of *)
(* several grids, coded and compressed, and writes them to a file; a       *)
(* FileReader finds them again by their offsets, and FrameDecoders play    *)
(* them, each its grid, over one reader.                                   *)
(*                                                                         *)
(* A file is the sequence of the pieces that were written, each with its   *)
(* size.  Writes may stop short and reads may fail; zlib is external.      *)
(***************************************************************************)
EXTENDS Rle7

CONSTANTS
  GridLists,     \* the encodings of the grids the writer is made for
  FrameCounts,   \* how many frames it is made for
  Images,        \* the bitmaps of a grid: sequences of bytes of one length
  Keys,          \* metadata keys ...
  Values,        \* ... and values
  Views,         \* the FrameDecoder objects
  ReadsMayFail,  \* whether a read of the stream may fall short
  WritesMayFail  \* whether a write may

Encoding == {"None", "Rle7", "Rle7_5", "Rle6"}

ASSUME GridsAssumption  == GridLists \subseteq Seq(Encoding) \ {<<>>}
ASSUME FramesAssumption == FrameCounts \subseteq Nat \ {0}
ASSUME ImagesAssumption ==
  /\ Images # {}
  /\ \A a, b \in Images : a \in Seq(Byte) \ {<<>>} /\ Len(a) = Len(b)
ASSUME FailAssumption   == ReadsMayFail \in BOOLEAN /\ WritesMayFail \in BOOLEAN

VARIABLES
  writer,   \* the FileWriter
  film,     \* history: [grid -> the bitmaps given, the frames given in order]
  file,     \* what is in the file, or NoFile
  reader,   \* the FileReader
  view      \* [Views -> FrameDecoder], NoView before it is made

vars == <<writer, film, file, reader, view>>

PixelCount == Len(CHOOSE image \in Images : TRUE)
Zeros(n)   == Repeated(0, n)

-----------------------------------------------------------------------------
(* FileWriter                                                              *)

(* A compressed frame: what uncompress makes of it, and its size.          *)
NoBlob == [code |-> <<>>, size |-> 0]
Compressed(code) == [code |-> code, size |-> Len(code) + 1]

(* m_frames is one vector, frame after frame.                              *)
Index(gridCount, grid, frame) == gridCount * frame + grid

NewWriter(grids, frames) ==
  [grids    |-> grids,
   frames   |-> frames,
   blobs    |-> [i \in 0 .. Len(grids) * frames - 1 |-> NoBlob],
   prev     |-> [g \in 0 .. Len(grids) - 1 |-> <<>>],
   metadata |-> <<>>,
   scratch  |-> <<>>]

GridEncoding(w, grid) == w.grids[grid + 1]

(* Mutant: the code keeps five bits from the first frame on.               *)
BitsKept_FiveAlways(encoding, frame) ==
  CASE encoding = "Rle7_5" -> 5 [] encoding = "Rle6" -> 6 [] OTHER -> 7

BitsKept(encoding, frame) ==
  CASE encoding = "Rle7_5" -> (IF frame = 0 THEN 7 ELSE 5)
    [] encoding = "Rle6"   -> 6
    [] OTHER               -> 7

(* resize: new bytes are zero.                                             *)
ResizedTo(bytes, n) == [i \in 1 .. n |-> IF i <= Len(bytes) THEN bytes[i] ELSE 0]

(* Mutant: the code of the frame before stays in m_scratchData.            *)
AddedCoded_ScratchKept(w, grid, frame, image) ==
  LET bits == BitsKept(GridEncoding(w, grid), frame)
      prev == ResizedTo(w.prev[grid], Len(image))
      code == w.scratch \o IF frame = 0 THEN EncodeRle7(bits, image)
                           ELSE EncodeRle7Delta(bits, image, prev)
  IN  [w EXCEPT !.blobs[Index(Len(w.grids), grid, frame)] = Compressed(code),
                !.scratch    = code,
                !.prev[grid] = IF frame = 0 THEN DecodeRle7(Len(image), code)
                               ELSE DecodeRle7Delta(Len(image), code, prev)]

(* A coded frame: the writer keeps what the reader will decode.            *)
AddedCoded(w, grid, frame, image) ==
  LET bits == BitsKept(GridEncoding(w, grid), frame)
      prev == ResizedTo(w.prev[grid], Len(image))
      code == w.scratch \o IF frame = 0 THEN EncodeRle7(bits, image)
                           ELSE EncodeRle7Delta(bits, image, prev)
  IN  [w EXCEPT !.blobs[Index(Len(w.grids), grid, frame)] = Compressed(code),
                !.scratch    = <<>>,
                !.prev[grid] = IF frame = 0 THEN DecodeRle7(Len(image), code)
                               ELSE DecodeRle7Delta(Len(image), code, prev)]

AddedRaw(w, grid, frame, image) ==
  [w EXCEPT !.blobs[Index(Len(w.grids), grid, frame)] = Compressed(image), !.scratch = <<>>]

Added(w, grid, frame, image) ==
  IF GridEncoding(w, grid) = "None" THEN AddedRaw(w, grid, frame, image)
  ELSE AddedCoded(w, grid, frame, image)

(* The value of a key that is there is replaced.                           *)
WithMetadata(w, key, value) ==
  IF \E i \in DOMAIN w.metadata : w.metadata[i][1] = key
  THEN [w EXCEPT !.metadata = [i \in DOMAIN w.metadata |->
          IF w.metadata[i][1] = key THEN <<key, value>> ELSE w.metadata[i]]]
  ELSE [w EXCEPT !.metadata = Append(@, <<key, value>>)]

-----------------------------------------------------------------------------
(* The file                                                                *)

HeaderBytes == 32
GridBytes   == 52
OffsetBytes == 8
LengthBytes == 4
StringBytes == 3   \* every key and value is this long

Piece(kind, size, value) == [kind |-> kind, size |-> size, value |-> value]

Blobs(w) == [i \in 1 .. Len(w.grids) * w.frames |-> w.blobs[i - 1]]

(* Mutant: the data begins where the metadata does.                        *)
DataStart_NoMetadata(w) ==
  HeaderBytes + Len(w.grids) * GridBytes + Len(Blobs(w)) * OffsetBytes

DataStart(w) ==
  HeaderBytes + Len(w.grids) * GridBytes + Len(Blobs(w)) * OffsetBytes
    + Len(w.metadata) * 2 * (LengthBytes + StringBytes)

SizesBefore(w, n) == Total([i \in Nat |-> Blobs(w)[i + 1].size], n)

(* The metadata count of the header is never set.                          *)
Header(w) ==
  [grids |-> Len(w.grids), frames |-> w.frames, metadata |-> 0,
   dataEnd |-> DataStart(w) + SizesBefore(w, Len(Blobs(w)))]

StringPieces(string) == <<Piece("length", LengthBytes, StringBytes), Piece("string", StringBytes, string)>>

MetadataPieces(w) ==
  [i \in 1 .. 4 * Len(w.metadata) |->
     LET entry == w.metadata[(i + 3) \div 4]
     IN  (StringPieces(entry[1]) \o StringPieces(entry[2]))[((i - 1) % 4) + 1]]

(* WriteData, piece by piece.                                              *)
Pieces(w) ==
  <<Piece("header", HeaderBytes, Header(w))>>
  \o [i \in 1 .. Len(w.grids) |-> Piece("grid", GridBytes, w.grids[i])]
  \o [i \in 1 .. Len(Blobs(w)) |-> Piece("offset", OffsetBytes, DataStart(w) + SizesBefore(w, i - 1))]
  \o MetadataPieces(w)
  \o [i \in 1 .. Len(Blobs(w)) |-> Piece("frame", Blobs(w)[i].size, Blobs(w)[i].code)]

NoFile == <<>>

(* Vta::Save of a volume of bytes that has no mip maps: one grid, one      *)
(* frame, and the metadata of the image, whose keys differ.                *)
Save(image, metadata) ==
  Pieces([Added(NewWriter(<<"Rle7">>, 1), 0, 0, image) EXCEPT !.metadata = metadata])

(* Of the piece whose write fails the file may have a part; no read asks   *)
(* for less than a piece, so that it is as if it had none.                 *)
Written(w) ==
  {SubSeq(Pieces(w), 1, n) : n \in IF WritesMayFail THEN 0 .. Len(Pieces(w)) ELSE {Len(Pieces(w))}}

PieceStart(f, i) == Total([j \in Nat |-> f[j + 1].size], i - 1)
FileSize(f)      == PieceStart(f, Len(f) + 1)

-----------------------------------------------------------------------------
(* FileReader                                                              *)

NoReader == [valid |-> FALSE, grids |-> <<>>, frames |-> 0, offsets |-> <<>>,
             dataEnd |-> 0, metadata |-> <<>>]

(* ReadHeader reads the pieces in order; it fails where one is missing.    *)
ReadHeader(f) ==
  IF f = NoFile THEN NoReader
  ELSE LET header    == f[1].value
           cells     == header.grids * header.frames
           strings   == 1 + header.grids + cells
           lastPiece == strings + 4 * header.metadata
       IN  IF Len(f) < lastPiece THEN NoReader
           ELSE [valid    |-> TRUE,
                 grids    |-> [i \in 1 .. header.grids |-> f[1 + i].value],
                 frames   |-> header.frames,
                 offsets  |-> [i \in 1 .. cells |-> f[1 + header.grids + i].value],
                 dataEnd  |-> header.dataEnd,
                 metadata |-> [i \in 1 .. header.metadata |->
                                 <<f[strings + 4 * i - 2].value, f[strings + 4 * i].value>>]]

(* Read after Seek: the whole of what is asked for, or a failure.  Bytes   *)
(* that are not one piece are no frame uncompress accepts.                 *)
NothingRead == [ok |-> FALSE, code |-> <<>>]

BytesAt(f, offset, size) ==
  LET at == {i \in DOMAIN f : PieceStart(f, i) = offset /\ f[i].size = size}
  IN  IF offset + size > FileSize(f) \/ at = {} THEN NothingRead
      ELSE [ok |-> TRUE, code |-> f[CHOOSE i \in at : TRUE].value]

(* A frame ends where the next one begins.                                 *)
GetFrame(r, f, grid, frame) ==
  IF grid >= Len(r.grids) \/ frame >= r.frames THEN NothingRead
  ELSE LET idx == Index(Len(r.grids), grid, frame) + 1
           end == IF idx = Len(r.offsets) THEN r.dataEnd ELSE r.offsets[idx + 1]
       IN  BytesAt(f, r.offsets[idx], end - r.offsets[idx])

-----------------------------------------------------------------------------
(* FrameDecoder                                                            *)

NoView    == [open |-> FALSE]
Unwritten == <<>>   \* the bitmap before anything was decoded into it

NewView(r, grid) ==
  [open |-> TRUE, grid |-> grid, encoding |-> r.grids[grid + 1], frame |-> 0,
   bitmap |-> Unwritten, rle |-> IF r.grids[grid + 1] = "None" THEN <<>> ELSE Zeros(PixelCount),
   intact |-> FALSE]

(* uncompress writes over the beginning of the buffer, or fails and leaves *)
(* it; there is nothing to uncompress in a frame that was never added.     *)
Uncompressed(buffer, read) ==
  IF read.code = <<>> THEN buffer
  ELSE read.code \o SubSeq(buffer, Len(read.code) + 1, Len(buffer))

(* The code as it is decoded into the bitmap.                              *)
Picture(v, rle) ==
  IF v.frame = 0 THEN DecodeRle7(PixelCount, rle) ELSE DecodeRle7Delta(PixelCount, rle, v.bitmap)

(* DecodeFrame: a failure goes unnoticed, and the code buffer, whatever it *)
(* holds, is decoded.  intact is history: whether every frame since the    *)
(* last first one was read.                                                *)
Decoded1(v, read) ==
  IF v.encoding = "None"
  THEN [v EXCEPT !.bitmap = Uncompressed(@, read), !.intact = read.code # <<>>]
  ELSE LET rle == Uncompressed(v.rle, read)
       IN  [v EXCEPT !.rle = rle, !.bitmap = Picture(v, rle),
                     !.intact = read.code # <<>> /\ (v.frame = 0 \/ @)]

(* What GetFrame may give.                                                 *)
Reads(r, f, grid, frame) ==
  {GetFrame(r, f, grid, frame)} \union IF ReadsMayFail THEN {NothingRead} ELSE {}

(* The readers a SetStream may leave: any read of the header may fail.     *)
Opened(stream) == {ReadHeader(stream)} \union IF ReadsMayFail THEN {NoReader} ELSE {}

(* Vta::ReadImage, with a reader and a decoder of its own: the bitmaps it  *)
(* may return with OK, and whether the frame was read.                     *)
ReadImage(f) ==
  {LET d == Decoded1(NewView(rr[1], 0), rr[2]) IN [bitmap |-> d.bitmap, intact |-> d.intact] :
     rr \in UNION {{r} \X Reads(r, f, 0, 0) : r \in {r \in Opened(f) : r.valid}}}

DecodeFrame(v, d) ==
  \E read \in Reads(reader, file, d.grid, d.frame) :
    view' = [view EXCEPT ![v] = Decoded1(d, read)]

-----------------------------------------------------------------------------
(* Actions                                                                 *)

Grids == 0 .. Len(writer.grids) - 1

Init ==
  \E grids \in GridLists, frames \in FrameCounts :
    /\ writer = NewWriter(grids, frames)
    /\ film = [g \in 0 .. Len(grids) - 1 |->
                 [images |-> [f \in 0 .. frames - 1 |-> <<>>], inOrder |-> 0]]
    /\ file = NoFile
    /\ reader = NoReader
    /\ view = [v \in Views |-> NoView]

(* The frames of a grid that can be decoded one after the other: those     *)
(* added in order since the first one was.                                 *)
InOrder(inOrder, frame) ==
  CASE frame = 0 -> 1
    [] frame # 0 /\ frame = inOrder -> frame + 1
    [] frame # 0 /\ frame # inOrder -> 0

(* Indices that are both out of range are turned away; with only one of    *)
(* them out of range the call is undefined and is not made here.  One file *)
(* is written, and the writer is left alone after that.                    *)
AddFrame(grid, frame, image) ==
  /\ file = NoFile
  /\ writer' = Added(writer, grid, frame, image)
  /\ film' = [film EXCEPT ![grid].images[frame] = image,
                          ![grid].inOrder = InOrder(@, frame)]
  /\ UNCHANGED <<file, reader, view>>

SetMetadata(key, value) ==
  /\ file = NoFile
  /\ writer' = WithMetadata(writer, key, value)
  /\ UNCHANGED <<film, file, reader, view>>

WriteData ==
  /\ file = NoFile
  /\ file' \in Written(writer)
  /\ UNCHANGED <<writer, film, reader, view>>

(* A null stream, or the file.                                             *)
SetStream(stream) ==
  /\ reader' \in Opened(stream)
  /\ UNCHANGED <<writer, film, file, view>>

OpenDecoder(v, grid) ==
  /\ ~ view[v].open /\ reader.valid
  /\ DecodeFrame(v, NewView(reader, grid))
  /\ UNCHANGED <<writer, film, file, reader>>

(* Mutant: the frame after the last one is asked for.                      *)
NextIndex_NoWrap(d) == IF d.frame >= reader.frames THEN 0 ELSE d.frame + 1

NextIndex(d) == IF d.frame + 1 >= reader.frames THEN 0 ELSE d.frame + 1

AdvanceFrame(v) ==
  /\ view[v].open
  /\ DecodeFrame(v, [view[v] EXCEPT !.frame = NextIndex(view[v])])
  /\ UNCHANGED <<writer, film, file, reader>>

Restart(v) ==
  /\ view[v].open
  /\ DecodeFrame(v, [view[v] EXCEPT !.frame = 0])
  /\ UNCHANGED <<writer, film, file, reader>>

Next ==
  \/ \E grid \in Grids, frame \in 0 .. writer.frames - 1, image \in Images : AddFrame(grid, frame, image)
  \/ \E key \in Keys, value \in Values : SetMetadata(key, value)
  \/ WriteData
  \/ \E stream \in {NoFile, file} : SetStream(stream)
  \/ \E v \in Views, grid \in Grids : OpenDecoder(v, grid)
  \/ \E v \in Views : AdvanceFrame(v) \/ Restart(v)

Spec == Init /\ [][Next]_vars

-----------------------------------------------------------------------------
(* Properties                                                              *)

Distance(a, b) == Larger(a - b, b - a)

(* The names of the encodings say what is kept: seven bits, or six, or     *)
(* five but for the first frame.                                           *)
Loss(encoding, frame) ==
  CASE encoding = "None"   -> 1
    [] encoding = "Rle7"   -> 2
    [] encoding = "Rle7_5" -> (IF frame = 0 THEN 2 ELSE 8)
    [] encoding = "Rle6"   -> 4

(* The bitmap is the image, but for the bits its encoding drops.           *)
Shows(bitmap, encoding, image, frame) ==
  /\ DOMAIN bitmap = DOMAIN image
  /\ \A i \in DOMAIN image : Distance(bitmap[i], image[i]) < Loss(encoding, frame)

(* What the writer has coded for a frame uncompresses into the buffer of a *)
(* decoder, whose buffers keep the size they were made with.               *)
TypeOK ==
  /\ \A g \in Grids :
       /\ writer.prev[g] \in Seq(Byte) /\ Len(writer.prev[g]) \in {0, PixelCount}
       /\ \A f \in 0 .. writer.frames - 1 :
            LET blob == writer.blobs[Index(Len(writer.grids), g, f)]
            IN  blob.code \in Seq(Byte) /\ Len(blob.code) <= PixelCount
  /\ reader.valid \in BOOLEAN /\ reader.offsets \in Seq(Nat)
  /\ \A v \in Views : view[v].open =>
       /\ view[v].encoding \in Encoding
       /\ view[v].bitmap \in Seq(Byte) /\ Len(view[v].bitmap) \in {0, PixelCount}
       /\ Len(view[v].rle) = IF view[v].encoding = "None" THEN 0 ELSE PixelCount

(* Frames that can be played: all of them given, coded ones in order.      *)
Playable(grid, frame) ==
  IF GridEncoding(writer, grid) = "None" THEN film[grid].images[frame] # <<>>
  ELSE frame < film[grid].inOrder

(* Whatever was added in which order, wherever the file was cut off and   *)
(* whatever reads failed: a decoder all of whose reads since the first     *)
(* frame worked shows the frame it is at.                                  *)
DecodersShowTheFilm ==
  \A v \in Views :
    LET d == view[v]
    IN  d.open /\ d.intact /\ Playable(d.grid, d.frame) =>
          Shows(d.bitmap, d.encoding, film[d.grid].images[d.frame], d.frame)

(* ReadImage of a file whose first frame it could read loads that frame,   *)
(* and what Save wrote comes back.                                         *)
LoadedIsTheFirstFrame ==
  /\ Playable(0, 0) => \A loaded \in ReadImage(file) :
       loaded.intact => Shows(loaded.bitmap, GridEncoding(writer, 0), film[0].images[0], 0)
  /\ \A image \in Images : \A loaded \in ReadImage(Save(image, writer.metadata)) :
       loaded.intact => Shows(loaded.bitmap, "Rle7", image, 0)

(* The offsets written before the data, and computed from sizes and the    *)
(* metadata, lead the reader to the bytes of each frame: a reader finds    *)
(* exactly what the writer compressed, or the file does not have it.       *)
OffsetsLeadToFrames ==
  reader.valid =>
    \A grid \in Grids, frame \in 0 .. writer.frames - 1 :
      LET blob == writer.blobs[Index(Len(writer.grids), grid, frame)]
          read == GetFrame(reader, file, grid, frame)
      IN  IF Len(file) = Len(Pieces(writer)) THEN read = [ok |-> TRUE, code |-> blob.code]
          ELSE read \in {NothingRead, [ok |-> TRUE, code |-> blob.code]}

(* A still: an image of the film, its place and the encoding of its grid.  *)
Likeness(bitmap, still) == Shows(bitmap, still.encoding, still.image, still.frame)

Reel(d) ==
  [f \in DOMAIN film[d.grid].images |->
     [image |-> film[d.grid].images[f], frame |-> f, encoding |-> d.encoding]]

Opens == [v \in Views |-> view[v].open]

Projection ==
  INSTANCE Projectors WITH
    Projector <- Views,
    Likeness  <- Likeness,
    reel      <- [v \in Views |-> IF Opens[v] THEN Reel(view[v]) ELSE <<>>],
    alone     <- [v \in Views |-> Opens[v] /\ view[v].encoding = "None"],
    at        <- [v \in Views |-> IF Opens[v] THEN view[v].frame ELSE -1],
    screen    <- [v \in Views |-> IF Opens[v] THEN view[v].bitmap ELSE <<>>],
    whole     <- [v \in Views |-> Opens[v] /\ view[v].intact /\ Playable(view[v].grid, view[v].frame)]

(* The decoders are such projectors: they visit the frames in turn and     *)
(* around, and what they show after a failed read is not relied on before  *)
(* a frame that does not build on it.                                      *)
DecodersAreProjectors == Projection!Spec

(* VtaHandler.h:46, "Header is followed by: [...] metadata strings": what  *)
(* the writer was told is what a reader of the whole file finds.           *)
MetadataIsRead ==
  reader.valid /\ Len(file) = Len(Pieces(writer)) => reader.metadata = writer.metadata
=============================================================================
