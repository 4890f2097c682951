----------------------------- MODULE ImageCall -----------------------------
(***************************************************************************)
(* What the calls of the image handlers share: the caller's file, bitmap   *)
(* and metadata, and the call that is going on.  A handler (Tga, Bmp, Psd, *)
(* Png, Jpeg) extends this module with the steps of its ReadImage and its  *)
(* Save; ImageFiles composes them.                                         *)
(*                                                                         *)
(* One step is one access to the stream or to memory, with the error       *)
(* return behind it, or one pass of the loop around it.                    *)
(***************************************************************************)
EXTENDS CcpMetadata, BitmapLayout

CONSTANTS
  StreamFails,   \* whether an access to the stream may fail or fall short
  MemoryFails,   \* whether an allocation may
  Uint16Range,   \* the numbers a uint16_t has: 65536, scaled down
  PngSideMax     \* the longest side libpng takes: 1000000, scaled down

ASSUME FailAssumption  == StreamFails \in BOOLEAN /\ MemoryFails \in BOOLEAN
ASSUME RangeAssumption == Uint16Range \in Nat \ {0} /\ PngSideMax \in Nat

VARIABLES
  file,       \* the file, and what it stands for
  bitmap,     \* the caller's HostBitmap
  pixels,     \* its buffer
  metadata,   \* the caller's Metadata
  call        \* the call that is going on, or the last one

vars == <<file, bitmap, pixels, metadata, call>>

Codec == {"tga", "bmp", "psd", "png", "jpg"}

-----------------------------------------------------------------------------
(* Pictures and files                                                      *)

Picture(format, width, height, data) ==
  [format |-> format, width |-> width, height |-> height, data |-> data]

(* What the bitmap shows: its top level.                                   *)
Shown ==
  Picture(bitmap.format, bitmap.width, bitmap.height, SubSeq(pixels, 1, GetMipSize(bitmap, 0)))

(* A format without alpha has a byte for it all the same.                  *)
Opaque(picture) ==
  [picture EXCEPT !.data =
     [i \in DOMAIN @ |->
        IF picture.format = PIXEL_FORMAT_B8G8R8X8_UNORM /\ i % 4 = 0 THEN 255 ELSE @[i]]]

(* The upper eight bits of the ten of each colour of a pixel of            *)
(* R10G10B10A2: red in the lowest bits of the word, then green, then blue. *)
Red10(pixel)   == ((pixel[1] + 256 * pixel[2]) % 1024) \div 4
Green10(pixel) == (((pixel[2] + 256 * pixel[3]) \div 4) % 1024) \div 4
Blue10(pixel)  == (((pixel[3] + 256 * pixel[4]) \div 16) % 1024) \div 4

(* The bytes of a pixel of the bitmap, the first one being number zero.    *)
PixelOf(data, format, i) ==
  SubSeq(data, i * GetBytesPerPixel(format) + 1, (i + 1) * GetBytesPerPixel(format))

(* Such a picture in the formats of eight bits, opaque.                    *)
Eight(picture, format) ==
  LET pixel(i) == PixelOf(picture.data, picture.format, i)
      four(i)  == <<Blue10(pixel(i)), Green10(pixel(i)), Red10(pixel(i)), 255>>
  IN  Picture(format, picture.width, picture.height,
              [i \in DOMAIN picture.data |-> four((i - 1) \div 4)[((i - 1) % 4) + 1]])

NoMetadata == [cutout |-> "default", strings |-> <<>>]

(* A file of a codec: what the steps read is its contents.  The picture    *)
(* and the metadata it stands for, and whether some of its bytes were not  *)
(* written or have been lost, are history.                                 *)
File(codec, contents, picture, strings, cut) ==
  [codec |-> codec, at |-> contents.at, size |-> contents.size, picture |-> picture,
   strings |-> strings, cut |-> cut]

-----------------------------------------------------------------------------
(* Calls                                                                   *)

(* Results of the calls; "CRASHED" is a program that was stopped.          *)
Result ==
  {"OK", "INVALID_BITMAP", "SAVE_NOT_SUPPORTED", "WRITE_FAILURE", "READ_FAILURE",
   "INVALID_HEADER", "HEADER_NOT_SUPPORTED", "ERROR_CREATING_BITMAP", "INVALID_DATA",
   "OUT_OF_MEMORY", "ERROR_INITIALIZING_EXTERNAL_LIBRARY", "CRASHED"}

(* wants is whether the caller passes metadata; position is the stream's,  *)
(* index and row are the counters of the loops, header and palette what    *)
(* was read, faults whether the stream, memory or a library has failed,    *)
(* beyond whether a byte outside the buffer was written.  before is        *)
(* history: what the caller had when the call began.                       *)
Called(op, step, result, wants) ==
  [op |-> op, step |-> step, result |-> result, wants |-> wants, position |-> 0,
   index |-> 0, row |-> 0, header |-> <<>>, palette |-> <<>>, faults |-> FALSE,
   beyond |-> FALSE, before |-> <<>>]

Running == call.step # "Done"

Begin(op, step, wants) ==
  call' = [Called(op, step, "OK", wants) EXCEPT
             !.before = [bitmap |-> bitmap, pixels |-> pixels, metadata |-> metadata]]

(* A call that returns at once.                                            *)
Refuse(op, result, wants) ==
  /\ call' = Called(op, "Done", result, wants)
  /\ UNCHANGED <<file, bitmap, pixels, metadata>>

(* A call that returns keeps of what it went through only the faults, and  *)
(* whether it wrote where it must not.                                     *)
Finished(c, result, faults) ==
  [Called(c.op, "Done", result, c.wants) EXCEPT !.faults = faults, !.beyond = c.beyond]

Return(result)      == call' = Finished(call, result, call.faults)
ReturnFault(result) == call' = Finished(call, result, TRUE)

At(op, step) == call.op = op /\ call.step = step

Goto(step) == [call EXCEPT !.step = step]

(* The structure or the chunk of a kind that the call stands at is whole.  *)
IsWhole(kind) ==
  /\ IsAt(file, call.position, kind)
  /\ Holds(file, call.position, file.at[call.position].size)

(* Read of n bytes is seen to fall short: the file ends, or the stream     *)
(* fails.                                                                  *)
ReadFails(n, result) ==
  \/ ~ Holds(file, call.position, n) /\ Return(result)
  \/ Holds(file, call.position, n) /\ StreamFails /\ ReturnFault(result)

(* Save begins: the file is new, and not whole before the call returns.    *)
NewFile(codec, picture, strings) == File(codec, NoContents, picture, strings, TRUE)

(* Write of a piece; a write that falls short leaves none of it, or all    *)
(* but the last byte.                                                      *)
WriteFails(piece, result) ==
  /\ StreamFails
  /\ \E n \in {0, piece.size - 1} : file' = AppendedPart(file, n)
  /\ ReturnFault(result)

(* The libraries of PNG and JPEG write through a callback of the handler,  *)
(* which does not tell them, nor the handler, when a write falls short.    *)
SavePieces(op, pieces) ==
  LET piece == pieces[call.index + 1]
      next  == [call EXCEPT !.index = @ + 1,
                  !.step = IF call.index + 1 = Len(pieces) THEN "Close" ELSE "Pieces"]
  IN  /\ At(op, "Pieces")
      /\ \/ file' = Appended(file, piece) /\ call' = next
         \/ /\ StreamFails
            /\ \E n \in {0, piece.size - 1} : file' = AppendedPart(file, n)
            /\ call' = [next EXCEPT !.faults = TRUE]
      /\ UNCHANGED <<bitmap, pixels, metadata>>

(* Every write has been done, though maybe not every byte been written.    *)
Close(op) ==
  /\ At(op, "Close")
  /\ file' = [file EXCEPT !.cut = call.faults]
  /\ Return("OK")
  /\ UNCHANGED <<bitmap, pixels, metadata>>

-----------------------------------------------------------------------------
(* The bitmap                                                              *)

NoBitmap == Sized("INVALID", PIXEL_FORMAT_UNKNOWN, 0, 0, 0, 0, 1)

Destroyed(b) == [b EXCEPT !.type = "INVALID", !.format = PIXEL_FORMAT_UNKNOWN, !.data = 0]

Destroy ==
  /\ bitmap' = Destroyed(bitmap)
  /\ pixels' = <<>>

(* Mutant: the size is counted in pixels.                                  *)
Resize_Pixels(b) ==
  LET n == b.width * b.height
  IN  /\ bitmap' = [b EXCEPT !.data = n]
      /\ pixels' = [i \in 1 .. n |-> Unknown]

(* resize to what the dimensions need: bytes that nobody has written.      *)
Resize(b) ==
  LET n == GetDataSize(b)
  IN  /\ bitmap' = [b EXCEPT !.data = n]
      /\ pixels' = [i \in 1 .. n |-> Unknown]

(* Mutant: the buffer is left as it was.                                   *)
Fail_BitmapKept(result) ==
  /\ Return(result)
  /\ UNCHANGED <<bitmap, pixels>>

(* The pixels cannot be read: the bitmap is destroyed.                     *)
Fail(result) ==
  /\ Return(result)
  /\ Destroy

(* HostBitmap::CreateFromBitmapDimensions of a texture of one level, and   *)
(* where the reader goes on.                                               *)
CreateFromBitmapDimensions(format, width, height, step) ==
  LET b == Sized("2D", format, width, height, 1, 1, 1)
  IN  \/ /\ width = 0
         /\ Return("ERROR_CREATING_BITMAP")
         /\ UNCHANGED <<bitmap, pixels>>
      \/ /\ width # 0
         /\ bitmap' = b /\ pixels' = <<>>
         /\ \/ GetDataSize(b) = 0 /\ Return("ERROR_CREATING_BITMAP")
            \/ MemoryFails /\ ReturnFault("ERROR_CREATING_BITMAP")
      \/ /\ width # 0 /\ GetDataSize(b) # 0
         /\ Resize(b)
         /\ call' = Goto(step)

(* A row of the bitmap as it is saved: without the byte of a format that   *)
(* has no alpha.                                                           *)
PackedRow(row) ==
  LET start == row * GetPitch(bitmap)
  IN  IF bitmap.format = PIXEL_FORMAT_B8G8R8X8_UNORM
      THEN [i \in 1 .. 3 * bitmap.width |-> pixels[start + ((i - 1) \div 3) * 4 + ((i - 1) % 3) + 1]]
      ELSE SubSeq(pixels, start + 1, start + GetPitch(bitmap))

(* HostBitmap::Create, which destroys the old bitmap first.                *)
Create(format, width, height, step) ==
  LET b == Sized("2D", format, width, height, 1, 1, 1)
  IN  \/ /\ width = 0 \/ height = 0
         /\ Fail("ERROR_CREATING_BITMAP")
      \/ /\ width # 0 /\ height # 0 /\ MemoryFails
         /\ bitmap' = Destroyed(b) /\ pixels' = <<>>
         /\ ReturnFault("ERROR_CREATING_BITMAP")
      \/ /\ width # 0 /\ height # 0
         /\ Resize(b)
         /\ call' = Goto(step)

FailOnFault(result) ==
  /\ ReturnFault(result)
  /\ Destroy

(* The program is stopped.                                                 *)
Crash ==
  /\ Return("CRASHED")
  /\ bitmap' = NoBitmap /\ pixels' = <<>> /\ metadata' = NoMetadata

(* A read of pixels that falls short.                                      *)
PixelsFallShort(n) ==
  \/ ~ Holds(file, call.position, n) /\ Fail("READ_FAILURE")
  \/ Holds(file, call.position, n) /\ StreamFails /\ FailOnFault("READ_FAILURE")

(* The buffer with some bytes put to a place; those that go beyond its end *)
(* are lost.                                                               *)
Put(data, index, values) ==
  [i \in DOMAIN data |->
     IF i - index \in DOMAIN values THEN values[i - index] ELSE data[i]]

(* A row of the file has been put to its place.                            *)
RowDone(stride, beyond) ==
  [call EXCEPT !.row = @ + 1, !.position = @ + stride, !.beyond = @ \/ beyond]

GoesBeyond(data, index, values) == index + Len(values) > Len(data)
=============================================================================
