-------------------------------- MODULE Jpeg -------------------------------
(***************************************************************************)
(* The JPEG handler (Tr2JpgHandler.cpp) around libjpeg, which is external: *)
(* a header, rows, and an end that it looks for.  The loss of JPEG is left *)
(* out: a row that is decoded is the row that was encoded.                 *)
(***************************************************************************)
EXTENDS ImageCall

JPEG_HEADER_SIZE == 20

(* channels are those that come out of libjpeg: 1, 3, or 4 for the colours *)
(* of print.                                                               *)
Header(width, height, channels) == [width |-> width, height |-> height, channels |-> channels]

Headers == [width : Nat, height : Nat, channels : Nat]

(* What libjpeg hands out for a row.                                       *)
IsRowOf(header, bytes) == bytes \in Seq(Byte) /\ Len(bytes) = header.width * header.channels

HeaderPiece(header) == Piece("jpegHeader", JPEG_HEADER_SIZE, header)
RowPiece(bytes)     == Piece("scanline", Len(bytes), bytes)
EndPiece            == Piece("endOfImage", 2, TRUE)

h == call.header

-----------------------------------------------------------------------------
(* Reading                                                                 *)

ReadImage(wants) ==
  /\ file.codec = "jpg"
  /\ Begin("ReadJpeg", "Data", wants)
  /\ UNCHANGED <<file, bitmap, pixels, metadata>>

(* The whole file is read to memory.  What Read returns is not looked at:  *)
(* index is the number of bytes that came.                                 *)
ReadData ==
  /\ At("ReadJpeg", "Data")
  /\ \/ file.size = 0 /\ Return("READ_FAILURE")
     \/ /\ file.size # 0 /\ MemoryFails
        /\ \E result \in {"OUT_OF_MEMORY", "ERROR_INITIALIZING_EXTERNAL_LIBRARY"} : ReturnFault(result)
     \/ /\ file.size # 0
        /\ \/ call' = [call EXCEPT !.step = "Header", !.index = file.size]
           \/ /\ StreamFails
              /\ \E n \in DOMAIN file.at :
                   call' = [call EXCEPT !.step = "Header", !.index = n, !.faults = TRUE]
  /\ UNCHANGED <<file, bitmap, pixels, metadata>>

(* Whether the piece the decoder stands at came whole; one that lies       *)
(* behind what came is whatever memory held.                               *)
Came(kind)  == IsWhole(kind) /\ call.position + file.at[call.position].size <= call.index
IsUndefined == call.faults /\ call.index <= call.position

(* An error of libjpeg, no memory for one, ends the read.  The bitmap is   *)
(* created whether or not there is memory for it.                          *)
ReadHeader ==
  /\ At("ReadJpeg", "Header")
  /\ \/ /\ ~ Came("jpegHeader")
        /\ Return("INVALID_HEADER")
        /\ UNCHANGED <<bitmap, pixels, metadata>>
     \/ /\ MemoryFails
        /\ ReturnFault("INVALID_HEADER")
        /\ UNCHANGED <<bitmap, pixels, metadata>>
     \/ /\ Came("jpegHeader")
        /\ LET header == file.at[0].value
               b      == Sized("2D", PIXEL_FORMAT_B8G8R8A8_UNORM, header.width, header.height, 1, 1, 1)
               next   == [call EXCEPT !.step = "Clear", !.header = header, !.position = JPEG_HEADER_SIZE]
           IN  \/ Resize(b) /\ call' = next
               \/ /\ MemoryFails
                  /\ bitmap' = Destroyed(b) /\ pixels' = <<>>
                  /\ call' = [next EXCEPT !.faults = TRUE]
        /\ metadata' = IF call.wants THEN [metadata EXCEPT !.cutout = "default"] ELSE metadata
  /\ UNCHANGED file

(* A buffer for the rows; and zeros are written to the bitmap's, if there  *)
(* is one or not.                                                          *)
ClearPixels ==
  /\ At("ReadJpeg", "Clear")
  /\ \/ MemoryFails /\ FailOnFault("OUT_OF_MEMORY") /\ UNCHANGED metadata
     \/ ~ IsValid(bitmap) /\ Crash
     \/ IsValid(bitmap) /\ MemoryFails /\ FailOnFault("INVALID_DATA") /\ UNCHANGED metadata
     \/ /\ IsValid(bitmap)
        /\ pixels' = [i \in DOMAIN pixels |-> 0]
        /\ call' = Goto("Rows")
        /\ UNCHANGED <<bitmap, metadata>>
  /\ UNCHANGED file

(* A row in the bitmap: one or three channels and an alpha.                *)
Expanded(row) ==
  [i \in 1 .. 4 * bitmap.width |->
     IF i % 4 = 0 THEN 255
     ELSE row[((i - 1) \div 4) * h.channels + IF h.channels = 1 THEN 1 ELSE 4 - (i % 4)]]

(* Of any other number of channels nothing is taken over.                  *)
IsTaken  == h.channels \in {1, 3}
RowStart == call.row * 4 * bitmap.width

RowTaken(row, data) == IF IsTaken THEN Put(data, RowStart, Expanded(row)) ELSE data

(* Rows are read; those that did not come end the call, or are decoded to  *)
(* something.                                                              *)
ReadRow ==
  LET next == RowDone(bitmap.width * h.channels,
                      IsTaken /\ RowStart + 4 * bitmap.width > Len(pixels))
  IN  /\ At("ReadJpeg", "Rows") /\ call.row < bitmap.height
      /\ \/ MemoryFails /\ FailOnFault("INVALID_DATA")
         \/ ~ Came("scanline") /\ Fail("INVALID_DATA")
         \/ /\ Came("scanline")
            /\ pixels' = RowTaken(file.at[call.position].value, pixels)
            /\ call' = next
            /\ UNCHANGED bitmap
         \/ /\ IsUndefined
            /\ pixels' = RowTaken([i \in 1 .. bitmap.width * h.channels |-> Unknown], pixels)
            /\ call' = next
            /\ UNCHANGED bitmap
      /\ UNCHANGED <<file, metadata>>

(* jpeg_finish_decompress wants the end of the image.                      *)
Finish ==
  /\ At("ReadJpeg", "Rows") /\ call.row = bitmap.height
  /\ \/ ~ Came("endOfImage") /\ Fail("INVALID_DATA")
     \/ /\ Came("endOfImage") \/ IsUndefined
        /\ Return("OK")
        /\ UNCHANGED <<bitmap, pixels>>
  /\ UNCHANGED <<file, metadata>>

-----------------------------------------------------------------------------
(* Writing                                                                 *)

Is1010102 == bitmap.format \in {PIXEL_FORMAT_R10G10B10A2_UNORM, PIXEL_FORMAT_R10G10B10A2_TYPELESS}

CanSave ==
  /\ bitmap.type = "2D" /\ bitmap.arraySize = 1
  /\ \/ bitmap.format \in {PIXEL_FORMAT_B8G8R8X8_UNORM, PIXEL_FORMAT_B8G8R8A8_UNORM,
                           PIXEL_FORMAT_R8_UNORM}
     \/ Is1010102

SavedRow(row) ==
  LET pixel(i)  == PixelOf(pixels, bitmap.format, row * bitmap.width + i)
      colour(i) == IF Is1010102 THEN <<Red10(pixel(i)), Green10(pixel(i)), Blue10(pixel(i))>>
                   ELSE <<pixel(i)[3], pixel(i)[2], pixel(i)[1]>>
  IN  IF bitmap.format = PIXEL_FORMAT_R8_UNORM
      THEN SubSeq(pixels, row * bitmap.width + 1, (row + 1) * bitmap.width)
      ELSE [i \in 1 .. 3 * bitmap.width |-> colour((i - 1) \div 3)[((i - 1) % 3) + 1]]

SavedChannels == IF bitmap.format = PIXEL_FORMAT_R8_UNORM THEN 1 ELSE 3

Pieces ==
  <<HeaderPiece(Header(bitmap.width, bitmap.height, SavedChannels))>>
    \o [row \in 1 .. bitmap.height |-> RowPiece(SavedRow(row - 1))]
    \o <<EndPiece>>

(* What a JPEG of a bitmap stands for: four channels, opaque.              *)
Stored(picture) ==
  LET opaque(data) == [i \in DOMAIN data |-> IF i % 4 = 0 THEN 255 ELSE data[i]]
      grey         == [i \in 1 .. 4 * Len(picture.data) |->
                         IF i % 4 = 0 THEN 255 ELSE picture.data[((i - 1) \div 4) + 1]]
  IN  CASE picture.format = PIXEL_FORMAT_R8_UNORM ->
             Picture(PIXEL_FORMAT_B8G8R8A8_UNORM, picture.width, picture.height, grey)
        [] picture.format \in {PIXEL_FORMAT_R10G10B10A2_UNORM, PIXEL_FORMAT_R10G10B10A2_TYPELESS} ->
             Eight(picture, PIXEL_FORMAT_B8G8R8A8_UNORM)
        [] OTHER ->
             Picture(PIXEL_FORMAT_B8G8R8A8_UNORM, picture.width, picture.height, opaque(picture.data))

(* libjpeg has an error handler of its own for Save, which ends the        *)
(* program: of a side too large for the header, and of memory it is not    *)
(* given.                                                                  *)
IsTooLarge == bitmap.width >= Uint16Range \/ bitmap.height >= Uint16Range

Save(wants) ==
  \/ ~ IsValid(bitmap) /\ Refuse("SaveJpeg", "INVALID_BITMAP", wants)
  \/ IsValid(bitmap) /\ ~ CanSave /\ Refuse("SaveJpeg", "SAVE_NOT_SUPPORTED", wants)
  \/ /\ IsValid(bitmap) /\ CanSave
     /\ Begin("SaveJpeg", "Pieces", wants)
     /\ file' = NewFile("jpg", Stored(Shown), <<>>)
     /\ UNCHANGED <<bitmap, pixels, metadata>>

SaveCrashes ==
  /\ At("SaveJpeg", "Pieces")
  /\ IsTooLarge \/ MemoryFails
  /\ Crash
  /\ UNCHANGED file

-----------------------------------------------------------------------------

Start == \E wants \in BOOLEAN : ReadImage(wants) \/ Save(wants)

Step ==
  \/ ReadData \/ ReadHeader \/ ClearPixels \/ ReadRow \/ Finish
  \/ SaveCrashes \/ (~ IsTooLarge /\ SavePieces("SaveJpeg", Pieces)) \/ Close("SaveJpeg")
=============================================================================
