-------------------------------- MODULE Bmp --------------------------------
(***************************************************************************)
(* The BMP handler (Tr2BmpHandler.cpp): two headers, and rows from the     *)
(* bottom up, each filled to a multiple of four bytes.                     *)
(***************************************************************************)
EXTENDS ImageCall

BMP_HEADER_SIZE     == 14
MIN_DIB_HEADER_SIZE == 16
DIB_HEADER_SIZE     == 40

BmpHeader(isBmp, offBits) == [isBmp |-> isBmp, offBits |-> offBits]
DibHeader(structSize, width, height, bitCount, compressed) ==
  [structSize |-> structSize, width |-> width, height |-> height, bitCount |-> bitCount,
   compressed |-> compressed]

BmpHeaders == [isBmp : BOOLEAN, offBits : Nat]
DibHeaders ==
  [structSize : Nat, width : Nat, height : Nat, bitCount : Nat, compressed : BOOLEAN]

GetFormat(dib) ==
  IF dib.bitCount = 24 THEN PIXEL_FORMAT_B8G8R8X8_UNORM ELSE PIXEL_FORMAT_B8G8R8A8_UNORM

dib == call.header

-----------------------------------------------------------------------------
(* Reading                                                                 *)

ReadImage(wants) ==
  /\ file.codec = "bmp"
  /\ Begin("ReadBmp", "Header", wants)
  /\ UNCHANGED <<file, bitmap, pixels, metadata>>

ReadBmpHeader ==
  /\ At("ReadBmp", "Header")
  /\ \/ ReadFails(BMP_HEADER_SIZE, "READ_FAILURE")
     \/ /\ Holds(file, 0, BMP_HEADER_SIZE)
        /\ \/ ~ file.at[0].value.isBmp /\ Return("INVALID_HEADER")
           \/ /\ file.at[0].value.isBmp
              /\ call' = [call EXCEPT !.step = "Dib", !.position = BMP_HEADER_SIZE]
  /\ UNCHANGED <<file, bitmap, pixels, metadata>>

(* The Seek of ReadImage, from behind what was read of the headers.        *)
PixelOffset(position, offBits) ==
  Clamped(file, position + offBits - DIB_HEADER_SIZE - BMP_HEADER_SIZE)

(* The part every header has, and the rest of one that is long enough.     *)
HeaderRead(header) ==
  IF header.structSize >= DIB_HEADER_SIZE THEN DIB_HEADER_SIZE ELSE MIN_DIB_HEADER_SIZE

(* Whether the pixels could be sought is not looked at.                    *)
SeekPixels(header) ==
  LET next == [call EXCEPT !.step = "Create", !.header = header, !.position = @ + HeaderRead(header)]
  IN  \/ call' = [next EXCEPT !.position = PixelOffset(@, file.at[0].value.offBits)]
      \/ StreamFails /\ call' = [next EXCEPT !.faults = TRUE]

IsCompressedDib(header) == header.structSize >= DIB_HEADER_SIZE /\ header.compressed

ReadDibHeader ==
  /\ At("ReadBmp", "Dib")
  /\ \/ ReadFails(MIN_DIB_HEADER_SIZE, "READ_FAILURE") /\ UNCHANGED metadata
     \/ /\ Holds(file, BMP_HEADER_SIZE, MIN_DIB_HEADER_SIZE)
        /\ LET header == file.at[BMP_HEADER_SIZE].value
           IN  \/ /\ header.bitCount \notin {24, 32}
                  /\ Return("HEADER_NOT_SUPPORTED") /\ UNCHANGED metadata
               \/ /\ header.bitCount \in {24, 32}
                  /\ ReadFails(HeaderRead(header), "READ_FAILURE") /\ UNCHANGED metadata
               \/ /\ header.bitCount \in {24, 32}
                  /\ Holds(file, BMP_HEADER_SIZE, HeaderRead(header))
                  /\ IF IsCompressedDib(header)
                     THEN Return("HEADER_NOT_SUPPORTED") /\ UNCHANGED metadata
                     ELSE /\ SeekPixels(header)
                          /\ metadata' = IF call.wants THEN [metadata EXCEPT !.cutout = "default"]
                                         ELSE metadata
  /\ UNCHANGED <<file, bitmap, pixels>>

CreateBitmap ==
  /\ At("ReadBmp", "Create")
  /\ CreateFromBitmapDimensions(GetFormat(dib), dib.width, dib.height, "Rows")
  /\ UNCHANGED <<file, metadata>>

(* The bytes of a row in the file.                                         *)
Stride(bitCount, width) == ((bitCount * width + 31) \div 32) * 4

(* One pass of ReadImagePixels' loops.                                     *)
ReadRow ==
  LET stride == Stride(dib.bitCount, bitmap.width)
      row    == BytesAt(file, call.position, stride)
      start  == (bitmap.height - 1 - call.row) * bitmap.width * 4
      values == IF dib.bitCount = 32 THEN row
                ELSE [i \in 1 .. 4 * bitmap.width |->
                        IF i % 4 = 0 THEN 255 ELSE row[((i - 1) \div 4) * 3 + ((i - 1) % 4) + 1]]
      next   == RowDone(stride, GoesBeyond(pixels, start, values))
  IN  /\ At("ReadBmp", "Rows")
      /\ \/ PixelsFallShort(stride)
         \/ /\ Holds(file, call.position, stride)
            /\ pixels' = Put(pixels, start, values)
            /\ call' = IF next.row = bitmap.height THEN Finished(next, "OK", call.faults) ELSE next
            /\ UNCHANGED bitmap
      /\ UNCHANGED <<file, metadata>>

-----------------------------------------------------------------------------
(* Writing                                                                 *)

CanSave ==
  /\ bitmap.type = "2D" /\ bitmap.arraySize = 1
  /\ bitmap.format \in {PIXEL_FORMAT_B8G8R8X8_UNORM, PIXEL_FORMAT_B8G8R8A8_UNORM}

Save(wants) ==
  \/ ~ IsValid(bitmap) /\ Refuse("SaveBmp", "INVALID_BITMAP", wants)
  \/ IsValid(bitmap) /\ ~ CanSave /\ Refuse("SaveBmp", "SAVE_NOT_SUPPORTED", wants)
  \/ /\ IsValid(bitmap) /\ CanSave
     /\ Begin("SaveBmp", "Header", wants)
     /\ file' = NewFile("bmp", Opaque(Shown), <<>>)
     /\ UNCHANGED <<bitmap, pixels, metadata>>

SavedBitCount == IF bitmap.format = PIXEL_FORMAT_B8G8R8X8_UNORM THEN 24 ELSE 32

SavedBmpHeader ==
  Piece("bmpHeader", BMP_HEADER_SIZE, BmpHeader(TRUE, BMP_HEADER_SIZE + DIB_HEADER_SIZE))

SavedDibHeader ==
  Piece("dibHeader", DIB_HEADER_SIZE,
        DibHeader(DIB_HEADER_SIZE, bitmap.width, bitmap.height, SavedBitCount, FALSE))

(* Two writes, of which either may fail.                                   *)
SaveHeader ==
  /\ At("SaveBmp", "Header")
  /\ \/ WriteFails(SavedBmpHeader, "WRITE_FAILURE")
     \/ /\ StreamFails
        /\ file' = Appended(file, SavedBmpHeader)
        /\ ReturnFault("WRITE_FAILURE")
     \/ /\ file' = Appended(Appended(file, SavedBmpHeader), SavedDibHeader)
        /\ call' = Goto("Rows")
  /\ UNCHANGED <<bitmap, pixels, metadata>>

Padding(rowSize) == [i \in 1 .. (4 - (rowSize % 4)) % 4 |-> 0]

SavedRow(row) ==
  LET packed == PackedRow(bitmap.height - 1 - row)
  IN  Bytes(packed \o Padding(Len(packed)))

SaveRow ==
  /\ At("SaveBmp", "Rows")
  /\ \/ WriteFails(SavedRow(call.row), "WRITE_FAILURE")
     \/ /\ file' = Appended(file, SavedRow(call.row))
        /\ call' = [call EXCEPT !.step = IF call.row + 1 = bitmap.height THEN "Close" ELSE "Rows",
                                !.row = @ + 1]
  /\ UNCHANGED <<bitmap, pixels, metadata>>

-----------------------------------------------------------------------------

Start == \E wants \in BOOLEAN : ReadImage(wants) \/ Save(wants)

Step ==
  \/ ReadBmpHeader \/ ReadDibHeader \/ CreateBitmap \/ ReadRow
  \/ SaveHeader \/ SaveRow \/ Close("SaveBmp")
=============================================================================
