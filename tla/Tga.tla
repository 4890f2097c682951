-------------------------------- MODULE Tga --------------------------------
(***************************************************************************)
(* The TGA handler (Tr2TgaHandler.cpp): rows from the bottom up, packets   *)
(* of run lengths, a palette, two flags that turn the picture over, and    *)
(* metadata in a developer area at the end of the file.                    *)
(***************************************************************************)
EXTENDS ImageCall

TGA_HEADER_SIZE == 18
FOOTER_SIZE     == 26
PALETTE_SIZE    == 768

RAW_INDEXED == 1
RLE_INDEXED == 9
RAW_PIXELS  == {2, 3}
RLE_PIXELS  == {10, 11}

(* The header: mapped is the colour map type, mapFits whether the map has  *)
(* 256 entries of 24 bits, mirrored and flipped are two bits of the        *)
(* descriptor and reserved says that one above them is set.                *)
Header(idLength, mapped, mapFits, imageType, width, height, bpp, mirrored, flipped, reserved) ==
  [idLength |-> idLength, mapped |-> mapped, mapFits |-> mapFits, imageType |-> imageType,
   width |-> width, height |-> height, bpp |-> bpp, mirrored |-> mirrored,
   flipped |-> flipped, reserved |-> reserved]

Headers ==
  [idLength : Nat, mapped : BOOLEAN, mapFits : BOOLEAN, imageType : Nat, width : Nat,
   height : Nat, bpp : Nat, mirrored : BOOLEAN, flipped : BOOLEAN, reserved : BOOLEAN]

IsIndexed(header) == header.imageType \in {RAW_INDEXED, RLE_INDEXED}

GetFormat(header) ==
  IF ~ IsIndexed(header) /\ header.bpp = 8 THEN PIXEL_FORMAT_R8_UNORM
  ELSE IF IsIndexed(header) \/ header.bpp < 32 THEN PIXEL_FORMAT_B8G8R8X8_UNORM
  ELSE PIXEL_FORMAT_B8G8R8A8_UNORM

IsSupported(header) ==
  /\ header.imageType < 12
  /\ header.mapped => header.mapFits
  /\ header.width >= 1 /\ header.height >= 1
  /\ ~ header.reserved

(* Bytes of a pixel in the file.                                           *)
InputSize(header) == (IF header.mapped THEN 24 ELSE header.bpp) \div 8

h     == call.header
pitch == GetPitch(bitmap)

-----------------------------------------------------------------------------
(* Reading                                                                 *)

ReadImage(wants) ==
  /\ file.codec = "tga"
  /\ Begin("ReadTga", "Header", wants)
  /\ metadata' = IF wants THEN NoMetadata ELSE metadata
  /\ UNCHANGED <<file, bitmap, pixels>>

DoReadHeader ==
  /\ At("ReadTga", "Header")
  /\ \/ ReadFails(TGA_HEADER_SIZE, "READ_FAILURE")
     \/ /\ Holds(file, 0, TGA_HEADER_SIZE)
        /\ LET header == file.at[0].value
           IN  \/ ~ IsSupported(header) /\ Return("HEADER_NOT_SUPPORTED")
               \/ /\ IsSupported(header)
                  /\ call' = [call EXCEPT !.step = "Create", !.header = header,
                                          !.position = TGA_HEADER_SIZE]
  /\ UNCHANGED <<file, bitmap, pixels, metadata>>

CreateBitmap ==
  /\ At("ReadTga", "Create")
  /\ CreateFromBitmapDimensions(GetFormat(h), h.width, h.height, "Pixels")
  /\ UNCHANGED <<file, metadata>>

(* What a file that is not compressed has to have.                         *)
NeededSize ==
  bitmap.width * bitmap.height * (h.bpp \div 8) + TGA_HEADER_SIZE + h.idLength
    + IF h.imageType = RAW_INDEXED THEN PALETTE_SIZE ELSE 0

IsRaw == h.imageType \in {RAW_INDEXED} \union RAW_PIXELS

BeginPixels ==
  /\ At("ReadTga", "Pixels")
  /\ \/ /\ IsRaw /\ NeededSize > file.size
        /\ Fail("INVALID_DATA")
     \/ /\ h.imageType \notin {RAW_INDEXED, RLE_INDEXED} \union RAW_PIXELS \union RLE_PIXELS
        /\ Fail("HEADER_NOT_SUPPORTED")
     \/ /\ IsRaw => NeededSize <= file.size
        /\ \/ IsIndexed(h) /\ call' = Goto("Palette")
           \/ h.imageType \in RAW_PIXELS /\ call' = Goto("Rows")
           \/ h.imageType \in RLE_PIXELS /\ call' = Goto("Compressed")
        /\ UNCHANGED <<bitmap, pixels>>
  /\ UNCHANGED <<file, metadata>>

(* Palette, indexes and packets are read to buffers of their own.          *)
NoMemory == MemoryFails /\ FailOnFault("OUT_OF_MEMORY")

ReadPalette ==
  /\ At("ReadTga", "Palette")
  /\ \/ NoMemory
     \/ PixelsFallShort(PALETTE_SIZE)
     \/ /\ Holds(file, call.position, PALETTE_SIZE)
        /\ call' = [call EXCEPT
             !.step = IF h.imageType = RAW_INDEXED THEN "Indexes" ELSE "Compressed",
             !.position = @ + PALETTE_SIZE,
             !.palette = IF IsAt(file, call.position, "palette")
                         THEN file.at[call.position].value ELSE <<>>]
        /\ UNCHANGED <<bitmap, pixels>>
  /\ UNCHANGED <<file, metadata>>

(* A pixel by its index in the palette.                                    *)
Colour(index) ==
  IF index \in DOMAIN call.palette THEN call.palette[index] \o <<255>>
  ELSE <<Unknown, Unknown, Unknown, 255>>

(* The bytes of some pixels of four.                                       *)
FourByFour(list) ==
  [i \in 1 .. 4 * Len(list) |-> list[((i - 1) \div 4) + 1][((i - 1) % 4) + 1]]

(* The last row of some rows comes first.                                  *)
RowsReversed(data) ==
  [i \in DOMAIN data |->
     data[(bitmap.height - 1 - (i - 1) \div pitch) * pitch + ((i - 1) % pitch) + 1]]

(* ReadRawData with a palette: all indexes in one read.                    *)
ReadIndexes ==
  LET n       == bitmap.width * bitmap.height * (h.bpp \div 8)
      indexes == BytesAt(file, call.position, n)
  IN  /\ At("ReadTga", "Indexes")
      /\ \/ NoMemory
         \/ PixelsFallShort(n)
         \/ /\ Holds(file, call.position, n)
            /\ pixels' = RowsReversed(FourByFour([k \in 1 .. bitmap.width * bitmap.height |->
                                                    Colour(indexes[k])]))
            /\ call' = Goto("Mirror")
            /\ UNCHANGED bitmap
      /\ UNCHANGED <<file, metadata>>

(* Where a row goes in the bitmap, the bottom row first.                   *)
RowStart(row) ==
  (bitmap.height - 1 - row) * IF InputSize(h) = 3 THEN pitch ELSE bitmap.width * InputSize(h)

(* ReadRawData without: row by row.                                        *)
ReadRow ==
  LET stride == bitmap.width * InputSize(h)
      row    == BytesAt(file, call.position, stride)
      values == IF InputSize(h) # 3 THEN row
                ELSE FourByFour([k \in 1 .. bitmap.width |->
                                   SubSeq(row, 3 * k - 2, 3 * k) \o <<255>>])
  IN  /\ At("ReadTga", "Rows")
      /\ \/ PixelsFallShort(stride)
         \/ /\ Holds(file, call.position, stride)
            /\ pixels' = Put(pixels, RowStart(call.row), values)
            /\ call' = [call EXCEPT
                 !.step = IF call.row + 1 = bitmap.height THEN "Mirror" ELSE "Rows",
                 !.row = @ + 1, !.position = @ + stride,
                 !.beyond = @ \/ GoesBeyond(pixels, RowStart(call.row), values)]
            /\ UNCHANGED bitmap
      /\ UNCHANGED <<file, metadata>>

(* ReadRLEData reads what is left of the file.                             *)
ReadCompressed ==
  /\ At("ReadTga", "Compressed")
  /\ \/ NoMemory
     \/ PixelsFallShort(0)
     \/ call' = Goto("Packets") /\ UNCHANGED <<bitmap, pixels>>
  /\ UNCHANGED <<file, metadata>>

(* A packet.  A descriptor with its high bit set is followed by one pixel, *)
(* any other by as many as it counts.                                      *)
IsRun(descriptor)       == descriptor >= 128
PixelsOf(descriptor)    == (descriptor % 128) + 1
SizeOf(descriptor, header) ==
  1 + (IF IsRun(descriptor) THEN 1 ELSE PixelsOf(descriptor)) * InputSize(header)

(* The one the decoder stands at.                                          *)
Descriptor  == ByteAt(file, call.position)
PacketCount == PixelsOf(Descriptor)
PacketSize  == SizeOf(Descriptor, h)

PacketIsWhole == Holds(file, call.position, 1) /\ Holds(file, call.position, PacketSize)

(* Mutant: a run is as long as the pixels that follow.                     *)
SourceByte_RunAdvances(k, n) == ByteAt(file, call.position + 1 + k * InputSize(h) + n)

(* Byte n of the packet's pixel k.                                         *)
SourceByte(k, n) ==
  ByteAt(file, call.position + 1 + (IF IsRun(Descriptor) THEN 0 ELSE k) * InputSize(h) + n)

(* What Decode makes of a pixel of four bytes: whatever the fourth was, it *)
(* becomes 255 unless it was in the file.                                  *)
Decoded(k) ==
  IF IsIndexed(h) THEN Colour(SourceByte(k, 0))
  ELSE <<SourceByte(k, 0), SourceByte(k, 1), SourceByte(k, 2),
         IF InputSize(h) = 4 THEN SourceByte(k, 3) ELSE 255>>

FirstPacket(header) == TGA_HEADER_SIZE + IF IsIndexed(header) THEN PALETTE_SIZE ELSE 0

(* Whether there are so many pixels in front of each packet, and the last  *)
(* one ends where the image does.                                          *)
ArePixelsBefore(before, header) ==
  LET all == header.width * header.height
  IN  /\ before[FirstPacket(header)] = 0
      /\ \A o \in DOMAIN file.at : before[o] < all /\ o >= FirstPacket(header) =>
           LET descriptor == ByteWritten(file, o)
               after      == before[o] + PixelsOf(descriptor)
               next       == o + SizeOf(descriptor, header)
           IN  \/ after = all
               \/ after < all /\ next \in DOMAIN file.at /\ before[next] = after

PacketsFit(header) ==
  /\ FirstPacket(header) \in DOMAIN file.at
  /\ \E before \in [DOMAIN file.at -> 0 .. header.width * header.height] :
       ArePixelsBefore(before, header)

(* The packet's pixels.  Decode writes 255 three bytes behind a pixel of   *)
(* one byte too: the next pixels go over it, but for the last three.       *)
DecodedPacket(index) ==
  IF GetBytesPerPixel(GetFormat(h)) = 1
  THEN Put(Put(pixels, index + 3, [k \in 1 .. PacketCount |-> 255]), index,
           [k \in 1 .. PacketCount |-> SourceByte(k - 1, 0)])
  ELSE Put(pixels, index, FourByFour([k \in 1 .. PacketCount |-> Decoded(k - 1)]))

(* Where its first n pixels end.                                           *)
PixelsEnd(index, n) ==
  index + n * GetBytesPerPixel(GetFormat(h))
    + IF GetBytesPerPixel(GetFormat(h)) = 1 THEN 3 ELSE 0

PacketEnd(index) == PixelsEnd(index, PacketCount)

(* A packet of which the file has not all is found out when n of its       *)
(* pixels have been written: a run at its end, any other at the pixel that *)
(* is not there.                                                           *)
IsFoundShortAfter(n) ==
  IF IsRun(Descriptor) THEN n = PacketCount
  ELSE /\ ~ Holds(file, call.position, 1 + n * InputSize(h))
       /\ Holds(file, call.position, 1 + (n - 1) * InputSize(h))

PacketFallsShort(result) ==
  /\ Holds(file, call.position, 1) /\ ~ PacketIsWhole
  /\ \E n \in 1 .. PacketCount :
       /\ IsFoundShortAfter(n)
       /\ call' = Finished([call EXCEPT !.beyond = @ \/ PixelsEnd(call.index, n) > bitmap.data],
                           result, call.faults)
  /\ Destroy

(* One pass of ReadRLEData's loop.                                         *)
DecodePacket ==
  /\ At("ReadTga", "Packets") /\ call.index < GetMipSize(bitmap, 0)
  /\ \/ /\ ~ Holds(file, call.position, 1)
        /\ Fail("INVALID_DATA")
     \/ PacketFallsShort("INVALID_DATA")
     \/ /\ PacketIsWhole
        /\ pixels' = DecodedPacket(call.index)
        /\ call' = [call EXCEPT
             !.index = @ + PacketCount * GetBytesPerPixel(GetFormat(h)),
             !.position = @ + PacketSize,
             !.beyond = @ \/ PacketEnd(call.index) > bitmap.data]
        /\ UNCHANGED bitmap
  /\ UNCHANGED <<file, metadata>>

(* Its end: the rows came from the bottom up.                              *)
PacketsAreDecoded ==
  /\ At("ReadTga", "Packets") /\ call.index >= GetMipSize(bitmap, 0)
  /\ pixels' = RowsReversed(pixels)
  /\ call' = Goto("Mirror")
  /\ UNCHANGED <<file, bitmap, metadata>>

(* SwapPixels of the first and the last pixel of a row.                    *)
EndsSwapped(data, bpp) ==
  [i \in DOMAIN data |->
     CASE i <= bpp                       -> data[i + pitch - bpp]
       [] pitch - bpp < i /\ i <= pitch  -> data[i - pitch + bpp]
       [] OTHER                          -> data[i]]

(* Mutant: a row of one pixel has ends to swap.                            *)
HasEnds_Any == bitmap.width >= 1

(* start < end.                                                            *)
HasEnds == bitmap.width > 1

(* The loop over a mirrored row: nothing in it moves start or end.         *)
MirrorRow ==
  /\ At("ReadTga", "Mirror") /\ h.mirrored /\ HasEnds
  /\ pixels' = EndsSwapped(pixels, GetBytesPerPixel(bitmap.format))
  /\ UNCHANGED <<file, bitmap, metadata, call>>

RowsAreMirrored ==
  /\ At("ReadTga", "Mirror") /\ ~ (h.mirrored /\ HasEnds)
  /\ pixels' = IF h.flipped THEN RowsReversed(pixels) ELSE pixels
  /\ IF call.wants THEN call' = Goto("Footer") ELSE Return("OK")
  /\ UNCHANGED <<file, bitmap, metadata>>

-----------------------------------------------------------------------------
(* Metadata: the footer leads to a directory, the directory to a chunk     *)

(* The tag of the metadata, and any other.                                 *)
Tag == {"CP", "XX"}

Entry(tag, offset) == [tag |-> tag, offset |-> offset]
DirectoryEntry == [tag : Tag, offset : Nat]
Directory(entries) == Piece("directory", 2 + 10 * Len(entries), entries)
Footer(developerArea) == Piece("footer", FOOTER_SIZE, developerArea)

(* What ReadMetadata returns is not looked at: the picture is there.       *)
MetadataIsRead == Return("OK") /\ UNCHANGED metadata

(* A stream that fails while metadata are read, or no memory for a chunk.  *)
MetadataFails == StreamFails /\ ReturnFault("OK")
ChunkFails    == StreamFails \/ MemoryFails

(* Bytes in the footer's place that are no footer, or one without a        *)
(* developer area, mean there are no metadata.                             *)
ReadFooter ==
  LET position == Clamped(file, file.size - FOOTER_SIZE)
  IN  /\ At("ReadTga", "Footer")
      /\ \/ MetadataFails /\ UNCHANGED metadata
         \/ /\ \/ ~ IsAt(file, position, "footer")
               \/ IsAt(file, position, "footer") /\ file.at[position].value = 0
            /\ MetadataIsRead
         \/ /\ IsAt(file, position, "footer") /\ file.at[position].value # 0
            /\ call' = [call EXCEPT !.step = "Directory",
                                    !.position = Clamped(file, file.at[position].value)]
            /\ UNCHANGED metadata
      /\ UNCHANGED <<file, bitmap, pixels>>

(* A directory that the file does not have to its end, or bytes that are   *)
(* none and have no tag of ours, mean there are no metadata.               *)
ReadDirectory ==
  /\ At("ReadTga", "Directory")
  /\ \/ MetadataFails /\ UNCHANGED metadata
     \/ ~ IsWhole("directory") /\ MetadataIsRead
     \/ /\ IsWhole("directory")
        /\ call' = [call EXCEPT !.step = "Entries", !.index = 1,
                                !.header = file.at[call.position].value]
        /\ UNCHANGED metadata
  /\ UNCHANGED <<file, bitmap, pixels>>

IsCcpEntry(entry) == entry.tag = "CP"

(* LoadCcpMetadata at an entry's offset, which clears the strings first.   *)
(* What is no chunk is passed over; a chunk that cannot be read ends the   *)
(* loop, whatever the entries behind it lead to.                           *)
LoadMetadata(position) ==
  \/ /\ IsNoChunk(file, position)
     /\ call' = [call EXCEPT !.index = @ + 1]
     /\ metadata' = [metadata EXCEPT !.strings = <<>>]
  \/ /\ ChunkIsWhole(file, position)
     /\ metadata' = [metadata EXCEPT !.strings = ChunkStrings(file, position)]
     /\ Return("OK")
  \/ /\ ChunkFallsShort(file, position)
     /\ metadata' = [metadata EXCEPT !.strings = <<>>]
     /\ Return("OK")
  \/ /\ ChunkFails
     /\ metadata' = [metadata EXCEPT !.strings = <<>>]
     /\ ReturnFault("OK")

(* One pass of the loop over the directory.                                *)
ReadEntry ==
  /\ At("ReadTga", "Entries")
  /\ \/ call.index > Len(h) /\ MetadataIsRead
     \/ /\ call.index <= Len(h) /\ ~ IsCcpEntry(h[call.index])
        /\ call' = [call EXCEPT !.index = @ + 1]
        /\ UNCHANGED metadata
     \/ /\ call.index <= Len(h) /\ IsCcpEntry(h[call.index])
        /\ LoadMetadata(Clamped(file, h[call.index].offset))
  /\ UNCHANGED <<file, bitmap, pixels>>

-----------------------------------------------------------------------------
(* Writing                                                                 *)

SavedFormats ==
  {PIXEL_FORMAT_B8G8R8X8_UNORM, PIXEL_FORMAT_B8G8R8A8_UNORM, PIXEL_FORMAT_R8_UNORM}

(* IsSaveSupported( PixelFormat ) takes every format; SaveHeader does not. *)
CanSave ==
  bitmap.type = "2D" /\ bitmap.arraySize = 1 /\ bitmap.format \in SavedFormats

Save(wants) ==
  \/ ~ IsValid(bitmap) /\ Refuse("SaveTga", "INVALID_BITMAP", wants)
  \/ IsValid(bitmap) /\ ~ CanSave /\ Refuse("SaveTga", "SAVE_NOT_SUPPORTED", wants)
  \/ /\ IsValid(bitmap) /\ CanSave
     /\ Begin("SaveTga", "Header", wants)
     /\ file' = NewFile("tga", Opaque(Shown), IF wants THEN metadata.strings ELSE <<>>)
     /\ UNCHANGED <<bitmap, pixels, metadata>>

(* The sides are cut to 16 bits.                                           *)
SavedHeader ==
  Piece("tgaHeader", TGA_HEADER_SIZE,
    Header(0, FALSE, FALSE, IF bitmap.format = PIXEL_FORMAT_R8_UNORM THEN 3 ELSE 2,
           bitmap.width % Uint16Range, bitmap.height % Uint16Range,
           CASE bitmap.format = PIXEL_FORMAT_B8G8R8X8_UNORM -> 24
             [] bitmap.format = PIXEL_FORMAT_B8G8R8A8_UNORM -> 32
             [] bitmap.format = PIXEL_FORMAT_R8_UNORM       -> 8,
           FALSE, FALSE, FALSE))

SaveHeader ==
  /\ At("SaveTga", "Header")
  /\ \/ WriteFails(SavedHeader, "WRITE_FAILURE")
     \/ /\ file' = Appended(file, SavedHeader)
        /\ call' = Goto("Rows")
  /\ UNCHANGED <<bitmap, pixels, metadata>>

(* SaveRows, row by row from the last one.                                 *)
SavedRow(row) == Bytes(PackedRow(bitmap.height - 1 - row))

SaveRow ==
  /\ At("SaveTga", "Rows")
  /\ \/ WriteFails(SavedRow(call.row), "WRITE_FAILURE")
     \/ /\ file' = Appended(file, SavedRow(call.row))
        /\ call' = [call EXCEPT
             !.step = IF call.row + 1 < bitmap.height THEN "Rows"
                      ELSE IF file.strings = <<>> THEN "Close" ELSE "Metadata",
             !.row = @ + 1, !.index = 1, !.position = file'.size]
  /\ UNCHANGED <<bitmap, pixels, metadata>>

(* Mutant: the entry leads behind the header of the chunk.                 *)
MetadataPieces_EntryBehindHeader ==
  LET chunk     == Chunk(metadata.strings)
      directory == call.position + HEADER_SIZE + ChunkSize(metadata.strings)
  IN  chunk \o << Directory(<<Entry("CP", call.position + HEADER_SIZE)>>), Footer(directory) >>

(* SaveMetadata: the chunk, a directory of one entry behind it, a footer.  *)
(* position is where the chunk begins.                                     *)
MetadataPieces ==
  LET chunk     == Chunk(metadata.strings)
      directory == call.position + HEADER_SIZE + ChunkSize(metadata.strings)
  IN  chunk \o <<Directory(<<Entry("CP", call.position)>>), Footer(directory)>>

SaveMetadata ==
  LET piece == MetadataPieces[call.index]
  IN  /\ At("SaveTga", "Metadata")
      /\ \/ WriteFails(piece, IF call.index <= 3 THEN "WRITE_FAILURE" ELSE "READ_FAILURE")
         \/ /\ file' = Appended(file, piece)
            /\ call' = [call EXCEPT !.index = @ + 1,
                         !.step = IF call.index = 5 THEN "Close" ELSE "Metadata"]
      /\ UNCHANGED <<bitmap, pixels, metadata>>

-----------------------------------------------------------------------------

Start == \E wants \in BOOLEAN : ReadImage(wants) \/ Save(wants)

Step ==
  \/ DoReadHeader \/ CreateBitmap \/ BeginPixels \/ ReadPalette \/ ReadIndexes
  \/ ReadRow \/ ReadCompressed \/ DecodePacket \/ PacketsAreDecoded
  \/ MirrorRow \/ RowsAreMirrored \/ ReadFooter \/ ReadDirectory \/ ReadEntry
  \/ SaveHeader \/ SaveRow \/ SaveMetadata \/ Close("SaveTga")
=============================================================================
