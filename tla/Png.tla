-------------------------------- MODULE Png --------------------------------
(***************************************************************************)
(* The PNG handler (Tr2PngHandler.cpp) around libpng, which is external:   *)
(* the chunks it reads and writes are pieces of the file, a chunk that     *)
(* cannot be read whole is found out by its checksum, and a row comes as   *)
(* the bytes libpng hands out, a palette expanded.                         *)
(***************************************************************************)
EXTENDS ImageCall

SIGNATURE_SIZE == 8

(* What png_read_info finds.  keyed says that one colour of a picture      *)
(* without a palette is transparent: libpng then hands out one channel     *)
(* more than it had said when it was asked.  offset is whether there is an *)
(* oFFs or a pHYs chunk; texts are the tEXt chunks.                        *)
Info(width, height, channels, bitDepth, keyed, offset, texts) ==
  [width |-> width, height |-> height, channels |-> channels,
   bitsPerPixel |-> channels * bitDepth, keyed |-> keyed, offset |-> offset, texts |-> texts]

(* The channels and depths PNG has, a palette expanded.                    *)
Infos ==
  {i \in [width : Nat, height : Nat, channels : Nat, bitsPerPixel : Nat, keyed : BOOLEAN,
          offset : BOOLEAN, texts : Seq(Strings \X Strings)] :
     <<i.channels, i.bitsPerPixel>> \in {1} \X {1, 2, 4, 8, 16} \union {2} \X {16, 32}
                                     \union {3} \X {24, 48} \union {4} \X {32, 64}}

(* The bytes of a row, as DoReadHeader counts them.                        *)
RowBytes(i) == (i.width * i.bitsPerPixel + 7) \div 8

(* What libpng hands out for a row.                                        *)
IsRowOf(i, bytes) ==
  /\ bytes \in Seq(Byte)
  /\ Len(bytes) >= RowBytes(i)
  /\ Len(bytes) = RowBytes(i) \/ i.keyed

Signature       == Piece("signature", SIGNATURE_SIZE, TRUE)
InfoChunk(info) == Piece("info", 25 + 12 * Len(info.texts), info)
RowChunk(bytes) == Piece("row", 12 + Len(bytes), bytes)
EndChunk        == Piece("end", 12, TRUE)

(* Mutant: grey is grey, whatever its bits.                                *)
GetFormat_AnyGrey(channels, bits) ==
  CASE channels = 1 -> PIXEL_FORMAT_R8_UNORM
    [] channels = 2 -> PIXEL_FORMAT_R8G8_UNORM
    [] channels = 3 -> PIXEL_FORMAT_B8G8R8X8_UNORM
    [] OTHER        -> PIXEL_FORMAT_B8G8R8A8_UNORM

(* The switch over the channels falls through to the next number of them.  *)
GetFormat(channels, bits) ==
  CASE channels = 1 /\ bits = 8                -> PIXEL_FORMAT_R8_UNORM
    [] channels = 1 /\ bits = 16               -> PIXEL_FORMAT_R16_UNORM
    [] channels = 2 /\ bits = 16               -> PIXEL_FORMAT_R8G8_UNORM
    [] channels \in {1, 2} /\ bits = 32        -> PIXEL_FORMAT_R16G16_UNORM
    [] channels = 3 /\ bits = 48               -> PIXEL_FORMAT_R16G16B16A16_UNORM
    [] channels = 3 /\ bits # 48               -> PIXEL_FORMAT_B8G8R8X8_UNORM
    [] channels = 4 /\ bits = 64               -> PIXEL_FORMAT_R16G16B16A16_UNORM
    [] OTHER                                   -> PIXEL_FORMAT_B8G8R8A8_UNORM

info == call.header

-----------------------------------------------------------------------------
(* Reading                                                                 *)

ReadImage(wants) ==
  /\ file.codec = "png"
  /\ Begin("ReadPng", "Signature", wants)
  /\ UNCHANGED <<file, bitmap, pixels, metadata>>

(* A side that png_check_IHDR calls an error.                              *)
IsTooLarge(width, height) == width > PngSideMax \/ height > PngSideMax

(* The structures of libpng, and the signature.  A read that falls short   *)
(* without an error leaves none.                                           *)
ReadSignature ==
  /\ At("ReadPng", "Signature")
  /\ \/ MemoryFails /\ ReturnFault("OUT_OF_MEMORY")
     \/ StreamFails /\ (ReturnFault("READ_FAILURE") \/ ReturnFault("INVALID_HEADER"))
     \/ ~ Holds(file, 0, SIGNATURE_SIZE) /\ Return("INVALID_HEADER")
     \/ /\ Holds(file, 0, SIGNATURE_SIZE)
        /\ \/ ~ IsAt(file, 0, "signature") /\ Return("INVALID_HEADER")
           \/ /\ IsAt(file, 0, "signature")
              /\ call' = [call EXCEPT !.step = "Info", !.position = SIGNATURE_SIZE]
  /\ UNCHANGED <<file, bitmap, pixels, metadata>>

Without(texts, lost) == [i \in 1 .. Len(texts) - 1 |-> texts[IF i < lost THEN i ELSE i + 1]]

(* What libpng calls an error, or can do without: a stream that fails, or  *)
(* memory it is not given.                                                 *)
PngFails == StreamFails \/ MemoryFails

(* DoReadHeader.  A read that fails is forgotten with the next one that    *)
(* does not; what was to be read is undefined, and libpng passes over a    *)
(* text whose checksum is wrong or that it has no memory for.              *)
ReadInfo ==
  /\ At("ReadPng", "Info")
  /\ \/ PngFails /\ ReturnFault("INVALID_HEADER") /\ UNCHANGED metadata
     \/ ~ IsWhole("info") /\ Return("INVALID_HEADER") /\ UNCHANGED metadata
     \/ /\ IsWhole("info")
        /\ IsTooLarge(file.at[call.position].value.width, file.at[call.position].value.height)
        /\ Return("INVALID_HEADER") /\ UNCHANGED metadata
     \/ /\ IsWhole("info")
        /\ ~ IsTooLarge(file.at[call.position].value.width, file.at[call.position].value.height)
        /\ LET chunk     == file.at[call.position]
               next      == [call EXCEPT !.step = "Create", !.position = @ + chunk.size,
                                         !.header = chunk.value]
               set(texts) == [cutout |-> IF chunk.value.offset THEN "set" ELSE "default",
                              strings |-> texts]
           IN  \/ /\ call' = next
                  /\ metadata' = IF call.wants THEN set(chunk.value.texts) ELSE metadata
               \/ /\ PngFails
                  /\ call' = [next EXCEPT !.faults = TRUE]
                  /\ \E lost \in DOMAIN chunk.value.texts :
                       metadata' = IF call.wants THEN set(Without(chunk.value.texts, lost))
                                   ELSE metadata
  /\ UNCHANGED <<file, bitmap, pixels>>

CreateBitmap ==
  /\ At("ReadPng", "Create")
  /\ CreateFromBitmapDimensions(GetFormat(info.channels, info.bitsPerPixel), info.width,
                                info.height, "Rows")
  /\ UNCHANGED <<file, metadata>>

Bit(bytes, i) == (bytes[(i \div 8) + 1] \div <<128, 64, 32, 16, 8, 4, 2, 1>>[(i % 8) + 1]) % 2

(* What ReadImagePixels makes of a row: single bits become white or black, *)
(* three channels get a fourth, and red and blue change places.            *)
ConvertedRow(row) ==
  CASE info.bitsPerPixel = 1 ->
         [i \in 1 .. 4 * bitmap.width |-> IF i % 4 = 0 THEN 255 ELSE 255 * Bit(row, (i - 1) \div 4)]
    [] info.channels = 3 /\ info.bitsPerPixel = 48 ->
         [i \in 1 .. 8 * bitmap.width |->
            IF (i - 1) % 8 >= 6 THEN 255 ELSE row[((i - 1) \div 8) * 6 + ((i - 1) % 8) + 1]]
    [] info.channels = 3 /\ info.bitsPerPixel # 48 ->
         [i \in 1 .. 4 * bitmap.width |-> IF i % 4 = 0 THEN 255 ELSE row[((i - 1) \div 4) * 3 + 4 - (i % 4)]]
    [] info.channels = 4 /\ info.bitsPerPixel = 32 ->
         [i \in 1 .. 4 * bitmap.width |->
            IF i % 4 = 0 THEN row[i] ELSE row[((i - 1) \div 4) * 4 + 4 - (i % 4)]]
    [] OTHER -> row

Stride == RowBytes(info)

(* Rows of single bits, and of three channels, are read to a buffer of     *)
(* their own and converted from there.                                     *)
HasBuffer == (info.bitsPerPixel = 1 /\ info.channels = 1) \/ info.channels = 3

RowStart(row)   == row * IF HasBuffer THEN GetPitch(bitmap) ELSE Stride
RowsBeyond(row, bytes) ==
  row * Stride + Len(bytes) > IF HasBuffer THEN bitmap.height * Stride ELSE bitmap.data

(* The pointers to the rows are written, if there is memory for them or    *)
(* not.                                                                    *)
NoPointers == MemoryFails /\ Crash

(* ReadImagePixels, a row at a time.                                       *)
ReadRow ==
  /\ At("ReadPng", "Rows")
  /\ \/ call.row = 0 /\ NoPointers
     \/ /\ \/ HasBuffer /\ call.row = 0 /\ MemoryFails /\ FailOnFault("OUT_OF_MEMORY")
           \/ PngFails /\ FailOnFault("INVALID_DATA")
           \/ ~ IsWhole("row") /\ Fail("INVALID_DATA")
        /\ UNCHANGED metadata
     \/ /\ IsWhole("row")
        /\ LET chunk == file.at[call.position]
               next  == RowDone(chunk.size, RowsBeyond(call.row, chunk.value))
           IN  /\ pixels' = Put(pixels, RowStart(call.row), ConvertedRow(chunk.value))
               /\ call' = IF next.row = bitmap.height THEN Finished(next, "OK", call.faults)
                          ELSE next
        /\ UNCHANGED <<bitmap, metadata>>
  /\ UNCHANGED file

-----------------------------------------------------------------------------
(* Writing                                                                 *)

SavedFormats ==
  {PIXEL_FORMAT_B8G8R8X8_UNORM, PIXEL_FORMAT_B8G8R8A8_UNORM, PIXEL_FORMAT_R8_UNORM,
   PIXEL_FORMAT_A8_UNORM, PIXEL_FORMAT_R16_UNORM, PIXEL_FORMAT_R16G16B16A16_UNORM,
   PIXEL_FORMAT_R10G10B10A2_UNORM, PIXEL_FORMAT_R10G10B10A2_TYPELESS}

CanSave ==
  bitmap.type \in {"1D", "2D"} /\ bitmap.arraySize = 1 /\ bitmap.format \in SavedFormats

(* The text of a chunk is taken from the key.                              *)
SavedTexts(strings) == [i \in DOMAIN strings |-> <<strings[i][1], strings[i][1]>>]

IsGrey == bitmap.format \in {PIXEL_FORMAT_R8_UNORM, PIXEL_FORMAT_A8_UNORM, PIXEL_FORMAT_R16_UNORM}
Is1010102 == bitmap.format \in {PIXEL_FORMAT_R10G10B10A2_UNORM, PIXEL_FORMAT_R10G10B10A2_TYPELESS}
IsColour  == bitmap.format = PIXEL_FORMAT_B8G8R8X8_UNORM \/ Is1010102
IsWide    == bitmap.format \in {PIXEL_FORMAT_R16_UNORM, PIXEL_FORMAT_R16G16B16A16_UNORM}

SavedInfo ==
  Info(bitmap.width, bitmap.height,
       CASE IsGrey -> 1 [] IsColour -> 3 [] ~ IsGrey /\ ~ IsColour -> 4,
       IF IsWide THEN 16 ELSE 8, FALSE, FALSE,
       IF call.wants THEN SavedTexts(metadata.strings) ELSE <<>>)

(* A row as it is in the file: PNG_TRANSFORM_BGR puts red first.           *)
SavedRow(row) ==
  LET pixel(i) == PixelOf(pixels, bitmap.format, row * bitmap.width + i)
      colour(i) == IF Is1010102 THEN <<Red10(pixel(i)), Green10(pixel(i)), Blue10(pixel(i))>>
                   ELSE <<pixel(i)[3], pixel(i)[2], pixel(i)[1]>>
  IN  CASE IsColour -> [i \in 1 .. 3 * bitmap.width |-> colour((i - 1) \div 3)[((i - 1) % 3) + 1]]
        [] bitmap.format = PIXEL_FORMAT_B8G8R8A8_UNORM ->
             [i \in 1 .. 4 * bitmap.width |->
                pixel((i - 1) \div 4)[IF i % 4 = 0 THEN 4 ELSE 4 - (i % 4)]]
        [] OTHER -> SubSeq(pixels, row * GetPitch(bitmap) + 1, (row + 1) * GetPitch(bitmap))

Pieces ==
  <<Signature, InfoChunk(SavedInfo)>>
    \o [row \in 1 .. bitmap.height |-> RowChunk(SavedRow(row - 1))]
    \o <<EndChunk>>

(* What a PNG of a bitmap stands for.                                      *)
Stored(picture) ==
  CASE picture.format = PIXEL_FORMAT_A8_UNORM -> [picture EXCEPT !.format = PIXEL_FORMAT_R8_UNORM]
    [] picture.format \in {PIXEL_FORMAT_R10G10B10A2_UNORM, PIXEL_FORMAT_R10G10B10A2_TYPELESS} ->
         Eight(picture, PIXEL_FORMAT_B8G8R8X8_UNORM)
    [] OTHER -> Opaque(picture)

Save(wants) ==
  \/ ~ IsValid(bitmap) /\ Refuse("SavePng", "INVALID_BITMAP", wants)
  \/ IsValid(bitmap) /\ ~ CanSave /\ Refuse("SavePng", "SAVE_NOT_SUPPORTED", wants)
  \/ /\ IsValid(bitmap) /\ CanSave
     /\ \/ MemoryFails /\ Refuse("SavePng", "OUT_OF_MEMORY", wants)
        \/ /\ Begin("SavePng", "Pieces", wants)
           /\ file' = NewFile("png", Stored(Shown), IF wants THEN metadata.strings ELSE <<>>)
           /\ UNCHANGED <<bitmap, pixels, metadata>>

(* png_set_IHDR and png_set_text run before there is a place for libpng to *)
(* jump to when it finds an error, and the rows' pointers are not checked. *)
SaveCrashes ==
  /\ At("SavePng", "Pieces") /\ call.index = 0
  /\ NoPointers \/ (IsTooLarge(bitmap.width, bitmap.height) /\ Crash)
  /\ UNCHANGED file

(* An empty key is no keyword for libpng.                                  *)
KeyIsEmpty ==
  call.index = 1 /\ call.wants /\ \E i \in DOMAIN metadata.strings : Length[metadata.strings[i][1]] = 0

(* An error while a piece is made leaves none of it, or a part.            *)
SaveFails ==
  /\ At("SavePng", "Pieces")
  /\ MemoryFails \/ KeyIsEmpty
  /\ \E n \in {0, Pieces[call.index + 1].size - 1} : file' = AppendedPart(file, n)
  /\ ReturnFault("WRITE_FAILURE")
  /\ UNCHANGED <<bitmap, pixels, metadata>>

SavePiece ==
  /\ call.index = 0 => ~ IsTooLarge(bitmap.width, bitmap.height)
  /\ ~ KeyIsEmpty
  /\ SavePieces("SavePng", Pieces)

-----------------------------------------------------------------------------

Start == \E wants \in BOOLEAN : ReadImage(wants) \/ Save(wants)

Step ==
  \/ ReadSignature \/ ReadInfo \/ CreateBitmap \/ ReadRow
  \/ SaveCrashes \/ SaveFails \/ SavePiece \/ Close("SavePng")
=============================================================================
