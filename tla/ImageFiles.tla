---------------------------- MODULE ImageFiles ----------------------------
(***************************************************************************)
(* The image handlers together: a caller with a bitmap and metadata reads  *)
(* files and saves to them through any handler, and the end of a file may  *)
(* be lost between two calls.                                              *)
(***************************************************************************)
EXTENDS ImageCall

CONSTANTS
  Scenes,      \* [bitmap, pixels, metadata, file]: what the caller may begin with
  LostBytes,   \* how many bytes may be lost from the end of a file
  MaxCalls     \* bound: the number of calls

ASSUME LostAssumption  == LostBytes \subseteq Nat
ASSUME CallsAssumption == MaxCalls \in Nat

VARIABLE calls   \* the number of calls that have begun

allVars == <<vars, calls>>

Tga  == INSTANCE Tga
Bmp  == INSTANCE Bmp
Psd  == INSTANCE Psd
Png  == INSTANCE Png
Jpeg == INSTANCE Jpeg

ReadOp == {"ReadTga", "ReadBmp", "ReadPsd", "ReadPng", "ReadJpeg"}
SaveOp == {"SaveTga", "SaveBmp", "SavePsd", "SavePng", "SaveJpeg"}

Init ==
  /\ \E scene \in Scenes :
       /\ bitmap = scene.bitmap /\ pixels = scene.pixels
       /\ metadata = scene.metadata /\ file = scene.file
  /\ call = Called("None", "Done", "OK", FALSE)
  /\ calls = 0

(* The library's functions find the handler by the file's name.            *)
Call ==
  /\ ~ Running /\ calls < MaxCalls
  /\ calls' = calls + 1
  /\ Tga!Start \/ Bmp!Start \/ Psd!Start \/ Png!Start \/ Jpeg!Start

Step ==
  /\ Tga!Step \/ Bmp!Step \/ Psd!Step \/ Png!Step \/ Jpeg!Step
  /\ UNCHANGED calls

(* A whole file loses its end.                                             *)
CutOff(n) ==
  /\ ~ Running /\ ~ file.cut
  /\ file' = [file EXCEPT !.size = Clamped(file, @ - n), !.cut = TRUE]
  /\ UNCHANGED <<bitmap, pixels, metadata, call, calls>>

Next == Call \/ Step \/ \E n \in LostBytes : CutOff(n)

Spec == Init /\ [][Next]_allVars /\ WF_allVars(Step)

-----------------------------------------------------------------------------
(* What the caller may begin with                                          *)

(* What is stored in a piece of a kind.                                    *)
IsPiece(piece) ==
  /\ piece.size \in Nat
  /\ piece.kind = "bytes" => piece.value \in Seq(Byte) /\ piece.size = Len(piece.value)
  /\ piece.kind = "palette" =>
       \A index \in DOMAIN piece.value : piece.value[index] \in Byte \X Byte \X Byte
  /\ piece.kind = "tgaHeader" => piece.value \in Tga!Headers
  /\ piece.kind = "bmpHeader" => piece.value \in Bmp!BmpHeaders
  /\ piece.kind = "dibHeader" => piece.value \in Bmp!DibHeaders
  /\ piece.kind = "psdHeader" => piece.value \in Psd!Headers
  /\ piece.kind = "info" => piece.value \in Png!Infos
  /\ piece.kind = "jpegHeader" => piece.value \in Jpeg!Headers
  /\ piece.kind = "directory" => piece.value \in Seq(Tga!DirectoryEntry)
  /\ piece.kind = "footer" => piece.value \in Nat

(* The readers of TGA, BMP and PSD take the bytes they find in front for   *)
(* their headers; a piece of another kind is none of those bytes.          *)
HasHeaders(f) ==
  /\ f.codec = "tga" /\ Holds(f, 0, Tga!TGA_HEADER_SIZE) => IsAt(f, 0, "tgaHeader")
  /\ f.codec = "bmp" /\ Holds(f, 0, Bmp!BMP_HEADER_SIZE) => IsAt(f, 0, "bmpHeader")
  /\ f.codec = "bmp" /\ Holds(f, Bmp!BMP_HEADER_SIZE, Bmp!MIN_DIB_HEADER_SIZE) =>
       IsAt(f, Bmp!BMP_HEADER_SIZE, "dibHeader")
  /\ f.codec = "psd" /\ Holds(f, 0, Psd!PSD_HEADER_SIZE) => IsAt(f, 0, "psdHeader")

(* Of PNG and JPEG the libraries hand out rows of the header's width.      *)
HasRows(f) ==
  \A o, p \in DOMAIN f.at :
    /\ f.at[o].kind = "info" /\ f.at[p].kind = "row" =>
         Png!IsRowOf(f.at[o].value, f.at[p].value)
    /\ f.at[o].kind = "jpegHeader" /\ f.at[p].kind = "scanline" =>
         Jpeg!IsRowOf(f.at[o].value, f.at[p].value)

(* Where in a TGA file the footer and the directory are, which entries of  *)
(* the directory have the tag of metadata, and where they lead.            *)
FooterOf(f)    == Clamped(f, f.size - Tga!FOOTER_SIZE)
DirectoryOf(f) == Clamped(f, f.at[FooterOf(f)].value)

HasDirectory(f) ==
  /\ IsAt(f, FooterOf(f), "footer") /\ f.at[FooterOf(f)].value # 0
  /\ IsAt(f, DirectoryOf(f), "directory")
  /\ Holds(f, DirectoryOf(f), f.at[DirectoryOf(f)].size)

EntriesOf(f) ==
  {i \in 1 .. Len(f.at[DirectoryOf(f)].value) : Tga!IsCcpEntry(f.at[DirectoryOf(f)].value[i])}

LeadsTo(f, i) == Clamped(f, f.at[DirectoryOf(f)].value[i].offset)

(* The metadata a file stands for are those that are in it.  A TGA file    *)
(* with a footer has chunks of no other metadata, and a whole one leads to *)
(* a chunk.                                                                *)
LeadsToChunk(f) ==
  HasDirectory(f) /\ \E i \in EntriesOf(f) : ChunkIsWhole(f, LeadsTo(f, i))

(* An entry in front of those that lead to a chunk may lead to one that is *)
(* not all there, or to the last bytes of the file.                        *)
HasStrayEntry(f) ==
  /\ HasDirectory(f)
  /\ \E i \in EntriesOf(f) :
       /\ ChunkFallsShort(f, LeadsTo(f, i))
       /\ \A j \in EntriesOf(f) : j < i => ~ ChunkIsWhole(f, LeadsTo(f, j))

HasMetadata(f) ==
  /\ f.strings \in Seq(Strings \X Strings)
  /\ (\E o \in DOMAIN f.at : f.at[o].kind = "footer") =>
       \A o \in DOMAIN f.at : HeaderIsValid(f, o) => ChunkStrings(f, o) = f.strings
  /\ f.codec = "tga" /\ f.strings # <<>> /\ ~ f.cut => LeadsToChunk(f)
  /\ \A o \in DOMAIN f.at : f.at[o].kind = "info" =>
       f.at[o].value.texts \in {f.strings, Png!SavedTexts(f.strings)}

IsFile(f) ==
  /\ DOMAIN f = {"codec", "at", "size", "picture", "strings", "cut"}
  /\ f.codec \in Codec /\ f.size \in Nat /\ f.cut \in BOOLEAN
  /\ DOMAIN f.at \subseteq Nat
  /\ \A o \in DOMAIN f.at : IsPiece(f.at[o])
  /\ HasHeaders(f) /\ HasRows(f) /\ HasMetadata(f)

(* A bitmap as HostBitmap::Create leaves it, of no side without a pixel,   *)
(* and its buffer.                                                         *)
IsImage(b, data) ==
  /\ b \in Bitmap
  /\ data \in [1 .. b.data -> Byte]
  /\ IsValid(b) => b.width # 0 /\ b.height # 0 /\ Exact(b)

ASSUME ScenesAssumption ==
  \A scene \in Scenes :
    /\ IsFile(scene.file)
    /\ IsImage(scene.bitmap, scene.pixels)
    /\ scene.metadata \in [cutout : {"default", "set"}, strings : Seq(Strings \X Strings)]

-----------------------------------------------------------------------------
(* What the readers take for something else                                *)

Header(kind) == IF IsAt(file, 0, kind) THEN {file.at[0].value} ELSE {}

(* TGA: an image ID is not passed over but read as pixels; pixels of 16    *)
(* bits are put where four bytes belong; in packets an index is taken to   *)
(* be three bytes; a palette nobody needs is read as pixels too; sides     *)
(* have 16 bits; and a mirrored row is never done.                         *)
IsMirrored == \E h \in Header("tgaHeader") : h.mirrored /\ h.width > 1

TgaIsMistaken ==
  \/ IsMirrored
  \/ \E h \in Header("tgaHeader") :
       \/ h.idLength # 0 \/ h.bpp = 16 \/ h.imageType = Tga!RLE_INDEXED
       \/ h.mapped /\ ~ Tga!IsIndexed(h)
  \/ file.picture.width >= Uint16Range \/ file.picture.height >= Uint16Range

(* BMP: a header of 16 bytes is taken to end where one of 40 does.         *)
BmpIsMistaken ==
  IsAt(file, 14, "dibHeader") /\ file.at[14].value.structSize < Bmp!DIB_HEADER_SIZE

(* PSD: the second of two grey channels is put anywhere, and literal bytes *)
(* are copied from behind the end of the file.                             *)
PsdIsMistaken ==
  \E h \in Header("psdHeader") :
    (file.cut \/ (h.gray /\ h.channelCount > 1)) /\ Psd!HasPackets(file)

(* PNG: rows of two or four bits a pixel are taken for rows of the bitmap, *)
(* a transparent colour adds a channel that nobody expects, and libpng     *)
(* takes no side that is longer than its limit.                            *)
PngInfo == IF IsAt(file, Png!SIGNATURE_SIZE, "info") THEN {file.at[Png!SIGNATURE_SIZE].value} ELSE {}
PngIsMistaken ==
  \E i \in PngInfo : i.bitsPerPixel \in {2, 4} \/ i.keyed \/ Png!IsTooLarge(i.width, i.height)

(* JPEG: four channels make a picture of nothing.                          *)
JpegIsMistaken == \E h \in Header("jpegHeader") : h.channels \notin {1, 3}

(* A file that no reader takes for a picture stands for this one.          *)
Nothing == Picture(PIXEL_FORMAT_UNKNOWN, 0, 0, <<>>)

Understood ==
  file.picture # Nothing /\
  CASE file.codec = "tga" -> ~ TgaIsMistaken
    [] file.codec = "bmp" -> ~ BmpIsMistaken
    [] file.codec = "psd" -> ~ PsdIsMistaken
    [] file.codec = "png" -> ~ PngIsMistaken
    [] file.codec = "jpg" -> ~ JpegIsMistaken

-----------------------------------------------------------------------------
(* The contract                                                            *)

PictureIn(b, data) ==
  IF IsValid(b)
  THEN Picture(b.format, b.width, b.height, SubSeq(data, 1, b.height * GetPitch(b)))
  ELSE Nothing

Stored(codec, picture) ==
  CASE codec = "png" -> Png!Stored(picture)
    [] codec = "jpg" -> Jpeg!Stored(picture)
    [] OTHER         -> Opaque(picture)

Contract ==
  INSTANCE ImageContract WITH
    Codecs          <- Codec,
    CarelessReaders <- {"bmp", "psd", "jpg"},
    CarelessWriters <- {"png", "jpg"},
    Fragile         <- {"psd", "png", "jpg"},
    shown      <- IF Running THEN PictureIn(call.before.bitmap, call.before.pixels)
                  ELSE PictureIn(bitmap, pixels),
    stored     <- [codec |-> file.codec, picture |-> file.picture],
    whole      <- ~ file.cut,
    understood <- Understood,
    turn       <- [op      |-> IF call.op \in ReadOp THEN "Read" ELSE "Save",
                   running |-> Running,
                   ok      |-> ~ Running /\ call.result = "OK",
                   faults  |-> ~ Running /\ call.faults]

(* Tr2TgaHandler.cpp, Tr2BmpHandler.cpp, PsdHandler.cpp, Tr2PngHandler.cpp *)
(* and Tr2JpgHandler.cpp implement ImageContract: every step of a call is  *)
(* one that nobody sees, or takes all of its effect at once.               *)
ImplementsContract == Contract!Spec

(* ReadImage of every handler (Tr2TgaHandler.cpp:645-654 and its like): a  *)
(* read that fails leaves the caller's bitmap and its buffer as they were, *)
(* or destroys them; never a bitmap with pixels half read.                 *)
NoHalfPicture ==
  [][ Running /\ ~ Running' /\ call'.op \in ReadOp /\ call'.result # "OK" =>
        \/ bitmap' = call.before.bitmap /\ pixels' = call.before.pixels
        \/ ~ IsValid(bitmap') ]_allVars

(* The loops over rows and packets write to the bitmap's buffer only.  Not *)
(* so the TGA decoder, which writes a fourth byte behind pixels of one     *)
(* (Tr2TgaHandler.cpp:314), takes packets that do not end with the image   *)
(* (Tr2TgaHandler.cpp:337) and does not look at the depth or at a palette  *)
(* that is not for the pixels (Tr2TgaHandler.cpp:221-259); the PSD decoder *)
(* of packets, which goes by the mode and not by the channels              *)
(* (PsdHandler.cpp:130-133); and PNG rows with an unexpected channel.      *)
MayGoBeyond ==
  \/ \E h \in Header("tgaHeader") :
       \/ h.imageType \in Tga!RLE_PIXELS /\ h.bpp = 8
       \/ h.imageType \in Tga!RLE_PIXELS \union {Tga!RLE_INDEXED} /\ ~ Tga!PacketsFit(h)
       \/ h.imageType \in Tga!RAW_PIXELS /\ IF h.mapped THEN h.bpp = 8 ELSE h.bpp >= 40
  \/ \E h \in Header("psdHeader") : IF h.gray THEN h.channelCount > 1 ELSE h.channelCount < 3
  \/ \E i \in PngInfo : i.keyed

PixelsStayInside == call.op \in ReadOp /\ call.beyond => MayGoBeyond

(* A read that succeeds and is given metadata leaves in them what is in    *)
(* the file (Tr2TgaHandler.cpp:485-542, Tr2PngHandler.cpp:228-256).  A TGA *)
(* reader finds nothing when something failed, when the end of the file is *)
(* lost, or when an earlier entry of the directory leads to a chunk that   *)
(* is not all there (CcpMetadata.cpp:35-38, 58-61, Tr2TgaHandler.cpp:538); *)
(* a PNG reader may miss a text when something failed, and a PNG saved by  *)
(* the library has its keys for values (Tr2PngHandler.cpp:676).  BMP, PSD  *)
(* and JPEG readers leave the caller's old strings.                        *)
MetadataComeFromTheFile ==
  ~ Running /\ call.op \in {"ReadTga", "ReadPng"} /\ call.result = "OK" /\ call.wants =>
    \/ metadata.strings = file.strings
    \/ /\ call.op = "ReadTga" /\ metadata.strings = <<>>
       /\ call.faults \/ file.cut \/ HasStrayEntry(file)
    \/ /\ call.op = "ReadPng"
       /\ \E texts \in {file.strings, Png!SavedTexts(file.strings)} :
            \/ metadata.strings = texts
            \/ call.faults /\ \E lost \in DOMAIN texts :
                                metadata.strings = Png!Without(texts, lost)

(* Every call returns, but for the read of a mirrored TGA picture of more  *)
(* than one column: its loop never ends (Tr2TgaHandler.cpp:455-458).       *)
CallsReturn == Running ~> (~ Running \/ IsMirrored)

-----------------------------------------------------------------------------

(* The types, and the bytes of the buffer: a valid bitmap has as many as   *)
(* its dimensions call for, also in the middle of a read.                  *)
TypeOK ==
  /\ file.codec \in Codec /\ file.size \in Nat /\ file.cut \in BOOLEAN
  /\ bitmap \in Bitmap
  /\ pixels \in [1 .. bitmap.data -> Byte]
  /\ IsValid(bitmap) => bitmap.data = GetDataSize(bitmap)
  /\ call.op \in ReadOp \union SaveOp \union {"None"}
  /\ call.result \in Result
=============================================================================
