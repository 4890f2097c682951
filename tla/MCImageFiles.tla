--------------------------- MODULE MCImageFiles ---------------------------
(***************************************************************************)
(* Small instances of ImageFiles for TLC.                                  *)
(***************************************************************************)
EXTENDS ImageFilesClaims

Laid(pieces) ==
  LET laid[n \in 0 .. Len(pieces)] ==
        IF n = 0 THEN NoContents ELSE Appended(laid[n - 1], pieces[n])
  IN  laid[Len(pieces)]

Foreign(codec, picture, strings, pieces) == File(codec, Laid(pieces), picture, strings, FALSE)

(* A file that the reader has to turn away.                                *)
Alien(codec, pieces) == Foreign(codec, Nothing, <<>>, pieces)

Texts == <<<<"k", "v">>>>
MCLength == [s \in {"k", "v", ""} |-> IF s = "" THEN 0 ELSE 1]
SomeMetadata == [cutout |-> "set", strings |-> Texts]
NoKey == [cutout |-> "set", strings |-> <<<<"", "v">>>>]

Counted(n, first) == [i \in 1 .. n |-> first + i]

(* Bitmaps of every format some handler saves; one with two levels, one    *)
(* with two elements, one of another type, one too wide for TGA, JPEG and  *)
(* PNG.                                                                    *)
Bmp1(b) == LET n == GetDataSize(b)
           IN  [bitmap |-> [b EXCEPT !.data = n], pixels |-> Counted(n, 0)]
Flat(type, format, w, h, mips, array) == Bmp1(Sized(type, format, w, h, 1, mips, array))

MCImages ==
  { Flat("2D", PIXEL_FORMAT_B8G8R8X8_UNORM, 3, 2, 1, 1),
    Flat("2D", PIXEL_FORMAT_B8G8R8A8_UNORM, 2, 2, 2, 1),
    Flat("2D", PIXEL_FORMAT_R8_UNORM, 2, 3, 1, 1),
    Flat("2D", PIXEL_FORMAT_R8G8_UNORM, 1, 2, 1, 1),
    Flat("2D", PIXEL_FORMAT_R16_UNORM, 1, 2, 1, 1),
    Flat("2D", PIXEL_FORMAT_R16G16B16A16_UNORM, 1, 2, 1, 1),
    Flat("2D", PIXEL_FORMAT_R10G10B10A2_UNORM, 2, 1, 1, 1),
    Flat("1D", PIXEL_FORMAT_A8_UNORM, 2, 1, 1, 1),
    Flat("2D", PIXEL_FORMAT_B8G8R8A8_UNORM, 1, 1, 1, 2),
    Flat("2D", PIXEL_FORMAT_B8G8R8A8_UNORM, 5, 1, 1, 1),
    [bitmap |-> NoBitmap, pixels |-> <<>>] }

BGRX(w, h, data) == Picture(PIXEL_FORMAT_B8G8R8X8_UNORM, w, h, data)
BGRA(w, h, data) == Picture(PIXEL_FORMAT_B8G8R8A8_UNORM, w, h, data)
Grey(w, h, data) == Picture(PIXEL_FORMAT_R8_UNORM, w, h, data)

-----------------------------------------------------------------------------
(* TGA                                                                     *)

TgaPiece(idLength, indexed, type, w, h, bpp, mirrored, flipped) ==
  Piece("tgaHeader", Tga!TGA_HEADER_SIZE,
        Tga!Header(idLength, indexed, TRUE, type, w, h, bpp, mirrored, flipped, FALSE))

(* Two rows from the bottom up, and metadata behind the directory's entry  *)
(* of somebody else.                                                       *)
TgaWithMetadata ==
  LET pieces    == <<TgaPiece(0, FALSE, 2, 1, 2, 24, FALSE, FALSE), Bytes(<<4, 5, 6>>), Bytes(<<1, 2, 3>>)>>
      chunk     == Tga!TGA_HEADER_SIZE + 6
      directory == chunk + HEADER_SIZE + ChunkSize(Texts)
  IN  Foreign("tga", BGRX(1, 2, <<1, 2, 3, 255, 4, 5, 6, 255>>), Texts,
        pieces \o Chunk(Texts)
          \o << Tga!Directory(<<Tga!Entry("XX", 2), Tga!Entry("CP", chunk)>>), Tga!Footer(directory) >>)

OnePixel == <<TgaPiece(0, FALSE, 3, 1, 1, 8, FALSE, FALSE), Bytes(<<7>>)>>

(* An entry that leads to no chunk; a footer that leads to no directory; a *)
(* chunk of no metadata.                                                   *)
TgaWithoutMetadata ==
  { Foreign("tga", Grey(1, 1, <<7>>), <<>>,
      OnePixel \o <<Tga!Directory(<<Tga!Entry("CP", 18)>>), Tga!Footer(19)>>),
    Foreign("tga", Grey(1, 1, <<7>>), <<>>, OnePixel \o <<Tga!Footer(18)>>),
    Foreign("tga", Grey(1, 1, <<7>>), <<>>,
      OnePixel \o << Piece("metadataHeader", HEADER_SIZE, [count |-> 0, size |-> 1000]),
                     Tga!Directory(<<Tga!Entry("CP", 19)>>), Tga!Footer(39) >>) }

(* An entry that leads to the end of the file, or to a chunk that says it  *)
(* is longer than the file, in front of one that leads to a chunk.         *)
TgaWithStrayEntry(first, chunk) ==
  LET long      == [Chunk(Texts) EXCEPT ![1].value.size = 1000]
      directory == Tga!TGA_HEADER_SIZE + 1 + 2 * (HEADER_SIZE + ChunkSize(Texts))
  IN  Foreign("tga", Grey(1, 1, <<7>>), Texts,
        OnePixel \o long \o Chunk(Texts)
          \o <<Tga!Directory(<<Tga!Entry("CP", first), Tga!Entry("CP", chunk)>>), Tga!Footer(directory)>>)

TgaStrays ==
  LET whole == Tga!TGA_HEADER_SIZE + 1 + HEADER_SIZE + ChunkSize(Texts)
  IN  { TgaWithStrayEntry(1000, whole), TgaWithStrayEntry(Tga!TGA_HEADER_SIZE + 1, whole),
        TgaWithStrayEntry(whole, 1000) }

(* Packets over the end of a row, and the top row first.                   *)
TgaCompressed ==
  Foreign("tga", BGRX(2, 2, <<1, 2, 3, 255, 1, 2, 3, 255, 1, 2, 3, 255, 7, 8, 9, 255>>), <<>>,
    <<TgaPiece(0, FALSE, 10, 2, 2, 24, FALSE, TRUE), Bytes(<<130, 1, 2, 3>>), Bytes(<<0, 7, 8, 9>>)>>)

Palette == Piece("palette", Tga!PALETTE_SIZE, [i \in {0, 1} |-> <<10 + i, 20 + i, 30 + i>>])

TgaIndexed(type, body) ==
  Foreign("tga", BGRX(2, 1, <<11, 21, 31, 255, 10, 20, 30, 255>>), <<>>,
    <<TgaPiece(0, TRUE, type, 2, 1, 8, FALSE, FALSE), Palette, body>>)

TgaWithId ==
  Foreign("tga", Grey(1, 1, <<7>>), <<>>,
    <<TgaPiece(3, FALSE, 3, 1, 1, 8, FALSE, FALSE), Bytes(<<65, 66, 67>>), Bytes(<<7>>)>>)

TgaOf16Bits ==
  Foreign("tga", BGRX(1, 2, <<8, 8, 8, 255, 16, 16, 16, 255>>), <<>>,
    <<TgaPiece(0, FALSE, 2, 1, 2, 16, FALSE, FALSE), Bytes(<<1, 2>>), Bytes(<<3, 4>>)>>)

TgaGreyPackets ==
  Foreign("tga", Grey(2, 2, <<1, 2, 5, 5>>), <<>>,
    <<TgaPiece(0, FALSE, 11, 2, 2, 8, FALSE, FALSE), Bytes(<<129, 5>>), Bytes(<<1, 1, 2>>)>>)

TgaMirrored(w) ==
  Foreign("tga", Grey(w, 1, [i \in 1 .. w |-> w + 1 - i]), <<>>,
    <<TgaPiece(0, FALSE, 3, w, 1, 8, TRUE, FALSE), Bytes(Counted(w, 0))>>)

(* Colours, and a palette that is not for them.                            *)
TgaWithIdlePalette ==
  Foreign("tga", BGRX(1, 1, <<1, 2, 3, 255>>), <<>>,
    <<TgaPiece(0, TRUE, 2, 1, 1, 24, FALSE, FALSE), Palette, Bytes(<<1, 2, 3>>)>>)

(* A type that is not defined and one that is not known; a packet that     *)
(* does not end with the image; pixels of five bytes, and indexes that are *)
(* not called so.                                                          *)
TgaAliens ==
  { Alien("tga", <<TgaPiece(0, FALSE, type, 1, 1, 24, FALSE, FALSE), Bytes(<<1, 2, 3>>)>>) : type \in {5, 32} }
  \union
  { Alien("tga", <<TgaPiece(0, FALSE, 10, 1, 1, 24, FALSE, FALSE), Bytes(<<129, 1, 2, 3>>)>>),
    Alien("tga", <<TgaPiece(0, FALSE, 2, 1, 1, 40, FALSE, FALSE), Bytes(<<1, 2, 3, 4, 5>>)>>),
    Alien("tga", <<TgaPiece(0, TRUE, 3, 1, 1, 8, FALSE, FALSE), Bytes(<<1, 2, 3>>)>>) }

TgaFiles ==
  { TgaWithMetadata, TgaCompressed, TgaIndexed(1, Bytes(<<1, 0>>)),
    TgaIndexed(9, Bytes(<<1, 1, 0>>)), TgaWithId, TgaOf16Bits, TgaGreyPackets,
    TgaMirrored(1), TgaMirrored(2), TgaWithIdlePalette }
  \union TgaWithoutMetadata \union TgaStrays \union TgaAliens

-----------------------------------------------------------------------------
(* BMP                                                                     *)

BmpFile(structSize, gap, w, h, bits, compressed, picture, rows) ==
  Foreign("bmp", picture, <<>>,
    << Piece("bmpHeader", 14, Bmp!BmpHeader(TRUE, 14 + structSize + gap)),
       Piece("dibHeader", structSize, Bmp!DibHeader(structSize, w, h, bits, compressed)) >>
    \o (IF gap = 0 THEN <<>> ELSE <<Piece("gap", gap, <<>>)>>) \o rows)

(* A long header, a gap, rows of 24 bits that are filled up; a short       *)
(* header.                                                                 *)
BmpFiles ==
  { BmpFile(108, 5, 1, 2, 24, FALSE, BGRX(1, 2, <<1, 2, 3, 255, 4, 5, 6, 255>>),
            <<Bytes(<<4, 5, 6, 0>>), Bytes(<<1, 2, 3, 0>>)>>),
    BmpFile(16, 0, 1, 1, 32, FALSE, BGRA(1, 1, <<1, 2, 3, 4>>), <<Bytes(<<1, 2, 3, 4>>)>>),
    BmpFile(40, 0, 1, 1, 8, FALSE, Nothing, <<>>),
    BmpFile(40, 0, 1, 1, 32, TRUE, Nothing, <<>>),
    BmpFile(40, 0, 0, 1, 32, FALSE, Nothing, <<>>),
    BmpFile(40, 0, 1, 0, 32, FALSE, Nothing, <<>>),
    Alien("bmp", <<Piece("bmpHeader", 14, Bmp!BmpHeader(FALSE, 54))>>) }

-----------------------------------------------------------------------------
(* PSD                                                                     *)

PsdFile(gray, channels, w, h, picture, compression, pieces) ==
  Foreign("psd", picture, <<>>,
    << Piece("psdHeader", Psd!PSD_HEADER_SIZE, Psd!Header(TRUE, TRUE, gray, channels, w, h)),
       Bytes(<<0, 0, 0, 2>>), Bytes(<<9, 9>>), Bytes(<<0, 0, 0, 0>>), Bytes(<<0, 0, 0, 0>>),
       Bytes(<<0, compression>>) >> \o pieces)

(* Two literals, an empty packet, a run and a literal.                     *)
PsdPackets ==
  PsdFile(FALSE, 3, 2, 1, BGRX(2, 1, <<3, 2, 1, 255, 3, 2, 4, 255>>), 1,
          << Piece("counts", 6, <<>>), Bytes(<<1, 1, 4>>), Bytes(<<128, 255, 2>>), Bytes(<<1, 3, 3>>) >>)

PsdFiles ==
  { PsdPackets,
    PsdFile(TRUE, 2, 1, 1, Picture(PIXEL_FORMAT_R8G8_UNORM, 1, 1, <<1, 2>>), 1,
            << Piece("counts", 4, <<>>), Bytes(<<0, 1>>), Bytes(<<0, 2>>) >>),
    PsdFile(FALSE, 4, 1, 1, BGRA(1, 1, <<3, 2, 1, 4>>), 0,
            << Bytes(<<1>>), Bytes(<<2>>), Bytes(<<3>>), Bytes(<<4>>) >>),
    PsdFile(FALSE, 3, 0, 1, Nothing, 0, <<>>),
    PsdFile(FALSE, 0, 1, 1, Nothing, 0, <<>>),
    PsdFile(FALSE, 1, 1, 1, Nothing, 1, << Piece("counts", 2, <<>>), Bytes(<<0, 1>>) >>),
    PsdFile(FALSE, 3, 1, 1, Nothing, 2, <<>>),
    PsdFile(FALSE, 5, 1, 1, Nothing, 0, <<>>),
    Alien("psd", <<Piece("psdHeader", Psd!PSD_HEADER_SIZE, Psd!Header(FALSE, TRUE, TRUE, 1, 1, 1))>>) }

-----------------------------------------------------------------------------
(* PNG                                                                     *)

PngFile(info, picture, rows) ==
  Foreign("png", picture, info.texts,
    <<Png!Signature, Png!InfoChunk(info)>> \o [i \in DOMAIN rows |-> Png!RowChunk(rows[i])]
      \o <<Png!EndChunk>>)

PngFiles ==
  { PngFile(Png!Info(1, 1, 1, 8, FALSE, FALSE, <<<<"k", "v">>, <<"v", "k">>>>), Grey(1, 1, <<7>>),
            << <<7>> >>),
    PngFile(Png!Info(1, 2, 3, 8, FALSE, TRUE, Texts), BGRX(1, 2, <<3, 2, 1, 255, 6, 5, 4, 255>>),
            << <<1, 2, 3>>, <<4, 5, 6>> >>),
    PngFile(Png!Info(2, 1, 1, 1, FALSE, FALSE, <<>>),
            BGRA(2, 1, <<255, 255, 255, 255, 0, 0, 0, 255>>), << <<128>> >>),
    PngFile(Png!Info(2, 1, 1, 4, FALSE, FALSE, <<>>), Grey(2, 1, <<17, 34>>), << <<18>> >>),
    PngFile(Png!Info(1, 1, 3, 8, TRUE, FALSE, <<>>), BGRA(1, 1, <<3, 2, 1, 0>>), << <<1, 2, 3, 0>> >>),
    PngFile(Png!Info(1, 1, 3, 16, FALSE, FALSE, <<>>),
            Picture(PIXEL_FORMAT_R16G16B16A16_UNORM, 1, 1, <<1, 2, 3, 4, 5, 6, 255, 255>>),
            << <<1, 2, 3, 4, 5, 6>> >>),
    PngFile(Png!Info(5, 1, 1, 8, FALSE, FALSE, <<>>), Grey(5, 1, Counted(5, 0)), << Counted(5, 0) >>),
    PngFile(Png!Info(1, 1, 1, 16, FALSE, FALSE, <<>>), Picture(PIXEL_FORMAT_R16_UNORM, 1, 1, <<1, 2>>),
            << <<1, 2>> >>),
    Alien("png", <<Bytes(Counted(9, 0))>>) }

-----------------------------------------------------------------------------
(* JPEG                                                                    *)

JpegFile(w, h, channels, picture, rows) ==
  Foreign("jpg", picture, <<>>,
    <<Jpeg!HeaderPiece(Jpeg!Header(w, h, channels))>>
      \o [i \in DOMAIN rows |-> Jpeg!RowPiece(rows[i])] \o <<Jpeg!EndPiece>>)

JpegFiles ==
  { JpegFile(2, 1, 1, BGRA(2, 1, <<1, 1, 1, 255, 2, 2, 2, 255>>), << <<1, 2>> >>),
    JpegFile(1, 2, 3, BGRA(1, 2, <<3, 2, 1, 255, 6, 5, 4, 255>>), << <<1, 2, 3>>, <<4, 5, 6>> >>),
    JpegFile(1, 1, 4, BGRA(1, 1, <<9, 9, 9, 255>>), << <<1, 2, 3, 4>> >>) }

Scene(image, data, f) ==
  [bitmap |-> image.bitmap, pixels |-> image.pixels, metadata |-> data, file |-> f]

ToRead(f) == Scene(Flat("2D", PIXEL_FORMAT_R8_UNORM, 1, 1, 1, 1), SomeMetadata, f)

MCMirroredScenes  == {ToRead(TgaMirrored(2))}
MCTruncatedScenes == {ToRead(PsdPackets)}

(* A file to read, and a bitmap to save.                                   *)
MCScenes ==
  { ToRead(f) : f \in TgaFiles \union BmpFiles \union PsdFiles \union PngFiles \union JpegFiles }
  \union
  { Scene(image, SomeMetadata, TgaCompressed) : image \in MCImages }
  \union
  { Scene(Flat("2D", PIXEL_FORMAT_R8_UNORM, 2, 3, 1, 1), NoKey, TgaCompressed) }
=============================================================================
