----------------------------- MODULE Dds_proofs -----------------------------
(***************************************************************************)
(* The DDS handler, for every bitmap that is saved, every well-formed file *)
(* and every choice of levels: a bitmap that the handler leaves valid has  *)
(* its buffer, every byte of it came from the right level of the right     *)
(* element of the file, the stream stands behind the pixels afterwards,    *)
(* and what was saved is read back.                                        *)
(*                                                                         *)
(* First what FindDdsFormat makes of the rows of its table, and what the   *)
(* reader makes of the headers that BuildHeaders fills.  Then the levels   *)
(* that are left out: their sides are shifted, so each level that is left  *)
(* is a level of the file (LevelsShift), an element of the file is the     *)
(* levels left out and those that are left (ElementsShift), and the bytes  *)
(* passed over are the former's (SkippedBytes), also where pixels of 24    *)
(* bits are widened.  The invariant IInv says that the file is well formed *)
(* and of the last read what it was given and what it has read; all else   *)
(* follows from that.                                                      *)
(***************************************************************************)
EXTENDS Dds, BitmapLayout_proofs

-----------------------------------------------------------------------------
(* The table of formats                                                    *)

Rows == 1 .. 25

LEMMA TableIsFunction ==
  DOMAIN s_ddsFormats = Rows
BY DEF s_ddsFormats, Rows

(* The formats that the handler names, by their numbers.                   *)
LEMMA FormatNumbers ==
  /\ PIXEL_FORMAT_UNKNOWN = 0 /\ PIXEL_FORMAT_R10G10B10A2_UNORM = 24
  /\ PIXEL_FORMAT_R8G8B8A8_UNORM = 28 /\ PIXEL_FORMAT_R8G8_UNORM = 49
  /\ PIXEL_FORMAT_R16_UNORM = 56 /\ PIXEL_FORMAT_B8G8R8A8_UNORM = 87
  /\ PIXEL_FORMAT_B8G8R8X8_UNORM = 88 /\ PixelFormat = 0 .. 100
BY DEF PIXEL_FORMAT_UNKNOWN, PIXEL_FORMAT_R10G10B10A2_UNORM, PIXEL_FORMAT_R8G8B8A8_UNORM,
       PIXEL_FORMAT_R8G8_UNORM, PIXEL_FORMAT_R16_UNORM, PIXEL_FORMAT_B8G8R8A8_UNORM,
       PIXEL_FORMAT_B8G8R8X8_UNORM, PixelFormat, PIXEL_FORMAT_SENTINEL

(* What is asked of the rows: the names that make the reader do more than  *)
(* read belong to one format each, and are not found by a code.            *)
LEMMA RowFacts ==
  \A i \in Rows :
    LET row == s_ddsFormats[i]
    IN  /\ row.pixelFormat \in PixelFormat /\ row.bits \in Nat \ {0}
        /\ row.format = "A8L8" => row.pixelFormat = 49 /\ row.fourCC = "none"
        /\ row.format = "R8G8B8" => row.pixelFormat = 88 /\ row.fourCC = "none" /\ row.bits = 24
        /\ row.format \notin {"DX10", "UNKNOWN"}
        /\ row.fourCC \notin {"DX10", "DXT1", "DXT2", "DXT3", "DXT4", "DXT5", "ATI1", "ATI2"}
        /\ row.pixelFormat = 49 => row.format = "A8L8"
        /\ row.pixelFormat \notin {0, 24, 56} /\ i # 14 => row.format \in s_supportedFormats
BY SMTT(30) DEF s_ddsFormats, Row, Rows, s_supportedFormats, PixelFormat, PIXEL_FORMAT_SENTINEL,
       PIXEL_FORMAT_UNKNOWN, PIXEL_FORMAT_R32G32B32A32_FLOAT, PIXEL_FORMAT_R16G16B16A16_FLOAT,
       PIXEL_FORMAT_R16G16B16A16_UNORM, PIXEL_FORMAT_R10G10B10A2_UNORM,
       PIXEL_FORMAT_R8G8B8A8_UNORM, PIXEL_FORMAT_R16G16_UNORM, PIXEL_FORMAT_R32_FLOAT,
       PIXEL_FORMAT_R8G8_UNORM, PIXEL_FORMAT_R16_FLOAT, PIXEL_FORMAT_R16_UNORM,
       PIXEL_FORMAT_R8_UNORM, PIXEL_FORMAT_A8_UNORM, PIXEL_FORMAT_B5G6R5_UNORM,
       PIXEL_FORMAT_B5G5R5A1_UNORM, PIXEL_FORMAT_B8G8R8A8_UNORM, PIXEL_FORMAT_B8G8R8X8_UNORM

(* No two rows that stand for a format of the library are found by the     *)
(* same code, or by the same bits and masks.                               *)
LEMMA RowsAreDistinct ==
  \A j \in Rows : s_ddsFormats[j].pixelFormat # 0 =>
    \A i \in Rows :
      RowMatches(s_ddsFormats[i],
                 PixelFormatOf(s_ddsFormats[j].fourCC, s_ddsFormats[j].bits, s_ddsFormats[j].masks))
      => i = j
BY DEF s_ddsFormats, Row, Rows, RowMatches, PixelFormatOf, PIXEL_FORMAT_UNKNOWN

(* Two rows stand for R8G8B8A8_UNORM.                                      *)
LEMMA RedFirst ==
  /\ s_ddsFormats[13].pixelFormat = 28 /\ s_ddsFormats[14].pixelFormat = 28
  /\ s_ddsFormats[13].bits = 32
BY DEF s_ddsFormats, Row, PIXEL_FORMAT_R8G8B8A8_UNORM

LEMMA FirstOfIsFirst ==
  ASSUME NEW rows, rows \subseteq Rows, rows # {}
  PROVE  FirstOf(rows) \in rows /\ \A j \in rows : FirstOf(rows) <= j
<1>1. rows \subseteq Nat
  BY DEF Rows
<1>2. \E i \in rows : \A j \in rows : i <= j
  BY <1>1, LeastElement
<1> QED BY <1>2 DEF FirstOf

(* What a file's pixel format is found to be.                              *)
LEMMA FoundFormat ==
  ASSUME NEW pf, NEW dxgi \in PixelFormat
  PROVE  LET found == FindDdsFormat(pf, dxgi)
         IN  /\ found.pixelFormat \in PixelFormat
             /\ found.format = "A8L8" => found.pixelFormat = 49 /\ pf.fourCC # "DX10"
             /\ found.format = "R8G8B8" => found.pixelFormat = 88 /\ pf.fourCC # "DX10"
<1> DEFINE rows == {i \in DOMAIN s_ddsFormats : RowMatches(s_ddsFormats[i], pf)}
           row  == s_ddsFormats[FirstOf(rows)]
           found == FindDdsFormat(pf, dxgi)
<1>1. CASE pf.isFourCC /\ pf.fourCC \in DOMAIN FourCCFormat
  <2>1. found = Found(pf.fourCC, FourCCFormat[pf.fourCC])
    <3>1. "DX10" \notin DOMAIN FourCCFormat
      BY DEF FourCCFormat
    <3> QED BY <1>1, <3>1 DEF FindDdsFormat
  <2>2. /\ pf.fourCC \in {"DXT1", "DXT2", "DXT3", "DXT4", "DXT5", "ATI1", "ATI2"}
        /\ FourCCFormat[pf.fourCC] \in PixelFormat
    BY <1>1 DEF FourCCFormat, PIXEL_FORMAT_BC1_UNORM, PIXEL_FORMAT_BC2_UNORM, PIXEL_FORMAT_BC3_UNORM,
                PIXEL_FORMAT_BC4_UNORM, PIXEL_FORMAT_BC5_UNORM, PixelFormat, PIXEL_FORMAT_SENTINEL
  <2> QED BY <2>1, <2>2 DEF Found
<1>2. CASE pf.isFourCC /\ pf.fourCC = "DX10"
  <2>1. "DX10" \notin DOMAIN FourCCFormat
    BY DEF FourCCFormat
  <2>2. found = Found("DX10", dxgi)
    BY <1>2, <2>1 DEF FindDdsFormat
  <2> QED BY <2>2 DEF Found
<1>3. CASE ~ pf.isFourCC /\ pf.indexed
  <2>1. found = Found("P8", PIXEL_FORMAT_UNKNOWN)
    BY <1>3 DEF FindDdsFormat
  <2> QED BY <2>1, FormatNumbers DEF Found
<1>4. CASE /\ ~ (pf.isFourCC /\ pf.fourCC \in DOMAIN FourCCFormat)
           /\ ~ (pf.isFourCC /\ pf.fourCC = "DX10")
           /\ ~ (~ pf.isFourCC /\ pf.indexed)
  <2>1. found = IF rows = {} THEN Found("UNKNOWN", PIXEL_FORMAT_UNKNOWN)
                ELSE Found(row.format, row.pixelFormat)
    BY <1>4 DEF FindDdsFormat
  <2>2. CASE rows = {}
    BY <2>1, <2>2, FormatNumbers DEF Found
  <2>3. CASE rows # {}
    <3>1. FirstOf(rows) \in Rows /\ RowMatches(row, pf)
      BY <2>3, FirstOfIsFirst, TableIsFunction
    <3>2. found = Found(row.format, row.pixelFormat)
      BY <2>1, <2>3
    <3>3. /\ row.pixelFormat \in PixelFormat
          /\ row.format = "A8L8" => row.pixelFormat = 49 /\ row.fourCC = "none"
          /\ row.format = "R8G8B8" => row.pixelFormat = 88 /\ row.fourCC = "none"
      BY <3>1, RowFacts
    <3>4. row.fourCC = "none" => pf.fourCC # "DX10"
      BY <3>1 DEF RowMatches
    <3> HIDE DEF row, rows, found
    <3> QED BY <3>2, <3>3, <3>4 DEF Found, found
  <2> QED BY <2>2, <2>3
<1> QED BY <1>1, <1>2, <1>3, <1>4

(* An uncompressed format that Save takes is found again by its masks.     *)
LEMMA RowIsFoundAgain ==
  ASSUME NEW f \in PixelFormat, RowsFor(f) # {}, NEW dxgi
  PROVE  LET row == s_ddsFormats[FirstOf(RowsFor(f))]
             pf  == PixelFormatOf(row.fourCC, row.bits, row.masks)
         IN  /\ FindDdsFormat(pf, dxgi) = Found(row.format, f)
             /\ pf \in DdsPixelFormat /\ pf.fourCC # "DX10"
             /\ row.format # "R8G8B8"
             /\ (row.format = "A8L8") <=> (f = 49)
             /\ f \notin {24, 56} => row.format \in s_supportedFormats
<1> DEFINE j   == FirstOf(RowsFor(f))
           row == s_ddsFormats[j]
           pf  == PixelFormatOf(row.fourCC, row.bits, row.masks)
<1>1. j \in RowsFor(f) /\ j \in Rows /\ \A i \in RowsFor(f) : j <= i
  BY FirstOfIsFirst, TableIsFunction DEF RowsFor
<1>2. row.pixelFormat = f /\ row.bits = 8 * GetBytesPerPixel(f)
  BY <1>1 DEF RowsFor
<1>3. f # 0
  <2>1. GetBytesPerPixel(0) = 0
    BY DEF GetBytesPerPixel
  <2>2. row.bits \in Nat \ {0}
    BY <1>1, RowFacts
  <2> QED BY <1>2, <2>1, <2>2
<1>4. /\ row.fourCC \notin {"DX10", "DXT1", "DXT2", "DXT3", "DXT4", "DXT5", "ATI1", "ATI2"}
      /\ row.format = "A8L8" => f = 49
      /\ row.format = "R8G8B8" => f = 88 /\ row.bits = 24
      /\ f = 49 => row.format = "A8L8"
      /\ f \notin {0, 24, 56} /\ j # 14 => row.format \in s_supportedFormats
      /\ row.bits \in Nat
  BY <1>1, <1>2, RowFacts
<1>5. j # 14
  <2> SUFFICES ASSUME j = 14 PROVE FALSE
    OBVIOUS
  <2>1. f = 28
    BY <1>2, RedFirst
  <2>2. GetBytesPerPixel(28) = 4
    BY DEF GetBytesPerPixel
  <2>3. 13 \in RowsFor(f)
    BY <2>1, <2>2, RedFirst, TableIsFunction DEF RowsFor, Rows
  <2> QED BY <1>1, <2>3
<1>6. row.format # "R8G8B8"
  <2>1. GetBytesPerPixel(88) = 4
    BY DEF GetBytesPerPixel
  <2> QED BY <1>2, <1>4, <2>1
<1>7. /\ pf.isFourCC = (row.fourCC # "none") /\ pf.indexed = FALSE /\ pf.fourCC = row.fourCC
      /\ pf.bits = row.bits /\ pf.masks = row.masks
  BY DEF PixelFormatOf
<1>8. pf \in DdsPixelFormat
  <2>1. row.fourCC \in FourCCs /\ row.masks \in Masks
    BY <1>1, TableIsFunction DEF FourCCs, Masks
  <2> QED BY <1>4, <2>1 DEF DdsPixelFormat, PixelFormatOf
<1>9. FindDdsFormat(pf, dxgi) = Found(row.format, f)
  <2> DEFINE rows == {i \in DOMAIN s_ddsFormats : RowMatches(s_ddsFormats[i], pf)}
  <2>1. RowMatches(row, pf)
    BY <1>7 DEF RowMatches
  <2>2. rows = {j}
    <3>1. \A i \in Rows : RowMatches(s_ddsFormats[i], pf) => i = j
      BY <1>1, <1>2, <1>3, RowsAreDistinct
    <3> QED BY <1>1, <2>1, <3>1, TableIsFunction
  <2>3. FirstOf(rows) = j
    <3>1. rows \subseteq Rows /\ rows # {}
      BY <1>1, <2>2
    <3> HIDE DEF rows
    <3>2. FirstOf(rows) \in rows
      BY <3>1, FirstOfIsFirst
    <3> QED BY <2>2, <3>2
  <2>4. pf.fourCC \notin DOMAIN FourCCFormat /\ pf.fourCC # "DX10" /\ ~ pf.indexed
    BY <1>4, <1>7 DEF FourCCFormat
  <2>5. FindDdsFormat(pf, dxgi) = IF rows = {} THEN Found("UNKNOWN", PIXEL_FORMAT_UNKNOWN)
                                  ELSE Found(s_ddsFormats[FirstOf(rows)].format,
                                             s_ddsFormats[FirstOf(rows)].pixelFormat)
    <3> HIDE DEF pf
    <3> QED BY <2>4 DEF FindDdsFormat
  <2> HIDE DEF rows
  <2> QED BY <1>2, <2>2, <2>3, <2>5
<1> HIDE DEF j
<1> QED BY <1>3, <1>4, <1>5, <1>6, <1>7, <1>8, <1>9 DEF j

(* A compressed one is found by the code of its family.                    *)
LEMMA FamilyIsFound ==
  ASSUME NEW f \in 70 .. 84, NEW dxgi
  PROVE  LET pf    == PixelFormatOf(BlockFourCC(f), 0, "zero")
             unorm == ((f - 70) \div 3) * 3 + 71
         IN  /\ FindDdsFormat(pf, dxgi) = Found(BlockFourCC(f), unorm)
             /\ pf \in DdsPixelFormat /\ pf.fourCC # "DX10"
             /\ BlockFourCC(f) \in s_supportedFormats \ {"R8G8B8", "A8L8"}
             /\ SameTexels(unorm, f)
<1> DEFINE code  == BlockFourCC(f)
           pf    == PixelFormatOf(code, 0, "zero")
           unorm == ((f - 70) \div 3) * 3 + 71
<1>1. \/ f \in 70 .. 72 /\ code = "DXT1" /\ unorm = 71
      \/ f \in 73 .. 75 /\ code = "DXT3" /\ unorm = 74
      \/ f \in 76 .. 78 /\ code = "DXT5" /\ unorm = 77
      \/ f \in 79 .. 81 /\ code = "ATI1" /\ unorm = 80
      \/ f \in 82 .. 84 /\ code = "ATI2" /\ unorm = 83
  BY DEF BlockFourCC
<1>2. SameTexels(unorm, f)
  <2> HIDE DEF unorm
  <2> QED BY <1>1 DEF SameTexels, IsCompressedFormat, IsDds10Format, GetBytesPerPixel, GetBlockByteSize
<1>3. code \in DOMAIN FourCCFormat /\ FourCCFormat[code] = unorm
  <2> HIDE DEF unorm, code
  <2> QED BY <1>1 DEF FourCCFormat, PIXEL_FORMAT_BC1_UNORM, PIXEL_FORMAT_BC2_UNORM,
                      PIXEL_FORMAT_BC3_UNORM, PIXEL_FORMAT_BC4_UNORM, PIXEL_FORMAT_BC5_UNORM
<1>4. code \in {"DXT1", "DXT3", "DXT5", "ATI1", "ATI2"}
  BY <1>1
<1>5. code \in s_supportedFormats \ {"R8G8B8", "A8L8"}
  BY <1>4 DEF s_supportedFormats
<1>6. pf.isFourCC /\ pf.fourCC = code /\ pf.fourCC # "DX10"
  BY <1>4 DEF PixelFormatOf
<1>7. FindDdsFormat(pf, dxgi) = Found(code, unorm)
  <2> HIDE DEF pf, code, unorm
  <2> QED BY <1>3, <1>6 DEF FindDdsFormat
<1>8. pf \in DdsPixelFormat
  <2>1. code \in FourCCs
    BY <1>3 DEF FourCCs
  <2>2. "zero" \in Masks
    <3>1. s_ddsFormats[19].masks = "zero" /\ 19 \in DOMAIN s_ddsFormats
      BY TableIsFunction DEF s_ddsFormats, Row, Rows
    <3> QED BY <3>1 DEF Masks
  <2> QED BY <2>1, <2>2 DEF DdsPixelFormat, PixelFormatOf
<1> QED BY <1>2, <1>5, <1>6, <1>7, <1>8

-----------------------------------------------------------------------------
(* The headers of a bitmap that is saved                                   *)

(* The pixel format in the headers: what the reader makes of it.           *)
LEMMA OwnFormat ==
  ASSUME NEW b \in Bitmap, CanMakePixelFormat(b)
  PROVE  LET h      == BuildHeaders(b)
             format == CopyHeaderValuesToMembers(h).format
         IN  /\ h.pf \in DdsPixelFormat /\ h.dxgiFormat \in PixelFormat
             /\ IsDx10(h) <=> NeedsDx10(b)
             /\ format \in PixelFormat /\ SameTexels(format, b.format)
             /\ HeaderFormat(h) # "R8G8B8"
             /\ (HeaderFormat(h) = "A8L8") <=> (IsPlain(b) /\ b.format = 49)
             /\ ~ Unreadable(b) => CheckSupportedFormat(h)
             /\ ReadBackFormat(b) = IF HeaderFormat(h) = "A8L8" THEN 87 ELSE format
<1> DEFINE f      == b.format
           pf     == MakePixelFormat(b)
           h      == BuildHeaders(b)
           row    == s_ddsFormats[FirstOf(RowsFor(f))]
           family == PixelFormatOf(BlockFourCC(f), 0, "zero")
           single == PixelFormatOf(row.fourCC, row.bits, row.masks)
           format == CopyHeaderValuesToMembers(h).format
<1>1. f \in PixelFormat /\ f \in 0 .. 100
  BY FormatNumbers DEF Bitmap
<1>2. pf = IF IsCompressed(b) THEN family ELSE single
  BY DEF MakePixelFormat
<1>3. /\ h.pf = IF NeedsDx10(b) THEN [pf EXCEPT !.isFourCC = TRUE, !.fourCC = "DX10"] ELSE pf
      /\ h.dxgiFormat = IF NeedsDx10(b) THEN f ELSE 0
  BY FormatNumbers DEF BuildHeaders, Header
<1>4. format = IF IsDx10(h) THEN h.dxgiFormat ELSE FindDdsFormat(h.pf, h.dxgiFormat).pixelFormat
  BY DEF CopyHeaderValuesToMembers, Sized
<1>5. HeaderFormat(h) = FindDdsFormat(h.pf, h.dxgiFormat).format
  BY DEF HeaderFormat
<1>6. IsPlain(b) <=> ~ NeedsDx10(b)
  BY DEF IsPlain, NeedsDx10
<1>7. CASE NeedsDx10(b)
  <2>1. pf \in DdsPixelFormat
    <3>1. CASE IsCompressed(b)
      <4>1. CASE f \in 70 .. 84
        BY <1>2, <3>1, <4>1, FamilyIsFound
      <4>2. CASE f \notin 70 .. 84
        <5>1. BlockFourCC(f) = "none"
          BY <4>2 DEF BlockFourCC
        <5>2. "none" \in FourCCs /\ "zero" \in Masks
          <6>1. s_ddsFormats[19].masks = "zero" /\ 19 \in DOMAIN s_ddsFormats
            BY TableIsFunction DEF s_ddsFormats, Row, Rows
          <6> QED BY <6>1 DEF Masks, FourCCs
        <5> QED BY <1>2, <3>1, <5>1, <5>2 DEF PixelFormatOf, DdsPixelFormat
      <4> QED BY <4>1, <4>2
    <3>2. CASE ~ IsCompressed(b)
      <4>1. RowsFor(f) # {}
        BY <3>2 DEF CanMakePixelFormat
      <4> QED BY <1>1, <1>2, <3>2, <4>1, RowIsFoundAgain
    <3> QED BY <3>1, <3>2
  <2>2. h.pf = [pf EXCEPT !.isFourCC = TRUE, !.fourCC = "DX10"] /\ h.dxgiFormat = f
    BY <1>3, <1>7
  <2>3. "DX10" \in FourCCs
    BY DEF FourCCs
  <2> HIDE DEF pf, h
  <2>4. h.pf \in DdsPixelFormat /\ h.pf.fourCC = "DX10" /\ h.pf.isFourCC = TRUE
    BY <2>1, <2>2, <2>3 DEF DdsPixelFormat
  <2>5. FindDdsFormat(h.pf, h.dxgiFormat) = Found("DX10", f)
    <3>1. "DX10" \notin DOMAIN FourCCFormat
      BY DEF FourCCFormat
    <3> QED BY <2>2, <2>4, <3>1 DEF FindDdsFormat
  <2>6. HeaderFormat(h) = "DX10" /\ format = f /\ IsDx10(h)
    BY <1>4, <1>5, <2>2, <2>4, <2>5 DEF Found, IsDx10, h
  <2>7. CheckSupportedFormat(h)
    BY <2>6 DEF CheckSupportedFormat, s_supportedFormats
  <2>8. ReadBackFormat(b) = f
    BY <1>6, <1>7 DEF ReadBackFormat
  <2> QED BY <1>1, <1>6, <1>7, <2>2, <2>4, <2>6, <2>7, <2>8 DEF SameTexels, h
<1>8. CASE ~ NeedsDx10(b) /\ IsCompressed(b)
  <2>1. f \in 70 .. 84
    BY <1>8 DEF NeedsDx10, IsCompressed, IsCompressedFormat
  <2>2. h.pf = family /\ h.dxgiFormat = 0
    BY <1>2, <1>3, <1>8
  <2> DEFINE unorm == ((f - 70) \div 3) * 3 + 71
  <2>3. /\ FindDdsFormat(family, 0) = Found(BlockFourCC(f), unorm)
        /\ family \in DdsPixelFormat /\ family.fourCC # "DX10"
        /\ BlockFourCC(f) \in s_supportedFormats \ {"R8G8B8", "A8L8"}
        /\ SameTexels(unorm, f)
    BY <2>1, FamilyIsFound
  <2>4. unorm \in PixelFormat
    BY <2>1, FormatNumbers
  <2>5. ReadBackFormat(b) = unorm /\ f # 49
    BY <1>6, <1>8, <2>1, FormatNumbers DEF ReadBackFormat
  <2>6. 0 \in PixelFormat
    BY FormatNumbers
  <2> HIDE DEF family, unorm, h
  <2>7. ~ IsDx10(h) /\ HeaderFormat(h) = BlockFourCC(f) /\ format = unorm
    BY <1>4, <1>5, <2>2, <2>3 DEF IsDx10, Found, h
  <2>8. CheckSupportedFormat(h) /\ HeaderFormat(h) \notin {"R8G8B8", "A8L8"}
    BY <2>3, <2>7 DEF CheckSupportedFormat
  <2> QED BY <1>8, <2>2, <2>3, <2>4, <2>5, <2>6, <2>7, <2>8 DEF h
<1>9. CASE ~ NeedsDx10(b) /\ ~ IsCompressed(b)
  <2>1. RowsFor(f) # {} /\ f \notin 70 .. 84
    BY <1>9 DEF CanMakePixelFormat, IsCompressed, IsCompressedFormat
  <2>2. h.pf = single /\ h.dxgiFormat = 0
    BY <1>2, <1>3, <1>9
  <2>3. /\ FindDdsFormat(single, 0) = Found(row.format, f)
        /\ single \in DdsPixelFormat /\ single.fourCC # "DX10"
        /\ row.format # "R8G8B8"
        /\ (row.format = "A8L8") <=> (f = 49)
        /\ f \notin {24, 56} => row.format \in s_supportedFormats
    BY <1>1, <2>1, RowIsFoundAgain
  <2>4. ReadBackFormat(b) = IF f = 49 THEN 87 ELSE f
    BY <1>6, <1>9, <2>1, FormatNumbers DEF ReadBackFormat
  <2>5. Unreadable(b) <=> f \in {24, 56}
    BY <1>6, <1>9, FormatNumbers DEF Unreadable
  <2>6. 0 \in PixelFormat
    BY FormatNumbers
  <2> HIDE DEF single, row, h
  <2>7. ~ IsDx10(h) /\ HeaderFormat(h) = row.format /\ format = f
    BY <1>4, <1>5, <2>2, <2>3 DEF IsDx10, Found, h
  <2>8. ~ Unreadable(b) => CheckSupportedFormat(h)
    BY <2>3, <2>5, <2>7 DEF CheckSupportedFormat
  <2> QED BY <1>1, <1>6, <1>9, <2>2, <2>3, <2>4, <2>6, <2>7, <2>8 DEF h, SameTexels
<1> QED BY <1>7, <1>8, <1>9

(* What Save writes is a well-formed file.                                 *)
LEMMA OwnFileIsWellFormed ==
  ASSUME NEW b, Complete(b), CanMakePixelFormat(b)
  PROVE  WellFormed(Written(BuildHeaders(b), b, FALSE))
<1> DEFINE h      == BuildHeaders(b)
           d      == CopyHeaderValuesToMembers(h)
           n      == GetTrueMipCount(b)
<1>1. /\ b \in Bitmap /\ b.type \in {"2D", "3D", "CUBE"} /\ b.arraySize \in Nat
      /\ b.width \in Nat /\ b.height \in Nat /\ b.volumeDepth \in Nat
      /\ b.type # "3D" => b.volumeDepth = 1
      /\ b.type = "CUBE" => b.height = b.width /\ b.arraySize = 6
  BY DEF Complete, Describable, Bitmap
<1>2. n \in Nat /\ Larger(n, 1) = n
  BY <1>1, MipCountType, SomeLevel DEF Larger, Complete, Describable
<1>3. /\ h.pf \in DdsPixelFormat /\ h.dxgiFormat \in PixelFormat
      /\ IsDx10(h) <=> NeedsDx10(b)
      /\ SameTexels(d.format, b.format)
      /\ HeaderFormat(h) # "R8G8B8"
  BY <1>1, OwnFormat
<1>4. h = Header(b.width, b.height, IF b.type = "3D" THEN b.volumeDepth ELSE 0, n,
                 n > 1 /\ b.type # "3D", b.type = "3D", b.type = "CUBE", h.pf, h.dxgiFormat,
                 IF NeedsDx10(b) THEN b.arraySize ELSE 0)
  BY DEF BuildHeaders, Header
<1>5. h \in DdsHeader
  <2>1. /\ (n > 1 /\ b.type # "3D") \in BOOLEAN /\ (b.type = "3D") \in BOOLEAN
        /\ (b.type = "CUBE") \in BOOLEAN
        /\ (IF b.type = "3D" THEN b.volumeDepth ELSE 0) \in Nat
        /\ (IF NeedsDx10(b) THEN b.arraySize ELSE 0) \in Nat
    BY <1>1
  <2> DEFINE p == h.pf
             x == h.dxgiFormat
             y == (n > 1 /\ b.type # "3D")
             z == (b.type = "3D")
             c == (b.type = "CUBE")
  <2>2. h = Header(b.width, b.height, IF b.type = "3D" THEN b.volumeDepth ELSE 0, n,
                   y, z, c, p, x, IF NeedsDx10(b) THEN b.arraySize ELSE 0)
    BY <1>4
  <2>3. p \in DdsPixelFormat /\ x \in PixelFormat /\ y \in BOOLEAN /\ z \in BOOLEAN /\ c \in BOOLEAN
    BY <1>3, <2>1
  <2> HIDE DEF p, x, y, z, c, h, n
  <2> QED BY <1>1, <1>2, <2>1, <2>2, <2>3 DEF Header, DdsHeader
<1>6. /\ h.width = b.width /\ h.height = b.height /\ h.mips = n
      /\ h.isVolume = (b.type = "3D") /\ h.isCube = (b.type = "CUBE")
      /\ b.type = "3D" => h.depth = b.volumeDepth
      /\ NeedsDx10(b) => h.arraySize = b.arraySize
  BY <1>4 DEF Header
<1>7. (IF IsDx10(h) THEN h.arraySize ELSE 1) = b.arraySize \/ b.type = "CUBE"
  BY <1>3, <1>6 DEF NeedsDx10
<1>8. d = Sized(b.type, d.format, b.width, b.height, b.volumeDepth, n, b.arraySize)
  <2> HIDE DEF h, n
  <2>1. CASE b.type = "CUBE"
    BY <1>1, <1>2, <1>6, <2>1 DEF CopyHeaderValuesToMembers, Sized
  <2>2. CASE b.type = "3D"
    BY <1>1, <1>2, <1>6, <1>7, <2>2 DEF CopyHeaderValuesToMembers, Sized
  <2>3. CASE b.type = "2D"
    BY <1>1, <1>2, <1>6, <1>7, <2>3 DEF CopyHeaderValuesToMembers, Sized
  <2> QED BY <1>1, <2>1, <2>2, <2>3
<1> HIDE DEF h, d, n
<1>9. d = [b EXCEPT !.format = d.format, !.data = 0, !.mipCount = n]
  <2> DEFINE e == [b EXCEPT !.format = d.format, !.data = 0, !.mipCount = n]
  <2>1. d.format \in PixelFormat
    BY <1>1, OwnFormat DEF d, h
  <2>2. /\ e \in Bitmap /\ e.type = b.type /\ e.format = d.format /\ e.width = b.width
        /\ e.height = b.height /\ e.volumeDepth = b.volumeDepth /\ e.mipCount = n
        /\ e.arraySize = b.arraySize /\ e.data = 0
    BY <1>1, <1>2, <2>1 DEF Bitmap
  <2> DEFINE s == Sized(b.type, d.format, b.width, b.height, b.volumeDepth, n, b.arraySize)
  <2>3. /\ s \in Bitmap /\ s.type = b.type /\ s.format = d.format /\ s.width = b.width
        /\ s.height = b.height /\ s.volumeDepth = b.volumeDepth /\ s.mipCount = n
        /\ s.arraySize = b.arraySize /\ s.data = 0
    BY <1>1, <1>2, <2>1 DEF Sized, Bitmap, TextureType
  <2> HIDE DEF e, s
  <2>4. s = e
    BY <2>2, <2>3, SameFields
  <2> QED BY <1>8, <2>4 DEF e, s
<1> DEFINE f == Written(h, b, FALSE)
<1>10. f.header = h /\ f.origin = b /\ f.packed = FALSE
  BY DEF Written
<1>11. f.packed = (HeaderFormat(f.header) = "R8G8B8")
  BY <1>3, <1>10 DEF h
<1> HIDE DEF f
<1>12. WellFormed(f)
  BY <1>3, <1>5, <1>9, <1>10, <1>11 DEF WellFormed, d, n
<1> QED BY <1>12 DEF f, h

-----------------------------------------------------------------------------
(* Bytes of the buffer and of the file                                     *)

(* Whole pixels, where pixels of 24 bits are widened.                      *)
Fits(header, n) ==
  n \in Nat /\ (HeaderFormat(header) = "R8G8B8" => \E q \in Nat : n = 4 * q)

(* Widening can be done one part after the other.                          *)
LEMMA FileBytesAdd ==
  ASSUME NEW header, NEW x, NEW y, Fits(header, x), Fits(header, y)
  PROVE  /\ Fits(header, x + y)
         /\ FileBytes(header, x + y) = FileBytes(header, x) + FileBytes(header, y)
         /\ FileBytes(header, x) \in Nat
         /\ FileBytes(header, x) = 0 => x = 0
<1>1. x \in Nat /\ y \in Nat
  BY DEF Fits
<1>2. CASE HeaderFormat(header) = "R8G8B8"
  <2>1. PICK p \in Nat : x = 4 * p
    BY <1>2 DEF Fits
  <2>2. PICK q \in Nat : y = 4 * q
    BY <1>2 DEF Fits
  <2>3. x + y = 4 * (p + q) /\ p + q \in Nat
    BY <2>1, <2>2
  <2>4. x \div 4 = p /\ y \div 4 = q /\ (x + y) \div 4 = p + q
    BY <2>1, <2>2, <2>3
  <2> QED BY <1>1, <1>2, <2>1, <2>3, <2>4 DEF Fits, FileBytes
<1>3. CASE HeaderFormat(header) # "R8G8B8"
  BY <1>1, <1>3 DEF Fits, FileBytes
<1> QED BY <1>2, <1>3

LEMMA FileBytesTimes ==
  ASSUME NEW header, NEW x, Fits(header, x), NEW c \in Nat
  PROVE  Fits(header, c * x) /\ FileBytes(header, c * x) = c * FileBytes(header, x)
<1>1. x \in Nat /\ c * x \in Nat
  BY ProductType DEF Fits
<1>2. CASE HeaderFormat(header) = "R8G8B8"
  <2>1. PICK q \in Nat : x = 4 * q
    BY <1>2 DEF Fits
  <2>2. c * x = 4 * (c * q) /\ c * q \in Nat
    BY <2>1
  <2>3. x \div 4 = q /\ (c * x) \div 4 = c * q
    BY <2>1, <2>2
  <2>4. (c * q) * 3 = c * (q * 3)
    OBVIOUS
  <2> QED BY <1>1, <1>2, <2>2, <2>3, <2>4 DEF Fits, FileBytes
<1>3. CASE HeaderFormat(header) # "R8G8B8"
  BY <1>1, <1>3 DEF Fits, FileBytes
<1> QED BY <1>2, <1>3

LEMMA FileBytesTotal ==
  ASSUME NEW header, NEW t \in [Nat -> Nat], \A i \in Nat : Fits(header, t[i])
  PROVE  \A n \in Nat : /\ Fits(header, Total(t, n))
                        /\ Total([i \in Nat |-> FileBytes(header, t[i])], n)
                             = FileBytes(header, Total(t, n))
<1> DEFINE u == [i \in Nat |-> FileBytes(header, t[i])]
           P == {n \in Nat : Fits(header, Total(t, n)) /\ Total(u, n) = FileBytes(header, Total(t, n))}
<1>1. u \in [Nat -> Nat] /\ \A i \in Nat : u[i] = FileBytes(header, t[i])
  BY FileBytesAdd
<1> HIDE DEF u
<1>2. 0 \in P
  <2>1. Total(u, 0) = 0 /\ Total(t, 0) = 0
    BY <1>1, TotalUnfolds
  <2>2. Fits(header, 0) /\ FileBytes(header, 0) = 0
    <3>1. 0 = 4 * 0 /\ 0 \div 4 = 0 /\ 0 * 3 = 0
      OBVIOUS
    <3> QED BY <3>1 DEF Fits, FileBytes
  <2> QED BY <2>1, <2>2
<1>3. ASSUME NEW n \in Nat, n \in P PROVE n + 1 \in P
  <2>1. Total(u, n + 1) = Total(u, n) + u[n] /\ Total(t, n + 1) = Total(t, n) + t[n]
    BY <1>1, TotalUnfolds
  <2>2. Fits(header, Total(t, n)) /\ Total(u, n) = FileBytes(header, Total(t, n)) /\ Fits(header, t[n])
    BY <1>3
  <2>3. /\ Fits(header, Total(t, n) + t[n])
        /\ FileBytes(header, Total(t, n) + t[n]) = FileBytes(header, Total(t, n)) + FileBytes(header, t[n])
    BY <2>2, FileBytesAdd
  <2>4. Total(u, n + 1) = FileBytes(header, Total(t, n + 1))
    BY <1>1, <2>1, <2>2, <2>3
  <2> QED BY <2>1, <2>3, <2>4
<1> HIDE DEF P
<1>4. Nat \subseteq P
  BY <1>2, <1>3, SetInduction
<1> QED BY <1>4 DEF P, u

-----------------------------------------------------------------------------
(* Leaving out levels                                                      *)

(* What the reader takes a well-formed file for.                           *)
LEMMA Described ==
  ASSUME NEW f, WellFormed(f)
  PROVE  LET h == f.header
             o == f.origin
             d == CopyHeaderValuesToMembers(h)
         IN  /\ d \in Bitmap /\ d.type = o.type /\ d.width = o.width /\ d.height = o.height
             /\ d.volumeDepth = o.volumeDepth /\ d.arraySize = o.arraySize
             /\ d.mipCount = GetTrueMipCount(o) /\ d.data = 0
             /\ d.mipCount = Larger(h.mips, 1) /\ h.mips \in Nat
             /\ h.isCube <=> d.type = "CUBE"
             /\ ~ h.isCube => (h.isVolume <=> d.type = "3D")
             /\ d.width = h.width
             /\ ~ h.isCube => d.height = h.height
             /\ h.isVolume /\ ~ h.isCube => d.volumeDepth = h.depth
<1> DEFINE h == f.header
           o == f.origin
           d == CopyHeaderValuesToMembers(h)
<1>1. /\ h \in DdsHeader /\ o \in Bitmap
      /\ d = [o EXCEPT !.format = d.format, !.data = 0, !.mipCount = GetTrueMipCount(o)]
  BY DEF WellFormed, Complete
<1>2. /\ h.mips \in Nat /\ h.isCube \in BOOLEAN /\ h.isVolume \in BOOLEAN
      /\ h.pf \in DdsPixelFormat /\ h.dxgiFormat \in PixelFormat
  BY <1>1 DEF DdsHeader
<1>3. GetTrueMipCount(o) \in Nat
  BY <1>1, MipCountType
<1>4. d.format \in PixelFormat
  <2>1. FindDdsFormat(h.pf, h.dxgiFormat).pixelFormat \in PixelFormat
    BY <1>2, FoundFormat
  <2>2. d.format = IF IsDx10(h) THEN h.dxgiFormat ELSE FindDdsFormat(h.pf, h.dxgiFormat).pixelFormat
    <3> HIDE DEF h
    <3> QED BY <1>2 DEF CopyHeaderValuesToMembers, Sized
  <2> QED BY <1>2, <2>1, <2>2
<1>5. /\ d \in Bitmap /\ d.type = o.type /\ d.width = o.width /\ d.height = o.height
      /\ d.volumeDepth = o.volumeDepth /\ d.arraySize = o.arraySize
      /\ d.mipCount = GetTrueMipCount(o) /\ d.data = 0
  <2> DEFINE format == d.format
  <2>1. d = [o EXCEPT !.format = format, !.data = 0, !.mipCount = GetTrueMipCount(o)]
    BY <1>1
  <2>2. format \in PixelFormat
    BY <1>4
  <2> HIDE DEF format, d
  <2> QED BY <1>1, <1>3, <2>1, <2>2 DEF Bitmap
<1>6. /\ d.mipCount = Larger(h.mips, 1) /\ d.width = h.width
      /\ h.isCube <=> d.type = "CUBE"
      /\ ~ h.isCube => (h.isVolume <=> d.type = "3D")
      /\ ~ h.isCube => d.height = h.height
      /\ h.isVolume /\ ~ h.isCube => d.volumeDepth = h.depth
  <2> HIDE DEF h
  <2> QED BY <1>2 DEF CopyHeaderValuesToMembers, Sized
<1> QED BY <1>2, <1>5, <1>6

(* Of the header's levels some are left out and some are read.             *)
LEMMA RangeFacts ==
  ASSUME NEW h \in DdsHeader, NEW skip \in Nat, NEW max \in Nat
  PROVE  LET range == RangeOf(h, skip, max)
         IN  /\ range.skipCount \in Nat /\ range.mipCount \in Nat
             /\ range.skipCount # 0 =>
                  ~ h.isCube /\ range.skipCount + range.mipCount = h.mips
             /\ range.skipCount # 0 /\ max # 0 => range.mipCount # 0
             /\ skip = 0 /\ max >= h.mips => range.skipCount = 0
<1> DEFINE range == RangeOf(h, skip, max)
           mips  == IF h.hasMips THEN h.mips ELSE 0
           out   == LevelsSkipped(h.width, h.height, mips, skip)
<1>1. /\ h.mips \in Nat /\ h.isCube \in BOOLEAN /\ h.width \in Nat /\ h.height \in Nat
      /\ h.hasMips \in BOOLEAN
  BY DEF DdsHeader
<1>2. CASE h.isCube
  BY <1>1, <1>2 DEF RangeOf
<1>3. CASE ~ h.isCube
  <2>1. range = [skipCount |-> out + Larger((mips - out) - max, 0), mipCount |-> Smaller(mips - out, max)]
    BY <1>3 DEF RangeOf, GetMipLevelRange
  <2>2. mips \in Nat /\ (mips = h.mips \/ mips = 0)
    BY <1>1
  <2> HIDE DEF mips
  <2>3. out \in Nat /\ out <= mips /\ (mips # 0 => out < mips) /\ (skip = 0 /\ mips = 0 => out = 0)
        /\ (skip = 0 /\ mips # 0 => out = 0)
    <3>1. CASE ~ (h.width > 8 /\ h.height > 8)
      BY <2>2, <3>1 DEF LevelsSkipped
    <3>2. CASE h.width > 8 /\ h.height > 8 /\ mips > skip
      <4>1. out = skip
        BY <1>1, <2>2, <3>2 DEF LevelsSkipped
      <4> QED BY <2>2, <3>2, <4>1
    <3>3. CASE h.width > 8 /\ h.height > 8 /\ mips <= skip
      <4>1. out = Larger(mips - 3, 0)
        BY <1>1, <2>2, <3>3 DEF LevelsSkipped
      <4> QED BY <2>2, <3>3, <4>1 DEF Larger
    <3>4. mips > skip \/ mips <= skip
      BY <2>2
    <3> QED BY <3>1, <3>2, <3>3, <3>4
  <2> HIDE DEF out
  <2>4. CASE mips - out <= max
    <3>1. Larger((mips - out) - max, 0) = 0 /\ Smaller(mips - out, max) = mips - out
      BY <2>2, <2>3, <2>4 DEF Larger, Smaller
    <3>2. range.skipCount = out /\ range.mipCount = mips - out
      BY <2>1, <2>3, <3>1
    <3> HIDE DEF range
    <3> QED BY <1>1, <1>3, <2>2, <2>3, <3>2 DEF range
  <2>5. CASE ~ (mips - out <= max)
    <3>1. Larger((mips - out) - max, 0) = (mips - out) - max /\ Smaller(mips - out, max) = max
      BY <2>2, <2>3, <2>5 DEF Larger, Smaller
    <3>2. range.skipCount = mips - max /\ range.mipCount = max
      BY <2>1, <2>2, <2>3, <3>1
    <3> HIDE DEF range
    <3> QED BY <1>1, <1>3, <2>2, <2>3, <2>5, <3>2 DEF range
  <2> QED BY <2>4, <2>5
<1> QED BY <1>1, <1>2, <1>3

(* b is shaped like what is left of o without its k largest levels.        *)
Subchain(o, b, k) ==
  /\ k \in Nat /\ b \in Bitmap
  /\ b.type = o.type /\ b.arraySize = o.arraySize
  /\ b.width = Shr(o.width, k) /\ b.height = Shr(o.height, k)
  /\ b.volumeDepth = Larger(Shr(o.volumeDepth, k), 1)
  /\ SameTexels(b.format, o.format)

LEMMA OriginFacts ==
  ASSUME NEW o, Complete(o)
  PROVE  /\ o \in Bitmap /\ IsValid(o) /\ Exact(o)
         /\ o.type \in {"2D", "3D", "CUBE"} /\ o.width \in Nat \ {0} /\ o.height \in Nat
         /\ o.volumeDepth \in Nat \ {0} /\ o.arraySize \in Nat \ {0} /\ o.format \in PixelFormat
         /\ o.type # "3D" => o.volumeDepth = 1
         /\ o.type = "CUBE" => o.height = o.width /\ o.arraySize = 6
BY DEF Complete, Describable, Bitmap

(* The dimensions that the reader gives its bitmap.                        *)
LEMMA ReadDimensions ==
  ASSUME NEW f, WellFormed(f), NEW skip \in Nat, NEW max \in Nat
  PROVE  LET range  == RangeOf(f.header, skip, max)
             header == Lowered(f.header, range)
             b      == CopyHeaderValuesToMembers(header)
             k      == range.skipCount
         IN  /\ Subchain(f.origin, b, k)
             /\ b.format = CopyHeaderValuesToMembers(f.header).format
             /\ HeaderFormat(header) = HeaderFormat(f.header)
             /\ b.data = 0 /\ b.mipCount # 0
             /\ k = 0 \/ max # 0 => k + b.mipCount = GetTrueMipCount(f.origin)
             /\ k = 0 => b = CopyHeaderValuesToMembers(f.header)
             /\ b.type = "CUBE" => k = 0
<1> DEFINE h      == f.header
           o      == f.origin
           d      == CopyHeaderValuesToMembers(h)
           range  == RangeOf(h, skip, max)
           header == Lowered(h, range)
           b      == CopyHeaderValuesToMembers(header)
           k      == range.skipCount
<1>1. /\ h \in DdsHeader /\ Complete(o) /\ SameTexels(d.format, o.format)
  BY DEF WellFormed
<1>2. /\ d \in Bitmap /\ d.type = o.type /\ d.width = o.width /\ d.height = o.height
      /\ d.volumeDepth = o.volumeDepth /\ d.arraySize = o.arraySize
      /\ d.mipCount = GetTrueMipCount(o) /\ d.data = 0
      /\ d.mipCount = Larger(h.mips, 1) /\ h.mips \in Nat
      /\ h.isCube <=> d.type = "CUBE"
      /\ ~ h.isCube => (h.isVolume <=> d.type = "3D")
      /\ d.width = h.width
      /\ ~ h.isCube => d.height = h.height
      /\ h.isVolume /\ ~ h.isCube => d.volumeDepth = h.depth
  BY Described
<1>3. /\ k \in Nat /\ range.mipCount \in Nat
      /\ k # 0 => ~ h.isCube /\ k + range.mipCount = h.mips
      /\ k # 0 /\ max # 0 => range.mipCount # 0
  BY <1>1, RangeFacts
<1>4. /\ o.width \in Nat /\ o.height \in Nat /\ o.volumeDepth \in Nat \ {0}
      /\ o.type # "3D" => o.volumeDepth = 1
  BY <1>1, OriginFacts
<1>5. d.mipCount # 0
  BY <1>2 DEF Larger
<1>6. CASE k = 0
  <2>1. header = h
    BY <1>6 DEF Lowered
  <2>2. b = d
    BY <2>1
  <2>3. /\ Shr(o.width, 0) = o.width /\ Shr(o.height, 0) = o.height
        /\ Larger(Shr(o.volumeDepth, 0), 1) = o.volumeDepth
    <3>1. /\ Shr(o.width, 0) = o.width /\ Shr(o.height, 0) = o.height
          /\ Shr(o.volumeDepth, 0) = o.volumeDepth
      BY <1>4, ShrUnfolds
    <3> QED BY <1>4, <3>1 DEF Larger
  <2> HIDE DEF d, b, k, h, o, header
  <2>4. Subchain(o, b, k)
    BY <1>1, <1>2, <1>3, <1>6, <2>2, <2>3 DEF Subchain
  <2>5. k + b.mipCount = GetTrueMipCount(o)
    <3>1. d.mipCount \in Nat
      BY <1>2 DEF Bitmap
    <3> QED BY <1>2, <1>6, <2>2, <3>1
  <2> QED BY <1>2, <1>5, <1>6, <2>1, <2>2, <2>4, <2>5 DEF d, b, k, h, o, header
<1>7. CASE k # 0
  <2>1. header = [h EXCEPT !.mips = range.mipCount, !.width = Shr(@, k), !.height = Shr(@, k),
                           !.depth = Larger(1, Shr(@, k))]
    BY <1>7 DEF Lowered
  <2>2. /\ header.pf = h.pf /\ header.dxgiFormat = h.dxgiFormat /\ header.arraySize = h.arraySize
        /\ header.isCube = h.isCube /\ header.isVolume = h.isVolume
        /\ header.width = Shr(h.width, k) /\ header.height = Shr(h.height, k)
        /\ header.depth = Larger(1, Shr(h.depth, k)) /\ header.mips = range.mipCount
    <3> HIDE DEF h, range, header, k
    <3> QED BY <1>1, <2>1 DEF DdsHeader
  <2>3. ~ h.isCube /\ k + range.mipCount = h.mips /\ d.type # "CUBE"
    BY <1>2, <1>3, <1>7
  <2>4. /\ h.isVolume \in BOOLEAN /\ h.depth \in Nat
    BY <1>1 DEF DdsHeader
  <2>5. HeaderFormat(header) = HeaderFormat(h)
    BY <2>2 DEF HeaderFormat
  <2> DEFINE depth == IF h.isVolume THEN Larger(1, Shr(h.depth, k)) ELSE 1
  <2>6. /\ b.type = d.type /\ b.arraySize = d.arraySize /\ b.format = d.format /\ b.data = 0
        /\ b.width = Shr(h.width, k) /\ b.height = Shr(h.height, k) /\ b.volumeDepth = depth
        /\ b.mipCount = Larger(range.mipCount, 1)
        /\ b = Sized(b.type, b.format, b.width, b.height, b.volumeDepth, b.mipCount, b.arraySize)
    <3> HIDE DEF h, range, header, k
    <3>1. IsDx10(header) <=> IsDx10(h)
      BY <2>2 DEF IsDx10
    <3>2. CASE h.isVolume
      BY <2>2, <2>3, <2>4, <3>1, <3>2 DEF CopyHeaderValuesToMembers, Sized
    <3>3. CASE ~ h.isVolume
      BY <2>2, <2>3, <2>4, <3>1, <3>3 DEF CopyHeaderValuesToMembers, Sized
    <3> QED BY <3>2, <3>3
  <2>7. depth = Larger(Shr(o.volumeDepth, k), 1)
    <3>1. Shr(o.volumeDepth, k) \in Nat
      BY <1>3, <1>4, ShrUnfolds
    <3>2. CASE h.isVolume
      <4>1. h.depth = o.volumeDepth
        BY <1>2, <2>3, <3>2
      <4> HIDE DEF h, o, k
      <4> QED BY <3>1, <3>2, <4>1 DEF Larger
    <3>3. CASE ~ h.isVolume
      <4>1. o.volumeDepth = 1
        BY <1>2, <1>4, <2>3, <3>3
      <4>2. Larger(Shr(1, k), 1) = Halved(1, k) /\ Halved(1, k) = 1
        BY <1>3, ShrClampedIsHalved, HalvedOne
      <4> HIDE DEF h, o, k
      <4> QED BY <3>3, <4>1, <4>2
    <3> QED BY <3>2, <3>3
  <2>8. b.width = Shr(o.width, k) /\ b.height = Shr(o.height, k)
    BY <1>2, <2>3, <2>6
  <2>9. b.mipCount \in Nat \ {0}
    BY <1>3, <2>6 DEF Larger
  <2>10. b \in Bitmap
    <3>1. b.width \in Nat /\ b.height \in Nat /\ b.volumeDepth \in Nat
      <4>1. Shr(o.width, k) \in Nat /\ Shr(o.height, k) \in Nat /\ Shr(o.volumeDepth, k) \in Nat
        BY <1>3, <1>4, ShrUnfolds
      <4> HIDE DEF b, k, o, depth
      <4> QED BY <2>6, <2>7, <2>8, <4>1 DEF Larger
    <3>2. b.type \in TextureType /\ b.format \in PixelFormat /\ b.arraySize \in Nat
      BY <1>2, <2>6 DEF Bitmap
    <3> HIDE DEF b
    <3> QED BY <2>6, <2>9, <3>1, <3>2 DEF Sized, Bitmap
  <2>11. max # 0 => k + b.mipCount = GetTrueMipCount(o)
    <3> HIDE DEF b, k, range, h, o, d
    <3> SUFFICES ASSUME max # 0 PROVE k + b.mipCount = GetTrueMipCount(o)
      OBVIOUS
    <3>1. b.mipCount = range.mipCount
      BY <1>3, <1>7, <2>6 DEF Larger, k
    <3>2. d.mipCount = h.mips
      BY <1>2, <1>3, <1>7, <2>3 DEF Larger
    <3> QED BY <1>2, <2>3, <3>1, <3>2
  <2> HIDE DEF b, k, range, h, o, d, header
  <2>12. Subchain(o, b, k)
    BY <1>1, <1>2, <1>3, <2>6, <2>7, <2>8, <2>10 DEF Subchain
  <2> QED BY <1>2, <1>7, <2>3, <2>5, <2>6, <2>9, <2>11, <2>12 DEF b, k, range, h, o, d, header
<1> QED BY <1>6, <1>7

-----------------------------------------------------------------------------
(* The levels that are left                                                *)

(* Every level of what is left has the bytes of the level it was.          *)
LEMMA LevelsShift ==
  ASSUME NEW o, Complete(o), NEW r, NEW k, Subchain(o, r, k),
         GetTrueMipCount(o) = k + GetTrueMipCount(r), NEW l \in Nat, l < GetTrueMipCount(r)
  PROVE  /\ k + l \in Nat /\ k + l < GetTrueMipCount(o)
         /\ GetMipSize(r, l) = GetMipSize(o, k + l)
         /\ Stride(r, l) = Stride(o, k + l)
<1>1. /\ o.width \in Nat /\ o.height \in Nat /\ o.volumeDepth \in Nat /\ k \in Nat /\ r \in Bitmap
      /\ r.type = o.type /\ r.width = Shr(o.width, k) /\ r.height = Shr(o.height, k)
      /\ r.volumeDepth = Larger(Shr(o.volumeDepth, k), 1)
      /\ SameTexels(r.format, o.format)
  BY OriginFacts DEF Subchain
<1>2. GetTrueMipCount(r) \in Nat
  BY <1>1, MipCountType
<1>3. k + l \in Nat /\ k + l < GetTrueMipCount(o)
  BY <1>1, <1>2
<1>4. ~ (l >= GetTrueMipCount(r)) /\ ~ (k + l >= GetTrueMipCount(o))
  BY <1>1, <1>2
<1>5. Shr(r.width, l) = Shr(o.width, k + l) /\ Shr(r.height, l) = Shr(o.height, k + l)
  <2>1. \A x \in Nat : Shr(Shr(x, k), l) = Shr(x, k + l)
    BY <1>1, ShrAdds
  <2> QED BY <1>1, <2>1
<1>6. Larger(Shr(r.volumeDepth, l), 1) = Larger(Shr(o.volumeDepth, k + l), 1)
  <2> DEFINE s == Shr(o.volumeDepth, k)
  <2>1. s \in Nat /\ Shr(s, l) = Shr(o.volumeDepth, k + l)
    <3>1. \A x \in Nat : Shr(Shr(x, k), l) = Shr(x, k + l)
      BY <1>1, ShrAdds
    <3>2. s \in Nat
      BY <1>1, ShrUnfolds
    <3> QED BY <1>1, <3>1, <3>2
  <2>2. r.volumeDepth = Larger(s, 1)
    BY <1>1
  <2> HIDE DEF s
  <2>3. CASE s = 0
    <3>1. Shr(o.volumeDepth, k + l) = 0
      BY <2>1, <2>3, ShrOfNothing
    <3>2. r.volumeDepth = 1
      BY <2>2, <2>3 DEF Larger
    <3>3. Larger(Shr(1, l), 1) = 1
      <4>1. Larger(Shr(1, l), 1) = Halved(1, l)
        BY ShrClampedIsHalved
      <4> QED BY <4>1, HalvedOne
    <3> QED BY <3>1, <3>2, <3>3 DEF Larger
  <2>4. CASE s # 0
    <3>1. r.volumeDepth = s
      BY <2>1, <2>2, <2>4 DEF Larger
    <3> QED BY <2>1, <3>1
  <2> QED BY <2>3, <2>4
<1>7. IsCompressed(r) <=> IsCompressed(o)
  BY <1>1 DEF SameTexels, IsCompressed
<1>8. GetMipWidth(r, l) = GetMipWidth(o, k + l) /\ GetMipHeight(r, l) = GetMipHeight(o, k + l)
  BY <1>4, <1>5, <1>7 DEF GetMipWidth, GetMipHeight, LevelSide
<1>9. GetMipDepth(r, l) = GetMipDepth(o, k + l)
  BY <1>1, <1>4, <1>6 DEF GetMipDepth
<1>10. GetMipSize(r, l) = GetMipSize(o, k + l)
  BY <1>1, <1>7, <1>8, <1>9 DEF GetMipSize, SameTexels
<1>11. GetMipNumRows(r, l) = GetMipNumRows(o, k + l) /\ GetMipPitch(r, l) = GetMipPitch(o, k + l)
  BY <1>1, <1>7, <1>8 DEF GetMipNumRows, GetMipPitch, SameTexels
<1>12. Stride(r, l) = Stride(o, k + l)
  BY <1>6, <1>11 DEF Stride
<1> QED BY <1>3, <1>10, <1>12

(* The levels of a bitmap, and of what is left of it, one after the other. *)
Strides(b) == [i \in Nat |-> Stride(b, i)]

LEMMA LevelsMove ==
  ASSUME NEW o, Complete(o), NEW r, NEW k, Subchain(o, r, k),
         GetTrueMipCount(o) = k + GetTrueMipCount(r)
  PROVE  /\ Total(Strides(o), k) \in Nat
         /\ \A l \in 0 .. GetTrueMipCount(r) :
              /\ Total(Strides(r), l) \in Nat
              /\ Total(Strides(o), k + l) = Total(Strides(o), k) + Total(Strides(r), l)
<1> DEFINE s == Strides(o)
           t == Strides(r)
           u == [i \in Nat |-> s[k + i]]
<1>1. k \in Nat /\ o \in Bitmap /\ r \in Bitmap
  BY OriginFacts DEF Subchain
<1>2. s \in [Nat -> Nat] /\ t \in [Nat -> Nat] /\ GetTrueMipCount(r) \in Nat
  BY <1>1, StrideType, MipCountType DEF Strides
<1>3. u \in [Nat -> Nat]
  BY <1>1, <1>2
<1>4. ASSUME NEW l \in Nat, l < GetTrueMipCount(r) PROVE t[l] = u[l]
  <2>1. k + l \in Nat /\ Stride(r, l) = Stride(o, k + l)
    BY <1>4, LevelsShift
  <2> QED BY <2>1 DEF Strides
<1> HIDE DEF s, t
<1>5. Total(s, k) \in Nat
  BY <1>1, <1>2, TotalUnfolds
<1>6. ASSUME NEW l \in 0 .. GetTrueMipCount(r)
      PROVE  Total(t, l) \in Nat /\ Total(s, k + l) = Total(s, k) + Total(t, l)
  <2>1. l \in Nat /\ l <= GetTrueMipCount(r)
    BY <1>2
  <2>2. Total(s, k + l) = Total(s, k) + Total(u, l)
    BY <1>1, <1>2, <2>1, TotalSplits
  <2> HIDE DEF u
  <2>3. \A i \in Nat : i < l => t[i] = u[i]
    BY <1>2, <1>4, <2>1
  <2>4. Total(t, l) = Total(u, l)
    BY <1>2, <1>3, <2>1, <2>3, TotalsAgree
  <2>5. Total(t, l) \in Nat
    BY <1>2, <2>1, TotalUnfolds
  <2> QED BY <2>2, <2>4, <2>5
<1> QED BY <1>5, <1>6 DEF s, t

(* Where pixels are widened, levels are whole pixels.                      *)
LEMMA LevelsFit ==
  ASSUME NEW f, WellFormed(f), NEW i \in Nat
  PROVE  Fits(f.header, Stride(f.origin, i))
<1> DEFINE h == f.header
           o == f.origin
           d == CopyHeaderValuesToMembers(h)
<1>1. h \in DdsHeader /\ Complete(o) /\ SameTexels(d.format, o.format)
  BY DEF WellFormed
<1>2. o \in Bitmap
  BY <1>1, OriginFacts
<1>3. Stride(o, i) \in Nat
  BY <1>2, StrideType
<1>4. CASE HeaderFormat(h) = "R8G8B8"
  <2> DEFINE found == FindDdsFormat(h.pf, h.dxgiFormat)
  <2>1. h.dxgiFormat \in PixelFormat
    BY <1>1 DEF DdsHeader
  <2>2. found.pixelFormat = 88 /\ h.pf.fourCC # "DX10"
    BY <1>4, <2>1, FoundFormat DEF HeaderFormat
  <2>3. d.format = IF IsDx10(h) THEN h.dxgiFormat ELSE found.pixelFormat
    BY DEF CopyHeaderValuesToMembers, Sized
  <2>4. d.format = 88
    BY <2>2, <2>3 DEF IsDx10
  <2>5. GetBytesPerPixel(88) = 4 /\ ~ IsCompressedFormat(88)
    BY DEF GetBytesPerPixel, IsCompressedFormat, IsDds10Format
  <2>6. ~ IsCompressed(o) /\ GetBytesPerPixel(o.format) = 4
    BY <1>1, <2>4, <2>5 DEF SameTexels, IsCompressed
  <2> DEFINE w == GetMipWidth(o, i)
             y == GetMipHeight(o, i)
             z == Larger(Shr(o.volumeDepth, i), 1)
  <2>7. Stride(o, i) = y * (w * 4) * z
    BY <2>6 DEF Stride, GetMipNumRows, GetMipPitch
  <2>8. w \in Nat /\ y \in Nat /\ z \in Nat
    <3>1. o.width \in Nat /\ o.height \in Nat /\ o.volumeDepth \in Nat
      BY <1>2 DEF Bitmap
    <3>2. Shr(o.width, i) \in Nat /\ Shr(o.height, i) \in Nat /\ Shr(o.volumeDepth, i) \in Nat
      BY <3>1, ShrUnfolds
    <3> HIDE DEF o
    <3> QED BY <2>6, <3>2 DEF GetMipWidth, GetMipHeight, LevelSide, Larger
  <2> HIDE DEF w, y, z, o, h
  <2>9. y * (w * 4) * z = 4 * (y * w * z) /\ y * w * z \in Nat
    BY <2>8, ProductType
  <2> QED BY <1>3, <1>4, <2>7, <2>9 DEF Fits, o, h
<1>5. CASE HeaderFormat(h) # "R8G8B8"
  BY <1>3, <1>5 DEF Fits
<1> QED BY <1>4, <1>5

(* A read that leaves out k levels of a file whose bitmap is o fills r.    *)
ReadsInto(f, r, k) ==
  /\ WellFormed(f) /\ Subchain(f.origin, r, k)
  /\ IsValid(r) /\ Exact(r) /\ r.width # 0 /\ ~ Flattened(r)
  /\ GetTrueMipCount(f.origin) = k + GetTrueMipCount(r)

(* Both buffers are filled with elements, and an element of the file's is  *)
(* the levels that are left out and one of the other's.                    *)
LEMMA ElementsShift ==
  ASSUME NEW f, NEW r, NEW k, ReadsInto(f, r, k)
  PROVE  LET o == f.origin
             a == r.arraySize
         IN  /\ Solid(o) /\ Solid(r) /\ IsValid(o) /\ a \in Nat \ {0} /\ o.arraySize = a
             /\ GetArrayElementSize(r) = Total(Strides(r), GetTrueMipCount(r))
             /\ GetArrayElementSize(r) \in Nat
             /\ GetArrayElementSize(o) = Total(Strides(o), k) + GetArrayElementSize(r)
             /\ r.data = a * GetArrayElementSize(r)
             /\ o.data = a * GetArrayElementSize(o)
<1> DEFINE o == f.origin
           a == r.arraySize
           n == GetTrueMipCount(r)
<1>1. Complete(o) /\ Subchain(o, r, k) /\ GetTrueMipCount(o) = k + n
  BY DEF ReadsInto, WellFormed
<1>2. /\ o \in Bitmap /\ IsValid(o) /\ Exact(o) /\ o.width \in Nat \ {0} /\ o.height \in Nat
      /\ o.volumeDepth \in Nat \ {0} /\ o.arraySize \in Nat \ {0}
      /\ o.type # "3D" => o.volumeDepth = 1
  BY <1>1, OriginFacts
<1>3. /\ r \in Bitmap /\ k \in Nat /\ r.type = o.type /\ o.arraySize = a
      /\ r.height = Shr(o.height, k) /\ r.volumeDepth = Larger(Shr(o.volumeDepth, k), 1)
      /\ IsCompressed(r) <=> IsCompressed(o)
  BY <1>1 DEF Subchain, SameTexels, IsCompressed
<1>4. IsValid(r) /\ Exact(r) /\ r.width # 0 /\ (r.height # 0 \/ IsCompressed(r))
  BY DEF ReadsInto, Flattened
<1>5. Solid(o)
  <2>1. o.height = 0 => r.height = 0
    BY <1>3, ShrOfNothing
  <2> QED BY <1>2, <1>3, <1>4, <2>1 DEF Solid
<1>6. Solid(r)
  <2>1. r.volumeDepth # 0
    BY <1>2, <1>3, ShrUnfolds DEF Larger
  <2>2. o.volumeDepth = 1 => r.volumeDepth = 1
    <3>1. Larger(Shr(1, k), 1) = Halved(1, k)
      BY <1>3, ShrClampedIsHalved
    <3> QED BY <1>3, <3>1, HalvedOne
  <2> QED BY <1>2, <1>3, <1>4, <2>1, <2>2 DEF Solid
<1>7. a \in Nat \ {0} /\ a >= 1 /\ o.arraySize >= 1
  BY <1>2, <1>3
<1>8. a * GetArrayElementSize(r) = r.data /\ GetArrayElementSize(r) = Total(Strides(r), n)
  BY <1>4, <1>6, <1>7, ElementIsItsLevels DEF Strides
<1>9. /\ o.arraySize * GetArrayElementSize(o) = o.data
      /\ GetArrayElementSize(o) = Total(Strides(o), GetTrueMipCount(o))
  BY <1>2, <1>5, <1>7, ElementIsItsLevels DEF Strides
<1>10. n \in Nat /\ n \in 0 .. n
  BY <1>3, MipCountType
<1>11. Total(Strides(r), n) \in Nat /\ Total(Strides(o), k + n) = Total(Strides(o), k) + Total(Strides(r), n)
  BY <1>1, <1>10, LevelsMove
<1> HIDE DEF o, a, n
<1> QED BY <1>1, <1>2, <1>3, <1>5, <1>6, <1>7, <1>8, <1>9, <1>11 DEF o, a, n

(* The size of a level is a number.                                        *)
LEMMA MipSizeType ==
  ASSUME NEW b \in Bitmap, NEW i \in Nat
  PROVE  GetMipSize(b, i) \in Nat
<1>1. /\ b.width \in Nat /\ b.height \in Nat /\ b.volumeDepth \in Nat
      /\ GetBytesPerPixel(b.format) \in Nat /\ GetBlockByteSize(b.format) \in Nat
  BY FormatFacts DEF Bitmap
<1>2. Shr(b.width, i) \in Nat /\ Shr(b.height, i) \in Nat /\ Shr(b.volumeDepth, i) \in Nat
  BY <1>1, ShrUnfolds
<1>3. GetMipWidth(b, i) \in Nat /\ GetMipHeight(b, i) \in Nat
  BY <1>2 DEF GetMipWidth, GetMipHeight, LevelSide, Larger, AlignUp4
<1>4. GetMipDepth(b, i) \in Nat
  BY <1>2 DEF GetMipDepth, Larger
<1> DEFINE texels == GetMipWidth(b, i) * GetMipHeight(b, i) * GetMipDepth(b, i)
<1>5. texels \in Nat
  BY <1>3, <1>4, ProductType
<1>6. GetMipSize(b, i) = IF IsCompressed(b) THEN (texels \div 16) * GetBlockByteSize(b.format)
                         ELSE texels * GetBytesPerPixel(b.format)
  BY DEF GetMipSize
<1> HIDE DEF texels
<1>7. texels \div 16 \in Nat
  BY <1>5
<1> QED BY <1>1, <1>5, <1>6, <1>7, ProductType

(* The bytes that are passed over are those of the levels left out.        *)
LEMMA SkippedBytes ==
  ASSUME NEW f, NEW r, NEW k, ReadsInto(f, r, k)
  PROVE  /\ Fits(f.header, Total(Strides(f.origin), k))
         /\ SkipBytes(f.header, k) = FileBytes(f.header, Total(Strides(f.origin), k))
         /\ \A l \in 0 .. GetTrueMipCount(r) : Fits(f.header, Total(Strides(r), l))
<1> DEFINE h == f.header
           o == f.origin
           d == CopyHeaderValuesToMembers(h)
           s == Strides(o)
           n == GetTrueMipCount(r)
<1>1. /\ WellFormed(f) /\ Complete(o) /\ Subchain(o, r, k) /\ GetTrueMipCount(o) = k + n
      /\ SameTexels(d.format, o.format)
  BY DEF ReadsInto, WellFormed
<1>2. o \in Bitmap /\ k \in Nat /\ r \in Bitmap /\ n \in Nat
  BY <1>1, OriginFacts, MipCountType DEF Subchain
<1>3. s \in [Nat -> Nat] /\ \A i \in Nat : s[i] = Stride(o, i)
  BY <1>2, StrideType DEF Strides
<1>4. \A i \in Nat : Fits(h, s[i])
  BY <1>1, <1>3, LevelsFit
<1>5. /\ d.type = o.type /\ d.width = o.width /\ d.height = o.height
      /\ d.volumeDepth = o.volumeDepth /\ GetTrueMipCount(d) = GetTrueMipCount(o)
  <2>1. /\ d.type = o.type /\ d.width = o.width /\ d.height = o.height
        /\ d.volumeDepth = o.volumeDepth /\ d.mipCount = GetTrueMipCount(o)
        /\ d.mipCount = Larger(h.mips, 1) /\ h.mips \in Nat
    BY <1>1, Described
  <2>2. d.mipCount > 0
    BY <2>1 DEF Larger
  <2> QED BY <2>1, <2>2 DEF GetTrueMipCount
<1>6. ASSUME NEW i \in Nat, i < k PROVE GetMipSize(d, i) = s[i]
  <2>1. GetMipSize(d, i) = GetMipSize(o, i)
    <3>1. IsCompressed(d) <=> IsCompressed(o)
      BY <1>1 DEF SameTexels, IsCompressed
    <3>2. /\ GetMipWidth(d, i) = GetMipWidth(o, i) /\ GetMipHeight(d, i) = GetMipHeight(o, i)
          /\ GetMipDepth(d, i) = GetMipDepth(o, i)
      BY <1>5, <3>1 DEF GetMipWidth, GetMipHeight, GetMipDepth, LevelSide
    <3> QED BY <1>1, <3>1, <3>2 DEF GetMipSize, SameTexels
  <2>2. i < GetTrueMipCount(o)
    BY <1>1, <1>2, <1>6
  <2>3. Solid(o)
    BY ElementsShift
  <2>4. GetMipSize(o, i) = Stride(o, i)
    BY <2>2, <2>3, LevelSizesAgree
  <2> QED BY <1>3, <2>1, <2>4
<1> DEFINE u == [i \in Nat |-> FileBytes(h, GetMipSize(d, i))]
           v == [i \in Nat |-> FileBytes(h, s[i])]
<1>7. SkipBytes(h, k) = Total(u, k)
  BY DEF SkipBytes
<1>8. Fits(h, Total(s, k)) /\ Total(v, k) = FileBytes(h, Total(s, k))
  <2> HIDE DEF s, h
  <2> QED BY <1>2, <1>3, <1>4, FileBytesTotal
<1>9. v \in [Nat -> Nat]
  BY <1>4, FileBytesAdd
<1>10. u \in [Nat -> Nat]
  <2>1. d \in Bitmap
    BY <1>1, Described
  <2>2. \A i \in Nat : GetMipSize(d, i) \in Nat
    BY <2>1, MipSizeType
  <2> QED BY <2>2 DEF FileBytes
<1>11. \A i \in Nat : i < k => u[i] = v[i]
  BY <1>6
<1>12. Total(u, k) = Total(v, k)
  <2> HIDE DEF u, v
  <2> QED BY <1>2, <1>9, <1>10, <1>11, TotalsAgree
<1>13. ASSUME NEW l \in 0 .. n PROVE Fits(h, Total(Strides(r), l))
  <2> DEFINE m == [i \in Nat |-> s[k + i]]
  <2>1. l \in Nat
    BY <1>2
  <2>2. m \in [Nat -> Nat] /\ \A i \in Nat : Fits(h, m[i])
    BY <1>2, <1>3, <1>4
  <2>3. Total(s, k + l) = Total(s, k) + Total(m, l)
    <3> HIDE DEF s
    <3> QED BY <1>2, <1>3, <2>1, TotalSplits
  <2>4. /\ Total(s, k) \in Nat /\ Total(Strides(r), l) \in Nat
        /\ Total(s, k + l) = Total(s, k) + Total(Strides(r), l)
    BY <1>1, LevelsMove
  <2> HIDE DEF m, s, h
  <2>5. Fits(h, Total(m, l))
    BY <2>1, <2>2, FileBytesTotal
  <2>6. Total(m, l) \in Nat
    BY <2>5 DEF Fits
  <2>7. Total(m, l) = Total(Strides(r), l)
    BY <2>3, <2>4, <2>6
  <2> QED BY <2>5, <2>7 DEF h
<1> QED BY <1>7, <1>8, <1>12, <1>13

-----------------------------------------------------------------------------
(* A read that succeeds                                                    *)

(* The bitmap that ReadImagePixels is given.                               *)
ReadHeader(f, skip, max) == Lowered(f.header, RangeOf(f.header, skip, max))
ReadInto(f, skip, max) ==
  LET b == CopyHeaderValuesToMembers(ReadHeader(f, skip, max))
  IN  [b EXCEPT !.data = GetDataSize(b)]

(* It has the shape of what is left of the file, and the buffer for it.    *)
LEMMA ReadBitmap ==
  ASSUME NEW f, WellFormed(f), NEW skip \in Nat, NEW max \in Nat,
         ReadInto(f, skip, max).width # 0, ReadInto(f, skip, max).data # 0
  PROVE  LET r == ReadInto(f, skip, max)
             k == RangeOf(f.header, skip, max).skipCount
             d == CopyHeaderValuesToMembers(f.header)
         IN  /\ Complete(r) /\ r.format = d.format
             /\ k = 0 => r = [d EXCEPT !.data = GetDataSize(d)]
             /\ max # 0 /\ ~ Flattened(r) => ReadsInto(f, r, k)
<1> DEFINE r == ReadInto(f, skip, max)
           k == RangeOf(f.header, skip, max).skipCount
           d == CopyHeaderValuesToMembers(f.header)
           b == CopyHeaderValuesToMembers(ReadHeader(f, skip, max))
           o == f.origin
<1>1. /\ Subchain(o, b, k) /\ b.format = d.format
      /\ b.data = 0 /\ b.mipCount # 0
      /\ k = 0 \/ max # 0 => k + b.mipCount = GetTrueMipCount(o)
      /\ k = 0 => b = d
      /\ b.type = "CUBE" => k = 0
  BY ReadDimensions DEF ReadHeader
<1>2. /\ o.type \in {"2D", "3D", "CUBE"} /\ o.width \in Nat /\ o.height \in Nat
      /\ o.volumeDepth \in Nat \ {0} /\ o.arraySize \in Nat \ {0}
      /\ o.type # "3D" => o.volumeDepth = 1
      /\ o.type = "CUBE" => o.height = o.width /\ o.arraySize = 6
  BY OriginFacts DEF WellFormed
<1>3. /\ k \in Nat /\ b \in Bitmap /\ b.type = o.type /\ b.arraySize = o.arraySize
      /\ b.width = Shr(o.width, k) /\ b.height = Shr(o.height, k)
      /\ b.volumeDepth = Larger(Shr(o.volumeDepth, k), 1)
      /\ SameTexels(b.format, o.format)
  BY <1>1 DEF Subchain
<1> DEFINE n == GetDataSize(b)
<1>4. n \in Nat
  BY <1>3, DataSizeType
<1>5. r = [b EXCEPT !.data = n]
  BY DEF ReadInto
<1>6. GetDataSize(r) = n
  BY <1>3, <1>5, DataSizeIgnoresData
<1> HIDE DEF b, n, r, k, o, d
<1>7. /\ r \in Bitmap /\ r.type = b.type /\ r.format = b.format /\ r.width = b.width
      /\ r.height = b.height /\ r.volumeDepth = b.volumeDepth /\ r.mipCount = b.mipCount
      /\ r.arraySize = b.arraySize /\ r.data = n
  BY <1>3, <1>4, <1>5 DEF Bitmap
<1>8. r.width # 0 /\ r.data # 0
  BY DEF r
<1>9. Complete(r)
  <2>1. r.volumeDepth # 0
    <3>1. Shr(o.volumeDepth, k) \in Nat
      BY <1>2, <1>3, ShrUnfolds
    <3> QED BY <1>3, <1>7, <3>1 DEF Larger
  <2>2. r.type # "3D" => r.volumeDepth = 1
    <3>1. Larger(Shr(1, k), 1) = Halved(1, k)
      BY <1>3, ShrClampedIsHalved
    <3>2. Halved(1, k) = 1
      BY <1>3, HalvedOne
    <3> QED BY <1>2, <1>3, <1>7, <3>1, <3>2
  <2>3. r.type = "CUBE" => r.height = r.width /\ r.arraySize = 6
    BY <1>1, <1>2, <1>3, <1>7
  <2> QED BY <1>2, <1>3, <1>6, <1>7, <1>8, <2>1, <2>2, <2>3 DEF Complete, Describable, IsValid, Exact
<1>10. ASSUME max # 0, ~ Flattened(r) PROVE ReadsInto(f, r, k)
  <2>1. Subchain(o, r, k)
    BY <1>3, <1>7 DEF Subchain
  <2>2. GetTrueMipCount(r) = b.mipCount
    <3>1. b.mipCount \in Nat
      BY <1>3 DEF Bitmap
    <3> QED BY <1>1, <1>7, <3>1 DEF GetTrueMipCount
  <2>3. GetTrueMipCount(o) = k + GetTrueMipCount(r)
    BY <1>1, <1>10, <2>2
  <2> QED BY <1>8, <1>9, <1>10, <2>1, <2>3 DEF ReadsInto, Complete, o
<1>11. k = 0 => r = [d EXCEPT !.data = GetDataSize(d)]
  BY <1>1, <1>5 DEF n
<1> QED BY <1>1, <1>7, <1>9, <1>10, <1>11 DEF r, k, d

(* What a read that has succeeded has done.                                *)
PixelsWereRead ==
  HasRead =>
    LET header == ReadHeader(file, call.skip, call.max)
    IN  /\ file # NoFile /\ call.skip \in Nat /\ call.max \in Nat
        /\ call.read = ReadInto(file, call.skip, call.max)
        /\ call.read.width # 0 /\ call.read.data # 0
        /\ call.copies = Copies(header, call.read,
                           SkipBytes(file.header, RangeOf(file.header, call.skip, call.max).skipCount))
        /\ call.end = EndOf(header, call.copies)
        /\ bitmap = IF HeaderFormat(header) = "A8L8" THEN Widened(call.read) ELSE call.read

(* Why a read has not looked at the pixels.                                *)
ReadsAreRefused ==
  call.op = "ReadImage" =>
    /\ call.result = "INVALID_HEADER" => file = NoFile
    /\ call.result = "HEADER_NOT_SUPPORTED" =>
         file # NoFile /\ ~ CheckSupportedFormat(file.header)

IInv ==
  /\ bitmap \in Bitmap /\ call.read \in Bitmap /\ call.result \in Results
  /\ IsValid(bitmap) => Complete(bitmap)
  /\ file # NoFile => WellFormed(file)
  /\ PixelsWereRead
  /\ ReadsAreRefused

(* A call that reads no pixels.                                            *)
LEMMA FailedFacts ==
  ASSUME NEW op, NEW result \in Results
  PROVE  LET c == Failed(op, result)
         IN  /\ c.op = op /\ c.result = result /\ c.skip = 0 /\ c.max = 0
             /\ c.read \in Bitmap
<1>1. NoBitmap \in Bitmap
  BY FormatNumbers DEF NoBitmap, Sized, Bitmap, TextureType
<1> QED BY <1>1 DEF Failed, Called

LEMMA InitIInv ==
  Init => IInv
<1> SUFFICES ASSUME Init PROVE IInv
  OBVIOUS
<1>1. Complete(bitmap)
  BY ImagesAssumption DEF Init
<1>2. bitmap \in Bitmap
  BY <1>1 DEF Complete
<1>3. file # NoFile => WellFormed(file)
  BY ForeignFilesAssumption DEF Init
<1>4. "OK" \in Results
  BY DEF Results
<1>5. call.op = "None" /\ call.result = "OK" /\ call.read \in Bitmap
  BY <1>4, FailedFacts DEF Init
<1> QED BY <1>1, <1>2, <1>3, <1>4, <1>5 DEF IInv, PixelsWereRead, ReadsAreRefused, HasRead

LEMMA SaveKeepsIInv ==
  ASSUME IInv, Save
  PROVE  IInv'
<1>1. PICK result \in Results : call' = Failed("Save", result)
  BY DEF Save, Results
<1>2. call'.op = "Save" /\ call'.result \in Results /\ call'.read \in Bitmap
  BY <1>1, FailedFacts
<1>3. bitmap' = bitmap
  BY DEF Save
<1>4. file' # NoFile => WellFormed(file')
  <2>1. CASE UNCHANGED file
    BY <2>1 DEF IInv
  <2>2. CASE IsValid(bitmap) /\ CanMakePixelFormat(bitmap) /\ file' = Written(BuildHeaders(bitmap), bitmap, FALSE)
    BY <2>2, OwnFileIsWellFormed DEF IInv
  <2> QED BY <2>1, <2>2 DEF Save
<1> QED BY <1>2, <1>3, <1>4 DEF IInv, PixelsWereRead, ReadsAreRefused, HasRead

LEMMA NoHeaderKeepsIInv ==
  ASSUME IInv, ReadNoHeader
  PROVE  IInv'
<1>1. bitmap' = bitmap /\ file' = file
  BY DEF ReadNoHeader
<1>2. \/ file = NoFile /\ call' = Failed("ReadImage", "INVALID_HEADER")
      \/ call' = Failed("ReadImage", "READ_FAILURE")
  BY DEF ReadNoHeader
<1>3. {"INVALID_HEADER", "READ_FAILURE"} \subseteq Results
  BY DEF Results
<1>4. /\ call'.op = "ReadImage" /\ call'.result \in Results /\ call'.read \in Bitmap
      /\ call'.result \in {"INVALID_HEADER", "READ_FAILURE"}
      /\ call'.result = "INVALID_HEADER" => file = NoFile
  BY <1>2, <1>3, FailedFacts
<1> QED BY <1>1, <1>4 DEF IInv, PixelsWereRead, ReadsAreRefused, HasRead

(* The dimensions that are read make a bitmap.                             *)
LEMMA ReadType ==
  ASSUME NEW f, WellFormed(f), NEW skip \in Nat, NEW max \in Nat
  PROVE  LET b == CopyHeaderValuesToMembers(ReadHeader(f, skip, max))
         IN  /\ b \in Bitmap /\ ReadInto(f, skip, max) \in Bitmap /\ b.data = 0
             /\ ReadInto(f, skip, max).width = b.width
             /\ HeaderFormat(ReadHeader(f, skip, max)) = HeaderFormat(f.header)
<1> DEFINE b == CopyHeaderValuesToMembers(ReadHeader(f, skip, max))
           n == GetDataSize(b)
<1>1. b \in Bitmap /\ b.data = 0 /\ HeaderFormat(ReadHeader(f, skip, max)) = HeaderFormat(f.header)
  BY ReadDimensions DEF ReadHeader, Subchain
<1>2. n \in Nat
  BY <1>1, DataSizeType
<1>3. ReadInto(f, skip, max) = [b EXCEPT !.data = n]
  BY DEF ReadInto
<1> HIDE DEF b, n
<1>4. [b EXCEPT !.data = n] \in Bitmap /\ [b EXCEPT !.data = n].width = b.width
  BY <1>1, <1>2 DEF Bitmap
<1> QED BY <1>1, <1>3, <1>4 DEF b

LEMMA DestroyedFacts ==
  ASSUME NEW b \in Bitmap
  PROVE  Destroyed(b) \in Bitmap /\ ~ IsValid(Destroyed(b))
<1>1. "INVALID" \in TextureType /\ PIXEL_FORMAT_UNKNOWN \in PixelFormat
  BY FormatNumbers DEF TextureType
<1> QED BY <1>1 DEF Destroyed, Bitmap, IsValid

(* Two bytes a pixel become four: so does the buffer.                      *)
LEMMA WidenedFacts ==
  ASSUME NEW b, Complete(b), b.format = 49
  PROVE  Complete(Widened(b))
<1> DEFINE c == Widened(b)
           n == 2 * b.data
<1>1. b \in Bitmap /\ b.data \in Nat /\ n \in Nat
  BY DEF Complete, Bitmap
<1>2. 87 \in PixelFormat /\ GetBytesPerPixel(49) = 2 /\ GetBytesPerPixel(87) = 4
      /\ ~ IsCompressedFormat(49) /\ ~ IsCompressedFormat(87)
  BY FormatNumbers DEF GetBytesPerPixel, IsCompressedFormat, IsDds10Format
<1>3. c = [b EXCEPT !.format = 87, !.data = n]
  BY FormatNumbers DEF Widened
<1> HIDE DEF c, n
<1>4. /\ c \in Bitmap /\ c.type = b.type /\ c.width = b.width /\ c.height = b.height
      /\ c.volumeDepth = b.volumeDepth /\ c.arraySize = b.arraySize /\ c.data = n /\ c.format = 87
      /\ c.mipCount = b.mipCount
  BY <1>1, <1>2, <1>3 DEF Bitmap
<1>5. Pixels(c) = Pixels(b)
  BY <1>4, PixelsOfDimensions
<1>6. /\ Pixels(b) \in Nat
      /\ GetDataSize(b) = Pixels(b) * 2
      /\ GetDataSize(c) = Pixels(c) * 4
  BY <1>1, <1>2, <1>4, PixelsTimesBytes DEF Bpp, IsCompressed
<1>7. b.data = GetDataSize(b) /\ b.data # 0
  BY DEF Complete, Exact, IsValid
<1>8. c.data = GetDataSize(c) /\ c.data # 0
  BY <1>1, <1>4, <1>5, <1>6, <1>7 DEF n
<1>9. Describable(c)
  BY <1>4 DEF Complete, Describable
<1> QED BY <1>4, <1>8, <1>9 DEF Complete, Exact, IsValid, c

(* A file whose pixels are widened from two bytes has pixels of two bytes. *)
LEMMA TwoChannels ==
  ASSUME NEW f, WellFormed(f), HeaderFormat(f.header) = "A8L8"
  PROVE  CopyHeaderValuesToMembers(f.header).format = 49
<1> DEFINE h == f.header
           found == FindDdsFormat(h.pf, h.dxgiFormat)
<1>1. h.dxgiFormat \in PixelFormat
  BY DEF WellFormed, DdsHeader
<1>2. found.pixelFormat = 49 /\ h.pf.fourCC # "DX10"
  BY <1>1, FoundFormat DEF HeaderFormat
<1> QED BY <1>2 DEF CopyHeaderValuesToMembers, Sized, IsDx10

LEMMA ReadKeepsIInv ==
  ASSUME IInv, NEW skip \in SkipCounts, NEW max \in MaxCounts, ReadImage(skip, max)
  PROVE  IInv'
<1> DEFINE header == ReadHeader(file, skip, max)
           k      == RangeOf(file.header, skip, max).skipCount
           b      == CopyHeaderValuesToMembers(header)
           r      == ReadInto(file, skip, max)
<1>1. CASE ReadNoHeader
  BY <1>1, NoHeaderKeepsIInv
<1>2. CASE file # NoFile /\ UNCHANGED file /\ CreateFails(b)
  <2>1. b \in Bitmap /\ b.data = 0
    BY <1>2, CountsAssumption, ReadType DEF IInv
  <2>2. bitmap' = bitmap \/ bitmap' = b
    BY <1>2 DEF CreateFails
  <2>3. bitmap' \in Bitmap /\ (IsValid(bitmap') => Complete(bitmap'))
    BY <2>1, <2>2 DEF IInv, IsValid
  <2>4. call' = Failed("ReadImage", "ERROR_CREATING_BITMAP") /\ "ERROR_CREATING_BITMAP" \in Results
    BY <1>2 DEF CreateFails, Results
  <2>5. /\ call'.op = "ReadImage" /\ call'.result = "ERROR_CREATING_BITMAP" /\ call'.read \in Bitmap
        /\ call'.result \in Results
    BY <2>4, FailedFacts
  <2> QED BY <1>2, <2>3, <2>5 DEF IInv, PixelsWereRead, ReadsAreRefused, HasRead
<1>3. CASE file # NoFile /\ UNCHANGED file /\ b.width # 0 /\ r.data # 0 /\ PixelsFail(header, r)
  <2>1. r \in Bitmap /\ HeaderFormat(header) = HeaderFormat(file.header)
    BY <1>3, CountsAssumption, ReadType DEF IInv
  <2>2. bitmap' \in Bitmap /\ ~ IsValid(bitmap')
    BY <1>3, <2>1, DestroyedFacts DEF PixelsFail
  <2>3. CheckSupportedFormat(header) <=> CheckSupportedFormat(file.header)
    BY <2>1 DEF CheckSupportedFormat
  <2>4. \/ /\ ~ CheckSupportedFormat(file.header)
           /\ call' = Failed("ReadImage", "HEADER_NOT_SUPPORTED")
        \/ \E result \in {"READ_FAILURE", "OUT_OF_MEMORY", "ERROR_CONVERTING_FORMAT"} :
             call' = Failed("ReadImage", result)
    BY <1>3, <2>3 DEF PixelsFail
  <2>5. {"HEADER_NOT_SUPPORTED", "READ_FAILURE", "OUT_OF_MEMORY", "ERROR_CONVERTING_FORMAT"} \subseteq Results
    BY DEF Results
  <2>6. /\ call'.op = "ReadImage" /\ call'.result \in Results /\ call'.read \in Bitmap
        /\ call'.result \in {"HEADER_NOT_SUPPORTED", "READ_FAILURE", "OUT_OF_MEMORY",
                             "ERROR_CONVERTING_FORMAT"}
        /\ call'.result = "HEADER_NOT_SUPPORTED" => ~ CheckSupportedFormat(file.header)
    BY <2>4, <2>5, FailedFacts
  <2> QED BY <1>3, <2>2, <2>6 DEF IInv, PixelsWereRead, ReadsAreRefused, HasRead
<1>4. CASE /\ file # NoFile /\ UNCHANGED file /\ b.width # 0 /\ r.data # 0
           /\ PixelsAreRead(header, r, SkipBytes(file.header, k), skip, max)
  <2>1. /\ r \in Bitmap /\ r.width # 0
        /\ HeaderFormat(header) = HeaderFormat(file.header)
    BY <1>4, CountsAssumption, ReadType DEF IInv
  <2>2. Complete(r) /\ r.format = CopyHeaderValuesToMembers(file.header).format
    BY <1>4, <2>1, CountsAssumption, ReadBitmap DEF IInv
  <2>3. bitmap' = IF HeaderFormat(header) = "A8L8" THEN Widened(r) ELSE r
    BY <1>4 DEF PixelsAreRead
  <2>4. Complete(bitmap')
    <3>1. CASE HeaderFormat(header) = "A8L8"
      <4>1. r.format = 49
        BY ZenonT(60), <1>4, <2>1, <2>2, <3>1, TwoChannels DEF IInv
      <4> QED BY <2>2, <2>3, <3>1, <4>1, WidenedFacts
    <3>2. CASE HeaderFormat(header) # "A8L8"
      BY <2>2, <2>3, <3>2
    <3> QED BY <3>1, <3>2
  <2> DEFINE copies == Copies(header, r, SkipBytes(file.header, k))
  <2>5. call' = Called("ReadImage", "OK", skip, max, r, copies, EndOf(header, copies))
    BY <1>4 DEF PixelsAreRead
  <2>6. /\ call'.op = "ReadImage" /\ call'.result = "OK" /\ call'.skip = skip /\ call'.max = max
        /\ call'.read = r /\ call'.copies = copies /\ call'.end = EndOf(header, copies)
    BY <2>5 DEF Called
  <2>7. skip \in Nat /\ max \in Nat /\ "OK" \in Results
    BY CountsAssumption DEF Results
  <2>8. PixelsWereRead'
    BY <1>4, <2>1, <2>3, <2>6, <2>7 DEF PixelsWereRead
  <2>9. ReadsAreRefused'
    BY <2>6 DEF ReadsAreRefused
  <2>10. bitmap' \in Bitmap
    BY <2>4 DEF Complete
  <2> QED BY <1>4, <2>1, <2>4, <2>6, <2>7, <2>8, <2>9, <2>10 DEF IInv
<1> QED BY <1>1, <1>2, <1>3, <1>4 DEF ReadImage, ReadHeader, ReadInto

LEMMA StepKeepsIInv ==
  IInv /\ [Next]_vars => IInv'
<1> SUFFICES ASSUME IInv, [Next]_vars PROVE IInv'
  OBVIOUS
<1>1. CASE Save
  BY <1>1, SaveKeepsIInv
<1>2. CASE \E skip \in SkipCounts, max \in MaxCounts : ReadImage(skip, max)
  BY <1>2, ReadKeepsIInv
<1>3. CASE UNCHANGED vars
  BY <1>3 DEF vars, IInv, PixelsWereRead, ReadsAreRefused, HasRead
<1> QED BY <1>1, <1>2, <1>3 DEF Next

LEMMA Invariance ==
  Spec => []IInv
<1> QED BY InitIInv, StepKeepsIInv, PTL DEF Spec

-----------------------------------------------------------------------------
(* Where the bytes come from                                               *)

(* What the properties speak of, in terms of what was read.                *)
LEMMA ReadFacts ==
  ASSUME IInv, HasRead, call.max # 0, ~ Flattened(call.read)
  PROVE  LET k == FirstLevel
             h == file.header
         IN  /\ WellFormed(file) /\ ReadsInto(file, call.read, k) /\ k \in Nat
             /\ call.copies = Copies(h, call.read, SkipBytes(h, k))
             /\ call.end = EndOf(h, call.copies)
             /\ \A n : InFile(n) = FileBytes(h, n)
<1> DEFINE h      == file.header
           header == ReadHeader(file, call.skip, call.max)
           k      == RangeOf(h, call.skip, call.max).skipCount
           r      == call.read
<1>1. /\ file # NoFile /\ call.skip \in Nat /\ call.max \in Nat
      /\ r = ReadInto(file, call.skip, call.max) /\ r.width # 0 /\ r.data # 0
      /\ call.copies = Copies(header, r, SkipBytes(h, k))
      /\ call.end = EndOf(header, call.copies)
  BY DEF IInv, PixelsWereRead
<1>2. WellFormed(file)
  BY <1>1 DEF IInv
<1>3. ReadsInto(file, r, k)
  BY <1>1, <1>2, ReadBitmap
<1>4. HeaderFormat(header) = HeaderFormat(h)
  BY <1>1, <1>2, ReadType
<1>5. \A n : FileBytes(header, n) = FileBytes(h, n)
  BY <1>4 DEF FileBytes
<1>6. call.copies = Copies(h, r, SkipBytes(h, k))
  <2>1. \A x : Copies(header, r, x) = Copies(h, r, x)
    <3> DEFINE element == GetArrayElementSize(r)
    <3>1. FileBytes(header, element) = FileBytes(h, element)
      BY <1>5
    <3> HIDE DEF header, h
    <3> QED BY <3>1 DEF Copies
  <2> HIDE DEF header, h, k, r
  <2> QED BY <1>1, <2>1
<1>7. call.end = EndOf(h, call.copies)
  <2>1. \A x : EndOf(header, x) = EndOf(h, x)
    BY <1>5 DEF EndOf
  <2> HIDE DEF header, h, k, r
  <2> QED BY <1>1, <2>1
<1>8. FirstLevel = k /\ k \in Nat
  <2>1. GetTrueMipCount(file.origin) = k + GetTrueMipCount(r) /\ k \in Nat /\ r \in Bitmap
    BY <1>3 DEF ReadsInto, Subchain
  <2>2. GetTrueMipCount(r) \in Nat
    BY <2>1, MipCountType
  <2> HIDE DEF k, r
  <2> QED BY <2>1, <2>2 DEF FirstLevel, r
<1>9. \A n : InFile(n) = FileBytes(h, n)
  BY <1>2 DEF InFile, FileBytes, WellFormed
<1> HIDE DEF h, header, k, r
<1> QED BY <1>2, <1>3, <1>6, <1>7, <1>8, <1>9 DEF h, r

(* Bytes of a buffer of a elements of which each is e bytes, of which the  *)
(* file has s bytes more.                                                  *)
LEMMA WithinElement ==
  ASSUME NEW e \in Nat, NEW a \in Nat, NEW i \in 0 .. a - 1, NEW x \in Nat, NEW y \in Nat,
         x + y <= e
  PROVE  /\ i * e \in Nat
         /\ i * e <= x + e * i /\ (x + e * i) + y <= i * e + e
         /\ (x + e * i) + y <= a * e /\ (x + e * i) - i * e = x
         /\ x + e * i \in Nat
<1>1. i \in Nat /\ a - 1 - i \in Nat
  OBVIOUS
<1>2. i * e \in Nat /\ e * i = i * e /\ (a - 1 - i) * e \in Nat
  BY <1>1, ProductType
<1>3. a * e = i * e + e + (a - 1 - i) * e
  <2>1. a = i + 1 + (a - 1 - i)
    OBVIOUS
  <2> DEFINE z == a - 1 - i
  <2>2. (i + 1 + z) * e = i * e + e + z * e
    <3>1. z \in Nat
      BY <1>1
    <3> HIDE DEF z
    <3> QED BY <1>1, <3>1
  <2> QED BY <2>1, <2>2
<1>4. \A p, q \in Nat : p <= x + p /\ (x + p) + y <= p + e /\ (x + p) - p = x
                        /\ (x + p) + y <= p + e + q /\ x + p \in Nat
  OBVIOUS
<1> QED BY <1>2, <1>3, <1>4

LEMMA LevelsAreRead ==
  ASSUME IInv, HasRead, call.max # 0, ~ Flattened(call.read)
  PROVE  AllLevelsFromFile
<1> DEFINE h == file.header
           o == file.origin
           r == call.read
           k == FirstLevel
           n == GetTrueMipCount(r)
           a == r.arraySize
           e == GetArrayElementSize(r)
           S(l) == Total(Strides(o), l)
           T(l) == Total(Strides(r), l)
           skipped == SkipBytes(h, k)
<1>1. /\ WellFormed(file) /\ ReadsInto(file, r, k) /\ k \in Nat
      /\ call.copies = Copies(h, r, skipped)
      /\ \A x : InFile(x) = FileBytes(h, x)
  BY ReadFacts
<1>2. /\ Solid(o) /\ Solid(r) /\ IsValid(o) /\ a \in Nat \ {0} /\ o.arraySize = a
      /\ e = T(n) /\ e \in Nat
      /\ GetArrayElementSize(o) = S(k) + e
      /\ r.data = a * e
  BY <1>1, ElementsShift
<1>3. /\ Fits(h, S(k)) /\ skipped = FileBytes(h, S(k))
      /\ \A l \in 0 .. n : Fits(h, T(l))
  BY <1>1, SkippedBytes
<1>4. /\ Complete(o) /\ Subchain(o, r, k) /\ GetTrueMipCount(o) = k + n
      /\ r \in Bitmap /\ o \in Bitmap /\ IsValid(r)
  BY <1>1, <1>2 DEF ReadsInto, WellFormed, Solid
<1>5. n \in Nat
  BY <1>4, MipCountType
<1>6. Strides(r) \in [Nat -> Nat] /\ \A l \in Nat : Strides(r)[l] = Stride(r, l)
  BY <1>4, StrideType DEF Strides
<1>7. S(k) \in Nat /\ \A l \in 0 .. n : T(l) \in Nat /\ S(k + l) = S(k) + T(l)
  BY <1>4, LevelsMove
<1> SUFFICES ASSUME NEW l \in 0 .. n - 1, NEW i \in 0 .. a - 1
             PROVE  LevelIsFromFile(r, l, i, k)
  BY DEF AllLevelsFromFile
<1>8. l \in Nat /\ l < n /\ l \in 0 .. n /\ l + 1 \in 0 .. n /\ i \in Nat /\ i < a
  BY <1>2, <1>5
<1>9. /\ k + l \in Nat /\ k + l < GetTrueMipCount(o)
      /\ GetMipSize(r, l) = GetMipSize(o, k + l)
  BY <1>4, <1>8, LevelsShift
<1>10. GetMipSize(r, l) = Stride(r, l) /\ Stride(r, l) \in Nat
  <2>1. GetMipSize(r, l) = Stride(r, l)
    BY <1>2, <1>8, LevelSizesAgree
  <2> QED BY <2>1, <1>4, <1>8, StrideType
<1> DEFINE x == T(l)
           y == Stride(r, l)
           s == S(k)
<1>11. x \in Nat /\ y \in Nat /\ s \in Nat /\ x + y <= e
  <2>1. T(l + 1) = x + y
    BY <1>6, <1>8, TotalUnfolds
  <2>2. T(l + 1) <= T(n)
    <3>1. l + 1 \in Nat /\ l + 1 <= n
      BY <1>8
    <3> HIDE DEF n, r
    <3> QED BY <1>5, <1>6, <3>1, TotalGrows
  <2> QED BY <1>2, <1>7, <1>8, <1>10, <2>1, <2>2
<1>12. GetMipRawData(r, l, i) = x + e * i
  BY <1>2, <1>4, <1>8, LevelAddress DEF Strides
<1>13. GetMipRawData(o, k + l, i) = (s + x) + (s + e) * i
  <2>1. GetMipRawData(o, k + l, i) = S(k + l) + GetArrayElementSize(o) * i
    <3>1. GetArrayElementSize(o) \in Nat
      BY <1>2, <1>11
    <3>2. i < o.arraySize
      BY <1>2, <1>8
    <3> HIDE DEF o, r, k, n, a
    <3> QED BY <1>2, <1>4, <1>8, <1>9, <3>1, <3>2, LevelAddress DEF Strides
  <2> QED BY <1>2, <1>7, <1>8, <2>1
<1>14. /\ i * e \in Nat
       /\ i * e <= x + e * i /\ (x + e * i) + y <= i * e + e
       /\ (x + e * i) + y <= a * e /\ (x + e * i) - i * e = x
       /\ x + e * i \in Nat
  <2> HIDE DEF x, y, e, a, s
  <2>1. e \in Nat /\ a \in Nat
    BY <1>2
  <2>2. i \in 0 .. a - 1
    BY <1>8, <2>1
  <2> QED BY <1>11, <2>1, <2>2, WithinElement
<1>15. Fits(h, s) /\ Fits(h, e) /\ Fits(h, x) /\ Fits(h, i * e)
  <2>1. Fits(h, T(n)) /\ Fits(h, T(l))
    BY <1>3, <1>5, <1>8
  <2>2. Fits(h, i * e)
    BY <1>2, <1>8, <2>1, FileBytesTimes
  <2> QED BY <1>2, <1>3, <2>1, <2>2
<1>16. Copies(h, r, skipped) =
         IF skipped = 0 THEN {Copied(0, 0, r.data)}
         ELSE {Copied(j * FileBytes(h, e) + (j + 1) * skipped, j * e, e) : j \in 0 .. a - 1}
  BY DEF Copies
<1>17. \E c \in call.copies :
         /\ c.to <= x + e * i /\ (x + e * i) + y <= c.to + c.size
         /\ c.from + FileBytes(h, (x + e * i) - c.to) = FileBytes(h, (s + x) + (s + e) * i)
  <2> HIDE DEF h, o, r, k, n, a, e, S, T, skipped, x, y, s
  <2>1. CASE skipped = 0
    <3>1. s = 0
      <4>1. FileBytes(h, s) = 0
        BY <1>3, <2>1 DEF s, S
      <4> QED BY <1>15, <4>1, FileBytesAdd
    <3> DEFINE c == Copied(0, 0, r.data)
    <3>2. c \in call.copies /\ c.to = 0 /\ c.from = 0 /\ c.size = a * e
      BY <1>1, <1>2, <1>16, <2>1 DEF Copied
    <3>3. x + e * i \in Nat
      BY <1>14
    <3>4. (s + x) + (s + e) * i = x + e * i /\ (x + e * i) - 0 = x + e * i
      <4>1. s + x = x /\ s + e = e
        BY <1>2, <1>11, <3>1
      <4> QED BY <3>3, <4>1
    <3>5. 0 + FileBytes(h, x + e * i) = FileBytes(h, x + e * i)
      <4>1. FileBytes(h, x + e * i) \in Nat
        BY <3>3 DEF FileBytes
      <4> QED BY <4>1
    <3> HIDE DEF c
    <3>6. /\ c.to <= x + e * i /\ (x + e * i) + y <= c.to + c.size
          /\ c.from + FileBytes(h, (x + e * i) - c.to) = FileBytes(h, (s + x) + (s + e) * i)
      <4>1. a * e \in Nat
        BY <1>2, ProductType
      <4> QED BY <1>14, <3>2, <3>3, <3>4, <3>5, <4>1
    <3> QED BY <3>2, <3>6
  <2>2. CASE skipped # 0
    <3> DEFINE c == Copied(i * FileBytes(h, e) + (i + 1) * skipped, i * e, e)
    <3>1. c \in call.copies
      BY <1>1, <1>16, <2>2
    <3>2. c.from = i * FileBytes(h, e) + (i + 1) * skipped /\ c.to = i * e /\ c.size = e
      BY DEF Copied
    <3> HIDE DEF c
    <3>3. Fits(h, (i + 1) * s) /\ FileBytes(h, (i + 1) * s) = (i + 1) * skipped
      <4>1. FileBytes(h, s) = skipped
        BY <1>3 DEF s, S
      <4> QED BY <1>8, <1>15, <4>1, FileBytesTimes
    <3>4. FileBytes(h, i * e) = i * FileBytes(h, e)
      BY <1>8, <1>15, FileBytesTimes
    <3>5. /\ Fits(h, i * e + (i + 1) * s)
          /\ FileBytes(h, i * e + (i + 1) * s) = i * FileBytes(h, e) + (i + 1) * skipped
      BY <1>15, <3>3, <3>4, FileBytesAdd
    <3>6. FileBytes(h, (i * e + (i + 1) * s) + x) = c.from + FileBytes(h, x)
      BY <1>15, <3>2, <3>5, FileBytesAdd
    <3>7. (i * e + (i + 1) * s) + x = (s + x) + (s + e) * i
      BY <1>2, <1>8, <1>11
    <3> QED BY <1>14, <3>1, <3>2, <3>6, <3>7
  <2> QED BY <2>1, <2>2
<1> HIDE DEF h, n, a, e, S, T, skipped, x, y, s, k
<1>18. k + l = l + k
  BY <1>1, <1>8
<1> QED BY <1>1, <1>9, <1>10, <1>12, <1>13, <1>17, <1>18 DEF LevelIsFromFile, h, y

LEMMA EndIsRead ==
  ASSUME IInv, HasRead, call.max # 0, ~ Flattened(call.read)
  PROVE  call.end = InFile(file.origin.data)
<1> DEFINE h == file.header
           r == call.read
           k == FirstLevel
           a == r.arraySize
           e == GetArrayElementSize(r)
           s == Total(Strides(file.origin), k)
           skipped == SkipBytes(h, k)
           ends == {c.from + FileBytes(h, c.size) : c \in call.copies}
           whole == FileBytes(h, e) + skipped
<1>1. /\ WellFormed(file) /\ ReadsInto(file, r, k) /\ k \in Nat
      /\ call.copies = Copies(h, r, skipped)
      /\ call.end = EndOf(h, call.copies)
      /\ \A x : InFile(x) = FileBytes(h, x)
  BY ReadFacts
<1>2. /\ a \in Nat \ {0} /\ e \in Nat /\ e = Total(Strides(r), GetTrueMipCount(r))
      /\ r.data = a * e
      /\ file.origin.data = a * (s + e)
      /\ r \in Bitmap
  BY <1>1, ElementsShift DEF Solid
<1>3. Fits(h, s) /\ skipped = FileBytes(h, s) /\ Fits(h, e)
  <2>1. GetTrueMipCount(r) \in 0 .. GetTrueMipCount(r)
    BY <1>2, MipCountType
  <2> QED BY <1>1, <1>2, <2>1, SkippedBytes
<1>4. /\ Fits(h, s + e) /\ FileBytes(h, s + e) = skipped + FileBytes(h, e)
      /\ skipped \in Nat /\ FileBytes(h, e) \in Nat
  BY <1>3, FileBytesAdd
<1>5. FileBytes(h, a * (s + e)) = a * whole /\ whole \in Nat
  <2>1. FileBytes(h, a * (s + e)) = a * FileBytes(h, s + e)
    <3> HIDE DEF h, a, s, e
    <3> QED BY <1>2, <1>4, FileBytesTimes
  <2>2. FileBytes(h, s + e) = whole
    BY <1>4
  <2> QED BY <1>4, <2>1, <2>2
<1>6. Copies(h, r, skipped) =
        IF skipped = 0 THEN {Copied(0, 0, r.data)}
        ELSE {Copied(j * FileBytes(h, e) + (j + 1) * skipped, j * e, e) : j \in 0 .. a - 1}
  BY DEF Copies
<1>7. call.end = CHOOSE x \in ends : \A other \in ends : other <= x
  BY <1>1 DEF EndOf
<1> HIDE DEF h, r, k, a, e, s, skipped, whole
<1>8. a * whole \in ends
  <2>1. CASE skipped = 0
    <3>1. s = 0
      BY <1>3, <2>1, FileBytesAdd
    <3> DEFINE c == Copied(0, 0, r.data)
    <3>2. c \in call.copies /\ c.from = 0 /\ c.size = a * e
      BY <1>1, <1>2, <1>6, <2>1 DEF Copied
    <3>3. s + e = e
      BY <1>2, <3>1
    <3>4. FileBytes(h, a * e) = a * whole /\ a * whole \in Nat
      BY <1>2, <1>5, <3>3, ProductType
    <3> HIDE DEF c
    <3> QED BY <3>2, <3>4
  <2>2. CASE skipped # 0
    <3> DEFINE j == a - 1
               c == Copied(j * FileBytes(h, e) + (j + 1) * skipped, j * e, e)
    <3>1. j \in 0 .. a - 1 /\ j + 1 = a /\ j \in Nat
      BY <1>2
    <3>2. c \in call.copies
      BY <1>1, <1>6, <2>2, <3>1
    <3>3. c.from = j * FileBytes(h, e) + (j + 1) * skipped /\ c.size = e
      BY DEF Copied
    <3> HIDE DEF c, j
    <3>4. c.from + FileBytes(h, c.size) = (j + 1) * whole
      BY <1>4, <3>1, <3>3 DEF whole
    <3> QED BY <3>1, <3>2, <3>4
  <2> QED BY <2>1, <2>2
<1>9. ASSUME NEW x \in ends PROVE x \in Nat /\ x <= a * whole
  <2>1. PICK c \in call.copies : x = c.from + FileBytes(h, c.size)
    BY <1>9
  <2>2. CASE skipped = 0
    <3>1. s = 0
      BY <1>3, <2>2, FileBytesAdd
    <3>2. c = Copied(0, 0, r.data)
      BY <1>1, <1>6, <2>1, <2>2
    <3>3. c.from = 0 /\ c.size = a * e
      BY <1>2, <3>2 DEF Copied
    <3>4. s + e = e
      BY <1>2, <3>1
    <3>5. FileBytes(h, a * e) = a * whole /\ a * whole \in Nat
      BY <1>2, <1>5, <3>4, ProductType
    <3> QED BY <2>1, <3>3, <3>5
  <2>3. CASE skipped # 0
    <3>1. PICK j \in 0 .. a - 1 : c = Copied(j * FileBytes(h, e) + (j + 1) * skipped, j * e, e)
      BY <1>1, <1>6, <2>1, <2>3
    <3>2. c.from = j * FileBytes(h, e) + (j + 1) * skipped /\ c.size = e
      BY <3>1 DEF Copied
    <3>3. j \in Nat /\ a - (j + 1) \in Nat /\ a = (j + 1) + (a - (j + 1))
      BY <1>2, <3>1
    <3>4. x = (j + 1) * whole
      BY <1>4, <2>1, <3>2, <3>3 DEF whole
    <3>5. (j + 1) * whole \in Nat /\ (a - (j + 1)) * whole \in Nat
      BY <1>5, <3>3, ProductType
    <3>6. a * whole = (j + 1) * whole + (a - (j + 1)) * whole
      <4> DEFINE z == a - (j + 1)
      <4>1. z \in Nat /\ a = (j + 1) + z
        BY <3>3
      <4> HIDE DEF z
      <4>2. ((j + 1) + z) * whole = (j + 1) * whole + z * whole
        BY <1>5, <3>3, <4>1
      <4> QED BY <4>1, <4>2 DEF z
    <3> QED BY <3>4, <3>5, <3>6
  <2> QED BY <2>2, <2>3
<1> HIDE DEF ends
<1>10. call.end \in ends /\ \A other \in ends : other <= call.end
  <2>1. \E x \in ends : \A other \in ends : other <= x
    BY <1>8, <1>9
  <2> QED BY <1>7, <2>1
<1>11. call.end = a * whole
  <2>1. call.end <= a * whole /\ a * whole <= call.end /\ call.end \in Nat /\ a * whole \in Nat
    BY <1>8, <1>9, <1>10
  <2> QED BY <2>1
<1> QED BY <1>1, <1>2, <1>5, <1>11

(* What was saved and is read whole comes back.                            *)
LEMMA OwnFileIsRead ==
  ASSUME IInv, call.op = "ReadImage", IsOwnFile, call.skip = 0, ~ Unreadable(file.origin)
  PROVE  /\ call.result \notin {"INVALID_HEADER", "HEADER_NOT_SUPPORTED"}
         /\ HasRead /\ call.max >= GetTrueMipCount(file.origin) => bitmap = ReadBack(file.origin)
<1> DEFINE o == file.origin
           h == file.header
           d == CopyHeaderValuesToMembers(h)
           r == call.read
<1>1. /\ file # NoFile /\ WellFormed(file) /\ h = BuildHeaders(o) /\ CanMakePixelFormat(o)
      /\ Complete(o) /\ o \in Bitmap
  BY DEF IInv, IsOwnFile, WellFormed, Complete
<1>2. /\ CheckSupportedFormat(h)
      /\ ReadBackFormat(o) = IF HeaderFormat(h) = "A8L8" THEN 87 ELSE d.format
  BY <1>1, OwnFormat
<1>3. call.result \notin {"INVALID_HEADER", "HEADER_NOT_SUPPORTED"}
  BY <1>1, <1>2 DEF IInv, ReadsAreRefused
<1>4. ASSUME HasRead, call.max >= GetTrueMipCount(o) PROVE bitmap = ReadBack(o)
  <2> DEFINE header == ReadHeader(file, call.skip, call.max)
             n == GetTrueMipCount(o)
             same == [o EXCEPT !.format = ReadBackFormat(o), !.mipCount = n]
  <2>1. /\ call.skip \in Nat /\ call.max \in Nat
        /\ r = ReadInto(file, call.skip, call.max) /\ r.width # 0 /\ r.data # 0
        /\ bitmap = IF HeaderFormat(header) = "A8L8" THEN Widened(r) ELSE r
        /\ bitmap \in Bitmap /\ (IsValid(bitmap) => Complete(bitmap)) /\ r \in Bitmap
    BY <1>4 DEF IInv, PixelsWereRead
  <2>2. HeaderFormat(header) = HeaderFormat(h)
    BY <1>1, <2>1, ReadType
  <2>3. h.mips = n /\ h \in DdsHeader
    BY <1>1 DEF BuildHeaders, Header, WellFormed
  <2>4. RangeOf(h, call.skip, call.max).skipCount = 0
    BY <1>4, <2>1, <2>3, RangeFacts
  <2>5. r = [d EXCEPT !.data = GetDataSize(d)]
    BY <1>1, <2>1, <2>4, ReadBitmap
  <2>6. /\ d \in Bitmap /\ d.type = o.type /\ d.width = o.width /\ d.height = o.height
        /\ d.volumeDepth = o.volumeDepth /\ d.arraySize = o.arraySize /\ d.mipCount = n
    BY <1>1, Described
  <2>7. /\ r.type = o.type /\ r.width = o.width /\ r.height = o.height
        /\ r.volumeDepth = o.volumeDepth /\ r.arraySize = o.arraySize /\ r.mipCount = n
        /\ r.format = d.format
    <3> HIDE DEF d, r, o, n
    <3> QED BY <2>5, <2>6 DEF Bitmap
  <2>8. /\ bitmap.type = o.type /\ bitmap.width = o.width /\ bitmap.height = o.height
        /\ bitmap.volumeDepth = o.volumeDepth /\ bitmap.arraySize = o.arraySize
        /\ bitmap.mipCount = n /\ bitmap.format = ReadBackFormat(o) /\ bitmap.data # 0
    <3> HIDE DEF d, r, o, n, h, header
    <3>1. CASE HeaderFormat(h) = "A8L8"
      <4>1. bitmap = [r EXCEPT !.format = 87, !.data = 2 * @]
        BY <2>1, <2>2, <3>1, FormatNumbers DEF Widened
      <4>2. r.data \in Nat
        BY <2>1 DEF Bitmap
      <4>3. r \in Bitmap /\ r.data # 0
        BY <2>1
      <4>4. /\ bitmap.type = r.type /\ bitmap.width = r.width /\ bitmap.height = r.height
            /\ bitmap.volumeDepth = r.volumeDepth /\ bitmap.arraySize = r.arraySize
            /\ bitmap.mipCount = r.mipCount /\ bitmap.format = 87 /\ bitmap.data = 2 * r.data
        BY <4>1, <4>3 DEF Bitmap
      <4>5. 2 * r.data # 0
        BY <4>2, <4>3
      <4> QED BY <1>2, <2>7, <3>1, <4>4, <4>5
    <3>2. CASE HeaderFormat(h) # "A8L8"
      BY <1>2, <2>1, <2>2, <2>7, <3>2
    <3> QED BY <3>1, <3>2
  <2>9. bitmap.data = GetDataSize(bitmap)
    BY <2>1, <2>8 DEF IsValid, Complete, Exact
  <2>10. n \in Nat /\ ReadBackFormat(o) \in PixelFormat
    <3>1. bitmap.format \in PixelFormat
      BY <2>1 DEF Bitmap
    <3> QED BY <1>1, <2>8, <3>1, MipCountType
  <2> DEFINE g == ReadBackFormat(o)
             z == GetDataSize(same)
             back == [same EXCEPT !.data = z]
  <2> HIDE DEF g, n
  <2>11. /\ same \in Bitmap /\ same.type = o.type /\ same.width = o.width /\ same.height = o.height
         /\ same.volumeDepth = o.volumeDepth /\ same.arraySize = o.arraySize
         /\ same.mipCount = n /\ same.format = g
    <3>1. same = [o EXCEPT !.format = g, !.mipCount = n] /\ g \in PixelFormat
      BY <2>10 DEF g
    <3> HIDE DEF same, o
    <3> QED BY <1>1, <2>10, <3>1 DEF Bitmap
  <2> HIDE DEF same
  <2>12. z = GetDataSize(bitmap) /\ z \in Nat
    <3>1. z \in Nat
      BY <2>11, DataSizeType
    <3> QED BY <2>8, <2>11, <3>1, SizeOfDimensions DEF g
  <2> HIDE DEF z
  <2>13. /\ back \in Bitmap /\ back.type = o.type /\ back.width = o.width /\ back.height = o.height
         /\ back.volumeDepth = o.volumeDepth /\ back.arraySize = o.arraySize
         /\ back.mipCount = n /\ back.format = g /\ back.data = z
    BY <2>11, <2>12 DEF Bitmap
  <2> HIDE DEF back
  <2>14. bitmap = back
    BY <2>1, <2>8, <2>9, <2>12, <2>13, SameFields DEF g
  <2> QED BY <2>14 DEF back, z, same, n, ReadBack
<1> QED BY <1>3, <1>4

-----------------------------------------------------------------------------
(* Theorems                                                                *)

(* Whatever is saved and read, and whatever fails on the way: a bitmap     *)
(* that the handler leaves valid has the buffer its dimensions call for.   *)
THEOREM BitmapsAreSound ==
  Spec => []SoundBitmap
<1>1. IInv => SoundBitmap
  BY DEF IInv, SoundBitmap, Complete, Exact
<1> QED BY <1>1, Invariance, PTL

(* Whatever levels are left out of whatever texture, cube map, volume or   *)
(* array: each level of each element holds the bytes of the right level of *)
(* that element of the file.                                               *)
THEOREM LevelsAreFromTheFile ==
  Spec => []LevelsComeFromTheFile
<1>1. IInv => LevelsComeFromTheFile
  BY LevelsAreRead DEF LevelsComeFromTheFile
<1> QED BY <1>1, Invariance, PTL

(* After a read the stream stands behind the last pixel of the file.       *)
THEOREM MetadataIsBehindThePixels ==
  Spec => []MetadataFollowsPixels
<1>1. IInv => MetadataFollowsPixels
  BY EndIsRead DEF MetadataFollowsPixels
<1> QED BY <1>1, Invariance, PTL

(* Every bitmap that Save takes is read back, but for the formats that DDS *)
(* does not tell apart and the two that it saves and does not read.        *)
THEOREM SavedFilesAreReadBack ==
  Spec => []SavedIsReadBack
<1>1. IInv => SavedIsReadBack
  BY OwnFileIsRead DEF SavedIsReadBack
<1> QED BY <1>1, Invariance, PTL

(* A read that fails leaves the bitmap alone, or invalid.                  *)
THEOREM FailedReadsLeaveNoHalves ==
  Spec => NoHalfImage
<1> DEFINE Step == call'.op = "ReadImage" /\ call'.result # "OK" =>
                     bitmap' = bitmap \/ ~ IsValid(bitmap')
<1>1. IInv /\ [Next]_vars => [Step]_vars
  <2> SUFFICES ASSUME IInv, Next PROVE Step
    OBVIOUS
  <2>1. CASE Save
    <3>1. PICK result \in Results : call' = Failed("Save", result)
      BY <2>1 DEF Save, Results
    <3> QED BY <3>1, FailedFacts
  <2>2. ASSUME NEW skip \in SkipCounts, NEW max \in MaxCounts, ReadImage(skip, max)
        PROVE  Step
    <3> DEFINE header == ReadHeader(file, skip, max)
               b      == CopyHeaderValuesToMembers(header)
               r      == ReadInto(file, skip, max)
    <3>1. CASE ReadNoHeader
      BY <3>1 DEF ReadNoHeader
    <3>2. CASE file # NoFile /\ CreateFails(b)
      <4>1. b.data = 0
        BY <3>2, CountsAssumption, ReadType DEF IInv
      <4> QED BY <3>2, <4>1 DEF CreateFails, IsValid
    <3>3. CASE file # NoFile /\ PixelsFail(header, r)
      <4>1. r \in Bitmap
        BY <3>3, CountsAssumption, ReadType DEF IInv
      <4> QED BY <3>3, <4>1, DestroyedFacts DEF PixelsFail
    <3>4. CASE PixelsAreRead(header, r, SkipBytes(file.header, RangeOf(file.header, skip, max).skipCount),
                             skip, max)
      BY <3>4 DEF PixelsAreRead, Called
    <3> QED BY <2>2, <3>1, <3>2, <3>3, <3>4 DEF ReadImage, ReadHeader, ReadInto
  <2> QED BY <2>1, <2>2 DEF Next
<1> QED BY <1>1, Invariance, PTL DEF Spec, NoHalfImage
=============================================================================
