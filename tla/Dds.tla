-------------------------------- MODULE Dds --------------------------------
(***************************************************************************)
(* The DDS handler (Tr2DdsHandler.cpp): a bitmap is saved to a file and    *)
(* read back, whole or without its largest levels.                         *)
(*                                                                         *)
(* A file is its headers and the layout of the pixels behind them.  What   *)
(* the bytes are is abstracted; reading is the set of runs of bytes that   *)
(* go from the file into the buffer, so that the properties can say from   *)
(* where in the file every level came.                                     *)
(***************************************************************************)
EXTENDS BitmapLayout, Sequences, FiniteSets

CONSTANTS
  Images,         \* the valid bitmaps that callers save
  ForeignFiles,   \* files that other programs have written
  SkipCounts,     \* m_mipLevelSkipCount of the callers
  MaxCounts,      \* m_mipLevelMaxCount of the callers
  CallsMayFail    \* whether reads and allocations may fail

ASSUME CountsAssumption == SkipCounts \subseteq Nat /\ MaxCounts \subseteq Nat
ASSUME FailAssumption   == CallsMayFail \in BOOLEAN

VARIABLES
  bitmap,   \* the caller's HostBitmap
  file,     \* the last file that was saved, or one from elsewhere
  call      \* the last call: what it was, what it returned, what it read

vars == <<bitmap, file, call>>

-----------------------------------------------------------------------------
(* Formats                                                                 *)

Row(format, bits, masks, fourCC, pixelFormat) ==
  [format |-> format, bits |-> bits, masks |-> masks, fourCC |-> fourCC,
   pixelFormat |-> pixelFormat]

(* The masks are named; equal names stand for four equal masks.            *)
s_ddsFormats ==
  << Row("R8G8B8",        24, "rgb888",  "none", PIXEL_FORMAT_B8G8R8X8_UNORM),
     Row("A8R8G8B8",      32, "argb8888", "none", PIXEL_FORMAT_B8G8R8A8_UNORM),
     Row("X8R8G8B8",      32, "rgb888",  "none", PIXEL_FORMAT_B8G8R8X8_UNORM),
     Row("R5G6B5",        16, "rgb565",  "none", PIXEL_FORMAT_B5G6R5_UNORM),
     Row("X1R5G5B5",      16, "rgb555",  "none", PIXEL_FORMAT_B5G5R5A1_UNORM),
     Row("A1R5G5B5",      16, "argb1555", "none", PIXEL_FORMAT_B5G5R5A1_UNORM),
     Row("A4R4G4B4",      16, "argb4444", "none", PIXEL_FORMAT_UNKNOWN),
     Row("R3G3B2",         8, "rgb332",  "none", PIXEL_FORMAT_UNKNOWN),
     Row("A8",             8, "a8",      "none", PIXEL_FORMAT_A8_UNORM),
     Row("A8R3G3B2",      16, "argb8332", "none", PIXEL_FORMAT_UNKNOWN),
     Row("X4R4G4B4",      16, "rgb444",  "none", PIXEL_FORMAT_UNKNOWN),
     Row("A2B10G10R10",   32, "abgr2101010", "none", PIXEL_FORMAT_R10G10B10A2_UNORM),
     Row("A8B8G8R8",      32, "abgr8888", "none", PIXEL_FORMAT_R8G8B8A8_UNORM),
     Row("X8B8G8R8",      32, "bgr888",  "none", PIXEL_FORMAT_R8G8B8A8_UNORM),
     Row("G16R16",        32, "gr1616",  "none", PIXEL_FORMAT_R16G16_UNORM),
     Row("A2R10G10B10",   32, "argb2101010", "none", PIXEL_FORMAT_UNKNOWN),
     Row("L8",             8, "r8",      "none", PIXEL_FORMAT_R8_UNORM),
     Row("L16",           16, "r8",      "none", PIXEL_FORMAT_R16_UNORM),
     Row("P8",             8, "zero",    "none", PIXEL_FORMAT_UNKNOWN),
     Row("A8L8",          16, "ar88",    "none", PIXEL_FORMAT_R8G8_UNORM),
     Row("R32F",          32, "zero",    "114",  PIXEL_FORMAT_R32_FLOAT),
     Row("R16F",          16, "zero",    "111",  PIXEL_FORMAT_R16_FLOAT),
     Row("A16B16G16R16",  64, "zero",    "36",   PIXEL_FORMAT_R16G16B16A16_UNORM),
     Row("A16B16G16R16F", 64, "zero",    "113",  PIXEL_FORMAT_R16G16B16A16_FLOAT),
     Row("A32B32G32R32F", 128, "zero",   "116",  PIXEL_FORMAT_R32G32B32A32_FLOAT) >>

s_supportedFormats ==
  {"DXT1", "DXT2", "DXT3", "DXT4", "DXT5", "DX10", "ATI1", "ATI2", "R8G8B8",
   "X8R8G8B8", "A8R8G8B8", "A8B8G8R8", "R5G6B5", "X1R5G5B5", "A1R5G5B5", "A4R4G4B4",
   "A8", "A8L8", "L8", "G16R16", "A16B16G16R16", "A16B16G16R16F", "A32B32G32R32F",
   "R32F", "R16F"}

(* DDS_PIXELFORMAT: of the flags only the two that FindDdsFormat asks for. *)
PixelFormatOf(fourCC, bits, masks) ==
  [isFourCC |-> fourCC # "none", indexed |-> FALSE, fourCC |-> fourCC, bits |-> bits,
   masks |-> masks]

Found(format, pixelFormat) == [format |-> format, pixelFormat |-> pixelFormat]

(* The codes that are looked at before the table.                          *)
FourCCFormat ==
  [DXT1 |-> PIXEL_FORMAT_BC1_UNORM, DXT2 |-> PIXEL_FORMAT_BC2_UNORM,
   DXT3 |-> PIXEL_FORMAT_BC2_UNORM, DXT4 |-> PIXEL_FORMAT_BC3_UNORM,
   DXT5 |-> PIXEL_FORMAT_BC3_UNORM, ATI1 |-> PIXEL_FORMAT_BC4_UNORM,
   ATI2 |-> PIXEL_FORMAT_BC5_UNORM]

RowMatches(row, pf) ==
  IF pf.fourCC # "none" THEN row.fourCC = pf.fourCC
  ELSE row.bits = pf.bits /\ row.masks = pf.masks

(* The first of some rows of the table.                                    *)
FirstOf(rows) == CHOOSE i \in rows : \A j \in rows : i <= j

(* Codes and masks, those that nobody knows included.                      *)
FourCCs ==
  {"none", "DX10", "other"} \union DOMAIN FourCCFormat
    \union {s_ddsFormats[i].fourCC : i \in DOMAIN s_ddsFormats}

Masks == {"other"} \union {s_ddsFormats[i].masks : i \in DOMAIN s_ddsFormats}

DdsPixelFormat ==
  [isFourCC : BOOLEAN, indexed : BOOLEAN, fourCC : FourCCs, bits : Nat, masks : Masks]

FindDdsFormat(pf, dxgiFormat) ==
  LET rows == {i \in DOMAIN s_ddsFormats : RowMatches(s_ddsFormats[i], pf)}
      row  == s_ddsFormats[FirstOf(rows)]
  IN  CASE pf.isFourCC /\ pf.fourCC \in DOMAIN FourCCFormat ->
             Found(pf.fourCC, FourCCFormat[pf.fourCC])
        [] pf.isFourCC /\ pf.fourCC = "DX10" -> Found("DX10", dxgiFormat)
        [] ~ pf.isFourCC /\ pf.indexed -> Found("P8", PIXEL_FORMAT_UNKNOWN)
        [] OTHER -> IF rows = {} THEN Found("UNKNOWN", PIXEL_FORMAT_UNKNOWN)
                    ELSE Found(row.format, row.pixelFormat)

-----------------------------------------------------------------------------
(* Headers                                                                 *)

DdsHeader ==
  [width : Nat, height : Nat, depth : Nat, mips : Nat, hasMips : BOOLEAN,
   isVolume : BOOLEAN, isCube : BOOLEAN, pf : DdsPixelFormat, dxgiFormat : PixelFormat,
   arraySize : Nat]

(* DDS_HEADER and, when the code is DX10, the header behind it.            *)
Header(width, height, depth, mips, hasMips, isVolume, isCube, pf, dxgiFormat, arraySize) ==
  [width |-> width, height |-> height, depth |-> depth, mips |-> mips,
   hasMips |-> hasMips, isVolume |-> isVolume, isCube |-> isCube, pf |-> pf,
   dxgiFormat |-> dxgiFormat, arraySize |-> arraySize]

IsDx10(header) == header.pf.fourCC = "DX10"

HeaderFormat(header) == FindDdsFormat(header.pf, header.dxgiFormat).format

CheckSupportedFormat(header) == HeaderFormat(header) \in s_supportedFormats

(* What the reader takes n bytes of a buffer to be in the file: a pixel of *)
(* 24 bits is widened to 32 when it is read.                               *)
FileBytes(header, n) == IF HeaderFormat(header) = "R8G8B8" THEN (n \div 4) * 3 ELSE n

(* The rows that stand for an uncompressed format of the library.          *)
RowsFor(format) ==
  {i \in DOMAIN s_ddsFormats :
     /\ s_ddsFormats[i].pixelFormat = format
     /\ s_ddsFormats[i].bits = 8 * GetBytesPerPixel(format)}

BlockFourCC(format) ==
  CASE format \in 70 .. 72 -> "DXT1"
    [] format \in 73 .. 75 -> "DXT3"
    [] format \in 76 .. 78 -> "DXT5"
    [] format \in 79 .. 81 -> "ATI1"
    [] format \in 82 .. 84 -> "ATI2"
    [] OTHER -> "none"

CanMakePixelFormat(b) == IsCompressed(b) \/ RowsFor(b.format) # {}

MakePixelFormat(b) ==
  LET row == s_ddsFormats[FirstOf(RowsFor(b.format))]
  IN  IF IsCompressed(b) THEN PixelFormatOf(BlockFourCC(b.format), 0, "zero")
      ELSE PixelFormatOf(row.fourCC, row.bits, row.masks)

(* Mutant: an array of a format the old header knows gets that header.     *)
NeedsDx10_FormatOnly(b) == IsDds10Format(b.format)

(* The formats and the arrays that the old header cannot describe.         *)
NeedsDx10(b) == IsDds10Format(b.format) \/ (b.arraySize # 1 /\ b.type # "CUBE")

(* The flags of a volume are assigned, not added: the one that says there  *)
(* are mip levels is lost.                                                 *)
BuildHeaders(b) ==
  LET mips == GetTrueMipCount(b)
      pf   == MakePixelFormat(b)
  IN  Header(b.width, b.height, IF b.type = "3D" THEN b.volumeDepth ELSE 0, mips,
             mips > 1 /\ b.type # "3D", b.type = "3D", b.type = "CUBE",
             IF NeedsDx10(b) THEN [pf EXCEPT !.isFourCC = TRUE, !.fourCC = "DX10"] ELSE pf,
             IF NeedsDx10(b) THEN b.format ELSE PIXEL_FORMAT_UNKNOWN,
             IF NeedsDx10(b) THEN b.arraySize ELSE 0)

(* The dimensions a header stands for.                                     *)
CopyHeaderValuesToMembers(header) ==
  LET format == IF IsDx10(header) THEN header.dxgiFormat
                ELSE FindDdsFormat(header.pf, header.dxgiFormat).pixelFormat
      array  == IF IsDx10(header) THEN header.arraySize ELSE 1
      mips   == Larger(header.mips, 1)
  IN  CASE header.isCube ->
             Sized("CUBE", format, header.width, header.width, 1, mips, 6)
        [] ~ header.isCube /\ header.isVolume ->
             Sized("3D", format, header.width, header.height, header.depth, mips, array)
        [] ~ header.isCube /\ ~ header.isVolume ->
             Sized("2D", format, header.width, header.height, 1, mips, array)

-----------------------------------------------------------------------------
(* Leaving out the largest levels                                          *)

(* The levels that are left out, before the largest number is looked at.   *)
LevelsSkipped(width, height, mips, skip) ==
  CASE ~ (width > 8 /\ height > 8) -> 0
    [] width > 8 /\ height > 8 /\ mips > skip -> skip
    [] width > 8 /\ height > 8 /\ mips <= skip -> Larger(mips - 3, 0)

(* LoadParameters::GetMipLevelRange: levels left out, and levels read.     *)
GetMipLevelRange(width, height, mips, skip, max) ==
  LET skipped == LevelsSkipped(width, height, mips, skip)
      left    == mips - skipped
  IN  [skipCount |-> skipped + Larger(left - max, 0), mipCount |-> Smaller(left, max)]

(* What of the header's levels DoReadHeader leaves out; of a cube none.    *)
RangeOf(header, skip, max) ==
  IF header.isCube THEN [skipCount |-> 0, mipCount |-> header.mips]
  ELSE GetMipLevelRange(header.width, header.height,
                        IF header.hasMips THEN header.mips ELSE 0, skip, max)

(* Mutant: the bytes of 32-bit pixels are passed over in a file of 24.     *)
SkipBytes_As32Bit(header, skipCount) ==
  Total([i \in Nat |-> GetMipSize(CopyHeaderValuesToMembers(header), i)], skipCount)

(* The bytes of those levels in one element of the file.                   *)
SkipBytes(header, skipCount) ==
  Total([i \in Nat |-> FileBytes(header, GetMipSize(CopyHeaderValuesToMembers(header), i))],
        skipCount)

(* The header is changed to that of a smaller texture.                     *)
Lowered(header, range) ==
  IF range.skipCount = 0 THEN header
  ELSE [header EXCEPT !.mips = range.mipCount, !.width = Shr(@, range.skipCount),
                      !.height = Shr(@, range.skipCount),
                      !.depth = Larger(1, Shr(@, range.skipCount))]

-----------------------------------------------------------------------------
(* Reading the pixels                                                      *)

(* A run of bytes: where in the file's pixels it begins, where in the      *)
(* buffer, and how many bytes of the buffer it fills.                      *)
Copied(from, to, size) == [from |-> from, to |-> to, size |-> size]

(* Mutant: only the first element's levels are passed over.                *)
Copies_SkipOnce(header, b, skipBytes) ==
  {Copied(skipBytes + i * FileBytes(header, GetArrayElementSize(b)),
          i * GetArrayElementSize(b), GetArrayElementSize(b)) : i \in 0 .. b.arraySize - 1}

(* ReadImagePixels and ReadRgb: element by element when levels are passed  *)
(* over, in one go when not.                                               *)
Copies(header, b, skipBytes) ==
  LET element == GetArrayElementSize(b)
  IN  IF skipBytes = 0 THEN {Copied(0, 0, b.data)}
      ELSE {Copied(i * FileBytes(header, element) + (i + 1) * skipBytes, i * element, element)
              : i \in 0 .. b.arraySize - 1}

(* Where the stream stands after the last run.                             *)
EndOf(header, copies) ==
  LET ends == {c.from + FileBytes(header, c.size) : c \in copies}
  IN  CHOOSE e \in ends : \A other \in ends : other <= e

(* Mutant: the buffer stays as it was.                                     *)
Widened_FormatOnly(b) == [b EXCEPT !.format = PIXEL_FORMAT_B8G8R8A8_UNORM]

(* ConvertFormat( B8G8R8A8_UNORM ) of two bytes a pixel.                   *)
Widened(b) == [b EXCEPT !.format = PIXEL_FORMAT_B8G8R8A8_UNORM, !.data = 2 * @]

Destroyed(b) == [b EXCEPT !.type = "INVALID", !.format = PIXEL_FORMAT_UNKNOWN, !.data = 0]

-----------------------------------------------------------------------------
(* State                                                                   *)

(* A file of which nothing was written.                                    *)
NoFile == <<>>

(* Headers, the bitmap whose levels the pixels behind them hold, and       *)
(* whether those are pixels of 24 bits.                                    *)
Written(header, b, packed) == [header |-> header, origin |-> b, packed |-> packed]

(* The shapes that HostBitmap creates: pictures, arrays of them, volumes   *)
(* and cube maps of six square faces.                                      *)
Describable(b) ==
  /\ b.type \in {"2D", "3D", "CUBE"}
  /\ b.width # 0 /\ b.volumeDepth # 0 /\ b.arraySize # 0
  /\ b.type # "3D" => b.volumeDepth = 1
  /\ b.type = "CUBE" => b.height = b.width /\ b.arraySize = 6

(* A bitmap that can be saved.                                             *)
Complete(b) == b \in Bitmap /\ IsValid(b) /\ Exact(b) /\ Describable(b)

(* Two formats of which one is read as the other, byte for byte.           *)
SameTexels(f, g) ==
  /\ IsCompressedFormat(f) <=> IsCompressedFormat(g)
  /\ GetBytesPerPixel(f) = GetBytesPerPixel(g)
  /\ GetBlockByteSize(f) = GetBlockByteSize(g)

(* The pixels of a file are those that its headers speak of.               *)
WellFormed(f) ==
  LET described == CopyHeaderValuesToMembers(f.header)
  IN  /\ f.header \in DdsHeader /\ Complete(f.origin)
      /\ described = [f.origin EXCEPT !.format = described.format, !.data = 0,
                                      !.mipCount = GetTrueMipCount(f.origin)]
      /\ SameTexels(described.format, f.origin.format)
      /\ f.packed = (HeaderFormat(f.header) = "R8G8B8")

ASSUME ImagesAssumption       == \A b \in Images : Complete(b)
ASSUME ForeignFilesAssumption == \A f \in ForeignFiles : f # NoFile /\ WellFormed(f)

(* What a call leaves to look at: the bitmap ReadImagePixels was given,    *)
(* the runs it read and where it left the stream.                          *)
Called(op, result, skip, max, read, copies, end) ==
  [op |-> op, result |-> result, skip |-> skip, max |-> max, read |-> read,
   copies |-> copies, end |-> end]

NoBitmap == Sized("INVALID", PIXEL_FORMAT_UNKNOWN, 0, 0, 0, 0, 1)

Failed(op, result) == Called(op, result, 0, 0, NoBitmap, {}, 0)

Init ==
  /\ bitmap \in Images
  /\ file \in {NoFile} \union ForeignFiles
  /\ call = Failed("None", "OK")

-----------------------------------------------------------------------------
(* Calls                                                                   *)

(* What Write returns is not looked at.                                    *)
Save ==
  \/ /\ ~ IsValid(bitmap)
     /\ call' = Failed("Save", "INVALID_BITMAP")
     /\ UNCHANGED <<bitmap, file>>
  \/ /\ IsValid(bitmap) /\ ~ CanMakePixelFormat(bitmap)
     /\ call' = Failed("Save", "SAVE_NOT_SUPPORTED")
     /\ UNCHANGED <<bitmap, file>>
  \/ /\ IsValid(bitmap) /\ CanMakePixelFormat(bitmap)
     /\ file' = Written(BuildHeaders(bitmap), bitmap, FALSE)
     /\ call' = Failed("Save", "OK")
     /\ UNCHANGED bitmap

(* DoReadHeader returns before the bitmap is touched.                      *)
ReadNoHeader ==
  /\ \/ file = NoFile /\ call' = Failed("ReadImage", "INVALID_HEADER")
     \/ CallsMayFail /\ call' = Failed("ReadImage", "READ_FAILURE")
  /\ UNCHANGED <<bitmap, file>>

(* CreateFromBitmapDimensions looks at the width and the format first, and *)
(* keeps the new dimensions when it gets no buffer.                        *)
CreateFails(b) ==
  /\ \/ /\ b.width = 0 \/ b.format = PIXEL_FORMAT_UNKNOWN
        /\ UNCHANGED bitmap
     \/ /\ b.width # 0 /\ b.format # PIXEL_FORMAT_UNKNOWN
        /\ CallsMayFail \/ GetDataSize(b) = 0
        /\ bitmap' = b
  /\ call' = Failed("ReadImage", "ERROR_CREATING_BITMAP")

(* Mutant: ReadImage returns without destroying the bitmap.                *)
PixelsFail_BitmapKept(header, b) ==
  /\ bitmap' = b
  /\ \/ ~ CheckSupportedFormat(header) /\ call' = Failed("ReadImage", "HEADER_NOT_SUPPORTED")
     \/ /\ CheckSupportedFormat(header) /\ CallsMayFail
        /\ call' = Failed("ReadImage", "READ_FAILURE")

(* ReadImagePixels returns an error: an unknown format, a read, a buffer.  *)
PixelsFail(header, b) ==
  /\ bitmap' = Destroyed(b)
  /\ \/ ~ CheckSupportedFormat(header) /\ call' = Failed("ReadImage", "HEADER_NOT_SUPPORTED")
     \/ /\ CheckSupportedFormat(header) /\ CallsMayFail
        /\ \/ call' = Failed("ReadImage", "READ_FAILURE")
           \/ /\ HeaderFormat(header) = "R8G8B8"
              /\ call' = Failed("ReadImage", "OUT_OF_MEMORY")
           \/ /\ HeaderFormat(header) = "A8L8"
              /\ call' = Failed("ReadImage", "ERROR_CONVERTING_FORMAT")

PixelsAreRead(header, b, skipBytes, skip, max) ==
  LET copies == Copies(header, b, skipBytes)
  IN  /\ CheckSupportedFormat(header)
      /\ bitmap' = IF HeaderFormat(header) = "A8L8" THEN Widened(b) ELSE b
      /\ call' = Called("ReadImage", "OK", skip, max, b, copies, EndOf(header, copies))

ReadImage(skip, max) ==
  \/ ReadNoHeader
  \/ /\ file # NoFile
     /\ UNCHANGED file
     /\ LET range  == RangeOf(file.header, skip, max)
            header == Lowered(file.header, range)
            b      == CopyHeaderValuesToMembers(header)
            full   == [b EXCEPT !.data = GetDataSize(b)]
        IN  \/ CreateFails(b)
            \/ /\ b.width # 0 /\ b.format # PIXEL_FORMAT_UNKNOWN /\ full.data # 0
               /\ \/ PixelsFail(header, full)
                  \/ PixelsAreRead(header, full, SkipBytes(file.header, range.skipCount), skip, max)

Next == Save \/ \E skip \in SkipCounts, max \in MaxCounts : ReadImage(skip, max)

Spec == Init /\ [][Next]_vars

-----------------------------------------------------------------------------
(* Properties                                                              *)

Results ==
  {"OK", "INVALID_BITMAP", "SAVE_NOT_SUPPORTED", "INVALID_HEADER", "READ_FAILURE",
   "ERROR_CREATING_BITMAP", "HEADER_NOT_SUPPORTED", "OUT_OF_MEMORY",
   "ERROR_CONVERTING_FORMAT"}

(* Types, and that a bitmap the reader hands out has the buffer its        *)
(* dimensions call for, also when its pixels were widened after reading.   *)
SoundBitmap ==
  /\ bitmap \in Bitmap /\ call.read \in Bitmap /\ call.result \in Results
  /\ IsValid(bitmap) => bitmap.data = GetDataSize(bitmap)

HasRead == call.op = "ReadImage" /\ call.result = "OK"

(* Where in the file's pixels a byte of its bitmap lies.                   *)
InFile(n) == IF file.packed THEN (n \div 4) * 3 ELSE n

(* Which level of the file is level 0 of what was read.                    *)
FirstLevel == GetTrueMipCount(file.origin) - GetTrueMipCount(call.read)

(* The bytes of a level of b came from those of level + first of the file. *)
LevelIsFromFile(b, level, element, first) ==
  LET start == GetMipRawData(b, level, element)
      size  == GetMipSize(b, level)
  IN  /\ size = GetMipSize(file.origin, level + first)
      /\ \E c \in call.copies :
           /\ c.to <= start /\ start + size <= c.to + c.size
           /\ c.from + FileBytes(file.header, start - c.to)
                = InFile(GetMipRawData(file.origin, level + first, element))

AllLevelsFromFile ==
  \A level \in 0 .. GetTrueMipCount(call.read) - 1, element \in 0 .. call.read.arraySize - 1 :
    LevelIsFromFile(call.read, level, element, FirstLevel)

(* Levels were left out until no row was left.                             *)
Flattened(b) == ~ IsCompressed(b) /\ b.height = 0

(* Whatever levels of a texture, cube map, volume or array are left out, a *)
(* read that succeeds puts into every level of every element the bytes of  *)
(* the right level of that element of the file, and leaves out the largest *)
(* ones only.  Not so when a shift took the height to zero, and when the   *)
(* caller asks for no level at all: then pixels are read from behind them. *)
LevelsComeFromTheFile ==
  HasRead /\ call.max # 0 /\ ~ Flattened(call.read) => AllLevelsFromFile

(* After a successful read the stream stands behind the last pixel of the  *)
(* file, where LoadCcpMetadata looks for metadata, whatever was left out.  *)
MetadataFollowsPixels ==
  HasRead /\ call.max # 0 /\ ~ Flattened(call.read) =>
    call.end = InFile(file.origin.data)

(* Save has taken what the file holds.                                     *)
IsOwnFile ==
  file # NoFile /\ CanMakePixelFormat(file.origin) /\ file.header = BuildHeaders(file.origin)

IsPlain(b) == ~ IsDds10Format(b.format) /\ (b.arraySize = 1 \/ b.type = "CUBE")

(* Formats that are saved by masks the reader does not take.               *)
Unreadable(b) == IsPlain(b) /\ b.format \in {PIXEL_FORMAT_R10G10B10A2_UNORM, PIXEL_FORMAT_R16_UNORM}

(* The five families of blocks come back as their UNORM member, and two    *)
(* channels as four.                                                       *)
ReadBackFormat(b) ==
  CASE IsPlain(b) /\ b.format \in 70 .. 84 -> ((b.format - 70) \div 3) * 3 + 71
    [] IsPlain(b) /\ b.format = PIXEL_FORMAT_R8G8_UNORM -> PIXEL_FORMAT_B8G8R8A8_UNORM
    [] OTHER -> b.format

ReadBack(b) ==
  LET same == [b EXCEPT !.format = ReadBackFormat(b), !.mipCount = GetTrueMipCount(b)]
  IN  [same EXCEPT !.data = GetDataSize(same)]

(* A bitmap that Save has taken is read back with its dimensions, levels   *)
(* and elements, and with its format but for what DDS does not tell apart, *)
(* when nothing is left out and no read or allocation fails.  Two formats  *)
(* are saved and cannot be read.                                           *)
SavedIsReadBack ==
  call.op = "ReadImage" /\ IsOwnFile /\ call.skip = 0 /\ ~ Unreadable(file.origin) =>
    /\ call.result \notin {"INVALID_HEADER", "HEADER_NOT_SUPPORTED"}
    /\ HasRead /\ call.max >= GetTrueMipCount(file.origin) => bitmap = ReadBack(file.origin)

(* A read that fails leaves the caller's bitmap as it was or invalid: never *)
(* one that is valid and half read.                                        *)
NoHalfImage ==
  [][call'.op = "ReadImage" /\ call'.result # "OK" => bitmap' = bitmap \/ ~ IsValid(bitmap')]_vars

(* Tr2DdsHandler.cpp:494: "We first skip ahead in the stream to create the *)
(* illusion of a texture with fewer mip maps (lower res)": without the     *)
(* exception for textures that become flat.                                *)
LowerResolutionIsRead == HasRead /\ call.max # 0 => AllLevelsFromFile
=============================================================================
