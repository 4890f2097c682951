# Verification of imageio

TLA+ models of the image library in this repository, TLC configurations that check them on small
instances, and TLAPS proofs about them. Paths are relative to `src/`. `PROJECT.json` maps every
definition that stands for code to the lines it stands for, and lists the hazards, the mutants and
the theorems.

## 1. The system

imageio keeps an image in memory (`HostBitmap`), reads and writes it in seven file formats through a
table of handlers, and converts animated volumes. There is no task or event loop: callers call, from
any number of threads. What is shared between threads is the table of handlers and nothing else; what
goes wrong elsewhere goes wrong through *sequences* of calls, through *failures* in the middle of one
(memory, reads, writes) and at *boundaries* (odd sides, flat levels, empty chains).

| component | state | operations | talks to | hard because |
|---|---|---|---|---|
| Pixel formats (`include/PixelFormat.h`) | none | sizes of pixels and blocks | everything | must agree with each format's tables |
| `BitmapDimensions` | type, format, three sides, mip count, array size | accessors of a level | `HostBitmap`, DDS | three ways to compute a level's size must agree |
| `HostBitmap` | the dimensions and a buffer | create, destroy, move; convert, crop, copy, turn, downsample, reshape; add and drop mip maps | all handlers fill or read it | buffer and dimensions are two pieces of state that every call must keep together, whatever it is refused |
| Format registry (`Tr2ImageHandler.cpp`) | table of handlers, flags, a mutex | register, look up, dispatch | all handlers | the table is searched and pointed into without the mutex |
| DDS (`Tr2DdsHandler.cpp`) | header while reading | read (whole or without the largest levels), save, read the header | bitmap, metadata | four passes over one stream must agree on where every level is |
| VTA (`VtaHandler.cpp`) | writer: coded frames; reader: offsets; decoder: current frame | add frames, write; open, decode, advance, restart | bitmap, run-length code | every frame builds on what was *decoded* of the one before; frames are found by offsets written before the data |
| Run-length code (in `VtaHandler.cpp`) | none | code and decode, plain and as a difference | VTA | lossy, and never larger than its input |
| Metadata chunk (`CcpMetadata.cpp`) | none | append to, and load from, a stream | DDS, TGA | offsets computed before the strings are written; relies on where the stream stands |
| TGA, BMP, PSD, PNG, JPEG | the header, counters of loops, the codec's state | read, save | bitmap, metadata, the stream; libpng, libjpeg | the caller's bitmap is replaced before the pixels are read; run lengths and sizes from the file against the buffer; errors by `longjmp`, lost flags, results nobody looks at |
| NanoVDB (`NanoVdbSupport.cpp`) | none | to VTA, downsample a VTA | VTA reader, decoders and writer | composition of protocols |
| Pixel access (`ImageUtility.cpp`) | none | read one pixel of a block | bitmap | index arithmetic of blocks |
| Results (`ImageIOResult.*`) | a code and a text | | all | |

What makes each of them correct:

- *bitmap*: a valid bitmap has exactly the buffer its dimensions call for; levels and array elements
  tile it; loops stay in it; a failed call leaves the bitmap as it was or without a buffer; a bitmap
  without a buffer does not come back to life.
- *registry*: no thread reads the table while another inserts; every handler is in it once; the first
  handler that takes an extension answers; every call returns.
- *DDS*: every level comes from the right place of the file, whatever was left out; the stream ends
  behind the pixels; what was saved is read back; no half-read image.
- *VTA*: a decoder shows the frame it is at, whatever was read before; what is lost does not add up;
  the code fits the buffer that is made for it; decoders do not disturb each other.
- *TGA, PNG, BMP, PSD, JPEG*: a read that succeeds shows the picture of the file, one that fails leaves
  the caller's bitmap as it was or none; no byte is written outside the bitmap; a save that succeeds
  makes a whole file; failures are reported; metadata are those of the file; every call returns.

## 2. The modules

| module | models | extends or instantiates |
|---|---|---|
| `Recursion` | the halving and summing loops, as recursive functions | |
| `PixelFormat` | `PixelFormat.h`, every format number | |
| `BitmapDimensions` | `BitmapDimensions.h` | `PixelFormat`, `Recursion` |
| `BitmapLayout` | a bitmap and where its levels lie (`GetDataSize`, `GetMipRawData`, `IsValid`) | `BitmapDimensions` |
| `HostBitmap` | every public call that changes a bitmap, one action each | `BitmapLayout` |
| `HostBitmapAccess` | the bytes the loops of those calls touch; the properties and the invariant | `HostBitmap` |
| `HostBitmapClaims` | what comments and tests say and the code does not do | `HostBitmapAccess` |
| `Rle7` | the run-length coder and decoder as functions | `Recursion` |
| `Rle7Stream` | one grid, coded and decoded frame after frame | `Rle7` |
| `Vta` | `FileWriter`, the file, `FileReader`, `FrameDecoder`s, `ReadImage`, `Save` | `Rle7`; instantiates `Projectors` |
| `Projectors` | abstract specification of what frame decoders promise | |
| `Dds` | headers, formats, skipping of levels, `ReadImage`, `Save` | `BitmapLayout` |
| `Registry` | registration, search, dispatch, at the grain of accesses to shared state | |
| `ImageStream` | the stream that handlers are given: pieces at offsets, reads and writes that fall short | |
| `CcpMetadata` | `CcpMetadata.cpp`: the chunk, and what is taken for one | `ImageStream`, `Recursion` |
| `ImageCall` | what the calls of the handlers share: file, bitmap, pixels, metadata, the call that goes on | `CcpMetadata`, `BitmapLayout` |
| `Tga`, `Bmp`, `Psd`, `Png`, `Jpeg` | `ReadImage` and `Save` of one handler, an access to the stream or a pass of a loop at a time | `ImageCall` |
| `ImageContract` | abstract specification: what a caller may rely on, whatever the codec | |
| `ImageFiles` | the handlers together, any of them called after any other, files that lose their end; the properties | `ImageCall`; instantiates the five and `ImageContract` |
| `ImageFilesClaims` | what comments and tests say of the handlers and the code does not do | `ImageFiles` |
| `BitmapLayout_proofs` | loops as recursive functions; sizes, levels and elements of a bitmap | `BitmapLayout`, `TLAPS` |
| `HostBitmap_proofs` | the theorems about the bitmap, its layout and its loops | `HostBitmapAccess`, `BitmapLayout_proofs` |
| `Rle7_proofs` | the theorems about the run-length code and its stream | `Rle7Stream`, `BitmapLayout_proofs` |
| `Vta_proofs` | the theorems about volume animations | `Vta`, `Rle7_proofs` |
| `Dds_proofs` | the theorems about DDS files | `Dds`, `BitmapLayout_proofs` |
| `Registry_proofs` | the theorems about the registry | `Registry`, `TLAPS` |
| `ImageFiles_proofs` | the handlers: failed reads; the inductive invariant of the other properties, and the steps of BMP, JPEG and PSD | `ImageFiles`, `BitmapLayout_proofs` |
| `ImageFilesSafety_proofs` | the steps of PNG and TGA, and the theorems that follow | `ImageFiles_proofs` |
| `MC...` | the small instances | |

### How state and actions correspond to the code

**HostBitmap.** A bitmap is a record of the seven members of `BitmapDimensions` and `data`, the *size*
of `m_data`; what the bytes are is left out. An action is a call with its arguments. Each is built
from a guard named after the early returns (`CanCrop`, `CanDownsample`, `IsCrossmap` ...), and ends in
`Return` (what the call leaves and its answer) or `Refuse`. `CcpMallocBuffer::resize` is external: it
gives the size asked for or, where `AllocMayFail`, nothing, at every call of it, so that an operation
that allocates twice can fail in between. `m_mipCount - 1` wraps at `Uint32Max`, which the instances
take as small as 6: the wrapped value only has to be larger than any real chain. `ReadDimensions`
stands for a reader that has set the dimensions and not yet the buffer. `HostBitmapAccess` turns each
copy loop into the set of runs of bytes it reads or writes.

**VTA.** The writer holds the compressed frames (`m_frames`, one vector, frame after frame), the
previous decoded frame of each grid and the scratch buffer; the file is the sequence of pieces that
`WriteData` writes, each with its size, possibly cut off after any piece; offsets are sums of sizes,
as in the code. A read gives what is at an offset, or fails. zlib is external: its result is the code
itself, one byte longer, so that sizes and contents cannot be confused. `DecodeFrame` ignores failures,
as the code does; the history variables `film` (what was given) and `intact` (whether all reads since
the last first frame worked) only serve the properties.

**DDS.** A file is its headers, the bitmap whose levels its pixels are, and whether they are 24-bit.
Reading gives a set of copies (from where in the file, to where in the buffer, how many bytes); the
properties compare both ends with the layouts `BitmapLayout` computes for the saved and for the read
bitmap. The table of formats is translated row by row; masks are named, and equal names are equal
masks. `GetMipLevelRange` (in `Tr2ImageHandler.cpp`) is here.

**Handlers.** A stream is pieces -- a structure, or a run of bytes -- at offsets, and a size; a file
that lost its end has fewer bytes than its pieces take, and a write that falls short leaves none of a
piece or all but its last byte. Pixels are bytes: the properties compare what a read leaves with the
picture the file stands for, byte by byte, so orders of rows and channels, palettes, padding and run
lengths are modelled by what they do. `Unknown` is a byte nobody wrote. A call is a record: the step it
is at, the stream's position, the counters of its loops, the header it has read, whether a byte outside
the buffer was written. Its first action (`ReadImage`, `Save`) makes the checks in front of the first
access; each following action is one access with the error return behind it, or one pass of a loop (a
row, a packet, an entry of the directory). `call.before` keeps what the caller had, for the properties.
libpng and libjpeg are what they hand out and take, a chunk or a row at a time; a chunk of PNG that is
not whole is found out by its checksum, and libpng passes over a text that is. A second gray channel of
PSD goes to an offset that lies behind a table: any of four. `Uint16Range` stands for 65536,
`PngSideMax` for the million that libpng takes a side to have at most.

**Registry.** A step is one access to shared state. The table is a vector, so it is its entries *and
the place they are at*: an insertion moves them (here always, the worst case), and a pointer that was
obtained before is stale. Registering before or between calls, by the application and by hand
(`Dds::RegisterHandler` and its like are public), takes no mutex in the code: the model lets the
application do it only while no call is under way. The code states this assumption nowhere; without
it `TableStandsStill` is false.

## 3. The runs

| run | question | instance, and why it is large enough |
|---|---|---|
| `bitmap` | What do arbitrary sequences of calls on one uncompressed bitmap leave, when any allocation may fail? | one handle (bitmaps meet only in moves and copies, see `bitmap_formats`); 1x1, a 3x4 cross, 6x4 without depth, whose second level is odd, and 8x8 of four levels: every guard of every call passes and fails; formats of two and four bytes, so conversions grow; mip counts 0 (full), 1, 4 (also more than there are levels); arrays of 1 and 3; states are closed under all calls |
| `bitmap_formats` | Do moved-from, swapped and copied bitmaps stay sound, of blocks too? | two handles, so a move to itself and to another; 9x4 is no whole number of blocks, so it passes through `CreateFromBitmapDimensions` only, and as blocks makes a volume of three slices that `BlockVolume` describes; a width of zero is refused |
| `rle_stream` | Does loss add up over any number of differences? Does the code fit? | all pairs of five values on both sides of the grains of 5, 6 and 7 bits; runs of five with `LengthMax = 1`, so that a run overflows its length byte as one of 256 does; frames follow each other for ever |
| `vta` | Do decoders show the film, whatever order frames were added in, wherever the file was cut and whatever reads failed? And do they implement `Projectors`? | a coded grid interleaved with one that is not, and both coded alone; two frames, so that advancing wraps; every read and write may fail. One decoder, since decoders share only the reader, which they do not change |
| `dds` | Is the right level of the right element read, whatever is left out? | every format with a size, plain and as array; 16x16, 64x16, 13x27, 8x32 chains (square, wide, odd, too narrow to skip), volumes, cubes; foreign files of 24 bits and with levels in a volume; skip counts 0, 1, 2 and more than there are; maxima 0, 2 and none |
| `registry` | Does the unlocked search ever see an insertion? Is every call answered rightly and at all? | two threads of two calls: a first call against a first call, and against a later one; two handlers of the library, one of the application that takes the same extension and lacks a function. For any number, see the proofs |
| `handlers` | What may a caller of the handlers rely on, whatever fails? And do they implement `ImageContract`? | see below |

`handlers` begins with one of the scenes of `MCImageFiles`: a file of another program and an older
bitmap, or a bitmap of every format some handler saves (also of several levels, of two elements, too
wide for 16 bits, and none). There are forty-odd files: every kind of header the readers tell apart,
rows that need padding, packets over the end of a row, runs and literals, a palette, an image ID,
mirrored and flipped pictures, a developer area with somebody else's entry or one that leads nowhere,
single bits, wide and transparent colours, files to be turned away, directories whose first entry leads
to a chunk that is not all there, or to one without metadata, a footer that leads to no directory, a
picture too wide for libpng, metadata with an empty key, and files that do not keep to their format: a
packet over the end of the image, five bytes a pixel, too few channels, sides of nothing. Two calls
(`MaxCalls`) of any handler that takes the file follow, so that what one saved is read back, by itself
or after it lost its last byte or its footer (`LostBytes`, 1 and 27), and a read meets what an earlier
one left in bitmap and metadata; three calls add no pair of neighbours. Every `Read`, `Write` and `Seek`
may fail, whether or not the code looks, and so may every allocation that has a null pointer for it
(`CCP_MALLOC`, `CcpMallocBuffer`, `CCP_NEW`, what libpng and libjpeg allocate), or whose result the code
compares with one (`new` in `ReadPalette` and `LoadCcpMetadata`, for instance), in every combination.
Not among them: allocations that only throw (`std::vector`, strings, a `new` nobody looks at, such as that
of a row), and `GetSize` and `GetPosition`, which have no way to fail. Pictures have one to three columns and rows:
enough for first, middle and last of each loop, and for a packet over the end of a row. `Uint16Range`
and `PngSideMax` are 4, so that a width of 5 is cut, or refused.

The `claim_*` runs are expected to be *violated*: each states what a comment or a test says.

| run | the claim | what the code does |
|---|---|---|
| `claim_downsample` | `HostBitmap.cpp:649`: works on even sizes | 6x6 of three levels, 8x2: a level becomes odd or flat, and the pointer stays inside it |
| `claim_metadata` | `VtaHandler.h:46`: metadata strings follow the header | the writer never sets the count the reader goes by |
| `claim_skip` | `Tr2DdsHandler.cpp:494`: a texture with fewer levels | sides are shifted without keeping them at least one: 64x16 without five levels has no rows |
| `claim_flip` | `Tr2TgaHandler.cpp:395`: a read returns true or false | the loop that mirrors a row moves neither of its ends: a mirrored picture of two columns is never done |
| `claim_truncated` | `tests/TestHelpers.cpp:59`: a truncated picture cannot be read | literal packets of PSD are copied without looking whether the file has their bytes |

Deadlock is checked everywhere but in `registry` and `handlers`, where callers stop after `MaxCalls` calls. Every
property of a passing run has a mutant in `PROJECT.json`: a version of one definition with a plausible
bug (`..._NoClamp`, `Lock_Free`, `Copies_SkipOnce` ...), defined just before it, that violates it.

### Exceptions the properties name

Where the code breaks a general statement, the property names the case instead of being weakened in
general, so that nothing else can hide behind it:

- `Truncated`: `GenerateMipMaps` refused after it reset the mip count. `Downsample2x2` then reads the
  levels of a full chain that is not there (`LoopsStayInside`).
- `LoopsStayInside` says nothing of the loops of `GenerateMipMaps`, `DropMipMaps` and `CopyChannel`, nor of
  volumes of blocks (`BlockVolume`). What the first two move is the subject of `ElementsSurviveMoves`; the loop
  of `CopyChannel` asks for the sizes of both buffers in its condition (637).
- `ElementsSurviveMoves`: an element overlaps its own new place, and the code moves it by `memcpy`
  (1115, 1192), which does not say in which order the bytes go (`CopyOrder`). Up from the first byte,
  `GenerateMipMaps` would overwrite bytes that are still to be copied; down from the last one, `DropMipMaps`
  would (`LosesBytes`). The property names this order as the one that loses bytes, and says that the other,
  which `memmove` would take, loses none, and that no order lets one element overwrite another. Which order
  a `memcpy` takes is left to the library: that a bitmap of several elements survives the call is
  *not* established for the code as it is, only that nothing but this overlap is in the way.
- `BlockVolume`: `ConvertToVolume` copies rows of blocks as if they were rows of pixels; the buffer is
  four times too large, and the copy runs past its source.
- `Degenerate`: `CreateVolume` and `CreateFromBitmapDimensions` accept a side of zero.
- `SuccessMeansValid`: `CreateCube` and `CreateVolume` do not ask whether they got memory; `Crop` may
  be left with nothing, `DropMipMaps` without memory.
- `NoRevival`: `GenerateMipMaps` does not ask whether the bitmap is valid.
- `DivisibleByLevels`: `Downsample2x2` on chains of which a level but the last has an odd side
  (`claim_downsample`).
- `Dds`: `Flattened` (`claim_skip`); a caller that asks for at most 0 levels, for whom pixels are read
  from behind them; R10G10B10A2 and R16, saved by masks the reader does not take.
- `Vta`: frames of a coded grid that were not added in order (`Playable`); what a decoder shows after a
  read failed (`intact`) -- the failure is not reported, and `ReadImage` says OK.
- `ImageFiles`: `Understood` says of which files a read that succeeds shows the picture. Excluded are
  `TgaIsMistaken` (an image ID is read as pixels, 16-bit pixels are put where four bytes belong, indexes
  in packets are taken for three bytes, an idle palette is read as pixels, sides over 16 bits, mirrored
  rows), `BmpIsMistaken` (a header of 16 bytes is passed over as if it had 40), `PsdIsMistaken` (two gray
  channels in packets; literals of a file that was cut), `PngIsMistaken` (two or four bits a pixel; a
  transparent colour) and `JpegIsMistaken` (four channels). `MayGoBeyond` names the pictures whose
  decoding writes outside the bitmap: packets of one-byte pixels, packets that do not end where the image
  does (`PacketsFit`), more than four bytes a pixel and indexes that are not called so (TGA); two gray
  channels, or colours of fewer than three (PSD); a transparent colour (PNG). `MCImageFiles` has a file of
  each, and the proof shows that there are no others.
- `ImageContract`: readers of BMP, PSD and JPEG may not notice that the stream failed (`CarelessReaders`; BMP
  does not look whether it could seek to the pixels, 229, and reads what comes next for them), writers of PNG
  and JPEG ignore it (`CarelessWriters`). `Fragile` codecs may end the program: PSD, whose channel
  buffers are used whether or not they could be allocated (213, 404); PNG, whose row pointers are (292, 331,
  379, 626), and whose `png_set_IHDR` and `png_set_text` run before there is a `setjmp` (608), so that a side
  libpng does not take ends the program; JPEG (zeros written to a bitmap that could not be created; errors
  of the library while saving). A side over libpng's limit is also among what `PngIsMistaken` names. An
  empty key, which libpng refuses while saving, counts among the faults: the save says so.
- `MetadataComeFromTheFile` is about TGA and PNG. BMP, PSD and JPEG reset the cutout of the caller's
  metadata and leave the strings of an earlier file; PNG saves every key in place of its value. A TGA
  reader may find nothing although a valid chunk is there: `HasStrayEntry` says that an earlier entry
  of the directory leads to something that is not all there, on which `LoadCcpMetadata` returns an
  error (`CcpMetadata.cpp:35-38`, `58-61`) and the search ends (`Tr2TgaHandler.cpp:538`), while the
  read says OK.

### Seen while modelling, without a run

They have no run because no comment or test speaks of them. `ConvertToVolume` of a width that is no
square starts slices inside a pixel; `DropMipMaps` of a 1x1 full chain uses a null address as a size
and loses the image; `GetPixel` (1324) accepts `x = width`; `ConvertFormat` does more transitions than
its comment lists; volumes lose the mip-map flag when saved as DDS (711); `Save` of DDS does not look
at what `Write` returns, and reads that fall short of the size asked for are not noticed; DDS arrays
may claim size 0; `DownsampleVTA` (446-487) never advances its decoders; TGA's `IsSaveSupported` always
agrees; BC3 pixel access does not use its block index. `GenerateMipMaps` that refuses too many levels
has set the mip count to 0 before, and `Downsample2x2` of that bitmap walks through the levels of a full
chain, beyond the buffer (1074, 690); `RotateFaceClockwise` takes a full chain for a single level and turns
bytes that are not the face. `RLE` in TGA writes one-byte pixels four bytes wide; `ReadMemoryStream`
seeks from the end with the opposite sign of the one `ReadMetadata` uses.

### Fairness

`Registry` has weak fairness of each thread's steps, for `EveryCallReturns`. The operating system runs a
thread that can run. A mutex that is free stays so until someone locks it, and in the instance calls
are bounded, so a thread that waits gets it in the end; with endlessly many calls the mutex would have
to be fair, which `std::mutex` does not promise. Nobody has to call or to register. `ImageFiles` has weak
fairness of `Step`, for `CallsReturn`: a call runs in its caller's thread and waits for nobody, so it goes
on; nobody has to begin one. Everywhere else the caller decides what happens next, and nothing has to
happen.

## 4. The proofs

`tlapm` checks every proof; assumptions are the named `ASSUME`s of the modules, which TLC evaluates.

**HostBitmap** (`HostBitmap_proofs`), for all sizes, formats, mip counts, array sizes, sequences of
calls and refused allocations: `Soundness` (`IInv`), `Typing`, `BufferCorrectness`
(`BufferMatchesDimensions`), `DepthCorrectness` (`OnlyVolumesAreDeep`). The buffer property is not
inductive: `GenerateMipMaps` works on a bitmap that has lost its buffer, by the dimensions it had in
an earlier life, so `IInv` also says of bitmaps *without* a buffer that a typed one has a width, and
one slice unless it is a volume. One lemma per call shows that it keeps `IInv`; conversions use that an
uncompressed bitmap is its pixels times the bytes of each, mip-map calls that level 1 of a bitmap
begins where level 0 ends.

**HostBitmap, call by call**, as general: `SuccessGivesBitmap`
(`SuccessMeansValid`), `FailedCallsLeaveNoHalves` (`FailureKeepsOrDestroys`), `LostBuffersStayLost`
(`NoRevival`), `ConversionsKeepPixels` (`ConversionKeepsPixels`). Every call is a `Return` of some bitmap;
`Fair` says what the bitmap and the answer may be, given the bitmap before, one lemma per call shows it,
and `ReturnIsFair` carries it over to all bitmaps. Conversions divide the size of the buffer by the bytes
of a pixel. That nothing is lost needs an invariant of its own, `BytesAreWholePixels` (`WInv`), because
`IInv` asks nothing of the buffer of a `Degenerate` bitmap.

**HostBitmap, its layout**: `LayoutCorrectness` (`LevelsTileBuffer`), from the
lemmas of `BitmapLayout_proofs`: the size `GetDataSize` adds, the step `GetMipRawData` takes and
`GetMipSize` are equal for every side, also one that was shifted to nothing (`LevelSizesAgree`); sums of
equal terms are equal, so a level ends where the next level or the next element begins (`LevelsMeet`).

**HostBitmap, its loops**: `LoopsAreInside` (`LoopsStayInside`), `MovesKeepElements`
(`ElementsSurviveMoves`), `DownsamplingKeepsElements` (`DownsampleKeepsElements`). A sound bitmap has at
least the bytes of its first level for each element (`PictureFacts`), and some pixels of a row lie in
the row (`RunFits`), which settles margins, rectangles, faces and slices. Of the moves it is shown that
the elements before one, in the order the loop takes, lie off its new place, and that an element's own
new place lies behind the old one when it grows and before it when it shrinks (so one order of `memcpy`
loses nothing). For `Downsample2x2` the sum of what the pointer passes over is compared with the sum of
the levels, term by term: no more than the level (`AdvanceFits`), all of it where the sides are even.
The attempt to prove it found that the property did not hold of `Truncated` bitmaps, which an instance
without levels enough to refuse had not shown.

**Loops** (`BitmapLayout_proofs`): loops are recursive functions over the naturals. Induction is
stated over sets (`SetInduction`, from the well-foundedness of the naturals), and gives that such a
function exists and unfolds (`RecursionUnfolds`), and that the loop of `GetTrueMipCount` returns the
first number of halvings that leaves nothing (`BitLengthCounts`).

**Run-length code** (`Rle7_proofs`), for every sequence of bytes, every number of kept bits and every
largest length from 1 to 255: `CodeDecodes`, `FrameDecodes`, `DifferenceDecodes`. The prover has no
induction over an operator, so both coders are taken as the functions of their passes that they unfold
to. The invariant of the encoder's loop is about the decoder: whatever code begins with what has been put
out so far, decoding it gives the values before the run that is under way, and the code is not longer
than they are. So a flushed run only has to decode to itself, and a code is decoded alike whatever lies
behind it: a decoder's buffer keeps the rest of a longer code it held before.

**Its stream** (`Rle7_proofs`): `CodesFit` (`CodeFitsFrame`), `NothingEverDrifts` (`NothingDrifts`),
`StillImagesStand` (`StillImageStands`). That a decoded value is near the frame says nothing of the next
frame, so `NothingDrifts` is not inductive. `StreamInv` says what each step leaves behind: the decoded
values are those of the frame in the bits that are kept, which are the only ones the code carries.

**VTA** (`Vta_proofs`), for all lists of grids, frame counts, images of one size, metadata and decoders,
every order of `AddFrame`s, every place a file may be cut off at and every failed read: `TypesAreKept`
(`TypeOK`), `FramesAreFound` (`OffsetsLeadToFrames`), `FilmIsShown` (`DecodersShowTheFilm`),
`FirstFrameIsLoaded` (`LoadedIsTheFirstFrame`), and the refinement `DecodersProject`
(`DecodersAreProjectors`). There are two arguments. *Where*: `Pieces` is five parts (`PiecesAre`), the sizes
of its pieces add up to `DataStart` and the sizes before (`PieceSizes`, `FramesBegin`), every piece of a file
has a size, so that no two begin at one place, and what begins at a frame's offset and is as long as the
frame is that frame (`PieceIsFound`, `FrameIsFound`). *What*: that decoders show the film is not inductive,
since a frame is coded as a difference to what the writer has decoded, and decoded as a difference to what
a decoder shows. `IInv` says that the writer's `m_prevFrames` agrees with the image it was given in all the
bits the next code looks at (`Agrees`), so the code of a frame given in order is one a formula over the
*images* gives (`FilmIsCoded`, `CodeOf`; `SameCode`), whatever was added in the meantime to other grids or
over frames that were given; and of a decoder with `intact` that its bitmap agrees with the image likewise
(`Faithful`; `FirstCode`, `NextCode`). A failed read decodes what the buffer has again, which stays a code
(`Decodable`), so buffers keep their size. The refinement follows step by step: calls of the writer happen
while nothing plays (`DarkStays`), `OpenDecoder` starts a projector, `Restart` and `AdvanceFrame` turn it
(`TurnProjects`) -- `AdvanceFrame` back to the start when the reader has lost its stream.

**DDS** (`Dds_proofs`), for every bitmap that is saved, every well-formed file of another program, every
choice of levels and every failure: `BitmapsAreSound` (`SoundBitmap`), `LevelsAreFromTheFile`
(`LevelsComeFromTheFile`), `MetadataIsBehindThePixels` (`MetadataFollowsPixels`), `SavedFilesAreReadBack`
(`SavedIsReadBack`), `FailedReadsLeaveNoHalves` (`NoHalfImage`). The invariant `IInv` says that the file is
well formed, that a valid bitmap is complete, and of the last read what it was given and which runs of
bytes it read; the properties follow from it without a further step. The levels that are left shift like
those of the file (`LevelsShift`), an element of the file is the levels left out and those that are left
(`ElementsShift`), and what is passed over is the former (`SkippedBytes`). For what was saved, the table of
formats is gone through: the rows `MakePixelFormat` takes are those `FindDdsFormat` finds, but for the
formats `SavedIsReadBack` names. Two assumptions say what comes from outside: `ImagesAssumption`, that the
bitmaps that are saved have a shape some `Create` call of `HostBitmap` makes and the buffer that goes with it
(`BufferCorrectness`); `ForeignFilesAssumption`, that a file holds the pixels its header speaks of.

**Registry** (`Registry_proofs`), for any number of threads, calls, handlers and extensions:
`Soundness` (`IInv`), `Typing`, `TableIsSafe` (`TableStandsStill`), `RegisteredOnce`
(`EachHandlerOnce`), `AnswersCorrect` (`AnswersAreRight`). The core of the invariant is
`FlagFollowsPhase`: a thread that has left the mutex has seen the library's flag set, and one that
inserts has seen it clear; only one thread is between the two. `RegisteredSoFar` and `SearchedSoFar`
are the invariants of the two loops.

**Handlers** (`ImageFiles_proofs`, `ImageFilesSafety_proofs`), for all files, bitmaps and metadata the
caller may begin with, every sequence of calls, every fault of the stream and every refused allocation.

- `FailedReadsLeaveNothing` (`NoHalfPicture`), from `BitmapIsUntouched`: until a read has created its
  bitmap the caller's is what it was, and afterwards no step of a call ends it with an error and a buffer.
  The invariant speaks of the step a call is at: each codec has a set of steps before the bitmap is created
  and one after, and four lemmas (`...Starts`, `...Created`, `...Ends`, `...Steps`) that no action of it
  leaves the first set but by creating the bitmap.
- `TypesAreKept` (`TypeOK`), `PixelsAreInside` (`PixelsStayInside`) and `MetadataAreTheFiles`
  (`MetadataComeFromTheFile`), from `FilesStayFiles`, which says that `Inv` is an invariant. None of the
  three is inductive: where a row or a packet ends depends on a header that was read, and a bitmap that was
  created, many steps before, and what a read finds depends on what the save in front of it left. `Inv`
  therefore says of each call that is going on what it knows (`TgaReads` ... `JpegSaves`), and of the file
  that it is one (`IsFile`), in every state: also of the file a save has written half of, and of what is left
  of it when a write fell short. Each action of each handler has a lemma that it keeps `Inv`; `XBegins` and
  `XGoes` put those of one handler together, `NextStates` all of them.
  - *Reads*: the header of the call is the file's, and the bitmap is `Fresh`: what `Create` made of that
    header, so its rows and the file's are compared as products of the same numbers. Rows are what is left
    of the height. PSD: a value of a channel goes to every fourth byte from its component on, and a packet
    that does not fit the channel is an error (`PutEveryType`, `PsdPacketIsDecoded`). PNG and JPEG: a row has
    the bytes its header says (`HasRows`), and each branch of the conversion reads within them. TGA: the
    decoder does not look where a packet ends. A file keeps to its format if there is a count of pixels in
    front of each packet (`PacketsFit`), and whichever such count is taken, the decoder's counter is four
    times the count of the packet it stands at (`StaysInStep`, `NextPacket`): so no packet can go over the end.
  - *Metadata*: TGA walks through the directory; `TgaReads` says that each entry it has passed led to no
    chunk (`IsNoChunk`). So the entry the search ends at is the first that leads to one: it is whole,
    and the file's metadata are in it, or it is not all there and the file `HasStrayEntry`. For saves,
    the pieces of the chunk lie behind one another (`TgaPiecesFollow`), its texts are told apart by
    their offsets (`TextsAreApart`), so what is read is what was saved; a save that ends early leaves no
    footer that leads anywhere else. PNG hands out the texts of the header's chunk, those of the file
    or, if the library saved it, its keys for values.

What comes from outside is `ScenesAssumption`: the file is an `IsFile`, the bitmap an `IsImage` and the
metadata pairs of strings. `IsFile` says of which type the contents of a piece are, that TGA, BMP and PSD
files have a header wherever there are bytes enough to be read as one (the readers do not tell, and a header
of any values is allowed), that PNG and JPEG rows have their header's width, as the libraries see to, and
that the metadata a file is said to have are those that are in it. It does *not* say that packets, depths,
channels or palettes make sense: where they do not, the readers must refuse or the case is named. `IsImage`
is what `HostBitmap::Create` leaves; a side of zero, which only `CreateVolume` accepts, is left out. The
attempt to prove `PixelsStayInside` found the files that are named now (a packet over the end of the image,
five bytes a pixel, an idle palette on one-byte pixels, colours of fewer than three channels), a picture of
PSD without channels, which reads no channel at all, and that a PNG reader whose stream failed may miss any
one text; the model and the instance have them.

Only model-checked: liveness (`EveryCallReturns`, `CallsReturn`; beyond the prover) and the refinement of
`ImageContract` by `ImageFiles` (`ImplementsContract`): that a read that succeeds shows the picture of the
file, byte by byte, would need each decoder compared with the picture the file stands for, which for packets
is induction over data.

## 5. What is not modelled

- The values of pixels in `HostBitmap`, and so `GetAverageColor`, `GetPixel` and `ImageUtility`: their
  arithmetic is a few formulas with no state. (The handlers' models do have the bytes of pixels.)
- 32-bit overflow of the size of a level: `width * height * blockSize` in `GetDataSize` wraps for
  bitmaps of 2^32 bytes a level (16384x16384 BC7). The models speak of smaller ones.
- NanoVDB: `NanoVDBToVTA` is arithmetic on grids of another library, `DownsampleVTA` a fixed sequence of
  calls that `Vta` models one by one.
- libpng, libjpeg, zlib and nanovdb are external: modelled as far as the handlers see them, or not.
- In the handlers: allocations that throw (section 3): the exception passes through the call; what JPEG
  loses, interlaced PNG and its gamma, the conversion of the cutout's numbers, BMP of negative height,
  where packets that write beyond the image write, and the convention by which `MemoryStream` seeks from
  its end.
- Formatted messages (`ImageIOResult`), logging, file names.
- Registrations while calls are under way, and `AddFrame` with exactly one index out of range: the code
  is undefined there.

## 6. Plan

Done, in this order: bitmap core, its proofs, run-length code, VTA with its abstract specification,
DDS over the same layout, registry and its proofs, streams and metadata, the five handlers that fill a
bitmap pixel by pixel with their abstract specification, and the proofs of the run-length code, of DDS, of
the loops of the bitmap, of VTA with its refinement, and of the handlers' safety. Next:

1. *`ImageFiles => ImageContract`*, codec by codec, beginning with those without packets: `Inv` has the
   types and the places; what is left is that each row is the picture's.
2. *NanoVDB*: `DownsampleVTA` over `Vta`'s decoders and writer, and the order of its frames.
3. *Overflow*: `GetDataSize` with `% 2^32` at boundary sizes.
