--------------------------- MODULE PixelFormat ---------------------------
(***************************************************************************)
(* enum PixelFormat of include/PixelFormat.h and the four functions on it. *)
(* A format is its number in the enumeration.  Only the formats the models *)
(* name have a constant of their own.                                      *)
(***************************************************************************)
EXTENDS Integers

PIXEL_FORMAT_UNKNOWN            == 0
PIXEL_FORMAT_R32G32B32A32_FLOAT == 2
PIXEL_FORMAT_R16G16B16A16_FLOAT == 10
PIXEL_FORMAT_R16G16B16A16_UNORM == 11
PIXEL_FORMAT_R10G10B10A2_TYPELESS == 23
PIXEL_FORMAT_R10G10B10A2_UNORM  == 24
PIXEL_FORMAT_R8G8B8A8_UNORM     == 28
PIXEL_FORMAT_R16G16_UNORM       == 35
PIXEL_FORMAT_R32_FLOAT          == 41
PIXEL_FORMAT_R8G8_UNORM         == 49
PIXEL_FORMAT_R16_FLOAT          == 54
PIXEL_FORMAT_R16_UNORM          == 56
PIXEL_FORMAT_R8_UNORM           == 61
PIXEL_FORMAT_A8_UNORM           == 65
PIXEL_FORMAT_R1_UNORM           == 66
PIXEL_FORMAT_BC1_UNORM          == 71
PIXEL_FORMAT_BC2_UNORM          == 74
PIXEL_FORMAT_BC3_UNORM          == 77
PIXEL_FORMAT_BC4_UNORM          == 80
PIXEL_FORMAT_BC5_UNORM          == 83
PIXEL_FORMAT_B5G6R5_UNORM       == 85
PIXEL_FORMAT_B5G5R5A1_UNORM     == 86
PIXEL_FORMAT_B8G8R8A8_UNORM     == 87
PIXEL_FORMAT_B8G8R8X8_UNORM     == 88
PIXEL_FORMAT_BC7_UNORM          == 98
PIXEL_FORMAT_SENTINEL           == 100

PixelFormat == 0 .. PIXEL_FORMAT_SENTINEL

IsDds10Format(format) == format \in 94 .. 99

IsCompressedFormat(format) == format \in 70 .. 84 \/ IsDds10Format(format)

(* Bytes of one 4x4 block; BC1 and BC4 have the small ones.                *)
GetBlockByteSize(format) ==
  CASE format \in 70 .. 72 \union 79 .. 81 -> 8
    [] IsCompressedFormat(format) /\ format \notin 70 .. 72 \union 79 .. 81 -> 16
    [] ~ IsCompressedFormat(format) -> 0

(* Zero for the compressed formats, for R1_UNORM and for UNKNOWN.  The     *)
(* three-channel 32-bit formats 5..8 count 16 bytes, as in the code.       *)
GetBytesPerPixel(format) ==
  CASE format \in 1 .. 8 -> 16
    [] format \in 9 .. 22 -> 8
    [] format \in 23 .. 47 \union 67 .. 69 \union 87 .. 93 -> 4
    [] format \in 48 .. 59 \union 85 .. 86 -> 2
    [] format \in 60 .. 65 -> 1
    [] OTHER -> 0

(* The formats with 8 bits per channel that Downsample2x2 and              *)
(* GenerateMipMaps list: R8G8B8A8_*, R8G8_*, R8_*, A8_UNORM, B8G8R8A8_*,   *)
(* B8G8R8X8_*, but not R10G10B10_XR_BIAS_A2 (89).                          *)
EightBitFormats ==
  27 .. 32 \union 48 .. 52 \union 60 .. 65 \union 87 .. 88 \union 90 .. 93
=============================================================================
