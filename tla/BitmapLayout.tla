--------------------------- MODULE BitmapLayout ---------------------------
(***************************************************************************)
(* How large the buffer of a HostBitmap is and where in it a level lies    *)
(* (HostBitmap.cpp): functions of the dimensions and of the number of      *)
(* bytes in the buffer, which every module that has a bitmap shares.       *)
(***************************************************************************)
EXTENDS BitmapDimensions

Bitmap ==
  [type : TextureType, format : PixelFormat, width : Nat, height : Nat,
   volumeDepth : Nat, mipCount : Nat, arraySize : Nat, data : Nat]

Sized(type, format, w, h, d, mips, array) ==
  [type |-> type, format |-> format, width |-> w, height |-> h, volumeDepth |-> d,
   mipCount |-> mips, arraySize |-> array, data |-> 0]

(* One pass of GetDataSize's loop; the sides were halved level times.      *)
LevelBytes(b, level) ==
  LET w == Halved(b.width, level)
      h == Halved(b.height, level)
      d == Halved(IF b.type = "3D" THEN b.volumeDepth ELSE 1, level)
  IN  IF IsCompressed(b)
      THEN (Larger(AlignUp4(w), 4) * Larger(AlignUp4(h), 4) * d
              * GetBlockByteSize(b.format)) \div 16
      ELSE w * h * d * GetBytesPerPixel(b.format)

GetDataSize(b) ==
  Total([i \in Nat |-> LevelBytes(b, i)], GetTrueMipCount(b)) * b.arraySize

(* Mutant: sides that vanish instead of staying at one.                    *)
FlatChainSize_NoClamp(b, n) ==
  Total([i \in Nat |-> Shr(b.width, i) * Shr(b.height, i) * GetBytesPerPixel(b.format)], n)

(* The bytes of one array element with n uncompressed levels of depth one: *)
(* the loops of Downsample2x2 and GenerateMipMaps.                         *)
FlatChainSize(b, n) ==
  Total([i \in Nat |-> Halved(b.width, i) * Halved(b.height, i) * GetBytesPerPixel(b.format)], n)

IsValid(b) == b.data # 0

(* The buffer is the one the dimensions call for.                          *)
Exact(b) == b.data = GetDataSize(b)

Bpp(b) == GetBytesPerPixel(b.format)

GetPitch(b) ==
  CASE ~ IsValid(b) -> 0
    [] IsValid(b) /\ IsCompressed(b) -> (b.width * GetBlockByteSize(b.format)) \div 4
    [] IsValid(b) /\ ~ IsCompressed(b) -> b.width * GetBytesPerPixel(b.format)

GetArrayElementSize(b) == b.data \div b.arraySize

NullPointer == -1

(* Mutant: levels of one slice.                                            *)
GetMipRawData_NoDepth(b, level, arrayIndex) ==
  IF ~ IsValid(b) \/ level >= GetTrueMipCount(b) \/ arrayIndex >= b.arraySize
  THEN NullPointer
  ELSE Total([i \in Nat |-> GetMipNumRows(b, i) * GetMipPitch(b, i)], level)
         + (IF arrayIndex > 0 THEN GetArrayElementSize(b) * arrayIndex ELSE 0)

(* GetMipRawData as an offset into the buffer.                             *)
GetMipRawData(b, level, arrayIndex) ==
  IF ~ IsValid(b) \/ level >= GetTrueMipCount(b) \/ arrayIndex >= b.arraySize
  THEN NullPointer
  ELSE Total([i \in Nat |-> GetMipNumRows(b, i) * GetMipPitch(b, i)
                              * Larger(Shr(b.volumeDepth, i), 1)], level)
         + (IF arrayIndex > 0 THEN GetArrayElementSize(b) * arrayIndex ELSE 0)
=============================================================================
