---------------------- MODULE ImageFilesSafety_proofs ----------------------
(***************************************************************************)
(* ImageFiles: whatever the file, wherever it was cut and whichever access *)
(* to the stream or to memory fails,                                       *)
(*   - the caller's bitmap, its buffer and the call keep their types;      *)
(*   - no call touches a byte outside the buffer, but in the cases that    *)
(*     MayGoBeyond names;                                                  *)
(*   - the metadata that a read returns are the file's.                    *)
(*                                                                         *)
(* All three follow from Inv (ImageFiles_proofs).  Here are the steps of   *)
(* PNG and TGA, which keep it, and the theorems.                           *)
(***************************************************************************)
EXTENDS ImageFiles_proofs

-----------------------------------------------------------------------------
(* Sequences                                                               *)

(* A sequence has its members in its set.                                  *)
LEMMA MemberOf ==
  ASSUME NEW S, NEW s \in Seq(S), NEW i \in 1 .. Len(s)
  PROVE  s[i] \in S
OBVIOUS

(* A sequence of no members is one over any set.                           *)
LEMMA NoMembers ==
  ASSUME NEW S
  PROVE  <<>> \in Seq(S)
OBVIOUS

(* A sequence of one member.                                               *)
LEMMA SingleMember ==
  ASSUME NEW S, NEW x \in S
  PROVE  <<x>> \in Seq(S) /\ Len(<<x>>) = 1
OBVIOUS

(* The members of two sequences that are joined.                           *)
LEMMA JoinedMembers ==
  ASSUME NEW S, NEW s \in Seq(S), NEW t \in Seq(S)
  PROVE  /\ s \o t \in Seq(S) /\ Len(s \o t) = Len(s) + Len(t)
         /\ \A k \in 1 .. Len(s) + Len(t) :
              (s \o t)[k] = IF k <= Len(s) THEN s[k] ELSE t[k - Len(s)]
OBVIOUS

-----------------------------------------------------------------------------
(* PNG: the operators of the instance                                      *)

(* PNG: the operators on streams and buffers are the ones of this module.  *)
LEMMA PngStream ==
  /\ \A s, p, n : Png!Holds(s, p, n) <=> Holds(s, p, n)
  /\ \A s, p, kind : Png!IsAt(s, p, kind) <=> IsAt(s, p, kind)
  /\ \A s, p : Png!Clamped(s, p) = Clamped(s, p)
  /\ \A s, p : Png!ByteAt(s, p) = ByteAt(s, p)
  /\ \A s, p, n : Png!BytesAt(s, p, n) = BytesAt(s, p, n)
  /\ \A data, i, values : Png!Put(data, i, values) = Put(data, i, values)
  /\ \A data, i, values : Png!GoesBeyond(data, i, values) = GoesBeyond(data, i, values)
  /\ \A f : Png!GetBytesPerPixel(f) = GetBytesPerPixel(f)
  /\ \A b : Png!GetPitch(b) = GetPitch(b)
<1>1. \A s, p, n : Png!Holds(s, p, n) <=> Holds(s, p, n)
  BY DEF Png!Holds, Holds
<1>2. \A s, p, kind : Png!IsAt(s, p, kind) <=> IsAt(s, p, kind)
  BY DEF Png!IsAt, IsAt
<1>3. \A s, p : Png!Clamped(s, p) = Clamped(s, p)
  BY DEF Png!Clamped, Clamped
<1>4. \A s, p : Png!ByteAt(s, p) = ByteAt(s, p)
  BY DEF Png!ByteAt, ByteAt, Png!ByteWritten, ByteWritten, Png!StartsBefore, StartsBefore,
         Png!Unknown, Unknown
<1>5. \A s, p, n : Png!BytesAt(s, p, n) = BytesAt(s, p, n)
  BY DEF Png!BytesAt, BytesAt, Png!ByteAt, ByteAt, Png!ByteWritten, ByteWritten,
         Png!StartsBefore, StartsBefore, Png!Unknown, Unknown
<1>6. \A data, i, values : Png!Put(data, i, values) = Put(data, i, values)
  BY DEF Png!Put, Put
<1>7. \A data, i, values : Png!GoesBeyond(data, i, values) = GoesBeyond(data, i, values)
  BY DEF Png!GoesBeyond, GoesBeyond
<1>8. \A f : Png!GetBytesPerPixel(f) = GetBytesPerPixel(f)
  BY DEF Png!GetBytesPerPixel, GetBytesPerPixel
<1>9. \A b : Png!GetPitch(b) = GetPitch(b)
  BY DEF Png!GetPitch, GetPitch, Png!IsValid, IsValid, Png!IsCompressed, IsCompressed,
         Png!IsCompressedFormat, IsCompressedFormat, Png!IsDds10Format, IsDds10Format,
         Png!GetBlockByteSize, GetBlockByteSize, Png!GetBytesPerPixel, GetBytesPerPixel
<1> QED BY <1>1, <1>2, <1>3, <1>4, <1>5, <1>6, <1>7, <1>8, <1>9

(* PNG: the beginnings and ends of a call are the ones of this module.     *)
LEMMA PngCalls ==
  /\ \A op, step : Png!At(op, step) <=> At(op, step)
  /\ \A step : Png!Goto(step) = Goto(step)
  /\ \A stride, beyond : Png!RowDone(stride, beyond) = RowDone(stride, beyond)
  /\ \A c, result, faults : Png!Finished(c, result, faults) = Finished(c, result, faults)
  /\ \A result : Png!Return(result) <=> Return(result)
  /\ \A result : Png!ReturnFault(result) <=> ReturnFault(result)
  /\ \A result : Png!Fail(result) <=> Fail(result)
  /\ \A result : Png!FailOnFault(result) <=> FailOnFault(result)
  /\ \A n, result : Png!ReadFails(n, result) <=> ReadFails(n, result)
  /\ \A n : Png!PixelsFallShort(n) <=> PixelsFallShort(n)
  /\ \A op, step, wants : Png!Begin(op, step, wants) <=> Begin(op, step, wants)
  /\ \A op, result, wants : Png!Refuse(op, result, wants) <=> Refuse(op, result, wants)
<1>1. \A op, step : Png!At(op, step) <=> At(op, step)
  BY DEF Png!At, At
<1>2. \A step : Png!Goto(step) = Goto(step)
  BY DEF Png!Goto, Goto
<1>3. \A stride, beyond : Png!RowDone(stride, beyond) = RowDone(stride, beyond)
  BY DEF Png!RowDone, RowDone
<1>4. \A c, result, faults : Png!Finished(c, result, faults) = Finished(c, result, faults)
  BY DEF Png!Finished, Finished, Png!Called, Called
<1>5. \A result : Png!Return(result) <=> Return(result)
  BY DEF Png!Return, Return, Png!Finished, Finished, Png!Called, Called
<1>6. \A result : Png!ReturnFault(result) <=> ReturnFault(result)
  BY DEF Png!ReturnFault, ReturnFault, Png!Finished, Finished, Png!Called, Called
<1>7. \A result : Png!Fail(result) <=> Fail(result)
  BY DEF Png!Fail, Fail, Png!Return, Return, Png!Finished, Finished, Png!Called, Called,
         Png!Destroy, Destroy, Png!Destroyed, Destroyed, Png!PIXEL_FORMAT_UNKNOWN,
         PIXEL_FORMAT_UNKNOWN
<1>8. \A result : Png!FailOnFault(result) <=> FailOnFault(result)
  BY DEF Png!FailOnFault, FailOnFault, Png!ReturnFault, ReturnFault, Png!Finished, Finished,
         Png!Called, Called, Png!Destroy, Destroy, Png!Destroyed, Destroyed,
         Png!PIXEL_FORMAT_UNKNOWN, PIXEL_FORMAT_UNKNOWN
<1>9. \A n, result : Png!ReadFails(n, result) <=> ReadFails(n, result)
  BY DEF Png!ReadFails, ReadFails, Png!Holds, Holds, Png!Return, Return, Png!ReturnFault,
         ReturnFault, Png!Finished, Finished, Png!Called, Called
<1>10. \A n : Png!PixelsFallShort(n) <=> PixelsFallShort(n)
  BY DEF Png!PixelsFallShort, PixelsFallShort, Png!Holds, Holds, Png!Fail, Fail,
         Png!FailOnFault, FailOnFault, Png!Return, Return, Png!ReturnFault, ReturnFault,
         Png!Finished, Finished, Png!Called, Called, Png!Destroy, Destroy, Png!Destroyed,
         Destroyed, Png!PIXEL_FORMAT_UNKNOWN, PIXEL_FORMAT_UNKNOWN
<1>11. \A op, step, wants : Png!Begin(op, step, wants) <=> Begin(op, step, wants)
  BY DEF Png!Begin, Begin, Png!Called, Called
<1>12. \A op, result, wants : Png!Refuse(op, result, wants) <=> Refuse(op, result, wants)
  BY DEF Png!Refuse, Refuse, Png!Called, Called
<1> QED BY <1>1, <1>2, <1>3, <1>4, <1>5, <1>6, <1>7, <1>8, <1>9, <1>10, <1>11, <1>12

(* PNG: the writes of a file are the ones of this module.                  *)
LEMMA PngWrites ==
  /\ \A kind, n, value : Png!Piece(kind, n, value) = Piece(kind, n, value)
  /\ \A values : Png!Bytes(values) = Bytes(values)
  /\ \A s, piece : Png!Appended(s, piece) = Appended(s, piece)
  /\ \A s, n : Png!AppendedPart(s, n) = AppendedPart(s, n)
  /\ \A piece, result : Png!WriteFails(piece, result) <=> WriteFails(piece, result)
  /\ \A op, pieces : Png!SavePieces(op, pieces) <=> SavePieces(op, pieces)
  /\ \A codec, picture, strings : Png!NewFile(codec, picture, strings) = NewFile(codec, picture, strings)
  /\ \A op : Png!Close(op) <=> Close(op)
  /\ \A row : Png!PackedRow(row) = PackedRow(row)
  /\ \A data, f, i : Png!PixelOf(data, f, i) = PixelOf(data, f, i)
  /\ \A p : Png!Red10(p) = Red10(p)
  /\ \A p : Png!Green10(p) = Green10(p)
  /\ \A p : Png!Blue10(p) = Blue10(p)
<1>1. \A kind, n, value : Png!Piece(kind, n, value) = Piece(kind, n, value)
  BY DEF Png!Piece, Piece
<1>2. \A values : Png!Bytes(values) = Bytes(values)
  BY DEF Png!Bytes, Bytes, Png!Piece, Piece
<1>3. \A s, piece : Png!Appended(s, piece) = Appended(s, piece)
  BY DEF Png!Appended, Appended, Png!Placed, Placed
<1>4. \A s, n : Png!AppendedPart(s, n) = AppendedPart(s, n)
  BY DEF Png!AppendedPart, AppendedPart, Png!Placed, Placed, Png!Appended, Appended, Png!Piece,
         Piece
<1>5. \A piece, result : Png!WriteFails(piece, result) <=> WriteFails(piece, result)
  BY DEF Png!WriteFails, WriteFails, Png!AppendedPart, AppendedPart, Png!Appended, Appended,
         Png!Placed, Placed, Png!Piece, Piece, Png!ReturnFault, ReturnFault, Png!Finished,
         Finished, Png!Called, Called
<1>6. \A op, pieces : Png!SavePieces(op, pieces) <=> SavePieces(op, pieces)
  BY DEF Png!SavePieces, SavePieces, Png!At, At, Png!AppendedPart, AppendedPart, Png!Appended,
         Appended, Png!Placed, Placed, Png!Piece, Piece
<1>7. \A codec, picture, strings : Png!NewFile(codec, picture, strings) = NewFile(codec, picture, strings)
  BY DEF Png!NewFile, NewFile, Png!File, File, Png!NoContents, NoContents
<1>8. \A op : Png!Close(op) <=> Close(op)
  BY DEF Png!Close, Close, Png!At, At, Png!Return, Return, Png!Finished, Finished, Png!Called,
         Called
<1>9. \A row : Png!PackedRow(row) = PackedRow(row)
  BY DEF Png!PackedRow, PackedRow, Png!GetPitch, GetPitch, Png!PIXEL_FORMAT_B8G8R8X8_UNORM,
         PIXEL_FORMAT_B8G8R8X8_UNORM, Png!IsValid, IsValid, Png!IsCompressed, IsCompressed,
         Png!IsCompressedFormat, IsCompressedFormat, Png!IsDds10Format, IsDds10Format,
         Png!GetBlockByteSize, GetBlockByteSize, Png!GetBytesPerPixel, GetBytesPerPixel
<1>10. \A data, f, i : Png!PixelOf(data, f, i) = PixelOf(data, f, i)
  BY DEF Png!PixelOf, PixelOf, Png!GetBytesPerPixel, GetBytesPerPixel
<1>11. \A p : Png!Red10(p) = Red10(p)
  BY DEF Png!Red10, Red10
<1>12. \A p : Png!Green10(p) = Green10(p)
  BY DEF Png!Green10, Green10
<1>13. \A p : Png!Blue10(p) = Blue10(p)
  BY DEF Png!Blue10, Blue10
<1> QED BY <1>1, <1>2, <1>3, <1>4, <1>5, <1>6, <1>7, <1>8, <1>9, <1>10, <1>11, <1>12, <1>13

(* PNG: the bitmaps and the metadata are the ones of this module.          *)
LEMMA PngOthers ==
  /\ \A b, n : Png!GetMipSize(b, n) = GetMipSize(b, n)
  /\ \A b : Png!Resize(b) <=> Resize(b)
  /\ \A f, w, h, step : Png!Create(f, w, h, step) <=> Create(f, w, h, step)
  /\ \A f, w, h, step : Png!CreateFromBitmapDimensions(f, w, h, step) <=> CreateFromBitmapDimensions(f, w, h, step)
  /\ \A b : Png!Destroyed(b) = Destroyed(b)
  /\ Png!NoBitmap = NoBitmap
  /\ \A kind : Png!IsWhole(kind) <=> IsWhole(kind)
  /\ \A s, p : Png!HeaderIsValid(s, p) <=> HeaderIsValid(s, p)
  /\ \A s, p : Png!ChunkStrings(s, p) = ChunkStrings(s, p)
  /\ \A m : Png!Chunk(m) = Chunk(m)
  /\ \A m : Png!ChunkSize(m) = ChunkSize(m)
  /\ \A f, x : Png!Recursion(f, x) = Recursion(f, x)
  /\ \A x, y : Png!Larger(x, y) = Larger(x, y)
  /\ \A t, f, w, h, d, m, a : Png!Sized(t, f, w, h, d, m, a) = Sized(t, f, w, h, d, m, a)
  /\ \A s, p : Png!ByteWritten(s, p) = ByteWritten(s, p)
<1>1. \A b, n : Png!GetMipSize(b, n) = GetMipSize(b, n)
  BY DEF Png!GetMipSize, GetMipSize, Png!LevelBytes, LevelBytes, Png!GetTrueMipCount,
         GetTrueMipCount, Png!BitLength, BitLength, Png!Shr, Shr, Png!Recursion, Recursion,
         Png!Halved, Halved, Png!Larger, Larger, Png!Total, Total, Png!IsCompressed,
         IsCompressed, Png!IsCompressedFormat, IsCompressedFormat, Png!IsDds10Format,
         IsDds10Format, Png!AlignUp4, AlignUp4, Png!GetBlockByteSize, GetBlockByteSize,
         Png!GetBytesPerPixel, GetBytesPerPixel, Png!GetMipWidth, GetMipWidth, Png!GetMipHeight,
         GetMipHeight, Png!GetMipDepth, GetMipDepth, Png!LevelSide, LevelSide
<1>2. \A b : Png!Resize(b) <=> Resize(b)
  BY DEF Png!Resize, Resize, Png!GetDataSize, GetDataSize, Png!Unknown, Unknown, Png!LevelBytes,
         LevelBytes, Png!GetTrueMipCount, GetTrueMipCount, Png!BitLength, BitLength, Png!Shr,
         Shr, Png!Recursion, Recursion, Png!Halved, Halved, Png!Larger, Larger, Png!Total,
         Total, Png!IsCompressed, IsCompressed, Png!IsCompressedFormat, IsCompressedFormat,
         Png!IsDds10Format, IsDds10Format, Png!AlignUp4, AlignUp4, Png!GetBlockByteSize,
         GetBlockByteSize, Png!GetBytesPerPixel, GetBytesPerPixel
<1>3. \A f, w, h, step : Png!Create(f, w, h, step) <=> Create(f, w, h, step)
  BY DEF Png!Create, Create, Png!Sized, Sized, Png!GetDataSize, GetDataSize, Png!Resize, Resize,
         Png!Unknown, Unknown, Png!Goto, Goto, Png!Fail, Fail, Png!Return, Return,
         Png!ReturnFault, ReturnFault, Png!Finished, Finished, Png!Called, Called, Png!Destroy,
         Destroy, Png!Destroyed, Destroyed, Png!PIXEL_FORMAT_UNKNOWN, PIXEL_FORMAT_UNKNOWN,
         Png!LevelBytes, LevelBytes, Png!GetTrueMipCount, GetTrueMipCount, Png!BitLength,
         BitLength, Png!Shr, Shr, Png!Recursion, Recursion, Png!Halved, Halved, Png!Larger,
         Larger, Png!Total, Total, Png!IsCompressed, IsCompressed, Png!IsCompressedFormat,
         IsCompressedFormat, Png!IsDds10Format, IsDds10Format, Png!AlignUp4, AlignUp4,
         Png!GetBlockByteSize, GetBlockByteSize, Png!GetBytesPerPixel, GetBytesPerPixel
<1>4. \A f, w, h, step : Png!CreateFromBitmapDimensions(f, w, h, step) <=> CreateFromBitmapDimensions(f, w, h, step)
  BY DEF Png!CreateFromBitmapDimensions, CreateFromBitmapDimensions, Png!Sized, Sized,
         Png!GetDataSize, GetDataSize, Png!Resize, Resize, Png!Unknown, Unknown, Png!Goto, Goto,
         Png!Return, Return, Png!ReturnFault, ReturnFault, Png!Finished, Finished, Png!Called,
         Called, Png!LevelBytes, LevelBytes, Png!GetTrueMipCount, GetTrueMipCount,
         Png!BitLength, BitLength, Png!Shr, Shr, Png!Recursion, Recursion, Png!Halved, Halved,
         Png!Larger, Larger, Png!Total, Total, Png!IsCompressed, IsCompressed,
         Png!IsCompressedFormat, IsCompressedFormat, Png!IsDds10Format, IsDds10Format,
         Png!AlignUp4, AlignUp4, Png!GetBlockByteSize, GetBlockByteSize, Png!GetBytesPerPixel,
         GetBytesPerPixel
<1>5. \A b : Png!Destroyed(b) = Destroyed(b)
  BY DEF Png!Destroyed, Destroyed, Png!PIXEL_FORMAT_UNKNOWN, PIXEL_FORMAT_UNKNOWN
<1>6. Png!NoBitmap = NoBitmap
  BY DEF Png!NoBitmap, NoBitmap, Png!Sized, Sized, Png!PIXEL_FORMAT_UNKNOWN,
         PIXEL_FORMAT_UNKNOWN
<1>7. \A kind : Png!IsWhole(kind) <=> IsWhole(kind)
  BY DEF Png!IsWhole, IsWhole, Png!IsAt, IsAt, Png!Holds, Holds
<1>8. \A s, p : Png!HeaderIsValid(s, p) <=> HeaderIsValid(s, p)
  BY DEF Png!HeaderIsValid, HeaderIsValid, Png!IsAt, IsAt
<1>9. \A s, p : Png!ChunkStrings(s, p) = ChunkStrings(s, p)
  BY DEF Png!ChunkStrings, ChunkStrings, Png!HEADER_SIZE, HEADER_SIZE, Png!ENTRY_SIZE,
         ENTRY_SIZE
<1>10. \A m : Png!Chunk(m) = Chunk(m)
  BY DEF Png!Chunk, Chunk, Png!Piece, Piece, Png!ChunkSize, ChunkSize, Png!Entries, Entries,
         Png!Characters, Characters, Png!TextOffset, TextOffset, Png!TextSize, TextSize,
         Png!Text, Text, Png!Total, Total, Png!Recursion, Recursion, Png!HEADER_SIZE,
         HEADER_SIZE, Png!ENTRY_SIZE, ENTRY_SIZE
<1>11. \A m : Png!ChunkSize(m) = ChunkSize(m)
  BY DEF Png!ChunkSize, ChunkSize, Png!TextOffset, TextOffset, Png!TextSize, TextSize, Png!Text,
         Text, Png!Total, Total, Png!Recursion, Recursion, Png!ENTRY_SIZE, ENTRY_SIZE
<1>12. \A f, x : Png!Recursion(f, x) = Recursion(f, x)
  BY DEF Png!Recursion, Recursion
<1>13. \A x, y : Png!Larger(x, y) = Larger(x, y)
  BY DEF Png!Larger, Larger
<1>14. \A t, f, w, h, d, m, a : Png!Sized(t, f, w, h, d, m, a) = Sized(t, f, w, h, d, m, a)
  BY DEF Png!Sized, Sized
<1>15. \A s, p : Png!ByteWritten(s, p) = ByteWritten(s, p)
  BY DEF Png!ByteWritten, ByteWritten, Png!StartsBefore, StartsBefore, Png!Unknown, Unknown
<1> QED BY <1>1, <1>2, <1>3, <1>4, <1>5, <1>6, <1>7, <1>8, <1>9, <1>10, <1>11, <1>12, <1>13,
           <1>14, <1>15

(* PNG: a bitmap is valid in the same cases.                               *)
LEMMA PngValid ==
  /\ \A b : Png!IsValid(b) <=> IsValid(b)
<1>1. \A b : Png!IsValid(b) <=> IsValid(b)
  BY DEF Png!IsValid, IsValid
<1> QED BY <1>1

(* PNG: the program is stopped in the same way.                            *)
LEMMA PngCrash == Png!Crash <=> Crash
BY DEF Png!Crash, Crash, Png!Return, Return, Png!Finished, Finished, Png!Called, Called,
       Png!NoBitmap, NoBitmap, Png!Sized, Sized, Png!PIXEL_FORMAT_UNKNOWN, PIXEL_FORMAT_UNKNOWN,
       Png!NoMetadata, NoMetadata

-----------------------------------------------------------------------------
(* PNG: the reads                                                          *)

(* PNG: the read of the signature keeps the invariant.                     *)
LEMMA PngSignatureIsRead ==
  ASSUME Inv, Png!ReadSignature
  PROVE  Inv'
<1>1. At("ReadPng", "Signature") /\ UNCHANGED <<file, bitmap, pixels, metadata>>
  BY PngCalls DEF Png!ReadSignature
<1>2. /\ Common /\ PngReads /\ IsTyped(call) /\ call.op = "ReadPng" /\ metadata' \in MetadataType
  BY <1>1 DEF Inv, Common, During, Running, At
<1>3. CASE \/ ReturnFault("READ_FAILURE") \/ ReturnFault("INVALID_HEADER")
           \/ ReturnFault("OUT_OF_MEMORY") \/ Return("INVALID_HEADER")
  <2>1. {"READ_FAILURE", "INVALID_HEADER", "OUT_OF_MEMORY"} \subseteq Result \ {"OK"}
    BY DEF Result
  <2> QED BY <1>1, <1>2, <1>3, <2>1, ReturnKeeps
<1>4. CASE call' = [call EXCEPT !.step = "Info", !.position = 8]
  <2>1. /\ IsTyped(call') /\ call'.beyond = call.beyond /\ call'.op = "ReadPng"
        /\ call'.step = "Info" /\ call'.row = call.row /\ call'.position = 8
    BY <1>2, <1>4 DEF IsTyped
  <2>2. Common'
    BY <1>1, <1>2, <2>1, CommonStays
  <2>3. PngReads'
    BY <1>1, <1>2, <2>1 DEF PngReads, At
  <2> QED BY <2>1, <2>2, <2>3, GoesOnReading
<1>5. \/ ReturnFault("READ_FAILURE") \/ ReturnFault("INVALID_HEADER")
      \/ ReturnFault("OUT_OF_MEMORY") \/ Return("INVALID_HEADER")
      \/ call' = [call EXCEPT !.step = "Info", !.position = 8]
  BY PngCalls DEF Png!ReadSignature, Png!SIGNATURE_SIZE
<1> QED BY <1>3, <1>4, <1>5

(* Texts but one are texts.                                                *)
LEMMA WithoutType ==
  ASSUME NEW texts \in Seq(Strings \X Strings), NEW lost \in DOMAIN texts
  PROVE  Png!Without(texts, lost) \in Seq(Strings \X Strings)
<1> DEFINE n == Len(texts)
           s == [i \in 1 .. n - 1 |-> texts[IF i < lost THEN i ELSE i + 1]]
<1>1. n - 1 \in Nat /\ n \in Nat /\ lost \in 1 .. n
  OBVIOUS
<1>2. \A i \in 1 .. n - 1 : texts[IF i < lost THEN i ELSE i + 1] \in Strings \X Strings
  OBVIOUS
<1> HIDE DEF n
<1>3. s \in [1 .. n - 1 -> Strings \X Strings]
  BY <1>2
<1> HIDE DEF s
<1>4. s \in Seq(Strings \X Strings)
  BY <1>1, <1>3
<1> QED BY <1>4 DEF Png!Without, s, n

(* PNG: the read of the chunks ahead of the rows keeps the invariant.      *)
LEMMA PngInfoIsRead ==
  ASSUME Inv, Png!ReadInfo
  PROVE  Inv'
<1> DEFINE chunk  == file.at[call.position]
           i      == chunk.value
           set(texts) == [cutout |-> IF i.offset THEN "set" ELSE "default", strings |-> texts]
<1>1. At("ReadPng", "Info") /\ UNCHANGED <<file, bitmap, pixels>>
  BY PngCalls DEF Png!ReadInfo
<1>2. /\ Common /\ PngReads /\ IsTyped(call) /\ IsFile(file) /\ call.op = "ReadPng"
      /\ metadata \in MetadataType /\ call.position = 8
  BY <1>1 DEF Inv, Common, During, Running, At, PngReads
<1>3. CASE (ReturnFault("INVALID_HEADER") \/ Return("INVALID_HEADER")) /\ UNCHANGED metadata
  <2>1. "INVALID_HEADER" \in Result \ {"OK"}
    BY DEF Result
  <2> QED BY <1>1, <1>2, <1>3, <2>1, ReturnKeeps
<1>4. ASSUME IsAt(file, 8, "info"), NEW faults \in BOOLEAN,
             call' = [call EXCEPT !.step = "Create", !.position = @ + chunk.size, !.header = i,
                                  !.faults = faults],
             NEW texts, \/ texts = i.texts
                        \/ faults /\ \E lost \in DOMAIN i.texts : texts = Png!Without(i.texts, lost),
             metadata' = IF call.wants THEN set(texts) ELSE metadata
      PROVE  Inv'
  <2>1. /\ IsPiece(chunk) /\ chunk.size \in Nat /\ i \in Png!Infos
        /\ i.texts \in {file.strings, Png!SavedTexts(file.strings)}
    BY <1>2, <1>4 DEF IsFile, IsPiece, IsAt, HasMetadata
  <2>2. i.texts \in Seq(Strings \X Strings)
    BY <2>1 DEF Png!Infos
  <2>3. texts \in Seq(Strings \X Strings)
    BY <1>4, <2>2, WithoutType
  <2> HIDE DEF chunk, i
  <2>4. metadata' \in MetadataType
    BY <1>2, <1>4, <2>3 DEF MetadataType
  <2>5. /\ IsTyped(call') /\ call'.beyond = call.beyond /\ call'.op = "ReadPng"
        /\ call'.step = "Create" /\ call'.header = i /\ call'.wants = call.wants
    BY <1>2, <1>4, <2>1 DEF IsTyped
  <2>6. call'.row = call.row /\ call'.faults = faults
    BY <1>2, <1>4 DEF IsTyped
  <2>7. Common'
    BY <1>1, <1>2, <2>4, <2>5, CommonStays
  <2>8. HeaderOf("info", 8)'
    BY <1>1, <1>2, <1>4, <2>5 DEF HeaderOf, IsAt, i, chunk
  <2>9. call'.wants => PngFound'
    BY <1>1, <1>4, <2>1, <2>5, <2>6 DEF PngFound
  <2>10. call'.row = 0
    BY <1>1, <1>2, <2>6 DEF PngReads, At
  <2>11. PngReads'
    BY <1>1, <1>2, <2>5, <2>8, <2>9, <2>10 DEF PngReads
  <2> QED BY <2>5, <2>7, <2>11, GoesOnReading
<1>5. Png!IsWhole("info") => IsAt(file, 8, "info")
  BY <1>2, PngOthers DEF IsWhole
<1>6. CASE /\ Png!IsWhole("info")
           /\ call' = [call EXCEPT !.step = "Create", !.position = @ + chunk.size, !.header = i]
           /\ metadata' = IF call.wants THEN set(i.texts) ELSE metadata
  <2>1. call' = [call EXCEPT !.step = "Create", !.position = @ + chunk.size, !.header = i,
                             !.faults = call.faults]
    <3> HIDE DEF chunk, i
    <3> QED BY <1>2, <1>6 DEF IsTyped
  <2>2. call.faults \in BOOLEAN
    BY <1>2 DEF IsTyped
  <2> HIDE DEF chunk, i, set
  <2> QED BY <1>4, <1>5, <1>6, <2>1, <2>2
<1>7. CASE /\ Png!IsWhole("info")
           /\ call' = [call EXCEPT !.step = "Create", !.position = @ + chunk.size, !.header = i,
                                   !.faults = TRUE]
           /\ \E lost \in DOMAIN i.texts :
                metadata' = IF call.wants THEN set(Png!Without(i.texts, lost)) ELSE metadata
  <2>1. PICK lost \in DOMAIN i.texts :
               metadata' = IF call.wants THEN set(Png!Without(i.texts, lost)) ELSE metadata
    BY <1>7
  <2> HIDE DEF chunk, i, set
  <2> QED BY <1>4, <1>5, <1>7, <2>1
<1>8. \/ (ReturnFault("INVALID_HEADER") \/ Return("INVALID_HEADER")) /\ UNCHANGED metadata
      \/ /\ Png!IsWhole("info")
         /\ call' = [call EXCEPT !.step = "Create", !.position = @ + chunk.size, !.header = i]
         /\ metadata' = IF call.wants THEN set(i.texts) ELSE metadata
      \/ /\ Png!IsWhole("info")
         /\ call' = [call EXCEPT !.step = "Create", !.position = @ + chunk.size, !.header = i,
                                 !.faults = TRUE]
         /\ \E lost \in DOMAIN i.texts :
              metadata' = IF call.wants THEN set(Png!Without(i.texts, lost)) ELSE metadata
  BY <1>2, PngCalls, Zenon DEF Png!ReadInfo
<1> QED BY <1>3, <1>6, <1>7, <1>8, Zenon

(* PNG: the header that was read is one.                                   *)
LEMMA PngHeaders ==
  ASSUME Common, HeaderOf("info", 8)
  PROVE  call.header \in Png!Infos
BY DEF Common, HeaderOf, IsFile, IsPiece, IsAt

(* The numbers of bits PNG has, and the formats they are read to.          *)
PngShapes ==
  {1} \X {1, 2, 4, 8, 16} \union {2} \X {16, 32} \union {3} \X {24, 48} \union {4} \X {32, 64}

(* PNG: the formats that are read are handled, and have the bytes a pixel  *)
(* that the reader's switch writes.                                        *)
LEMMA PngFormats ==
  ASSUME NEW c, NEW b, <<c, b>> \in PngShapes
  PROVE  /\ Png!GetFormat(c, b) \in HandledFormats
         /\ c = 1 /\ b = 8 => GetBytesPerPixel(Png!GetFormat(c, b)) = 1
         /\ c = 1 /\ b = 16 => GetBytesPerPixel(Png!GetFormat(c, b)) = 2
         /\ c = 2 /\ b = 16 => GetBytesPerPixel(Png!GetFormat(c, b)) = 2
         /\ (b \in {1, 2, 4, 24} \/ (b = 32 /\ c # 1)) => GetBytesPerPixel(Png!GetFormat(c, b)) = 4
         /\ b \in {48, 64} => GetBytesPerPixel(Png!GetFormat(c, b)) = 8
<1>1. /\ Png!PIXEL_FORMAT_R8_UNORM = PIXEL_FORMAT_R8_UNORM
      /\ Png!PIXEL_FORMAT_R16_UNORM = PIXEL_FORMAT_R16_UNORM
      /\ Png!PIXEL_FORMAT_R8G8_UNORM = PIXEL_FORMAT_R8G8_UNORM
      /\ Png!PIXEL_FORMAT_R16G16_UNORM = PIXEL_FORMAT_R16G16_UNORM
      /\ Png!PIXEL_FORMAT_B8G8R8X8_UNORM = PIXEL_FORMAT_B8G8R8X8_UNORM
      /\ Png!PIXEL_FORMAT_B8G8R8A8_UNORM = PIXEL_FORMAT_B8G8R8A8_UNORM
      /\ Png!PIXEL_FORMAT_R16G16B16A16_UNORM = PIXEL_FORMAT_R16G16B16A16_UNORM
  BY DEF Png!PIXEL_FORMAT_R8_UNORM, Png!PIXEL_FORMAT_R16_UNORM, Png!PIXEL_FORMAT_R8G8_UNORM,
     Png!PIXEL_FORMAT_R16G16_UNORM, Png!PIXEL_FORMAT_B8G8R8X8_UNORM,
     Png!PIXEL_FORMAT_B8G8R8A8_UNORM, Png!PIXEL_FORMAT_R16G16B16A16_UNORM,
     PIXEL_FORMAT_R8_UNORM, PIXEL_FORMAT_R16_UNORM, PIXEL_FORMAT_R8G8_UNORM,
     PIXEL_FORMAT_R16G16_UNORM, PIXEL_FORMAT_B8G8R8X8_UNORM, PIXEL_FORMAT_B8G8R8A8_UNORM,
     PIXEL_FORMAT_R16G16B16A16_UNORM
<1>2. c \in {1, 2, 3, 4} /\ b \in {1, 2, 4, 8, 16, 24, 32, 48, 64}
      /\ (c = 1 => b \in {1, 2, 4, 8, 16}) /\ (c = 2 => b \in {16, 32})
      /\ (c = 3 => b \in {24, 48}) /\ (c = 4 => b \in {32, 64})
  BY DEF PngShapes
<1>3. /\ c = 1 /\ b = 8 => Png!GetFormat(c, b) = PIXEL_FORMAT_R8_UNORM
      /\ c = 1 /\ b = 16 => Png!GetFormat(c, b) = PIXEL_FORMAT_R16_UNORM
      /\ c = 1 /\ b \in {1, 2, 4} => Png!GetFormat(c, b) = PIXEL_FORMAT_B8G8R8A8_UNORM
      /\ c = 2 /\ b = 16 => Png!GetFormat(c, b) = PIXEL_FORMAT_R8G8_UNORM
      /\ c = 2 /\ b = 32 => Png!GetFormat(c, b) = PIXEL_FORMAT_R16G16_UNORM
      /\ c = 3 /\ b = 48 => Png!GetFormat(c, b) = PIXEL_FORMAT_R16G16B16A16_UNORM
      /\ c = 3 /\ b = 24 => Png!GetFormat(c, b) = PIXEL_FORMAT_B8G8R8X8_UNORM
      /\ c = 4 /\ b = 64 => Png!GetFormat(c, b) = PIXEL_FORMAT_R16G16B16A16_UNORM
      /\ c = 4 /\ b = 32 => Png!GetFormat(c, b) = PIXEL_FORMAT_B8G8R8A8_UNORM
  BY <1>1 DEF Png!GetFormat
<1>4. Png!GetFormat(c, b) \in HandledFormats
  BY <1>2, <1>3 DEF HandledFormats
<1> QED BY <1>2, <1>3, <1>4, Formats

(* PNG: the creation of the bitmap keeps the invariant.                    *)
LEMMA PngIsCreated ==
  ASSUME Inv, Png!CreateBitmap
  PROVE  Inv'
<1> DEFINE f    == Png!GetFormat(call.header.channels, call.header.bitsPerPixel)
           w    == call.header.width
           h    == call.header.height
<1>1. At("ReadPng", "Create") /\ UNCHANGED <<file, metadata>>
      /\ CreateFromBitmapDimensions(f, w, h, "Rows")
  BY PngCalls, PngOthers DEF Png!CreateBitmap, Png!info
<1>2. /\ Common /\ PngReads /\ IsTyped(call) /\ call.op = "ReadPng"
  BY <1>1 DEF Inv, Common, During, Running, At
<1>3. HeaderOf("info", 8) /\ call.row = 0 /\ (call.wants => PngFound)
  BY <1>1, <1>2 DEF PngReads, At
<1>4. w \in Nat /\ h \in Nat /\ <<call.header.channels, call.header.bitsPerPixel>> \in PngShapes
  BY <1>2, <1>3, PngHeaders DEF Png!Infos, PngShapes
<1>5. f \in HandledFormats
  BY <1>4, PngFormats
<1>6. CASE Creates(f, w, h, "Rows")
  <2>1. Common' /\ Fresh(bitmap', f, w, h) /\ call' = [call EXCEPT !.step = "Rows"]
    BY <1>6 DEF Creates, Goto
  <2>2. call'.op = "ReadPng" /\ call'.step = "Rows" /\ call'.row = 0 /\ call'.header = call.header
    BY <1>2, <1>3, <2>1 DEF IsTyped
  <2>3. call'.wants = call.wants /\ call'.faults = call.faults
    BY <1>2, <2>1 DEF IsTyped
  <2>4. IsNew(bitmap', f, w, h)
    BY <1>4, <1>5, <2>1, FreshIsNew
  <2>5. 0 < bitmap'.height
    BY <1>4, <2>4 DEF IsNew
  <2>6. HeaderOf("info", 8)'
    BY <1>1, <1>3, <2>2 DEF HeaderOf, IsAt
  <2>7. call'.wants => PngFound'
    BY <1>1, <1>3, <2>3 DEF PngFound
  <2>8. PngReads'
    BY <1>1, <1>2, <2>1, <2>2, <2>5, <2>6, <2>7 DEF PngReads
  <2> QED BY <2>1, <2>2, <2>8, GoesOnReading
<1> QED BY <1>1, <1>4, <1>5, <1>6, CreateFromBitmapDimensionsKeeps

(* A bit of some bytes is one of two.                                      *)
LEMMA BitType ==
  ASSUME NEW n \in Nat, NEW bytes \in [1 .. n -> Byte], NEW i \in Nat, i \div 8 < n
  PROVE  255 * Png!Bit(bytes, i) \in Byte
<1> DEFINE b == bytes[(i \div 8) + 1]
           d == <<128, 64, 32, 16, 8, 4, 2, 1>>[(i % 8) + 1]
<1>1. (i \div 8) + 1 \in 1 .. n
  OBVIOUS
<1>2. b \in Int
  <2>1. b \in Byte
    BY <1>1
  <2> HIDE DEF b
  <2>2. \A x \in Byte : x \in Int
    BY DEF Byte, Unknown
  <2> QED BY <2>1, <2>2
<1>3. d \in Nat \ {0}
  <2> DEFINE s == <<128, 64, 32, 16, 8, 4, 2, 1>>
  <2>1. s \in [1 .. 8 -> Nat \ {0}]
    OBVIOUS
  <2> HIDE DEF s
  <2>2. (i % 8) + 1 \in 1 .. 8
    OBVIOUS
  <2>3. s[(i % 8) + 1] \in Nat \ {0}
    BY <2>1, <2>2
  <2> QED BY <2>3 DEF s
<1> HIDE DEF b, d
<1>4. b \div d \in Int
  BY <1>2, <1>3
<1>5. \A x \in Int : x % 2 \in {0, 1}
  OBVIOUS
<1>6. (b \div d) % 2 \in {0, 1}
  BY <1>4, <1>5
<1>7. Png!Bit(bytes, i) = (b \div d) % 2
  BY DEF Png!Bit, b, d
<1>8. 255 * 0 = 0 /\ 255 * 1 = 255 /\ 0 \in Byte /\ 255 \in Byte
  BY DEF Byte, Unknown
<1> QED BY <1>6, <1>7, <1>8

(* What is put for a row are bytes.                                        *)
LEMMA PngRowType ==
  ASSUME NEW row \in Seq(Byte), NEW w \in Nat, bitmap.width = w, call.header.width = w,
         <<call.header.channels, call.header.bitsPerPixel>> \in PngShapes,
         Len(row) >= Png!RowBytes(call.header)
  PROVE  \A k \in DOMAIN Png!ConvertedRow(row) : Png!ConvertedRow(row)[k] \in Byte
<1> DEFINE c    == call.header.channels
           bits == call.header.bitsPerPixel
           n    == Len(row)
<1>1. 255 \in Byte
  BY DEF Byte, Unknown
<1>2. /\ n \in Nat /\ row \in [1 .. n -> Byte] /\ n >= (w * bits + 7) \div 8
      /\ bits \in {1, 2, 4, 8, 16, 24, 32, 48, 64}
      /\ (c = 3 => bits \in {24, 48}) /\ (c = 4 => bits \in {32, 64})
  BY DEF Png!RowBytes, PngShapes
<1> HIDE DEF c, bits, n
<1>3. CASE bits = 1
  <2>1. ASSUME NEW i \in 1 .. 4 * w
        PROVE  255 * Png!Bit(row, (i - 1) \div 4) \in Byte
    <3>1. (i - 1) \div 4 \in Nat /\ ((i - 1) \div 4) \div 8 < n
      BY <1>2, <1>3
    <3> QED BY <1>2, <3>1, BitType
  <2>2. Png!ConvertedRow(row)
          = [i \in 1 .. 4 * w |-> IF i % 4 = 0 THEN 255 ELSE 255 * Png!Bit(row, (i - 1) \div 4)]
    BY <1>2, <1>3 DEF Png!ConvertedRow, Png!info, c, bits
  <2> QED BY <1>1, <2>1, <2>2
<1>4. CASE c = 3 /\ bits = 48
  <2>1. ASSUME NEW i \in 1 .. 8 * w, ~ ((i - 1) % 8 >= 6)
        PROVE  row[((i - 1) \div 8) * 6 + ((i - 1) % 8) + 1] \in Byte
    <3>1. ((i - 1) \div 8) * 6 + ((i - 1) % 8) + 1 \in 1 .. n
      BY <1>2, <1>4, <2>1
    <3> QED BY <1>2, <3>1
  <2>2. Png!ConvertedRow(row)
          = [i \in 1 .. 8 * w |->
               IF (i - 1) % 8 >= 6 THEN 255 ELSE row[((i - 1) \div 8) * 6 + ((i - 1) % 8) + 1]]
    BY <1>4 DEF Png!ConvertedRow, Png!info, c, bits
  <2> QED BY <1>1, <2>1, <2>2
<1>5. CASE c = 3 /\ bits # 48
  <2>1. ASSUME NEW i \in 1 .. 4 * w, i % 4 # 0
        PROVE  row[((i - 1) \div 4) * 3 + 4 - (i % 4)] \in Byte
    <3>1. bits = 24
      BY <1>2, <1>5
    <3>2. ((i - 1) \div 4) * 3 + 4 - (i % 4) \in 1 .. n
      BY <1>2, <2>1, <3>1
    <3> QED BY <1>2, <3>2
  <2>2. Png!ConvertedRow(row)
          = [i \in 1 .. 4 * w |->
               IF i % 4 = 0 THEN 255 ELSE row[((i - 1) \div 4) * 3 + 4 - (i % 4)]]
    <3>1. bits # 1
      BY <1>2, <1>5
    <3> QED BY <1>5, <3>1 DEF Png!ConvertedRow, Png!info, c, bits
  <2> QED BY <1>1, <2>1, <2>2
<1>6. CASE c = 4 /\ bits = 32
  <2>1. ASSUME NEW i \in 1 .. 4 * w, i % 4 # 0
        PROVE  row[((i - 1) \div 4) * 4 + 4 - (i % 4)] \in Byte
    <3>1. ((i - 1) \div 4) * 4 + 4 - (i % 4) \in 1 .. n
      BY <1>2, <1>6, <2>1
    <3> QED BY <1>2, <3>1
  <2>2. \A i \in 1 .. 4 * w : row[i] \in Byte
    BY <1>2, <1>6
  <2>3. Png!ConvertedRow(row)
          = [i \in 1 .. 4 * w |->
               IF i % 4 = 0 THEN row[i] ELSE row[((i - 1) \div 4) * 4 + 4 - (i % 4)]]
    BY <1>6 DEF Png!ConvertedRow, Png!info, c, bits
  <2> QED BY <2>1, <2>2, <2>3
<1>7. CASE bits # 1 /\ c # 3 /\ ~ (c = 4 /\ bits = 32)
  <2>1. Png!ConvertedRow(row) = row
    BY <1>7 DEF Png!ConvertedRow, Png!info, c, bits
  <2> QED BY <1>2, <2>1
<1> QED BY <1>3, <1>4, <1>5, <1>6, <1>7

(* A row of the file is not larger than the bitmap's, where it is read to  *)
(* the bitmap.                                                             *)
LEMMA PngStride ==
  ASSUME NEW w \in Nat \ {0}, NEW c, NEW bits, <<c, bits>> \in PngShapes,
         ~ ((bits = 1 /\ c = 1) \/ c = 3)
  PROVE  (w * bits + 7) \div 8 <= w * GetBytesPerPixel(Png!GetFormat(c, bits))
<1> DEFINE bpp == GetBytesPerPixel(Png!GetFormat(c, bits))
<1>1. \/ c = 1 /\ bits \in {2, 4} /\ bpp = 4
      \/ c = 1 /\ bits = 8 /\ bpp = 1
      \/ bits = 16 /\ bpp = 2
      \/ bits = 32 /\ bpp = 4
      \/ bits = 64 /\ bpp = 8
  <2>1. c \in {1, 2, 3, 4} /\ (c = 1 => bits \in {1, 2, 4, 8, 16}) /\ (c = 2 => bits \in {16, 32})
        /\ (c = 4 => bits \in {32, 64})
    BY DEF PngShapes
  <2> QED BY <2>1, PngFormats
<1> HIDE DEF bpp
<1>2. (w * bits + 7) \div 8 <= w * bpp
  BY <1>1
<1> QED BY <1>2 DEF bpp

(* PNG: the read of a row keeps the invariant.                             *)
LEMMA PngRowIsRead ==
  ASSUME Inv, Png!ReadRow, ~ Crash
  PROVE  Inv'
<1> DEFINE c      == call.header.channels
           bits   == call.header.bitsPerPixel
           f      == Png!GetFormat(c, bits)
           bpp    == GetBytesPerPixel(f)
           w      == call.header.width
           h      == call.header.height
           chunk  == file.at[call.position]
           row    == chunk.value
           next   == RowDone(chunk.size, Png!RowsBeyond(call.row, row))
<1>1. At("ReadPng", "Rows") /\ UNCHANGED <<file, metadata>>
  BY PngCalls, PngCrash DEF Png!ReadRow, Png!NoPointers
<1>2. /\ Common /\ PngReads /\ IsTyped(call) /\ IsFile(file) /\ IsImage(bitmap, pixels)
      /\ call.op = "ReadPng"
  BY <1>1 DEF Inv, Common, During, Running, At
<1>3. /\ HeaderOf("info", 8) /\ (call.wants => PngFound)
      /\ Fresh(bitmap, f, w, h) /\ call.row < bitmap.height
  BY <1>1, <1>2 DEF PngReads, At
<1>4. w \in Nat /\ h \in Nat /\ <<c, bits>> \in PngShapes /\ f \in HandledFormats
  BY <1>2, <1>3, PngHeaders, PngFormats DEF Png!Infos, PngShapes
<1>5. bits \in Nat
  BY <1>4 DEF PngShapes
<1>6. IsNew(bitmap, f, w, h) /\ bpp \in Nat \ {0}
  BY <1>3, <1>4, FreshIsNew, HandledFormatsAreFlat
<1> HIDE DEF bpp
<1>7. /\ bitmap.width = w /\ bitmap.height = h /\ w \in Nat \ {0} /\ h \in Nat \ {0}
      /\ bitmap.data = h * (w * bpp) /\ GetPitch(bitmap) = w * bpp
      /\ pixels \in [1 .. bitmap.data -> Byte]
  BY <1>2, <1>4, <1>6 DEF IsNew, IsImage, bpp
<1>8. call.row \in Nat /\ call.position \in Nat
  BY <1>2 DEF IsTyped
<1> HIDE DEF c, bits, f, w, h
<1>9. CASE FailOnFault("OUT_OF_MEMORY") \/ FailOnFault("INVALID_DATA") \/ Fail("INVALID_DATA")
  <2>1. "OUT_OF_MEMORY" \in Result \ {"OK"} /\ "INVALID_DATA" \in Result \ {"OK"}
    BY DEF Result
  <2> QED BY <1>1, <1>9, <2>1, FailKeeps
<1>10. CASE /\ Png!IsWhole("row")
            /\ pixels' = Put(pixels, Png!RowStart(call.row), Png!ConvertedRow(row))
            /\ call' = IF next.row = bitmap.height THEN Finished(next, "OK", call.faults) ELSE next
            /\ UNCHANGED bitmap
  <2>1. IsAt(file, call.position, "row")
    BY <1>10, PngOthers DEF IsWhole
  <2>2. Png!IsRowOf(call.header, row) /\ chunk.size \in Nat
    BY <1>2, <1>3, <2>1 DEF IsFile, HasRows, HeaderOf, IsAt, IsPiece
  <2> HIDE DEF chunk, row
  <2>3. /\ row \in Seq(Byte) /\ Len(row) >= Png!RowBytes(call.header)
        /\ Len(row) = Png!RowBytes(call.header) \/ call.header.keyed
    BY <2>2 DEF Png!IsRowOf, Png!Byte, Png!Unknown, Byte, Unknown
  <2> DEFINE stride == Png!RowBytes(call.header)
  <2>4. stride = (w * bits + 7) \div 8 /\ stride \in Nat
    BY <1>5, <1>7 DEF Png!RowBytes, w, bits
  <2>5. Png!Stride = stride
    BY DEF Png!Stride, Png!info
  <2> HIDE DEF stride
  <2>6. pixels' \in [1 .. bitmap.data -> Byte]
    <3>1. \A k \in DOMAIN Png!ConvertedRow(row) : Png!ConvertedRow(row)[k] \in Byte
      BY <1>4, <1>7, <2>3, PngRowType DEF c, bits, w
    <3>2. Png!RowStart(call.row) \in Int
      <4>1. w * bpp \in Nat
        BY <1>4, <1>6, ProductType
      <4>2. call.row * (w * bpp) \in Nat /\ call.row * stride \in Nat
        BY <1>8, <2>4, <4>1, ProductType
      <4>3. \/ Png!RowStart(call.row) = call.row * (w * bpp)
            \/ Png!RowStart(call.row) = call.row * stride
        BY <1>7, <2>5, PngStream DEF Png!RowStart
      <4> QED BY <4>2, <4>3
    <3> QED BY <1>7, <1>10, <3>1, <3>2, PutType
  <2>7. Png!RowsBeyond(call.row, row) => MayGoBeyond
    <3>1. CASE call.header.keyed
      <4>1. call.header \in PngInfo
        BY <1>3 DEF HeaderOf, PngInfo, Png!SIGNATURE_SIZE
      <4> QED BY <3>1, <4>1 DEF MayGoBeyond
    <3>2. CASE ~ call.header.keyed
      <4>1. Len(row) = stride
        BY <2>3, <3>2 DEF stride
      <4>2. call.row * stride + stride <= h * stride /\ call.row * stride \in Nat /\ h * stride \in Nat
        BY <1>3, <1>7, <1>8, <2>4, RowsFit
      <4>3. CASE Png!HasBuffer
        <5>1. Png!RowsBeyond(call.row, row) <=> call.row * stride + stride > h * stride
          BY <1>7, <2>5, <4>1, <4>3 DEF Png!RowsBeyond
        <5> QED BY <2>4, <4>2, <5>1
      <4>4. CASE ~ Png!HasBuffer
        <5>1. Png!RowsBeyond(call.row, row) <=> call.row * stride + stride > h * (w * bpp)
          BY <1>7, <2>5, <4>1, <4>4 DEF Png!RowsBeyond
        <5>2. stride <= w * bpp
          BY <1>4, <1>7, <2>4, <4>4, PngStride DEF Png!HasBuffer, Png!info, c, bits, f, bpp
        <5>3. w * bpp \in Nat
          BY <1>4, <1>6, ProductType
        <5>4. \A x, y \in Nat : x <= y => h * x <= h * y
          BY <1>7
        <5>5. h * stride <= h * (w * bpp) /\ h * (w * bpp) \in Nat
          BY <1>4, <2>4, <5>2, <5>3, <5>4, ProductType
        <5> QED BY <2>4, <4>2, <5>1, <5>5
      <4> QED BY <4>3, <4>4
    <3> QED BY <3>1, <3>2
  <2> DEFINE beyond == Png!RowsBeyond(call.row, row)
  <2>8. next = [call EXCEPT !.row = @ + 1, !.position = @ + chunk.size, !.beyond = @ \/ beyond]
    BY DEF RowDone
  <2> HIDE DEF next, beyond
  <2>9. /\ IsTyped(next) /\ next.op = "ReadPng" /\ next.step = "Rows" /\ next.row = call.row + 1
        /\ next.header = call.header /\ next.wants = call.wants
    BY <1>1, <1>2, <1>8, <2>2, <2>8 DEF IsTyped, At
  <2>10. next.faults = call.faults /\ (next.beyond => call.beyond \/ MayGoBeyond)
    <3>1. next.faults = call.faults /\ (next.beyond => call.beyond \/ beyond)
      BY <1>2, <2>8 DEF IsTyped
    <3> QED BY <2>7, <3>1 DEF beyond
  <2>11. CASE next.row = bitmap.height
    <3>1. call' = Finished(next, "OK", call.faults)
      BY <1>10, <2>11
    <3>2. "OK" \in Result
      BY DEF Result
    <3>3. /\ IsTyped(call') /\ call'.op = "ReadPng" /\ call'.step = "Done"
          /\ call'.wants = call.wants /\ call'.beyond = next.beyond /\ call'.faults = call.faults
      BY <1>2, <2>9, <3>1, <3>2 DEF Finished, Called, IsTyped
    <3>4. Common'
      BY <1>1, <1>2, <1>10, <2>6, <2>10, <3>3, PixelsPut
    <3>5. call'.wants => PngFound'
      BY <1>1, <1>3, <3>3 DEF PngFound
    <3>6. MetadataComeFromTheFile'
      BY <3>3, <3>5 DEF MetadataComeFromTheFile, PngFound
    <3> QED BY <3>3, <3>4, <3>6, Over
  <2>12. CASE next.row # bitmap.height
    <3>1. call' = next
      BY <1>10, <2>12
    <3>2. Common'
      BY <1>1, <1>2, <1>10, <2>6, <2>9, <2>10, <3>1, PixelsPut
    <3>3. call'.wants => PngFound'
      BY <1>1, <1>3, <2>9, <2>10, <3>1 DEF PngFound
    <3>4. HeaderOf("info", 8)'
      BY <1>1, <1>3, <2>9, <3>1 DEF HeaderOf, IsAt
    <3>5. call'.row < bitmap'.height
      BY <1>3, <1>7, <1>8, <1>10, <2>9, <2>12, <3>1
    <3>6. PngReads'
      BY <1>1, <1>2, <1>3, <1>10, <2>9, <3>1, <3>3, <3>4, <3>5 DEF PngReads, c, bits, f, w, h
    <3> QED BY <2>9, <3>1, <3>2, <3>6, GoesOnReading
  <2> QED BY <2>11, <2>12
<1>11. Png!RowDone(chunk.size, Png!RowsBeyond(call.row, row)) = next
  BY PngCalls
<1> HIDE DEF next
<1>12. \/ Png!FailOnFault("OUT_OF_MEMORY") \/ Png!FailOnFault("INVALID_DATA") \/ Png!Fail("INVALID_DATA")
       \/ /\ Png!IsWhole("row")
          /\ pixels' = Png!Put(pixels, Png!RowStart(call.row), Png!ConvertedRow(row))
          /\ call' = IF next.row = bitmap.height THEN Png!Finished(next, "OK", call.faults) ELSE next
          /\ UNCHANGED bitmap
  BY <1>11, PngCrash DEF Png!ReadRow, Png!NoPointers
<1> QED BY <1>9, <1>10, <1>12, PngCalls, PngStream

-----------------------------------------------------------------------------
(* PNG: the saves                                                          *)

PngKinds == {"signature", "info", "row", "end", "part"}

(* A row that is written is one of the header that was.                    *)
RowsArePngs(f) ==
  /\ Kinds(f, PngKinds)
  /\ \A o \in DOMAIN f.at : f.at[o].kind = "info" => f.at[o].value = Png!SavedInfo
  /\ \A o \in DOMAIN f.at : f.at[o].kind = "row" => Png!IsRowOf(Png!SavedInfo, f.at[o].value)

PngPiece(p) ==
  /\ IsPiece(p) /\ p.kind \in PngKinds
  /\ p.kind = "info" => p.value = Png!SavedInfo
  /\ p.kind = "row" => Png!IsRowOf(Png!SavedInfo, p.value)

(* PNG: a file whose rows belong to its header is one when another such    *)
(* piece is appended.                                                      *)
LEMMA PngFileGrows ==
  ASSUME NEW f, IsFile(f), f.cut, f.codec = "png", RowsArePngs(f), NEW p, PngPiece(p),
         Png!SavedInfo.texts \in {f.strings, Png!SavedTexts(f.strings)}
  PROVE  LET g == Appended(f, p)
         IN  IsFile(g) /\ g.cut /\ g.codec = "png" /\ RowsArePngs(g) /\ g.strings = f.strings
<1> DEFINE g == Appended(f, p)
<1>1. /\ g.codec = f.codec /\ g.strings = f.strings
      /\ DOMAIN g.at = DOMAIN f.at \union {f.size} /\ g.at[f.size] = p
      /\ \A o \in DOMAIN f.at : o # f.size => g.at[o] = f.at[o]
  BY AppendFields
<1>2. g.cut
  BY AppendFields, Zenon
<1> HIDE DEF g
<1>3. \A o \in DOMAIN g.at : g.at[o] = p \/ (o \in DOMAIN f.at /\ g.at[o] = f.at[o])
  BY <1>1
<1>4. RowsArePngs(g)
  BY <1>3 DEF RowsArePngs, PngPiece, Kinds
<1>5. \A o \in DOMAIN g.at : g.at[o].kind # "jpegHeader" /\ g.at[o].kind # "footer"
  BY <1>4 DEF RowsArePngs, Kinds, PngKinds
<1>6. HasRows(g)
  BY <1>4, <1>5 DEF HasRows, RowsArePngs
<1>7. HasHeaders(g)
  BY <1>1 DEF HasHeaders
<1>8. \A o \in DOMAIN f.at : f.at[o].kind # "footer"
  BY DEF RowsArePngs, Kinds, PngKinds
<1>9. p.kind # "footer" /\ IsPiece(p)
      /\ (p.kind = "info" => p.value.texts \in {f.strings, Png!SavedTexts(f.strings)})
  BY DEF PngPiece, PngKinds
<1>10. IsFile(g)
  BY <1>6, <1>7, <1>8, <1>9, FileGrows DEF g
<1> QED BY <1>1, <1>2, <1>4, <1>10 DEF g

(* What the kinds of pixels that can be saved are saved as.                *)
PngSavedShape(channels, bits) ==
  /\ <<channels, bits>> \in PngShapes
  /\ Png!SavedInfo.channels = channels /\ Png!SavedInfo.bitsPerPixel = bits
  /\ \/ /\ Png!IsColour /\ channels = 3 /\ bits = 24 /\ GetBytesPerPixel(bitmap.format) = 4
     \/ /\ ~ Png!IsColour /\ bitmap.format = PIXEL_FORMAT_B8G8R8A8_UNORM
        /\ channels = 4 /\ bits = 32 /\ GetBytesPerPixel(bitmap.format) = 4
     \/ /\ ~ Png!IsColour /\ bitmap.format # PIXEL_FORMAT_B8G8R8A8_UNORM
        /\ GetBytesPerPixel(bitmap.format) * 8 = bits

(* PNG: what is saved is a plain picture of one of the shapes the writer   *)
(* knows.                                                                  *)
LEMMA PngCanBeSaved ==
  ASSUME Png!CanSave
  PROVE  /\ bitmap.format \in HandledFormats /\ bitmap.type \in {"1D", "2D"} /\ bitmap.arraySize = 1
         /\ \E channels, bits : PngSavedShape(channels, bits)
<1>1. /\ Png!PIXEL_FORMAT_R8_UNORM = PIXEL_FORMAT_R8_UNORM
      /\ Png!PIXEL_FORMAT_A8_UNORM = PIXEL_FORMAT_A8_UNORM
      /\ Png!PIXEL_FORMAT_R16_UNORM = PIXEL_FORMAT_R16_UNORM
      /\ Png!PIXEL_FORMAT_B8G8R8X8_UNORM = PIXEL_FORMAT_B8G8R8X8_UNORM
      /\ Png!PIXEL_FORMAT_B8G8R8A8_UNORM = PIXEL_FORMAT_B8G8R8A8_UNORM
      /\ Png!PIXEL_FORMAT_R16G16B16A16_UNORM = PIXEL_FORMAT_R16G16B16A16_UNORM
      /\ Png!PIXEL_FORMAT_R10G10B10A2_UNORM = PIXEL_FORMAT_R10G10B10A2_UNORM
      /\ Png!PIXEL_FORMAT_R10G10B10A2_TYPELESS = PIXEL_FORMAT_R10G10B10A2_TYPELESS
  BY DEF Png!PIXEL_FORMAT_R8_UNORM, Png!PIXEL_FORMAT_A8_UNORM, Png!PIXEL_FORMAT_R16_UNORM,
     Png!PIXEL_FORMAT_B8G8R8X8_UNORM, Png!PIXEL_FORMAT_B8G8R8A8_UNORM,
     Png!PIXEL_FORMAT_R16G16B16A16_UNORM, Png!PIXEL_FORMAT_R10G10B10A2_UNORM,
     Png!PIXEL_FORMAT_R10G10B10A2_TYPELESS, PIXEL_FORMAT_R8_UNORM, PIXEL_FORMAT_A8_UNORM,
     PIXEL_FORMAT_R16_UNORM, PIXEL_FORMAT_B8G8R8X8_UNORM, PIXEL_FORMAT_B8G8R8A8_UNORM,
     PIXEL_FORMAT_R16G16B16A16_UNORM, PIXEL_FORMAT_R10G10B10A2_UNORM,
     PIXEL_FORMAT_R10G10B10A2_TYPELESS
<1> DEFINE f == bitmap.format
<1>2. /\ bitmap.type \in {"1D", "2D"} /\ bitmap.arraySize = 1
      /\ f \in {PIXEL_FORMAT_R8_UNORM, PIXEL_FORMAT_A8_UNORM, PIXEL_FORMAT_R16_UNORM,
                PIXEL_FORMAT_B8G8R8X8_UNORM, PIXEL_FORMAT_B8G8R8A8_UNORM,
                PIXEL_FORMAT_R16G16B16A16_UNORM, PIXEL_FORMAT_R10G10B10A2_UNORM,
                PIXEL_FORMAT_R10G10B10A2_TYPELESS}
  BY <1>1 DEF Png!CanSave, Png!SavedFormats
<1>3. /\ Png!IsGrey <=> f \in {PIXEL_FORMAT_R8_UNORM, PIXEL_FORMAT_A8_UNORM, PIXEL_FORMAT_R16_UNORM}
      /\ Png!IsColour <=> f \in {PIXEL_FORMAT_B8G8R8X8_UNORM, PIXEL_FORMAT_R10G10B10A2_UNORM,
                                 PIXEL_FORMAT_R10G10B10A2_TYPELESS}
      /\ Png!IsWide <=> f \in {PIXEL_FORMAT_R16_UNORM, PIXEL_FORMAT_R16G16B16A16_UNORM}
  BY <1>1 DEF Png!IsGrey, Png!IsColour, Png!Is1010102, Png!IsWide
<1>4. f \in HandledFormats
  BY <1>2 DEF HandledFormats
<1>5. /\ PIXEL_FORMAT_R8_UNORM # PIXEL_FORMAT_B8G8R8A8_UNORM
      /\ PIXEL_FORMAT_A8_UNORM # PIXEL_FORMAT_B8G8R8A8_UNORM
      /\ PIXEL_FORMAT_R16_UNORM # PIXEL_FORMAT_B8G8R8A8_UNORM
      /\ PIXEL_FORMAT_R16G16B16A16_UNORM # PIXEL_FORMAT_B8G8R8A8_UNORM
  BY Formats
<1> DEFINE channels == CASE Png!IsGrey -> 1 [] Png!IsColour -> 3
                         [] ~ Png!IsGrey /\ ~ Png!IsColour -> 4
           depth    == IF Png!IsWide THEN 16 ELSE 8
<1>6. /\ Png!SavedInfo.channels = channels
      /\ Png!SavedInfo.bitsPerPixel = channels * depth
  BY DEF Png!SavedInfo, Png!Info
<1>7. f \in {PIXEL_FORMAT_R8_UNORM, PIXEL_FORMAT_A8_UNORM} =>
        Png!IsGrey /\ ~ Png!IsColour /\ ~ Png!IsWide /\ GetBytesPerPixel(f) = 1
  BY <1>3, Formats DEF PIXEL_FORMAT_R8_UNORM, PIXEL_FORMAT_A8_UNORM, PIXEL_FORMAT_R16_UNORM,
     PIXEL_FORMAT_B8G8R8X8_UNORM, PIXEL_FORMAT_R10G10B10A2_UNORM,
     PIXEL_FORMAT_R10G10B10A2_TYPELESS, PIXEL_FORMAT_R16G16B16A16_UNORM
<1>8. f = PIXEL_FORMAT_R16_UNORM =>
        Png!IsGrey /\ ~ Png!IsColour /\ Png!IsWide /\ GetBytesPerPixel(f) = 2
  BY <1>3, Formats DEF PIXEL_FORMAT_R16_UNORM,
     PIXEL_FORMAT_B8G8R8X8_UNORM, PIXEL_FORMAT_R10G10B10A2_UNORM,
     PIXEL_FORMAT_R10G10B10A2_TYPELESS
<1>9. f = PIXEL_FORMAT_R16G16B16A16_UNORM =>
        ~ Png!IsGrey /\ ~ Png!IsColour /\ Png!IsWide /\ GetBytesPerPixel(f) = 8
  BY <1>3, Formats DEF PIXEL_FORMAT_R16G16B16A16_UNORM, PIXEL_FORMAT_R8_UNORM,
     PIXEL_FORMAT_A8_UNORM, PIXEL_FORMAT_R16_UNORM, PIXEL_FORMAT_B8G8R8X8_UNORM,
     PIXEL_FORMAT_R10G10B10A2_UNORM, PIXEL_FORMAT_R10G10B10A2_TYPELESS
<1>10. f = PIXEL_FORMAT_B8G8R8A8_UNORM =>
        ~ Png!IsGrey /\ ~ Png!IsColour /\ ~ Png!IsWide /\ GetBytesPerPixel(f) = 4
  BY <1>3, Formats DEF PIXEL_FORMAT_R16G16B16A16_UNORM, PIXEL_FORMAT_R8_UNORM,
     PIXEL_FORMAT_A8_UNORM, PIXEL_FORMAT_R16_UNORM, PIXEL_FORMAT_B8G8R8X8_UNORM,
     PIXEL_FORMAT_B8G8R8A8_UNORM, PIXEL_FORMAT_R10G10B10A2_UNORM,
     PIXEL_FORMAT_R10G10B10A2_TYPELESS
<1>11. f \in {PIXEL_FORMAT_B8G8R8X8_UNORM, PIXEL_FORMAT_R10G10B10A2_UNORM,
              PIXEL_FORMAT_R10G10B10A2_TYPELESS} =>
        ~ Png!IsGrey /\ Png!IsColour /\ ~ Png!IsWide /\ GetBytesPerPixel(f) = 4
  BY <1>3, Formats DEF PIXEL_FORMAT_R16G16B16A16_UNORM, PIXEL_FORMAT_R8_UNORM,
     PIXEL_FORMAT_A8_UNORM, PIXEL_FORMAT_R16_UNORM, PIXEL_FORMAT_B8G8R8X8_UNORM,
     PIXEL_FORMAT_R10G10B10A2_UNORM, PIXEL_FORMAT_R10G10B10A2_TYPELESS
<1> HIDE DEF f
<1>12. PngSavedShape(channels, channels * depth)
  <2>1. CASE f \in {PIXEL_FORMAT_R8_UNORM, PIXEL_FORMAT_A8_UNORM}
    <3>1. channels = 1 /\ depth = 8 /\ 1 * 8 = 8 /\ f # PIXEL_FORMAT_B8G8R8A8_UNORM
      BY <1>5, <1>7, <2>1
    <3> HIDE DEF channels, depth
    <3> QED BY <1>6, <1>7, <2>1, <3>1 DEF PngSavedShape, PngShapes, f
  <2>2. CASE f = PIXEL_FORMAT_R16_UNORM
    <3>1. channels = 1 /\ depth = 16 /\ 1 * 16 = 16 /\ f # PIXEL_FORMAT_B8G8R8A8_UNORM
      BY <1>5, <1>8, <2>2
    <3> HIDE DEF channels, depth
    <3> QED BY <1>6, <1>8, <2>2, <3>1 DEF PngSavedShape, PngShapes, f
  <2>3. CASE f = PIXEL_FORMAT_R16G16B16A16_UNORM
    <3>1. channels = 4 /\ depth = 16 /\ 4 * 16 = 64 /\ f # PIXEL_FORMAT_B8G8R8A8_UNORM
      BY <1>5, <1>9, <2>3
    <3> HIDE DEF channels, depth
    <3> QED BY <1>6, <1>9, <2>3, <3>1 DEF PngSavedShape, PngShapes, f
  <2>4. CASE f = PIXEL_FORMAT_B8G8R8A8_UNORM
    <3>1. channels = 4 /\ depth = 8 /\ 4 * 8 = 32
      BY <1>10, <2>4
    <3> HIDE DEF channels, depth
    <3> QED BY <1>6, <1>10, <2>4, <3>1 DEF PngSavedShape, PngShapes, f
  <2>5. CASE f \in {PIXEL_FORMAT_B8G8R8X8_UNORM, PIXEL_FORMAT_R10G10B10A2_UNORM,
                    PIXEL_FORMAT_R10G10B10A2_TYPELESS}
    <3>1. channels = 3 /\ depth = 8 /\ 3 * 8 = 24
      BY <1>11, <2>5
    <3> HIDE DEF channels, depth
    <3> QED BY <1>6, <1>11, <2>5, <3>1 DEF PngSavedShape, PngShapes, f
  <2> QED BY <1>2, <2>1, <2>2, <2>3, <2>4, <2>5 DEF f
<1> QED BY <1>2, <1>4, <1>12 DEF f

(* A row of whole bytes is of so many.                                     *)
LEMMA WholeBytes ==
  ASSUME NEW x \in Nat
  PROVE  /\ (x * 8 + 7) \div 8 = x * 1 /\ (x * 16 + 7) \div 8 = x * 2
         /\ (x * 24 + 7) \div 8 = 3 * x /\ (x * 32 + 7) \div 8 = 4 * x
         /\ (x * 32 + 7) \div 8 = x * 4 /\ (x * 64 + 7) \div 8 = x * 8
         /\ 3 * x \in Nat /\ 4 * x \in Nat
OBVIOUS

(* PNG: a row that is saved has the bytes that its header says.            *)
LEMMA PngSavedRowType ==
  ASSUME Common, IsValid(bitmap), Png!CanSave, NEW row \in 0 .. bitmap.height - 1
  PROVE  Png!IsRowOf(Png!SavedInfo, Png!SavedRow(row)) /\ Len(Png!SavedRow(row)) \in Nat
<1> DEFINE w     == bitmap.width
           bpp   == GetBytesPerPixel(bitmap.format)
           pixel(i)  == PixelOf(pixels, bitmap.format, row * w + i)
<1>1. /\ bitmap.format \in HandledFormats /\ bitmap.type \in {"1D", "2D"} /\ bitmap.arraySize = 1
      /\ IsImage(bitmap, pixels)
  BY PngCanBeSaved DEF Common
<1>2. PICK channels, bits : PngSavedShape(channels, bits)
  BY PngCanBeSaved
<1>3. /\ GetPitch(bitmap) = w * bpp
      /\ w \in Nat \ {0} /\ row * GetPitch(bitmap) \in Nat /\ GetPitch(bitmap) \in Nat \ {0}
      /\ Len(pixels) = bitmap.data /\ pixels \in Seq(Byte)
      /\ row * GetPitch(bitmap) + GetPitch(bitmap) <= bitmap.data
  BY <1>1, RowLies
<1>4. Png!PIXEL_FORMAT_B8G8R8A8_UNORM = PIXEL_FORMAT_B8G8R8A8_UNORM
  BY DEF Png!PIXEL_FORMAT_B8G8R8A8_UNORM, PIXEL_FORMAT_B8G8R8A8_UNORM
<1>5. \A i \in 0 .. w - 1 : \A k \in 1 .. bpp : pixel(i)[k] \in Byte
  BY <1>1, PixelBytes
<1>6. Png!RowBytes(Png!SavedInfo) = (w * bits + 7) \div 8
  BY <1>2 DEF PngSavedShape, Png!RowBytes, Png!SavedInfo, Png!Info
<1>7. ASSUME NEW n \in Nat, Png!SavedRow(row) \in Seq(Byte), Len(Png!SavedRow(row)) = n,
             n = (w * bits + 7) \div 8
      PROVE  Png!IsRowOf(Png!SavedInfo, Png!SavedRow(row)) /\ Len(Png!SavedRow(row)) \in Nat
  <2>1. Png!Byte = Byte
    BY DEF Png!Byte, Png!Unknown, Byte, Unknown
  <2>2. Len(Png!SavedRow(row)) = Png!RowBytes(Png!SavedInfo)
        /\ Len(Png!SavedRow(row)) >= Png!RowBytes(Png!SavedInfo)
    BY <1>6, <1>7
  <2> QED BY <1>7, <2>1, <2>2 DEF Png!IsRowOf
<1>8. CASE Png!IsColour
  <2> DEFINE colour(i) == IF Png!Is1010102
                          THEN <<Red10(pixel(i)), Green10(pixel(i)), Blue10(pixel(i))>>
                          ELSE <<pixel(i)[3], pixel(i)[2], pixel(i)[1]>>
  <2>0. bpp = 4 /\ bits = 24
    BY <1>2, <1>8 DEF PngSavedShape
  <2>1. ASSUME NEW i \in 0 .. w - 1, NEW k \in 0 .. 2
        PROVE  colour(i)[k + 1] \in Byte
    <3>1. \A n \in 1 .. 4 : pixel(i)[n] \in Byte
      BY <1>5, <2>0
    <3> HIDE DEF pixel
    <3>2. pixel(i)[1] \in Byte /\ pixel(i)[2] \in Byte /\ pixel(i)[3] \in Byte /\ pixel(i)[4] \in Byte
      BY <3>1
    <3>3. Red10(pixel(i)) \in Byte /\ Green10(pixel(i)) \in Byte /\ Blue10(pixel(i)) \in Byte
      BY <3>2, TenBits
    <3>4. k = 0 \/ k = 1 \/ k = 2
      OBVIOUS
    <3> QED BY <3>2, <3>3, <3>4
  <2>2. Png!SavedRow(row) = [i \in 1 .. 3 * w |-> colour((i - 1) \div 3)[((i - 1) % 3) + 1]]
    <3>1. bitmap.format # PIXEL_FORMAT_B8G8R8A8_UNORM
      BY <1>4, <1>8 DEF Png!IsColour, Png!Is1010102, Png!PIXEL_FORMAT_B8G8R8X8_UNORM,
         Png!PIXEL_FORMAT_R10G10B10A2_UNORM, Png!PIXEL_FORMAT_R10G10B10A2_TYPELESS,
         PIXEL_FORMAT_B8G8R8A8_UNORM
    <3> QED BY <1>4, <1>8, <3>1, PngWrites DEF Png!SavedRow
  <2> HIDE DEF colour
  <2>3. ASSUME NEW i \in 1 .. 3 * w
        PROVE  colour((i - 1) \div 3)[((i - 1) % 3) + 1] \in Byte
    <3>1. (i - 1) \div 3 \in 0 .. w - 1 /\ (i - 1) % 3 \in 0 .. 2
      BY <1>3
    <3> QED BY <2>1, <3>1
  <2>4. Png!SavedRow(row) \in [1 .. 3 * w -> Byte]
    BY <2>2, <2>3
  <2>5. 3 * w \in Nat /\ 3 * w = (w * 24 + 7) \div 8
    <3> HIDE DEF w
    <3> QED BY <1>3, WholeBytes
  <2>6. Png!SavedRow(row) \in Seq(Byte) /\ Len(Png!SavedRow(row)) = 3 * w
    BY <2>4, <2>5
  <2> QED BY <1>7, <2>0, <2>5, <2>6
<1>9. CASE ~ Png!IsColour /\ bitmap.format = PIXEL_FORMAT_B8G8R8A8_UNORM
  <2>1. bpp = 4 /\ bits = 32
    BY <1>2, <1>9 DEF PngSavedShape
  <2>2. Png!SavedRow(row) = [i \in 1 .. 4 * w |->
                               pixel((i - 1) \div 4)[IF i % 4 = 0 THEN 4 ELSE 4 - (i % 4)]]
    BY <1>4, <1>9, PngWrites DEF Png!SavedRow
  <2> HIDE DEF pixel
  <2>3. ASSUME NEW i \in 1 .. 4 * w
        PROVE  pixel((i - 1) \div 4)[IF i % 4 = 0 THEN 4 ELSE 4 - (i % 4)] \in Byte
    <3>1. (i - 1) \div 4 \in 0 .. w - 1 /\ (IF i % 4 = 0 THEN 4 ELSE 4 - (i % 4)) \in 1 .. 4
      BY <1>3
    <3> QED BY <1>5, <2>1, <3>1
  <2>4. Png!SavedRow(row) \in [1 .. 4 * w -> Byte]
    BY <2>2, <2>3
  <2>5. 4 * w \in Nat /\ 4 * w = (w * 32 + 7) \div 8
    <3> HIDE DEF w
    <3> QED BY <1>3, WholeBytes
  <2>6. Png!SavedRow(row) \in Seq(Byte) /\ Len(Png!SavedRow(row)) = 4 * w
    BY <2>4, <2>5
  <2> QED BY <1>7, <2>1, <2>5, <2>6
<1>10. CASE ~ Png!IsColour /\ bitmap.format # PIXEL_FORMAT_B8G8R8A8_UNORM
  <2> DEFINE pitch == GetPitch(bitmap)
             m     == row * pitch
  <2>1. bits = bpp * 8 /\ bpp \in {1, 2, 4, 8}
    BY <1>1, <1>2, <1>10, HandledFormatsAreFlat DEF PngSavedShape
  <2>2. Png!SavedRow(row) = SubSeq(pixels, m + 1, (row + 1) * pitch)
    BY <1>4, <1>10, PngStream DEF Png!SavedRow
  <2>3. (row + 1) * pitch = m + pitch
    <3>1. \A x \in Nat, y \in Nat : (x + 1) * y = x * y + y
      OBVIOUS
    <3> QED BY <1>3, <3>1
  <2>4. m \in Nat /\ m + pitch <= Len(pixels) /\ pitch \in Nat
    BY <1>3
  <2>5. pitch = (w * bits + 7) \div 8
    <3> HIDE DEF bpp
    <3>1. pitch = w * bpp
      BY <1>3
    <3> HIDE DEF pitch, m, w
    <3>2. w \in Nat
      BY <1>3
    <3>3. bits \in {8, 16, 32, 64}
      BY <2>1
    <3> QED BY <2>1, <3>1, <3>2, WholeBytes
  <2> HIDE DEF pitch, m
  <2>6. SubSeq(pixels, m + 1, m + pitch) \in Seq(Byte) /\ Len(SubSeq(pixels, m + 1, m + pitch)) = pitch
    BY <1>3, <2>4, PartOfBytes
  <2> QED BY <1>7, <2>2, <2>3, <2>4, <2>5, <2>6
<1> QED BY <1>8, <1>9, <1>10

(* The texts of a save are the keys of the caller's strings.               *)
LEMMA PngSavedInfoType ==
  ASSUME bitmap \in Bitmap, Png!CanSave, metadata \in MetadataType
  PROVE  /\ Png!SavedInfo \in Png!Infos
         /\ Png!SavedInfo.texts = IF call.wants THEN Png!SavedTexts(metadata.strings) ELSE <<>>
         /\ Len(Png!SavedInfo.texts) \in Nat
<1> DEFINE texts == IF call.wants THEN Png!SavedTexts(metadata.strings) ELSE <<>>
<1>1. texts \in Seq(Strings \X Strings)
  <2> DEFINE strings == metadata.strings
             n       == Len(strings)
  <2>1. strings \in Seq(Strings \X Strings)
    BY DEF MetadataType
  <2> HIDE DEF strings
  <2>2. n \in Nat /\ DOMAIN strings = 1 .. n
    BY <2>1
  <2>3. \A i \in 1 .. n : strings[i] \in Strings \X Strings
    BY <2>1
  <2> HIDE DEF n
  <2>4. \A i \in 1 .. n : <<strings[i][1], strings[i][1]>> \in Strings \X Strings
    BY <2>3
  <2>5. Png!SavedTexts(strings) \in [1 .. n -> Strings \X Strings]
    BY <2>2, <2>4 DEF Png!SavedTexts
  <2> HIDE DEF texts
  <2>6. Png!SavedTexts(strings) \in Seq(Strings \X Strings)
    BY <2>2, <2>5
  <2> QED BY <2>6 DEF texts, strings
<1> HIDE DEF texts
<1>2. PICK channels, bits : PngSavedShape(channels, bits)
  BY PngCanBeSaved
<1> DEFINE i == Png!SavedInfo
<1>3. /\ i = [width |-> bitmap.width, height |-> bitmap.height, channels |-> i.channels,
              bitsPerPixel |-> i.bitsPerPixel, keyed |-> FALSE, offset |-> FALSE, texts |-> texts]
  <2>1. ASSUME NEW c, NEW b, i = Png!Info(bitmap.width, bitmap.height, c, b, FALSE, FALSE, texts)
        PROVE  i = [width |-> bitmap.width, height |-> bitmap.height, channels |-> i.channels,
                    bitsPerPixel |-> i.bitsPerPixel, keyed |-> FALSE, offset |-> FALSE,
                    texts |-> texts]
    <3> HIDE DEF i
    <3>1. i.channels = c /\ i.bitsPerPixel = c * b
      BY <2>1 DEF Png!Info
    <3> QED BY <2>1, <3>1 DEF Png!Info
  <2>2. \E c, b : i = Png!Info(bitmap.width, bitmap.height, c, b, FALSE, FALSE, texts)
    BY DEF Png!SavedInfo, texts
  <2> HIDE DEF i
  <2> QED BY <2>1, <2>2
<1>4. bitmap.width \in Nat /\ bitmap.height \in Nat
  BY DEF Bitmap
<1>5. <<i.channels, i.bitsPerPixel>> \in PngShapes
  BY <1>2 DEF PngSavedShape
<1> HIDE DEF i
<1>6. i.channels \in Nat /\ i.bitsPerPixel \in Nat
  BY <1>5 DEF PngShapes
<1>7. i \in [width : Nat, height : Nat, channels : Nat, bitsPerPixel : Nat, keyed : BOOLEAN,
             offset : BOOLEAN, texts : Seq(Strings \X Strings)]
  <2>1. ASSUME NEW a \in Nat, NEW b \in Nat, NEW c \in Nat, NEW d \in Nat, NEW e \in BOOLEAN,
               NEW t \in Seq(Strings \X Strings)
        PROVE  [width |-> a, height |-> b, channels |-> c, bitsPerPixel |-> d, keyed |-> e,
                offset |-> e, texts |-> t]
                 \in [width : Nat, height : Nat, channels : Nat, bitsPerPixel : Nat,
                     keyed : BOOLEAN, offset : BOOLEAN, texts : Seq(Strings \X Strings)]
    OBVIOUS
  <2>2. FALSE \in BOOLEAN
    OBVIOUS
  <2>3. texts \in Seq(Strings \X Strings)
    BY <1>1 DEF texts
  <2>4. [width |-> bitmap.width, height |-> bitmap.height, channels |-> i.channels,
         bitsPerPixel |-> i.bitsPerPixel, keyed |-> FALSE, offset |-> FALSE, texts |-> texts]
          \in [width : Nat, height : Nat, channels : Nat, bitsPerPixel : Nat, keyed : BOOLEAN,
              offset : BOOLEAN, texts : Seq(Strings \X Strings)]
    BY <1>4, <1>6, <2>2, <2>3, <2>1, Zenon
  <2> QED BY <1>3, <2>4, Zenon
<1>8. i \in Png!Infos /\ i.texts = texts
  BY <1>3, <1>5, <1>7 DEF Png!Infos, PngShapes
<1> QED BY <1>1, <1>8 DEF i, texts

(* PNG: what a save writes are the signature, the header, the rows and the *)
(* end, pieces that belong together and none of them empty.                *)
LEMMA PngPieces ==
  ASSUME Common, IsValid(bitmap), Png!CanSave
  PROVE  /\ Len(Png!Pieces) = bitmap.height + 3 /\ bitmap.height \in Nat
         /\ \A i \in 1 .. bitmap.height + 3 :
              PngPiece(Png!Pieces[i]) /\ Png!Pieces[i].size \in Nat \ {0}
<1> DEFINE height == bitmap.height
           first  == Png!Signature
           second == Png!InfoChunk(Png!SavedInfo)
           rows   == [row \in 1 .. height |-> Png!RowChunk(Png!SavedRow(row - 1))]
           last   == Png!EndChunk
<1>1. height \in Nat /\ bitmap \in Bitmap /\ metadata \in MetadataType
  BY DEF Common, IsImage, Bitmap
<1>2. Png!Pieces = (<<first, second>> \o rows) \o <<last>>
  BY DEF Png!Pieces
<1>3. PngPiece(first) /\ first.size \in Nat \ {0}
  BY DEF PngPiece, IsPiece, PngKinds, Png!Signature, Png!Piece, Png!SIGNATURE_SIZE
<1>4. PngPiece(second) /\ second.size \in Nat \ {0}
  <2> DEFINE i == Png!SavedInfo
             n == Len(i.texts)
  <2>1. i \in Png!Infos /\ n \in Nat
    BY <1>1, PngSavedInfoType
  <2>2. second = [kind |-> "info", size |-> 25 + 12 * n, value |-> i]
    BY DEF Png!InfoChunk, Png!Piece
  <2> HIDE DEF i, n, second
  <2>3. 25 + 12 * n \in Nat \ {0}
    BY <2>1
  <2> QED BY <2>1, <2>2, <2>3 DEF PngPiece, IsPiece, PngKinds, i
<1>5. PngPiece(last) /\ last.size \in Nat \ {0}
  BY DEF PngPiece, IsPiece, PngKinds, Png!EndChunk, Png!Piece
<1>6. ASSUME NEW row \in 1 .. height
      PROVE  PngPiece(rows[row]) /\ rows[row].size \in Nat \ {0}
  <2> DEFINE bytes == Png!SavedRow(row - 1)
             n     == Len(bytes)
  <2>1. row - 1 \in 0 .. height - 1
    BY <1>1
  <2>2. Png!IsRowOf(Png!SavedInfo, bytes) /\ n \in Nat
    BY <2>1, PngSavedRowType
  <2>3. rows[row] = [kind |-> "row", size |-> 12 + n, value |-> bytes]
    BY DEF Png!RowChunk, Png!Piece
  <2> HIDE DEF bytes, n, rows
  <2>4. 12 + n \in Nat \ {0}
    BY <2>2
  <2> QED BY <2>2, <2>3, <2>4 DEF PngPiece, IsPiece, PngKinds
<1> HIDE DEF height, first, second, last
<1>7. Len(rows) = height /\ rows \in Seq({rows[i] : i \in 1 .. height})
  <2>1. rows = [i \in 1 .. height |-> rows[i]]
    OBVIOUS
  <2> HIDE DEF rows
  <2> QED BY <1>1, <2>1, IsSequence
<1> HIDE DEF rows
<1>8. Len(Png!Pieces) = height + 3
  BY <1>1, <1>2, <1>7
<1>9. ASSUME NEW i \in 1 .. height + 3
      PROVE  \/ Png!Pieces[i] = first
             \/ Png!Pieces[i] = second
             \/ \E row \in 1 .. height : Png!Pieces[i] = rows[row]
             \/ Png!Pieces[i] = last
  <2>1. CASE i = 1 \/ i = 2
    BY <1>1, <1>2, <1>7, <2>1
  <2>2. CASE i > 2 /\ i < height + 3
    <3>1. i - 2 \in 1 .. height
      BY <1>1, <2>2
    <3>2. (<<first, second>> \o rows)[i] = rows[i - 2] /\ Len(<<first, second>> \o rows) = height + 2
      BY <1>1, <1>7, <2>2, <3>1
    <3>3. Png!Pieces[i] = (<<first, second>> \o rows)[i]
      BY <1>1, <1>2, <1>7, <2>2, <3>2
    <3> QED BY <3>1, <3>2, <3>3
  <2>3. CASE i = height + 3
    BY <1>1, <1>2, <1>7, <2>3
  <2> QED BY <1>1, <2>1, <2>2, <2>3
<1> QED BY <1>1, <1>3, <1>4, <1>5, <1>6, <1>8, <1>9 DEF height

(* PNG: the write of a piece keeps the invariant.                          *)
LEMMA PngPieceIsSaved ==
  ASSUME Inv, Png!SavePieces("SavePng", Png!Pieces)
  PROVE  Inv'
<1> DEFINE n     == bitmap.height + 3
           piece == Png!Pieces[call.index + 1]
<1>1. At("SavePng", "Pieces") /\ UNCHANGED <<bitmap, pixels, metadata>>
  BY PngWrites DEF SavePieces
<1>2. /\ Common /\ PngSaves /\ IsTyped(call) /\ IsFile(file) /\ call.op = "SavePng"
      /\ call.op \in SaveOp /\ bitmap \in Bitmap /\ metadata \in MetadataType
  BY <1>1 DEF Inv, Common, During, Running, At, SaveOp, IsImage
<1>3. /\ file.codec = "png" /\ file.cut /\ IsValid(bitmap) /\ Png!CanSave
      /\ RowsArePngs(file) /\ file.strings = IF call.wants THEN metadata.strings ELSE <<>>
      /\ call.index < n /\ call.index \in Nat
  BY <1>1, <1>2 DEF PngSaves, SavesTo, At, PngKinds, RowsArePngs, IsTyped
<1>4. /\ Len(Png!Pieces) = n /\ bitmap.height \in Nat
      /\ PngPiece(piece) /\ piece.size \in Nat \ {0}
  BY <1>2, <1>3, PngPieces
<1> HIDE DEF piece
<1>5. Png!SavedInfo.texts \in {file.strings, Png!SavedTexts(file.strings)}
  BY <1>2, <1>3, PngSavedInfoType
<1>6. ASSUME NEW step \in {"Pieces", "Close"}, step = "Pieces" => call.index + 1 < n,
             NEW faults \in BOOLEAN,
             call' = [call EXCEPT !.index = @ + 1, !.step = step, !.faults = faults],
             file' = file \/ \E p : file' = Appended(file, p) /\ PngPiece(p)
      PROVE  Inv'
  <2>1. /\ IsFile(file') /\ file'.cut /\ file'.codec = "png" /\ RowsArePngs(file')
        /\ file'.strings = file.strings
    BY <1>2, <1>3, <1>5, <1>6, PngFileGrows
  <2>2. /\ IsTyped(call') /\ call'.op = "SavePng" /\ call'.step = step
        /\ call'.index = call.index + 1 /\ call'.wants = call.wants
    BY <1>2, <1>3, <1>6 DEF IsTyped
  <2>3. Common'
    BY <1>1, <1>2, <2>1, <2>2, CommonIsSaved
  <2>4. Png!CanSave' /\ IsValid(bitmap)' /\ Png!SavedInfo' = Png!SavedInfo
    BY <1>1, <1>3, <2>2 DEF Png!CanSave, Png!SavedFormats, IsValid, Png!SavedInfo,
       Png!IsGrey, Png!IsColour, Png!IsWide, Png!Is1010102, Png!SavedTexts
  <2>5. SavesTo("png")'
    BY <2>1, <2>4 DEF SavesTo
  <2>6. RowsArePngs(file)'
    BY <2>1, <2>4 DEF RowsArePngs, Kinds
  <2>7. step = "Pieces" => call'.index < bitmap'.height + 3
    BY <1>1, <1>6, <2>2
  <2>8. file'.strings = IF call'.wants THEN metadata'.strings ELSE <<>>
    BY <1>1, <1>3, <2>1, <2>2
  <2>9. PngSaves'
    BY <2>1, <2>2, <2>4, <2>5, <2>6, <2>7, <2>8 DEF PngSaves, RowsArePngs, PngKinds
  <2>10. call'.step # "Done"
    BY <2>2
  <2> QED BY <1>1, <1>2, <2>2, <2>3, <2>9, <2>10, GoesOnReading
<1> DEFINE step == IF call.index + 1 = n THEN "Close" ELSE "Pieces"
<1>7. step \in {"Pieces", "Close"} /\ (step = "Pieces" => call.index + 1 < n)
  BY <1>3, <1>4
<1>8. CASE /\ file' = Appended(file, piece)
           /\ call' = [call EXCEPT !.index = @ + 1, !.step = step]
  <2>1. call.faults \in BOOLEAN
        /\ call' = [call EXCEPT !.index = @ + 1, !.step = step, !.faults = call.faults]
    BY <1>2, <1>8 DEF IsTyped
  <2> QED BY <1>4, <1>6, <1>7, <1>8, <2>1
<1>9. CASE /\ \E k \in {0, piece.size - 1} : file' = AppendedPart(file, k)
           /\ call' = [call EXCEPT !.index = @ + 1, !.step = step, !.faults = TRUE]
  <2>1. PICK k \in {0, piece.size - 1} : file' = AppendedPart(file, k)
    BY <1>9
  <2>2. k \in Nat
    BY <1>4
  <2>3. PngPiece(Piece("part", k, <<>>))
    BY <2>2, PartIsPiece DEF PngPiece, PngKinds
  <2>4. file' = file \/ file' = Appended(file, Piece("part", k, <<>>))
    BY <2>1 DEF AppendedPart
  <2> QED BY <1>6, <1>7, <1>9, <2>3, <2>4
<1>10. SavePieces("SavePng", Png!Pieces)
  BY PngWrites
<1>11. \/ /\ file' = Appended(file, piece)
          /\ call' = [call EXCEPT !.index = @ + 1, !.step = step]
       \/ /\ \E k \in {0, piece.size - 1} : file' = AppendedPart(file, k)
          /\ call' = [call EXCEPT !.index = @ + 1, !.step = step, !.faults = TRUE]
  BY <1>4, <1>10 DEF SavePieces, piece
<1> QED BY <1>8, <1>9, <1>11

(* PNG: a save that libpng breaks off keeps the invariant.                 *)
LEMMA PngSaveFails ==
  ASSUME Inv, Png!SaveFails
  PROVE  Inv'
<1> DEFINE piece == Png!Pieces[call.index + 1]
<1>1. At("SavePng", "Pieces") /\ ReturnFault("WRITE_FAILURE") /\ UNCHANGED <<bitmap, pixels, metadata>>
  BY PngCalls DEF Png!SaveFails
<1>2. /\ Common /\ PngSaves /\ IsTyped(call) /\ IsFile(file)
      /\ call.op \in SaveOp /\ bitmap \in Bitmap /\ metadata \in MetadataType
  BY <1>1 DEF Inv, Common, During, Running, At, SaveOp, IsImage
<1>3. /\ file.codec = "png" /\ file.cut /\ IsValid(bitmap) /\ Png!CanSave
      /\ RowsArePngs(file) /\ file.strings = IF call.wants THEN metadata.strings ELSE <<>>
      /\ call.index < bitmap.height + 3 /\ call.index \in Nat
  BY <1>1, <1>2 DEF PngSaves, SavesTo, At, PngKinds, RowsArePngs, IsTyped
<1>4. piece.size \in Nat \ {0}
  BY <1>2, <1>3, PngPieces
<1>5. Png!SavedInfo.texts \in {file.strings, Png!SavedTexts(file.strings)}
  BY <1>2, <1>3, PngSavedInfoType
<1>6. \E n \in {0, piece.size - 1} : file' = AppendedPart(file, n)
  BY PngWrites DEF Png!SaveFails
<1> HIDE DEF piece
<1>7. PICK n \in {0, piece.size - 1} : file' = AppendedPart(file, n)
  BY <1>6
<1>8. n \in Nat
  BY <1>4
<1>9. PngPiece(Piece("part", n, <<>>))
  BY <1>8, PartIsPiece DEF PngPiece, PngKinds
<1>10. file' = file \/ file' = Appended(file, Piece("part", n, <<>>))
  BY <1>7 DEF AppendedPart
<1>11. IsFile(file')
  BY <1>2, <1>3, <1>5, <1>9, <1>10, PngFileGrows
<1>12. "WRITE_FAILURE" \in Result
  BY DEF Result
<1> QED BY <1>1, <1>2, <1>11, <1>12, SaveReturns

(* PNG: the end of a save keeps the invariant.                             *)
LEMMA PngIsClosed ==
  ASSUME Inv, Png!Close("SavePng")
  PROVE  Inv'
<1>1. Close("SavePng") /\ At("SavePng", "Close")
  BY PngWrites DEF Close
<1>2. file.codec = "png"
  BY <1>1 DEF Inv, During, Running, At, PngSaves, SavesTo
<1> QED BY <1>1, <1>2, CloseKeeps DEF SaveOp

(* PNG: a call that begins keeps the invariant.                            *)
LEMMA PngBegins ==
  ASSUME Inv, Png!Start
  PROVE  Inv'
<1>1. ASSUME NEW wants \in BOOLEAN, Png!ReadImage(wants)
      PROVE  Inv'
  <2>1. Begin("ReadPng", "Signature", wants) /\ UNCHANGED <<file, bitmap, pixels, metadata>>
        /\ file.codec = "png"
    BY <1>1, PngCalls DEF Png!ReadImage
  <2>2. metadata' \in MetadataType /\ "ReadPng" \in ReadOp
    BY <2>1 DEF Inv, Common, ReadOp
  <2>3. Common' /\ call'.op = "ReadPng" /\ call'.step = "Signature" /\ call'.row = 0
    BY <2>1, <2>2, Begun
  <2>4. PngReads'
    BY <2>1, <2>3 DEF PngReads
  <2> QED BY <2>3, <2>4, GoesOnReading
<1>2. ASSUME NEW wants \in BOOLEAN, Png!Save(wants)
      PROVE  Inv'
  <2>1. CASE \/ Refuse("SavePng", "INVALID_BITMAP", wants)
             \/ Refuse("SavePng", "SAVE_NOT_SUPPORTED", wants)
             \/ Refuse("SavePng", "OUT_OF_MEMORY", wants)
    BY <2>1, RefuseKeeps DEF SaveOp, Result
  <2>2. CASE /\ IsValid(bitmap) /\ Png!CanSave /\ Begin("SavePng", "Pieces", wants)
             /\ file' = NewFile("png", Png!Stored(Png!Shown),
                                IF wants THEN metadata.strings ELSE <<>>)
             /\ UNCHANGED <<bitmap, pixels, metadata>>
    <3> DEFINE strings == IF wants THEN metadata.strings ELSE <<>>
    <3>1. "SavePng" \in SaveOp /\ "png" \in Codec /\ strings \in Seq(Strings \X Strings)
      BY DEF SaveOp, Codec, Inv, Common, MetadataType
    <3> HIDE DEF strings
    <3>2. SaveHasBegun("SavePng", "Pieces", wants, "png", strings)
      BY <2>2, <3>1, SaveBegun DEF strings
    <3>3. Png!CanSave' /\ IsValid(bitmap)'
      BY <2>2 DEF Png!CanSave, IsValid, Png!SavedFormats
    <3>4. file'.at = <<>> /\ 0 < bitmap'.height + 3
      BY <2>2, <3>2 DEF SaveHasBegun, Common, IsImage, Bitmap
    <3>5. Kinds(file, {"signature", "info", "row", "end", "part"})' /\ DOMAIN file'.at = {}
      BY <3>4 DEF Kinds
    <3>6. file'.strings = IF call'.wants THEN metadata'.strings ELSE <<>>
      BY <2>2, <3>2 DEF SaveHasBegun, strings
    <3>7. PngSaves'
      BY <3>2, <3>3, <3>4, <3>5, <3>6 DEF SaveHasBegun, PngSaves, SavesTo
    <3> QED BY <3>2, <3>7, GoesOnReading DEF SaveHasBegun
  <2> QED BY <1>2, <2>1, <2>2, PngCalls, PngWrites, PngValid DEF Png!Save
<1> QED BY <1>1, <1>2 DEF Png!Start

(* PNG: a step of a call keeps the invariant.                              *)
LEMMA PngGoes ==
  ASSUME Inv, Png!Step
  PROVE  Inv'
<1>1. Png!SaveCrashes => Crash /\ UNCHANGED file
  BY PngCrash DEF Png!SaveCrashes, Png!NoPointers
<1>2. Png!ReadRow => UNCHANGED file
  BY DEF Png!ReadRow
<1>3. Png!SavePiece => Png!SavePieces("SavePng", Png!Pieces)
  BY DEF Png!SavePiece
<1> QED BY <1>1, <1>2, <1>3, CrashKeeps, PngSignatureIsRead, PngInfoIsRead, PngIsCreated,
           PngRowIsRead, PngSaveFails, PngPieceIsSaved, PngIsClosed DEF Png!Step

-----------------------------------------------------------------------------
(* TGA: the operators of the instance                                      *)

(* TGA: the operators on streams and buffers are the ones of this module.  *)
LEMMA TgaStream ==
  /\ \A s, p, n : Tga!Holds(s, p, n) <=> Holds(s, p, n)
  /\ \A s, p, kind : Tga!IsAt(s, p, kind) <=> IsAt(s, p, kind)
  /\ \A s, p : Tga!Clamped(s, p) = Clamped(s, p)
  /\ \A s, p : Tga!ByteAt(s, p) = ByteAt(s, p)
  /\ \A s, p, n : Tga!BytesAt(s, p, n) = BytesAt(s, p, n)
  /\ \A data, i, values : Tga!Put(data, i, values) = Put(data, i, values)
  /\ \A data, i, values : Tga!GoesBeyond(data, i, values) = GoesBeyond(data, i, values)
  /\ \A f : Tga!GetBytesPerPixel(f) = GetBytesPerPixel(f)
  /\ \A b : Tga!GetPitch(b) = GetPitch(b)
<1>1. \A s, p, n : Tga!Holds(s, p, n) <=> Holds(s, p, n)
  BY DEF Tga!Holds, Holds
<1>2. \A s, p, kind : Tga!IsAt(s, p, kind) <=> IsAt(s, p, kind)
  BY DEF Tga!IsAt, IsAt
<1>3. \A s, p : Tga!Clamped(s, p) = Clamped(s, p)
  BY DEF Tga!Clamped, Clamped
<1>4. \A s, p : Tga!ByteAt(s, p) = ByteAt(s, p)
  BY DEF Tga!ByteAt, ByteAt, Tga!ByteWritten, ByteWritten, Tga!StartsBefore, StartsBefore,
         Tga!Unknown, Unknown
<1>5. \A s, p, n : Tga!BytesAt(s, p, n) = BytesAt(s, p, n)
  BY DEF Tga!BytesAt, BytesAt, Tga!ByteAt, ByteAt, Tga!ByteWritten, ByteWritten,
         Tga!StartsBefore, StartsBefore, Tga!Unknown, Unknown
<1>6. \A data, i, values : Tga!Put(data, i, values) = Put(data, i, values)
  BY DEF Tga!Put, Put
<1>7. \A data, i, values : Tga!GoesBeyond(data, i, values) = GoesBeyond(data, i, values)
  BY DEF Tga!GoesBeyond, GoesBeyond
<1>8. \A f : Tga!GetBytesPerPixel(f) = GetBytesPerPixel(f)
  BY DEF Tga!GetBytesPerPixel, GetBytesPerPixel
<1>9. \A b : Tga!GetPitch(b) = GetPitch(b)
  BY DEF Tga!GetPitch, GetPitch, Tga!IsValid, IsValid, Tga!IsCompressed, IsCompressed,
         Tga!IsCompressedFormat, IsCompressedFormat, Tga!IsDds10Format, IsDds10Format,
         Tga!GetBlockByteSize, GetBlockByteSize, Tga!GetBytesPerPixel, GetBytesPerPixel
<1> QED BY <1>1, <1>2, <1>3, <1>4, <1>5, <1>6, <1>7, <1>8, <1>9

(* TGA: the beginnings and ends of a call are the ones of this module.     *)
LEMMA TgaCalls ==
  /\ \A op, step : Tga!At(op, step) <=> At(op, step)
  /\ \A step : Tga!Goto(step) = Goto(step)
  /\ \A stride, beyond : Tga!RowDone(stride, beyond) = RowDone(stride, beyond)
  /\ \A c, result, faults : Tga!Finished(c, result, faults) = Finished(c, result, faults)
  /\ \A result : Tga!Return(result) <=> Return(result)
  /\ \A result : Tga!ReturnFault(result) <=> ReturnFault(result)
  /\ \A result : Tga!Fail(result) <=> Fail(result)
  /\ \A result : Tga!FailOnFault(result) <=> FailOnFault(result)
  /\ \A n, result : Tga!ReadFails(n, result) <=> ReadFails(n, result)
  /\ \A n : Tga!PixelsFallShort(n) <=> PixelsFallShort(n)
  /\ \A op, step, wants : Tga!Begin(op, step, wants) <=> Begin(op, step, wants)
  /\ \A op, result, wants : Tga!Refuse(op, result, wants) <=> Refuse(op, result, wants)
<1>1. \A op, step : Tga!At(op, step) <=> At(op, step)
  BY DEF Tga!At, At
<1>2. \A step : Tga!Goto(step) = Goto(step)
  BY DEF Tga!Goto, Goto
<1>3. \A stride, beyond : Tga!RowDone(stride, beyond) = RowDone(stride, beyond)
  BY DEF Tga!RowDone, RowDone
<1>4. \A c, result, faults : Tga!Finished(c, result, faults) = Finished(c, result, faults)
  BY DEF Tga!Finished, Finished, Tga!Called, Called
<1>5. \A result : Tga!Return(result) <=> Return(result)
  BY DEF Tga!Return, Return, Tga!Finished, Finished, Tga!Called, Called
<1>6. \A result : Tga!ReturnFault(result) <=> ReturnFault(result)
  BY DEF Tga!ReturnFault, ReturnFault, Tga!Finished, Finished, Tga!Called, Called
<1>7. \A result : Tga!Fail(result) <=> Fail(result)
  BY DEF Tga!Fail, Fail, Tga!Return, Return, Tga!Finished, Finished, Tga!Called, Called,
         Tga!Destroy, Destroy, Tga!Destroyed, Destroyed, Tga!PIXEL_FORMAT_UNKNOWN,
         PIXEL_FORMAT_UNKNOWN
<1>8. \A result : Tga!FailOnFault(result) <=> FailOnFault(result)
  BY DEF Tga!FailOnFault, FailOnFault, Tga!ReturnFault, ReturnFault, Tga!Finished, Finished,
         Tga!Called, Called, Tga!Destroy, Destroy, Tga!Destroyed, Destroyed,
         Tga!PIXEL_FORMAT_UNKNOWN, PIXEL_FORMAT_UNKNOWN
<1>9. \A n, result : Tga!ReadFails(n, result) <=> ReadFails(n, result)
  BY DEF Tga!ReadFails, ReadFails, Tga!Holds, Holds, Tga!Return, Return, Tga!ReturnFault,
         ReturnFault, Tga!Finished, Finished, Tga!Called, Called
<1>10. \A n : Tga!PixelsFallShort(n) <=> PixelsFallShort(n)
  BY DEF Tga!PixelsFallShort, PixelsFallShort, Tga!Holds, Holds, Tga!Fail, Fail,
         Tga!FailOnFault, FailOnFault, Tga!Return, Return, Tga!ReturnFault, ReturnFault,
         Tga!Finished, Finished, Tga!Called, Called, Tga!Destroy, Destroy, Tga!Destroyed,
         Destroyed, Tga!PIXEL_FORMAT_UNKNOWN, PIXEL_FORMAT_UNKNOWN
<1>11. \A op, step, wants : Tga!Begin(op, step, wants) <=> Begin(op, step, wants)
  BY DEF Tga!Begin, Begin, Tga!Called, Called
<1>12. \A op, result, wants : Tga!Refuse(op, result, wants) <=> Refuse(op, result, wants)
  BY DEF Tga!Refuse, Refuse, Tga!Called, Called
<1> QED BY <1>1, <1>2, <1>3, <1>4, <1>5, <1>6, <1>7, <1>8, <1>9, <1>10, <1>11, <1>12

(* TGA: the writes of a file are the ones of this module.                  *)
LEMMA TgaWrites ==
  /\ \A kind, n, value : Tga!Piece(kind, n, value) = Piece(kind, n, value)
  /\ \A values : Tga!Bytes(values) = Bytes(values)
  /\ \A s, piece : Tga!Appended(s, piece) = Appended(s, piece)
  /\ \A s, n : Tga!AppendedPart(s, n) = AppendedPart(s, n)
  /\ \A piece, result : Tga!WriteFails(piece, result) <=> WriteFails(piece, result)
  /\ \A op, pieces : Tga!SavePieces(op, pieces) <=> SavePieces(op, pieces)
  /\ \A codec, picture, strings : Tga!NewFile(codec, picture, strings) = NewFile(codec, picture, strings)
  /\ \A op : Tga!Close(op) <=> Close(op)
  /\ \A row : Tga!PackedRow(row) = PackedRow(row)
  /\ \A data, f, i : Tga!PixelOf(data, f, i) = PixelOf(data, f, i)
  /\ \A p : Tga!Red10(p) = Red10(p)
  /\ \A p : Tga!Green10(p) = Green10(p)
  /\ \A p : Tga!Blue10(p) = Blue10(p)
<1>1. \A kind, n, value : Tga!Piece(kind, n, value) = Piece(kind, n, value)
  BY DEF Tga!Piece, Piece
<1>2. \A values : Tga!Bytes(values) = Bytes(values)
  BY DEF Tga!Bytes, Bytes, Tga!Piece, Piece
<1>3. \A s, piece : Tga!Appended(s, piece) = Appended(s, piece)
  BY DEF Tga!Appended, Appended, Tga!Placed, Placed
<1>4. \A s, n : Tga!AppendedPart(s, n) = AppendedPart(s, n)
  BY DEF Tga!AppendedPart, AppendedPart, Tga!Placed, Placed, Tga!Appended, Appended, Tga!Piece,
         Piece
<1>5. \A piece, result : Tga!WriteFails(piece, result) <=> WriteFails(piece, result)
  BY DEF Tga!WriteFails, WriteFails, Tga!AppendedPart, AppendedPart, Tga!Appended, Appended,
         Tga!Placed, Placed, Tga!Piece, Piece, Tga!ReturnFault, ReturnFault, Tga!Finished,
         Finished, Tga!Called, Called
<1>6. \A op, pieces : Tga!SavePieces(op, pieces) <=> SavePieces(op, pieces)
  BY DEF Tga!SavePieces, SavePieces, Tga!At, At, Tga!AppendedPart, AppendedPart, Tga!Appended,
         Appended, Tga!Placed, Placed, Tga!Piece, Piece
<1>7. \A codec, picture, strings : Tga!NewFile(codec, picture, strings) = NewFile(codec, picture, strings)
  BY DEF Tga!NewFile, NewFile, Tga!File, File, Tga!NoContents, NoContents
<1>8. \A op : Tga!Close(op) <=> Close(op)
  BY DEF Tga!Close, Close, Tga!At, At, Tga!Return, Return, Tga!Finished, Finished, Tga!Called,
         Called
<1>9. \A row : Tga!PackedRow(row) = PackedRow(row)
  BY DEF Tga!PackedRow, PackedRow, Tga!GetPitch, GetPitch, Tga!PIXEL_FORMAT_B8G8R8X8_UNORM,
         PIXEL_FORMAT_B8G8R8X8_UNORM, Tga!IsValid, IsValid, Tga!IsCompressed, IsCompressed,
         Tga!IsCompressedFormat, IsCompressedFormat, Tga!IsDds10Format, IsDds10Format,
         Tga!GetBlockByteSize, GetBlockByteSize, Tga!GetBytesPerPixel, GetBytesPerPixel
<1>10. \A data, f, i : Tga!PixelOf(data, f, i) = PixelOf(data, f, i)
  BY DEF Tga!PixelOf, PixelOf, Tga!GetBytesPerPixel, GetBytesPerPixel
<1>11. \A p : Tga!Red10(p) = Red10(p)
  BY DEF Tga!Red10, Red10
<1>12. \A p : Tga!Green10(p) = Green10(p)
  BY DEF Tga!Green10, Green10
<1>13. \A p : Tga!Blue10(p) = Blue10(p)
  BY DEF Tga!Blue10, Blue10
<1> QED BY <1>1, <1>2, <1>3, <1>4, <1>5, <1>6, <1>7, <1>8, <1>9, <1>10, <1>11, <1>12, <1>13

(* TGA: the bitmaps and the metadata are the ones of this module.          *)
LEMMA TgaOthers ==
  /\ \A b, n : Tga!GetMipSize(b, n) = GetMipSize(b, n)
  /\ \A b : Tga!Resize(b) <=> Resize(b)
  /\ \A f, w, h, step : Tga!Create(f, w, h, step) <=> Create(f, w, h, step)
  /\ \A f, w, h, step : Tga!CreateFromBitmapDimensions(f, w, h, step) <=> CreateFromBitmapDimensions(f, w, h, step)
  /\ \A b : Tga!Destroyed(b) = Destroyed(b)
  /\ Tga!NoBitmap = NoBitmap
  /\ \A kind : Tga!IsWhole(kind) <=> IsWhole(kind)
  /\ \A s, p : Tga!HeaderIsValid(s, p) <=> HeaderIsValid(s, p)
  /\ \A s, p : Tga!ChunkStrings(s, p) = ChunkStrings(s, p)
  /\ \A m : Tga!Chunk(m) = Chunk(m)
  /\ \A m : Tga!ChunkSize(m) = ChunkSize(m)
  /\ \A f, x : Tga!Recursion(f, x) = Recursion(f, x)
  /\ \A x, y : Tga!Larger(x, y) = Larger(x, y)
  /\ \A t, f, w, h, d, m, a : Tga!Sized(t, f, w, h, d, m, a) = Sized(t, f, w, h, d, m, a)
  /\ \A s, p : Tga!ByteWritten(s, p) = ByteWritten(s, p)
  /\ \A s, p : Tga!IsNoChunk(s, p) <=> IsNoChunk(s, p)
  /\ \A s, p : Tga!ChunkIsWhole(s, p) <=> ChunkIsWhole(s, p)
  /\ \A s, p : Tga!ChunkFallsShort(s, p) <=> ChunkFallsShort(s, p)
<1>1. \A b, n : Tga!GetMipSize(b, n) = GetMipSize(b, n)
  BY DEF Tga!GetMipSize, GetMipSize, Tga!LevelBytes, LevelBytes, Tga!GetTrueMipCount,
         GetTrueMipCount, Tga!BitLength, BitLength, Tga!Shr, Shr, Tga!Recursion, Recursion,
         Tga!Halved, Halved, Tga!Larger, Larger, Tga!Total, Total, Tga!IsCompressed,
         IsCompressed, Tga!IsCompressedFormat, IsCompressedFormat, Tga!IsDds10Format,
         IsDds10Format, Tga!AlignUp4, AlignUp4, Tga!GetBlockByteSize, GetBlockByteSize,
         Tga!GetBytesPerPixel, GetBytesPerPixel, Tga!GetMipWidth, GetMipWidth, Tga!GetMipHeight,
         GetMipHeight, Tga!GetMipDepth, GetMipDepth, Tga!LevelSide, LevelSide
<1>2. \A b : Tga!Resize(b) <=> Resize(b)
  BY DEF Tga!Resize, Resize, Tga!GetDataSize, GetDataSize, Tga!Unknown, Unknown, Tga!LevelBytes,
         LevelBytes, Tga!GetTrueMipCount, GetTrueMipCount, Tga!BitLength, BitLength, Tga!Shr,
         Shr, Tga!Recursion, Recursion, Tga!Halved, Halved, Tga!Larger, Larger, Tga!Total,
         Total, Tga!IsCompressed, IsCompressed, Tga!IsCompressedFormat, IsCompressedFormat,
         Tga!IsDds10Format, IsDds10Format, Tga!AlignUp4, AlignUp4, Tga!GetBlockByteSize,
         GetBlockByteSize, Tga!GetBytesPerPixel, GetBytesPerPixel
<1>3. \A f, w, h, step : Tga!Create(f, w, h, step) <=> Create(f, w, h, step)
  BY DEF Tga!Create, Create, Tga!Sized, Sized, Tga!GetDataSize, GetDataSize, Tga!Resize, Resize,
         Tga!Unknown, Unknown, Tga!Goto, Goto, Tga!Fail, Fail, Tga!Return, Return,
         Tga!ReturnFault, ReturnFault, Tga!Finished, Finished, Tga!Called, Called, Tga!Destroy,
         Destroy, Tga!Destroyed, Destroyed, Tga!PIXEL_FORMAT_UNKNOWN, PIXEL_FORMAT_UNKNOWN,
         Tga!LevelBytes, LevelBytes, Tga!GetTrueMipCount, GetTrueMipCount, Tga!BitLength,
         BitLength, Tga!Shr, Shr, Tga!Recursion, Recursion, Tga!Halved, Halved, Tga!Larger,
         Larger, Tga!Total, Total, Tga!IsCompressed, IsCompressed, Tga!IsCompressedFormat,
         IsCompressedFormat, Tga!IsDds10Format, IsDds10Format, Tga!AlignUp4, AlignUp4,
         Tga!GetBlockByteSize, GetBlockByteSize, Tga!GetBytesPerPixel, GetBytesPerPixel
<1>4. \A f, w, h, step : Tga!CreateFromBitmapDimensions(f, w, h, step) <=> CreateFromBitmapDimensions(f, w, h, step)
  BY DEF Tga!CreateFromBitmapDimensions, CreateFromBitmapDimensions, Tga!Sized, Sized,
         Tga!GetDataSize, GetDataSize, Tga!Resize, Resize, Tga!Unknown, Unknown, Tga!Goto, Goto,
         Tga!Return, Return, Tga!ReturnFault, ReturnFault, Tga!Finished, Finished, Tga!Called,
         Called, Tga!LevelBytes, LevelBytes, Tga!GetTrueMipCount, GetTrueMipCount,
         Tga!BitLength, BitLength, Tga!Shr, Shr, Tga!Recursion, Recursion, Tga!Halved, Halved,
         Tga!Larger, Larger, Tga!Total, Total, Tga!IsCompressed, IsCompressed,
         Tga!IsCompressedFormat, IsCompressedFormat, Tga!IsDds10Format, IsDds10Format,
         Tga!AlignUp4, AlignUp4, Tga!GetBlockByteSize, GetBlockByteSize, Tga!GetBytesPerPixel,
         GetBytesPerPixel
<1>5. \A b : Tga!Destroyed(b) = Destroyed(b)
  BY DEF Tga!Destroyed, Destroyed, Tga!PIXEL_FORMAT_UNKNOWN, PIXEL_FORMAT_UNKNOWN
<1>6. Tga!NoBitmap = NoBitmap
  BY DEF Tga!NoBitmap, NoBitmap, Tga!Sized, Sized, Tga!PIXEL_FORMAT_UNKNOWN,
         PIXEL_FORMAT_UNKNOWN
<1>7. \A kind : Tga!IsWhole(kind) <=> IsWhole(kind)
  BY DEF Tga!IsWhole, IsWhole, Tga!IsAt, IsAt, Tga!Holds, Holds
<1>8. \A s, p : Tga!HeaderIsValid(s, p) <=> HeaderIsValid(s, p)
  BY DEF Tga!HeaderIsValid, HeaderIsValid, Tga!IsAt, IsAt
<1>9. \A s, p : Tga!ChunkStrings(s, p) = ChunkStrings(s, p)
  BY DEF Tga!ChunkStrings, ChunkStrings, Tga!HEADER_SIZE, HEADER_SIZE, Tga!ENTRY_SIZE,
         ENTRY_SIZE
<1>10. \A m : Tga!Chunk(m) = Chunk(m)
  BY DEF Tga!Chunk, Chunk, Tga!Piece, Piece, Tga!ChunkSize, ChunkSize, Tga!Entries, Entries,
         Tga!Characters, Characters, Tga!TextOffset, TextOffset, Tga!TextSize, TextSize,
         Tga!Text, Text, Tga!Total, Total, Tga!Recursion, Recursion, Tga!HEADER_SIZE,
         HEADER_SIZE, Tga!ENTRY_SIZE, ENTRY_SIZE
<1>11. \A m : Tga!ChunkSize(m) = ChunkSize(m)
  BY DEF Tga!ChunkSize, ChunkSize, Tga!TextOffset, TextOffset, Tga!TextSize, TextSize, Tga!Text,
         Text, Tga!Total, Total, Tga!Recursion, Recursion, Tga!ENTRY_SIZE, ENTRY_SIZE
<1>12. \A f, x : Tga!Recursion(f, x) = Recursion(f, x)
  BY DEF Tga!Recursion, Recursion
<1>13. \A x, y : Tga!Larger(x, y) = Larger(x, y)
  BY DEF Tga!Larger, Larger
<1>14. \A t, f, w, h, d, m, a : Tga!Sized(t, f, w, h, d, m, a) = Sized(t, f, w, h, d, m, a)
  BY DEF Tga!Sized, Sized
<1>15. \A s, p : Tga!ByteWritten(s, p) = ByteWritten(s, p)
  BY DEF Tga!ByteWritten, ByteWritten, Tga!StartsBefore, StartsBefore, Tga!Unknown, Unknown
<1>16. \A s, p : Tga!IsNoChunk(s, p) <=> IsNoChunk(s, p)
  BY DEF Tga!IsNoChunk, IsNoChunk, Tga!HeaderCanBeRead, HeaderCanBeRead, Tga!HeaderIsValid,
         HeaderIsValid, Tga!Holds, Holds, Tga!IsAt, IsAt, Tga!HEADER_SIZE, HEADER_SIZE
<1>17. \A s, p : Tga!ChunkIsWhole(s, p) <=> ChunkIsWhole(s, p)
  BY DEF Tga!ChunkIsWhole, ChunkIsWhole, Tga!ChunkCanBeRead, ChunkCanBeRead,
         Tga!HeaderCanBeRead, HeaderCanBeRead, Tga!HeaderIsValid, HeaderIsValid, Tga!Holds,
         Holds, Tga!IsAt, IsAt, Tga!HEADER_SIZE, HEADER_SIZE
<1>18. \A s, p : Tga!ChunkFallsShort(s, p) <=> ChunkFallsShort(s, p)
  BY <1>16, <1>17 DEF Tga!ChunkFallsShort, ChunkFallsShort
<1> QED BY <1>1, <1>2, <1>3, <1>4, <1>5, <1>6, <1>7, <1>8, <1>9, <1>10, <1>11, <1>12, <1>13,
           <1>14, <1>15, <1>16, <1>17, <1>18

(* TGA: a bitmap is destroyed in the same way.                             *)
LEMMA TgaDestroys == Tga!Destroy <=> Destroy
BY DEF Tga!Destroy, Destroy, Tga!Destroyed, Destroyed, Tga!PIXEL_FORMAT_UNKNOWN,
       PIXEL_FORMAT_UNKNOWN

(* TGA: a bitmap is valid in the same cases.                               *)
LEMMA TgaValid ==
  /\ \A b : Tga!IsValid(b) <=> IsValid(b)
<1>1. \A b : Tga!IsValid(b) <=> IsValid(b)
  BY DEF Tga!IsValid, IsValid
<1> QED BY <1>1

-----------------------------------------------------------------------------
(* TGA: the reads of the pixels                                            *)

(* Whether the packets go with the image is a matter of the pieces only.   *)
LEMMA PacketsStay ==
  ASSUME file'.at = file.at
  PROVE  \A before, header :
           Tga!ArePixelsBefore(before, header)' <=> Tga!ArePixelsBefore(before, header)
<1>1. \A p : Tga!ByteWritten(file', p) = Tga!ByteWritten(file, p)
  BY DEF Tga!ByteWritten, Tga!StartsBefore
<1> QED BY <1>1 DEF Tga!ArePixelsBefore

(* TGA: the read of the header keeps the invariant.                        *)
LEMMA TgaHeaderIsRead ==
  ASSUME Inv, Tga!DoReadHeader
  PROVE  Inv'
<1> DEFINE header == file.at[0].value
<1>1. At("ReadTga", "Header") /\ UNCHANGED <<file, bitmap, pixels, metadata>>
  BY TgaCalls DEF Tga!DoReadHeader
<1>2. /\ Common /\ TgaReads /\ IsTyped(call) /\ IsFile(file)
      /\ call.op = "ReadTga" /\ metadata' \in MetadataType
  BY <1>1 DEF Inv, Common, During, Running, At
<1>3. "READ_FAILURE" \in Result \ {"OK"} /\ "HEADER_NOT_SUPPORTED" \in Result \ {"OK"}
  BY DEF Result
<1>4. CASE ReadFails(18, "READ_FAILURE")
  BY <1>1, <1>3, <1>4, ReadFailsKeeps
<1>5. CASE Return("HEADER_NOT_SUPPORTED")
  BY <1>1, <1>2, <1>3, <1>5, ReturnKeeps
<1>6. CASE /\ Holds(file, 0, 18)
           /\ call' = [call EXCEPT !.step = "Create", !.header = header, !.position = 18]
  <2>1. /\ IsTyped(call') /\ call'.beyond = call.beyond /\ call'.op = "ReadTga"
        /\ call'.step = "Create" /\ call'.header = header /\ call'.position = 18
        /\ call'.row = call.row /\ call'.index = call.index /\ call'.wants = call.wants
        /\ call'.palette = call.palette
    BY <1>2, <1>6 DEF IsTyped
  <2>2. Common'
    BY <1>1, <1>2, <2>1, CommonStays
  <2>3. IsAt(file, 0, "tgaHeader")
    BY <1>1, <1>2, <1>6, TgaStream DEF IsFile, HasHeaders, TgaReads, Tga!TGA_HEADER_SIZE
  <2>4. HeaderOf("tgaHeader", 0)'
    BY <1>1, <2>1, <2>3 DEF HeaderOf, IsAt
  <2>5. call'.row = 0 /\ call'.index = 0 /\ (call'.wants => metadata'.strings = <<>>)
        /\ \A i \in DOMAIN call'.palette : call'.palette[i] \in Byte \X Byte \X Byte
    BY <1>1, <1>2, <2>1 DEF TgaReads, At
  <2>6. TgaReads'
    BY <1>1, <1>2, <2>1, <2>4, <2>5 DEF TgaReads, TgaPixels, TgaMetadata
  <2> QED BY <2>1, <2>2, <2>6, GoesOnReading
<1> QED BY <1>4, <1>5, <1>6, TgaStream, TgaCalls DEF Tga!DoReadHeader, Tga!TGA_HEADER_SIZE

(* TGA: the header that was read is one.                                   *)
LEMMA TgaHeaders ==
  ASSUME Common, HeaderOf("tgaHeader", 0)
  PROVE  call.header \in Tga!Headers
BY DEF Common, HeaderOf, IsFile, IsPiece, IsAt

(* TGA: the formats that are read have four bytes a pixel, or one if the   *)
(* file is not indexed and has eight bits.                                 *)
LEMMA TgaFormats ==
  ASSUME NEW header
  PROVE  /\ Tga!GetFormat(header) \in HandledFormats
         /\ GetBytesPerPixel(Tga!GetFormat(header)) \in {1, 4}
         /\ GetBytesPerPixel(Tga!GetFormat(header)) = 1 <=>
              Tga!GetFormat(header) = PIXEL_FORMAT_R8_UNORM
         /\ Tga!GetFormat(header) = PIXEL_FORMAT_R8_UNORM <=>
              ~ Tga!IsIndexed(header) /\ header.bpp = 8
<1>1. Tga!GetFormat(header) =
        IF ~ Tga!IsIndexed(header) /\ header.bpp = 8 THEN PIXEL_FORMAT_R8_UNORM
        ELSE IF Tga!IsIndexed(header) \/ header.bpp < 32 THEN PIXEL_FORMAT_B8G8R8X8_UNORM
        ELSE PIXEL_FORMAT_B8G8R8A8_UNORM
  BY DEF Tga!GetFormat, Tga!PIXEL_FORMAT_R8_UNORM, Tga!PIXEL_FORMAT_B8G8R8X8_UNORM,
     Tga!PIXEL_FORMAT_B8G8R8A8_UNORM, PIXEL_FORMAT_R8_UNORM, PIXEL_FORMAT_B8G8R8X8_UNORM,
     PIXEL_FORMAT_B8G8R8A8_UNORM
<1>2. /\ PIXEL_FORMAT_R8_UNORM # PIXEL_FORMAT_B8G8R8X8_UNORM
      /\ PIXEL_FORMAT_R8_UNORM # PIXEL_FORMAT_B8G8R8A8_UNORM
  BY DEF PIXEL_FORMAT_R8_UNORM, PIXEL_FORMAT_B8G8R8X8_UNORM, PIXEL_FORMAT_B8G8R8A8_UNORM
<1>3. Tga!GetFormat(header) \in {PIXEL_FORMAT_R8_UNORM, PIXEL_FORMAT_B8G8R8X8_UNORM,
                                 PIXEL_FORMAT_B8G8R8A8_UNORM}
  BY <1>1
<1>4. Tga!GetFormat(header) \in HandledFormats
  BY <1>3 DEF HandledFormats
<1>5. Tga!GetFormat(header) = PIXEL_FORMAT_R8_UNORM <=> ~ Tga!IsIndexed(header) /\ header.bpp = 8
  BY <1>1, <1>2
<1> QED BY <1>2, <1>3, <1>4, <1>5, Formats

(* TGA: the creation of the bitmap keeps the invariant.                    *)
LEMMA TgaIsCreated ==
  ASSUME Inv, Tga!CreateBitmap
  PROVE  Inv'
<1> DEFINE f == Tga!GetFormat(call.header)
           w == call.header.width
           h == call.header.height
<1>1. At("ReadTga", "Create") /\ UNCHANGED <<file, metadata>>
      /\ CreateFromBitmapDimensions(f, w, h, "Pixels")
  BY TgaCalls, TgaOthers DEF Tga!CreateBitmap, Tga!h
<1>2. /\ Common /\ TgaReads /\ IsTyped(call) /\ call.op = "ReadTga"
  BY <1>1 DEF Inv, Common, During, Running, At
<1>3. HeaderOf("tgaHeader", 0) /\ call.row = 0 /\ call.index = 0 /\ call.position = 18
  BY <1>1, <1>2 DEF TgaReads, At
<1>4. w \in Nat /\ h \in Nat
  BY <1>2, <1>3, TgaHeaders DEF Tga!Headers
<1>5. f \in HandledFormats
  BY TgaFormats
<1>6. CASE Creates(f, w, h, "Pixels")
  <2>1. Common' /\ Fresh(bitmap', f, w, h) /\ call' = [call EXCEPT !.step = "Pixels"]
    BY <1>6 DEF Creates, Goto
  <2>2. /\ call'.op = "ReadTga" /\ call'.step = "Pixels" /\ call'.row = 0 /\ call'.index = 0
        /\ call'.header = call.header /\ call'.position = 18 /\ call'.wants = call.wants
        /\ call'.palette = call.palette
    BY <1>2, <1>3, <2>1 DEF IsTyped
  <2>3. HeaderOf("tgaHeader", 0)'
    BY <1>1, <1>3, <2>2 DEF HeaderOf, IsAt
  <2>4. Fresh(bitmap', Tga!GetFormat(call'.header), call'.header.width, call'.header.height)
    BY <2>1, <2>2
  <2>5. TgaReads'
    BY <1>1, <1>2, <2>2, <2>3, <2>4 DEF TgaReads, TgaPixels, TgaMetadata
  <2> QED BY <2>1, <2>2, <2>5, GoesOnReading
<1> QED BY <1>1, <1>4, <1>5, <1>6, CreateFromBitmapDimensionsKeeps

(* What the reads of TGA know while they put pixels.                       *)
TgaAtPixels(w, h, bpp) ==
  /\ w \in Nat \ {0} /\ h \in Nat \ {0} /\ bpp \in {1, 4}
  /\ call.header \in Tga!Headers
  /\ call.header.width = w /\ call.header.height = h
  /\ bitmap.width = w /\ bitmap.height = h
  /\ HeaderOf("tgaHeader", 0)
  /\ Fresh(bitmap, Tga!GetFormat(call.header), w, h)
  /\ GetBytesPerPixel(Tga!GetFormat(call.header)) = bpp
  /\ bitmap.format = Tga!GetFormat(call.header)
  /\ bitmap.data = w * h * bpp /\ bitmap.data = h * (w * bpp) /\ bitmap.data \in Nat
  /\ w * h \in Nat /\ w * bpp \in Nat \ {0}
  /\ GetPitch(bitmap) = w * bpp /\ Tga!pitch = w * bpp
  /\ pixels \in [1 .. bitmap.data -> Byte]
  /\ GetMipSize(bitmap, 0) = bitmap.data
  /\ call.row \in Nat /\ call.position \in Nat /\ call.index \in Nat
  /\ (call.wants => metadata.strings = <<>>)
  /\ \A i \in DOMAIN call.palette : call.palette[i] \in Byte \X Byte \X Byte

(* TGA: at the steps that write pixels, the bitmap is the new one of the   *)
(* header.                                                                 *)
LEMMA TgaIsAtPixels ==
  ASSUME Common, TgaReads, call.step \in TgaPixels
  PROVE  TgaAtPixels(call.header.width, call.header.height,
                     GetBytesPerPixel(Tga!GetFormat(call.header)))
<1> DEFINE f == Tga!GetFormat(call.header)
           w == call.header.width
           h == call.header.height
           bpp == GetBytesPerPixel(f)
<1>1. /\ HeaderOf("tgaHeader", 0) /\ Fresh(bitmap, f, w, h)
      /\ IsImage(bitmap, pixels) /\ IsTyped(call)
      /\ (call.wants => metadata.strings = <<>>)
      /\ \A i \in DOMAIN call.palette : call.palette[i] \in Byte \X Byte \X Byte
  BY DEF TgaReads, Common
<1>2. call.header \in Tga!Headers /\ w \in Nat /\ h \in Nat
  BY <1>1, TgaHeaders DEF Tga!Headers
<1>3. f \in HandledFormats /\ bpp \in {1, 4}
  BY TgaFormats
<1>4. IsNew(bitmap, f, w, h)
  BY <1>1, <1>2, <1>3, FreshIsNew
<1>5. /\ bitmap.data = w * h * bpp /\ bitmap.data = h * (w * bpp) /\ bitmap.data \in Nat
      /\ w # 0 /\ h # 0 /\ bitmap.width = w /\ bitmap.height = h /\ bitmap.format = f
      /\ GetMipSize(bitmap, 0) = bitmap.data /\ GetPitch(bitmap) = w * bpp
  BY <1>4 DEF IsNew, Bitmap
<1>6. Tga!pitch = w * bpp
  BY <1>5, TgaStream DEF Tga!pitch
<1>7. pixels \in [1 .. bitmap.data -> Byte]
  BY <1>1 DEF IsImage
<1>8. w * h \in Nat /\ w * bpp \in Nat \ {0}
  <2> HIDE DEF w, h, bpp
  <2> QED BY <1>2, <1>3, <1>5
<1>9. call.row \in Nat /\ call.position \in Nat /\ call.index \in Nat
  BY <1>1 DEF IsTyped
<1> QED BY <1>1, <1>2, <1>3, <1>5, <1>6, <1>7, <1>8, <1>9 DEF TgaAtPixels

(* A read of TGA goes on among the pixels.                                 *)
LEMMA TgaGoesOn ==
  ASSUME Inv, call.op = "ReadTga", call.step \in TgaPixels,
         UNCHANGED <<file, bitmap, metadata>>, pixels' \in [1 .. bitmap.data -> Byte],
         IsTyped(call'), call'.op = "ReadTga", call'.wants = call.wants,
         call'.header = call.header,
         \A i \in DOMAIN call'.palette : call'.palette[i] \in Byte \X Byte \X Byte,
         call'.beyond => call.beyond \/ MayGoBeyond,
         call'.step \in TgaPixels \ {"Pixels"},
         call'.step \in {"Palette", "Compressed"} => call'.index = 0 /\ call'.row = 0,
         call'.step = "Palette" => call'.position = 18 /\ Tga!IsIndexed(call.header),
         call'.step = "Indexes" => call.header.imageType = Tga!RAW_INDEXED,
         call'.step = "Rows" =>
           call.header.imageType \in Tga!RAW_PIXELS /\ call'.row < bitmap.height,
         call'.step \in {"Compressed", "Packets"} =>
           call.header.imageType \in Tga!RLE_PIXELS \union {Tga!RLE_INDEXED},
         call'.step = "Compressed" => call'.position = Tga!FirstPacket(call.header),
         call'.step = "Packets" => StaysInStep'
  PROVE  Inv'
<1>1. Common /\ TgaReads
  BY DEF Inv, During, Running, TgaPixels
<1>2. Common'
  BY <1>1, PixelsPut
<1>3. /\ HeaderOf("tgaHeader", 0)
      /\ Fresh(bitmap, Tga!GetFormat(call.header), call.header.width, call.header.height)
      /\ (call.wants => metadata.strings = <<>>) /\ file.codec = "tga"
  BY <1>1 DEF TgaReads
<1>4. HeaderOf("tgaHeader", 0)'
  BY <1>3 DEF HeaderOf, IsAt
<1>5. Fresh(bitmap', Tga!GetFormat(call'.header), call'.header.width, call'.header.height)
  BY <1>3
<1>6. call'.step \in {"Palette", "Indexes", "Rows", "Compressed", "Packets", "Mirror"}
  BY DEF TgaPixels
<1>7. TgaReads'
  BY <1>3, <1>4, <1>5, <1>6 DEF TgaReads, TgaPixels, TgaMetadata
<1> QED BY <1>2, <1>6, <1>7, GoesOnReading

(* TGA: the choice of the decoder keeps the invariant.                     *)
LEMMA TgaPixelsAreBegun ==
  ASSUME Inv, Tga!BeginPixels
  PROVE  Inv'
<1> DEFINE w == call.header.width
           h == call.header.height
           bpp == GetBytesPerPixel(Tga!GetFormat(call.header))
           type == call.header.imageType
<1>1. At("ReadTga", "Pixels") /\ UNCHANGED <<file, metadata>>
  BY TgaCalls DEF Tga!BeginPixels
<1>2. /\ Common /\ TgaReads /\ IsTyped(call) /\ call.op = "ReadTga" /\ call.step = "Pixels"
      /\ call.index = 0 /\ call.row = 0 /\ call.position = 18
  BY <1>1 DEF Inv, Common, During, Running, At, TgaReads
<1>3. TgaAtPixels(w, h, bpp) /\ call.step \in TgaPixels
  BY <1>2, TgaIsAtPixels DEF TgaPixels
<1>4. "INVALID_DATA" \in Result \ {"OK"} /\ "HEADER_NOT_SUPPORTED" \in Result \ {"OK"}
  BY DEF Result
<1>5. CASE Fail("INVALID_DATA") \/ Fail("HEADER_NOT_SUPPORTED")
  BY <1>1, <1>4, <1>5, FailKeeps
<1>6. CASE /\ \/ Tga!IsIndexed(call.header) /\ call' = Goto("Palette")
              \/ type \in Tga!RAW_PIXELS /\ call' = Goto("Rows")
              \/ type \in Tga!RLE_PIXELS /\ call' = Goto("Compressed")
           /\ UNCHANGED <<bitmap, pixels>>
  <2>1. ASSUME NEW step, call' = Goto(step)
        PROVE  /\ IsTyped(call') /\ call'.op = "ReadTga" /\ call'.wants = call.wants
               /\ call'.header = call.header /\ call'.palette = call.palette
               /\ call'.beyond = call.beyond /\ call'.step = step
               /\ call'.index = 0 /\ call'.row = 0 /\ call'.position = 18
    BY <1>2, <2>1 DEF Goto, IsTyped
  <2>2. pixels' \in [1 .. bitmap.data -> Byte] /\ 0 < bitmap.height
        /\ \A i \in DOMAIN call.palette : call.palette[i] \in Byte \X Byte \X Byte
    BY <1>3, <1>6 DEF TgaAtPixels
  <2>3. type \in Tga!RLE_PIXELS => Tga!FirstPacket(call.header) = 18
    BY DEF Tga!RLE_PIXELS, Tga!FirstPacket, Tga!IsIndexed, Tga!RAW_INDEXED, Tga!RLE_INDEXED,
       Tga!TGA_HEADER_SIZE
  <2>4. CASE Tga!IsIndexed(call.header) /\ call' = Goto("Palette")
    BY <1>1, <1>2, <1>3, <1>6, <2>1, <2>2, <2>4, TgaGoesOn DEF TgaPixels
  <2>5. CASE type \in Tga!RAW_PIXELS /\ call' = Goto("Rows")
    BY <1>1, <1>2, <1>3, <1>6, <2>1, <2>2, <2>5, TgaGoesOn DEF TgaPixels
  <2>6. CASE type \in Tga!RLE_PIXELS /\ call' = Goto("Compressed")
    BY <1>1, <1>2, <1>3, <1>6, <2>1, <2>2, <2>3, <2>6, TgaGoesOn DEF TgaPixels
  <2> QED BY <1>6, <2>4, <2>5, <2>6
<1> QED BY <1>5, <1>6, TgaCalls DEF Tga!BeginPixels, Tga!h

(* TGA: a read that is not given its memory keeps the invariant.           *)
LEMMA TgaHasNoMemory ==
  ASSUME Inv, Tga!NoMemory, UNCHANGED <<file, metadata>>
  PROVE  Inv'
<1>1. FailOnFault("OUT_OF_MEMORY")
  BY TgaCalls DEF Tga!NoMemory
<1>2. "OUT_OF_MEMORY" \in Result /\ "OUT_OF_MEMORY" # "OK"
  BY DEF Result
<1> QED BY <1>1, <1>2, FailKeeps

(* TGA: the read of the palette keeps the invariant.                       *)
LEMMA TgaPaletteIsRead ==
  ASSUME Inv, Tga!ReadPalette
  PROVE  Inv'
<1> DEFINE w == call.header.width
           h == call.header.height
           bpp == GetBytesPerPixel(Tga!GetFormat(call.header))
           type == call.header.imageType
           step == IF type = Tga!RAW_INDEXED THEN "Indexes" ELSE "Compressed"
           palette == IF IsAt(file, call.position, "palette") THEN file.at[call.position].value
                      ELSE <<>>
<1>1. At("ReadTga", "Palette") /\ UNCHANGED <<file, metadata>>
  BY TgaCalls DEF Tga!ReadPalette
<1>2. /\ Common /\ TgaReads /\ IsTyped(call) /\ IsFile(file) /\ call.op = "ReadTga"
      /\ call.step = "Palette" /\ call.index = 0 /\ call.row = 0 /\ call.position = 18
      /\ Tga!IsIndexed(call.header)
  BY <1>1 DEF Inv, Common, During, Running, At, TgaReads
<1>3. TgaAtPixels(w, h, bpp) /\ call.step \in TgaPixels
  BY <1>2, TgaIsAtPixels DEF TgaPixels
<1>4. CASE PixelsFallShort(768)
  BY <1>1, <1>4, PixelsFallShortKeeps
<1>5. CASE /\ call' = [call EXCEPT !.step = step, !.position = @ + 768, !.palette = palette]
           /\ UNCHANGED <<bitmap, pixels>>
  <2>1. \A i \in DOMAIN palette : palette[i] \in Byte \X Byte \X Byte
    <3>1. IsAt(file, call.position, "palette") =>
            \A i \in DOMAIN file.at[call.position].value :
              file.at[call.position].value[i] \in Byte \X Byte \X Byte
      BY <1>2 DEF IsFile, IsPiece, IsAt
    <3> QED BY <3>1
  <2> HIDE DEF palette, step
  <2>2. /\ IsTyped(call') /\ call'.op = "ReadTga" /\ call'.wants = call.wants
        /\ call'.header = call.header /\ call'.palette = palette
        /\ call'.beyond = call.beyond /\ call'.step = step
        /\ call'.index = 0 /\ call'.row = 0 /\ call'.position = 786
    BY <1>2, <1>5 DEF IsTyped
  <2>3. pixels' \in [1 .. bitmap.data -> Byte]
    BY <1>3, <1>5 DEF TgaAtPixels
  <2>4. /\ step \in {"Indexes", "Compressed"}
        /\ step = "Indexes" => type = Tga!RAW_INDEXED
        /\ step = "Compressed" => type = Tga!RLE_INDEXED
    BY <1>2 DEF step, Tga!IsIndexed
  <2>5. Tga!FirstPacket(call.header) = 786
    BY <1>2 DEF Tga!FirstPacket, Tga!TGA_HEADER_SIZE, Tga!PALETTE_SIZE
  <2> QED BY <1>1, <1>2, <1>3, <1>5, <2>1, <2>2, <2>3, <2>4, <2>5, TgaGoesOn DEF TgaPixels
<1>6. \/ Tga!NoMemory
      \/ Tga!PixelsFallShort(768)
      \/ /\ call' = [call EXCEPT !.step = step, !.position = @ + 768,
                 !.palette = IF Tga!IsAt(file, call.position, "palette")
                             THEN file.at[call.position].value ELSE <<>>]
         /\ UNCHANGED <<bitmap, pixels>>
  BY DEF Tga!ReadPalette, Tga!h, Tga!PALETTE_SIZE
<1>7. palette = IF Tga!IsAt(file, call.position, "palette") THEN file.at[call.position].value
                ELSE <<>>
  BY TgaStream
<1> HIDE DEF palette, step
<1> QED BY <1>1, <1>4, <1>5, <1>6, <1>7, TgaCalls, TgaHasNoMemory

(* Three bytes and a fourth.                                               *)
LEMMA FourthByte ==
  ASSUME NEW s \in Seq(Byte), Len(s) = 3, NEW t \in Seq(Byte), Len(t) = 1
  PROVE  \A k \in 1 .. 4 : (s \o t)[k] \in Byte
<1> DEFINE c == s \o t
<1>1. /\ Len(c) = Len(s) + Len(t)
      /\ \A k \in 1 .. Len(s) + Len(t) : c[k] = IF k <= Len(s) THEN s[k] ELSE t[k - Len(s)]
  BY JoinedMembers, Zenon
<1> HIDE DEF c
<1>2. ASSUME NEW k \in 1 .. 4
      PROVE  c[k] \in Byte
  <2>1. c[k] = IF k <= 3 THEN s[k] ELSE t[k - 3]
    BY <1>1
  <2>2. CASE k \in 1 .. 3
    <3>1. s[k] \in Byte
      BY <2>2
    <3> QED BY <2>1, <2>2, <3>1
  <2>3. CASE k = 4
    <3>1. 1 \in 1 .. Len(t)
      OBVIOUS
    <3>2. t[1] \in Byte
      BY <3>1, MemberOf, Zenon
    <3> QED BY <2>1, <2>3, <3>2
  <2>4. k \in 1 .. 3 \/ k = 4
    OBVIOUS
  <2> QED BY <2>2, <2>3, <2>4
<1> QED BY <1>2 DEF c

(* TGA: three bytes and an opaque alpha are a pixel of four bytes.         *)
LEMMA OpaquePixel ==
  ASSUME NEW s \in Seq(Byte), Len(s) = 3
  PROVE  \A k \in 1 .. 4 : (s \o <<255>>)[k] \in Byte
<1>1. 255 \in Byte
  BY DEF Byte, Unknown
<1>2. <<255>> \in Seq(Byte) /\ Len(<<255>>) = 1
  BY <1>1
<1> QED BY <1>2, FourthByte, Zenon

(* A pixel by its index is of four bytes.                                  *)
LEMMA ColourType ==
  ASSUME \A i \in DOMAIN call.palette : call.palette[i] \in Byte \X Byte \X Byte, NEW index
  PROVE  \A k \in 1 .. 4 : Tga!Colour(index)[k] \in Byte
<1>1. Tga!Unknown \in Byte /\ 255 \in Byte
  BY DEF Tga!Unknown, Unknown, Byte
<1>2. CASE index \in DOMAIN call.palette
  <2>1. PICK a \in Byte, b \in Byte, c \in Byte : call.palette[index] = <<a, b, c>>
    BY <1>2
  <2>2. Tga!Colour(index) = <<a, b, c>> \o <<255>>
    BY <1>2, <2>1 DEF Tga!Colour
  <2>4. <<a, b, c>> \in Seq(Byte) /\ Len(<<a, b, c>>) = 3
    OBVIOUS
  <2> QED BY <2>2, <2>4, OpaquePixel
<1>3. CASE index \notin DOMAIN call.palette
  BY <1>1, <1>3 DEF Tga!Colour
<1> QED BY <1>2, <1>3

(* The bytes of some pixels of four bytes.                                 *)
LEMMA FourByFourType ==
  ASSUME NEW n \in Nat, NEW list, Len(list) = n,
         \A i \in 1 .. n : \A k \in 1 .. 4 : list[i][k] \in Byte
  PROVE  Tga!FourByFour(list) \in [1 .. 4 * n -> Byte]
<1>1. ASSUME NEW i \in 1 .. 4 * n
      PROVE  list[((i - 1) \div 4) + 1][((i - 1) % 4) + 1] \in Byte
  <2>1. ((i - 1) \div 4) + 1 \in 1 .. n /\ ((i - 1) % 4) + 1 \in 1 .. 4
    OBVIOUS
  <2> QED BY <2>1
<1> QED BY <1>1 DEF Tga!FourByFour

(* The rows the other way round.                                           *)
LEMMA RowsReversedType ==
  ASSUME NEW w, NEW h, NEW bpp, TgaAtPixels(w, h, bpp), NEW data \in [1 .. bitmap.data -> Byte]
  PROVE  Tga!RowsReversed(data) \in [1 .. bitmap.data -> Byte]
<1> DEFINE pitch == Tga!pitch
           n     == bitmap.data
           place(i) == (h - 1 - ((i - 1) \div pitch)) * pitch + ((i - 1) % pitch) + 1
<1>1. pitch \in Nat \ {0} /\ h \in Nat /\ n = h * pitch /\ n \in Nat /\ bitmap.height = h
  BY DEF TgaAtPixels
<1>2. Tga!RowsReversed(data) = [i \in 1 .. n |-> data[place(i)]]
  BY <1>1 DEF Tga!RowsReversed
<1> HIDE DEF pitch, n
<1>3. ASSUME NEW i \in 1 .. n
      PROVE  place(i) \in 1 .. n
  <2> DEFINE q == (i - 1) \div pitch
             r == (i - 1) % pitch
  <2>1. q \in 0 .. h - 1 /\ r \in 0 .. pitch - 1
    BY <1>1, Cells
  <2> HIDE DEF q, r
  <2>2. q \in Nat /\ q < h /\ pitch \in Nat
    BY <1>1, <2>1
  <2>3. (h - 1 - q) * pitch \in Nat /\ (h - 1 - q) * pitch + pitch <= h * pitch
    BY <1>1, <2>2, RowsFit
  <2> DEFINE m == (h - 1 - q) * pitch
  <2> HIDE DEF m
  <2>4. m + r + 1 \in 1 .. n
    BY <1>1, <2>1, <2>3 DEF m
  <2> QED BY <2>4 DEF m, q, r
<1> HIDE DEF place
<1>4. \A i \in 1 .. n : data[place(i)] \in Byte
  BY <1>3 DEF n
<1>5. Tga!RowsReversed(data) \in [1 .. n -> Byte]
  BY <1>2, <1>4
<1> QED BY <1>5 DEF n

(* ReadIndexes.                                                            *)
LEMMA TgaIndexesAreRead ==
  ASSUME Inv, Tga!ReadIndexes
  PROVE  Inv'
<1> DEFINE w == call.header.width
           h == call.header.height
           bpp == GetBytesPerPixel(Tga!GetFormat(call.header))
           n == bitmap.width * bitmap.height * (call.header.bpp \div 8)
           indexes == BytesAt(file, call.position, n)
           colours == [k \in 1 .. bitmap.width * bitmap.height |-> Tga!Colour(indexes[k])]
<1>1. At("ReadTga", "Indexes") /\ UNCHANGED <<file, metadata>>
  BY TgaCalls DEF Tga!ReadIndexes
<1>2. /\ Common /\ TgaReads /\ IsTyped(call) /\ call.op = "ReadTga" /\ call.step = "Indexes"
      /\ call.header.imageType = Tga!RAW_INDEXED
  BY <1>1 DEF Inv, Common, During, Running, At, TgaReads
<1>3. TgaAtPixels(w, h, bpp) /\ call.step \in TgaPixels
  BY <1>2, TgaIsAtPixels DEF TgaPixels
<1>4. bpp = 4
  <2>1. Tga!IsIndexed(call.header)
    BY <1>2 DEF Tga!IsIndexed
  <2> QED BY <2>1, TgaFormats
<1>5. /\ bitmap.width * bitmap.height = w * h /\ w * h \in Nat
      /\ bitmap.data = w * h * 4
      /\ \A i \in DOMAIN call.palette : call.palette[i] \in Byte \X Byte \X Byte
  BY <1>3, <1>4 DEF TgaAtPixels
<1> DEFINE m == w * h
<1> HIDE DEF m
<1>6. m \in Nat /\ bitmap.data = 4 * m
  BY <1>5 DEF m
<1>7. colours = [k \in 1 .. m |-> Tga!Colour(indexes[k])]
  BY <1>5 DEF m
<1> HIDE DEF colours, indexes, n
<1>8. Len(colours) = m
  BY <1>6, <1>7
<1>9. \A i \in 1 .. m : \A k \in 1 .. 4 : colours[i][k] \in Byte
  BY <1>5, <1>7, ColourType
<1>10. Tga!FourByFour(colours) \in [1 .. bitmap.data -> Byte]
  BY <1>6, <1>8, <1>9, FourByFourType
<1>11. CASE PixelsFallShort(n)
  BY <1>1, <1>11, PixelsFallShortKeeps
<1>12. CASE /\ pixels' = Tga!RowsReversed(Tga!FourByFour(colours))
            /\ call' = Goto("Mirror") /\ UNCHANGED bitmap
  <2>1. pixels' \in [1 .. bitmap.data -> Byte]
    BY <1>3, <1>10, <1>12, RowsReversedType
  <2>2. /\ IsTyped(call') /\ call'.op = "ReadTga" /\ call'.wants = call.wants
        /\ call'.header = call.header /\ call'.palette = call.palette
        /\ call'.beyond = call.beyond /\ call'.step = "Mirror"
    BY <1>2, <1>12 DEF Goto, IsTyped
  <2> QED BY <1>1, <1>2, <1>3, <1>5, <1>12, <2>1, <2>2, TgaGoesOn DEF TgaPixels
<1>13. \/ Tga!NoMemory
       \/ PixelsFallShort(n)
       \/ /\ pixels' = Tga!RowsReversed(Tga!FourByFour(colours))
          /\ call' = Goto("Mirror") /\ UNCHANGED bitmap
  BY TgaCalls, TgaStream DEF Tga!ReadIndexes, Tga!h, colours, indexes, n
<1> QED BY <1>1, <1>11, <1>12, <1>13, TgaHasNoMemory

(* Rows of fewer bytes than the bitmap's lie in it.                        *)
LEMMA NarrowRowsFit ==
  ASSUME NEW w \in Nat, NEW rows \in Nat, NEW row \in Nat, row < rows,
         NEW s \in Nat, NEW bpp \in Nat, s <= bpp
  PROVE  (rows - 1 - row) * (w * s) + w * s <= rows * (w * bpp)
<1>1. w * s \in Nat /\ w * bpp \in Nat /\ s * w \in Nat /\ w * s = s * w /\ w * bpp = bpp * w
  OBVIOUS
<1>2. s * w <= bpp * w
  BY ProductGrows
<1>3. w * s <= w * bpp
  BY <1>1, <1>2
<1> DEFINE a == w * s
           b == w * bpp
<1> HIDE DEF a, b
<1>4. a \in Nat /\ b \in Nat /\ a <= b
  BY <1>1, <1>3 DEF a, b
<1>5. (rows - 1 - row) * a \in Nat /\ (rows - 1 - row) * a + a <= rows * a /\ rows * a \in Nat
  BY <1>4, RowsFit
<1>6. rows * a <= rows * b
  <2>1. a * rows <= b * rows
    BY <1>4, ProductGrows
  <2>2. a * rows = rows * a /\ b * rows = rows * b
    BY <1>4
  <2> QED BY <2>1, <2>2
<1>7. rows * b \in Nat
  BY <1>4
<1> DEFINE c == (rows - 1 - row) * a
           d == rows * a
           e == rows * b
<1> HIDE DEF c, d, e
<1>8. c + a <= e
  BY <1>4, <1>5, <1>6, <1>7 DEF c, d, e
<1> QED BY <1>8 DEF a, b, c, e

(* The bytes of a pixel in the file are no more than in the bitmap, or the *)
(* decoder may go beyond.                                                  *)
LEMMA TgaInputSize ==
  ASSUME NEW w, NEW h, NEW bpp, TgaAtPixels(w, h, bpp),
         call.header.imageType \in Tga!RAW_PIXELS
  PROVE  /\ Tga!InputSize(call.header) \in Nat
         /\ ~ MayGoBeyond => /\ Tga!InputSize(call.header) = 3 => bpp = 4
                             /\ Tga!InputSize(call.header) <= bpp
<1> DEFINE header == call.header
           s      == Tga!InputSize(header)
<1>1. header.bpp \in Nat /\ header.mapped \in BOOLEAN /\ HeaderOf("tgaHeader", 0)
      /\ bpp \in {1, 4} /\ bpp = GetBytesPerPixel(Tga!GetFormat(header))
  BY DEF TgaAtPixels, Tga!Headers
<1>2. header \in Header("tgaHeader")
  BY <1>1 DEF Header, HeaderOf
<1>3. ~ MayGoBeyond => IF header.mapped THEN header.bpp # 8 ELSE header.bpp < 40
  BY <1>1, <1>2 DEF MayGoBeyond
<1>4. ~ Tga!IsIndexed(header)
  BY DEF Tga!IsIndexed, Tga!RAW_PIXELS, Tga!RAW_INDEXED, Tga!RLE_INDEXED
<1>5. bpp = 1 <=> header.bpp = 8
  BY <1>1, <1>4, TgaFormats
<1>6. s = (IF header.mapped THEN 24 ELSE header.bpp) \div 8
  BY DEF Tga!InputSize
<1> HIDE DEF header, s
<1>7. CASE header.mapped
  <2>1. s = 3
    BY <1>6, <1>7
  <2> QED BY <1>1, <1>3, <1>5, <1>7, <2>1 DEF header, s
<1>8. CASE ~ header.mapped
  <2>1. s = header.bpp \div 8
    BY <1>6, <1>8
  <2>2. s \in Nat /\ (header.bpp < 40 => s <= 4) /\ (header.bpp = 8 => s = 1)
    BY <1>1, <2>1
  <2> QED BY <1>1, <1>3, <1>5, <1>8, <2>2 DEF header, s
<1> QED BY <1>1, <1>7, <1>8

(* Pixels of three bytes in the file.                                      *)
LEMMA ThreeBytesType ==
  ASSUME NEW w \in Nat, NEW row \in [1 .. w * 3 -> Byte]
  PROVE  Tga!FourByFour([k \in 1 .. w |-> SubSeq(row, 3 * k - 2, 3 * k) \o <<255>>])
           \in [1 .. 4 * w -> Byte]
<1> DEFINE list == [k \in 1 .. w |-> SubSeq(row, 3 * k - 2, 3 * k) \o <<255>>]
<1>1. ASSUME NEW k \in 1 .. w
      PROVE  \A n \in 1 .. 4 : list[k][n] \in Byte
  <2> DEFINE m == 3 * k - 3
             part == SubSeq(row, m + 1, m + 3)
  <2>1. m \in Nat /\ m + 3 <= w * 3 /\ 3 * k - 2 = m + 1 /\ 3 * k = m + 3
    OBVIOUS
  <2>2. row \in Seq(Byte) /\ Len(row) = w * 3
    <3>1. w * 3 \in Nat
      OBVIOUS
    <3> QED BY <3>1
  <2> HIDE DEF m
  <2>3. part \in Seq(Byte) /\ Len(part) = 3
    BY <2>1, <2>2, PartOfBytes
  <2>4. list[k] = part \o <<255>>
    BY <2>1
  <2> HIDE DEF list, part
  <2> QED BY <2>3, <2>4, OpaquePixel
<1>2. Len(list) = w
  OBVIOUS
<1> HIDE DEF list
<1>3. Tga!FourByFour(list) \in [1 .. 4 * w -> Byte]
  BY <1>1, <1>2, FourByFourType
<1> QED BY <1>3 DEF list

(* TGA: the read of a row keeps the invariant.                             *)
LEMMA TgaRowIsRead ==
  ASSUME Inv, Tga!ReadRow
  PROVE  Inv'
<1> DEFINE w == call.header.width
           h == call.header.height
           bpp == GetBytesPerPixel(Tga!GetFormat(call.header))
           s == Tga!InputSize(call.header)
           stride == bitmap.width * s
           row == BytesAt(file, call.position, stride)
           values == IF s # 3 THEN row
                     ELSE Tga!FourByFour([k \in 1 .. bitmap.width |->
                                            SubSeq(row, 3 * k - 2, 3 * k) \o <<255>>])
           start == (bitmap.height - 1 - call.row) * (IF s = 3 THEN Tga!pitch ELSE bitmap.width * s)
           step  == IF call.row + 1 = bitmap.height THEN "Mirror" ELSE "Rows"
<1>1. At("ReadTga", "Rows") /\ UNCHANGED <<file, metadata>>
  BY TgaCalls DEF Tga!ReadRow
<1>2. /\ Common /\ TgaReads /\ IsTyped(call) /\ IsFile(file)
      /\ call.op = "ReadTga" /\ call.step = "Rows"
      /\ call.header.imageType \in Tga!RAW_PIXELS /\ call.row < bitmap.height
  BY <1>1 DEF Inv, Common, During, Running, At, TgaReads
<1>3. TgaAtPixels(w, h, bpp) /\ call.step \in TgaPixels
  BY <1>2, TgaIsAtPixels DEF TgaPixels
<1>4. s \in Nat /\ (~ MayGoBeyond => (s = 3 => bpp = 4) /\ s <= bpp)
  BY <1>2, <1>3, TgaInputSize
<1>5. /\ w \in Nat /\ h \in Nat /\ bpp \in {1, 4} /\ bitmap.width = w /\ bitmap.height = h
      /\ bitmap.data = h * (w * bpp) /\ bitmap.data \in Nat
      /\ Tga!pitch = w * bpp /\ call.row \in Nat /\ call.position \in Nat
      /\ pixels \in [1 .. bitmap.data -> Byte]
      /\ \A i \in DOMAIN call.palette : call.palette[i] \in Byte \X Byte \X Byte
  BY <1>3 DEF TgaAtPixels
<1> HIDE DEF s, w, h, bpp
<1>6. stride = w * s /\ w * s \in Nat /\ w * bpp \in Nat
  BY <1>4, <1>5
<1>7. row \in [1 .. w * s -> Byte]
  BY <1>2, <1>5, <1>6, BytesType
<1> HIDE DEF row
<1>8. values \in [1 .. IF s # 3 THEN w * s ELSE 4 * w -> Byte]
  <2>1. CASE s # 3
    BY <1>7, <2>1
  <2>2. CASE s = 3
    <3>1. row \in [1 .. w * 3 -> Byte]
      BY <1>7, <2>2
    <3>2. Tga!FourByFour([k \in 1 .. w |-> SubSeq(row, 3 * k - 2, 3 * k) \o <<255>>])
            \in [1 .. 4 * w -> Byte]
      BY <1>5, <3>1, ThreeBytesType
    <3> QED BY <1>5, <2>2, <3>2
  <2> QED BY <2>1, <2>2
<1> HIDE DEF values
<1>9. /\ \A k \in DOMAIN values : values[k] \in Byte
      /\ Len(values) = IF s # 3 THEN w * s ELSE 4 * w
  <2>1. (IF s # 3 THEN w * s ELSE 4 * w) \in Nat
    BY <1>4, <1>5, <1>6
  <2> DEFINE n == IF s # 3 THEN w * s ELSE 4 * w
  <2> HIDE DEF n
  <2> QED BY <1>8, <2>1 DEF n
<1>10. start \in Int
  <2>1. h - 1 - call.row \in Nat /\ (IF s = 3 THEN w * bpp ELSE w * s) \in Nat
    BY <1>2, <1>5, <1>6
  <2> DEFINE x == h - 1 - call.row
             y == IF s = 3 THEN w * bpp ELSE w * s
  <2>2. start = x * y
    BY <1>5
  <2> HIDE DEF x, y, start
  <2>3. x * y \in Nat
    BY <2>1, ProductType DEF x, y
  <2> QED BY <2>2, <2>3
<1>11. ~ MayGoBeyond => ~ GoesBeyond(pixels, start, values)
  <2> SUFFICES ASSUME ~ MayGoBeyond
               PROVE  ~ GoesBeyond(pixels, start, values)
    OBVIOUS
  <2>1. (s = 3 => bpp = 4) /\ s <= bpp
    BY <1>4
  <2>2. start + Len(values) <= bitmap.data
    <3>1. CASE s = 3
      <4>1. start = (h - 1 - call.row) * (w * bpp) /\ Len(values) = 4 * w /\ bpp = 4
        BY <1>5, <1>9, <2>1, <3>1
      <4>2. (h - 1 - call.row) * (w * bpp) + w * bpp <= h * (w * bpp)
        <5>1. bpp \in Nat /\ bpp <= bpp /\ call.row < h
          BY <1>2, <1>5
        <5> QED BY <1>5, <5>1, NarrowRowsFit
      <4>3. 4 * w = w * bpp
        BY <1>5, <4>1
      <4> HIDE DEF start, values
      <4> QED BY <1>5, <4>1, <4>2, <4>3
    <3>2. CASE s # 3
      <4>1. start = (h - 1 - call.row) * (w * s) /\ Len(values) = w * s
        BY <1>5, <1>9, <3>2
      <4>2. (h - 1 - call.row) * (w * s) + w * s <= h * (w * bpp)
        BY <1>2, <1>4, <1>5, <2>1, NarrowRowsFit
      <4> HIDE DEF start, values
      <4> QED BY <1>5, <4>1, <4>2
    <3> QED BY <3>1, <3>2
  <2>3. Len(pixels) = bitmap.data
    BY <1>5
  <2>4. Len(values) \in Int
    BY <1>5, <1>6, <1>9
  <2> HIDE DEF start
  <2> QED BY <1>5, <1>10, <2>2, <2>3, <2>4 DEF GoesBeyond
<1> HIDE DEF start
<1>12. CASE PixelsFallShort(stride)
  BY <1>1, <1>12, PixelsFallShortKeeps
<1>13. CASE /\ pixels' = Put(pixels, start, values) /\ UNCHANGED bitmap
            /\ call' = [call EXCEPT !.step = step, !.row = @ + 1, !.position = @ + stride,
                                    !.beyond = @ \/ GoesBeyond(pixels, start, values)]
  <2>1. pixels' \in [1 .. bitmap.data -> Byte]
    BY <1>5, <1>9, <1>10, <1>13, PutType
  <2>2. stride \in Nat
    BY <1>6
  <2> HIDE DEF stride, step
  <2>3. /\ call'.op = "ReadTga" /\ call'.wants = call.wants
        /\ call'.header = call.header /\ call'.palette = call.palette
        /\ call'.step = step /\ call'.row = call.row + 1
        /\ call'.beyond = (call.beyond \/ GoesBeyond(pixels, start, values))
    BY <1>2, <1>13 DEF IsTyped
  <2>4. IsTyped(call')
    BY <1>2, <1>5, <1>13, <2>2, <2>3 DEF IsTyped
  <2>5. step \in {"Mirror", "Rows"} /\ (step = "Rows" => call.row + 1 < bitmap.height)
    BY <1>2, <1>5 DEF step
  <2> QED BY <1>1, <1>2, <1>3, <1>5, <1>11, <1>13, <2>1, <2>3, <2>4, <2>5, TgaGoesOn DEF TgaPixels
<1>14. \/ Tga!PixelsFallShort(stride)
       \/ /\ pixels' = Tga!Put(pixels, start, values) /\ UNCHANGED bitmap
          /\ call' = [call EXCEPT !.step = step, !.row = @ + 1, !.position = @ + stride,
                                  !.beyond = @ \/ Tga!GoesBeyond(pixels, start, values)]
  BY TgaStream DEF Tga!ReadRow, Tga!h, Tga!RowStart, row, s, stride, values, start
<1> HIDE DEF stride, step
<1> QED BY <1>12, <1>13, <1>14, TgaStream, TgaCalls

(* TGA: the read of the compressed pixels keeps the invariant.             *)
LEMMA TgaCompressedIsRead ==
  ASSUME Inv, Tga!ReadCompressed
  PROVE  Inv'
<1> DEFINE w == call.header.width
           h == call.header.height
           bpp == GetBytesPerPixel(Tga!GetFormat(call.header))
<1>1. At("ReadTga", "Compressed") /\ UNCHANGED <<file, metadata>>
  BY TgaCalls DEF Tga!ReadCompressed
<1>2. /\ Common /\ TgaReads /\ IsTyped(call) /\ IsFile(file)
      /\ call.op = "ReadTga" /\ call.step = "Compressed" /\ call.index = 0
      /\ call.header.imageType \in Tga!RLE_PIXELS \union {Tga!RLE_INDEXED}
      /\ call.position = Tga!FirstPacket(call.header)
  BY <1>1 DEF Inv, Common, During, Running, At, TgaReads
<1>3. TgaAtPixels(w, h, bpp) /\ call.step \in TgaPixels
  BY <1>2, TgaIsAtPixels DEF TgaPixels
<1>4. CASE PixelsFallShort(0)
  BY <1>1, <1>4, PixelsFallShortKeeps
<1>5. CASE call' = Goto("Packets") /\ UNCHANGED <<bitmap, pixels>>
  <2>1. /\ IsTyped(call') /\ call'.op = "ReadTga" /\ call'.wants = call.wants
        /\ call'.header = call.header /\ call'.palette = call.palette
        /\ call'.beyond = call.beyond /\ call'.step = "Packets"
        /\ call'.index = 0 /\ call'.position = call.position
    BY <1>2, <1>5 DEF Goto, IsTyped
  <2>2. \A before, header :
          Tga!ArePixelsBefore(before, header)' <=> Tga!ArePixelsBefore(before, header)
    BY <1>1, PacketsStay
  <2>3. StaysInStep'
    <3> SUFFICES ASSUME Tga!FirstPacket(call.header) \in DOMAIN file.at, NEW before,
                        Tga!ArePixelsBefore(before, call.header)
                 PROVE  InStep(before)'
      BY <1>1, <2>1, <2>2 DEF StaysInStep
    <3>1. before[Tga!FirstPacket(call.header)] = 0
      BY DEF Tga!ArePixelsBefore
    <3>2. Tga!FirstPacket(call.header) \in Nat
      BY DEF Tga!FirstPacket, Tga!TGA_HEADER_SIZE, Tga!PALETTE_SIZE
    <3> QED BY <1>1, <1>2, <2>1, <3>1, <3>2 DEF InStep
  <2>4. /\ pixels' \in [1 .. bitmap.data -> Byte]
        /\ \A i \in DOMAIN call.palette : call.palette[i] \in Byte \X Byte \X Byte
    BY <1>3, <1>5 DEF TgaAtPixels
  <2> QED BY <1>1, <1>2, <1>3, <1>5, <2>1, <2>3, <2>4, TgaGoesOn DEF TgaPixels
<1> QED BY <1>1, <1>4, <1>5, TgaCalls, TgaHasNoMemory DEF Tga!ReadCompressed

(* A packet: how many pixels it stands for, and where the next begins.     *)
LEMMA PacketType ==
  ASSUME NEW header \in Tga!Headers, NEW descriptor \in Byte
  PROVE  /\ Tga!PixelsOf(descriptor) \in Nat \ {0}
         /\ Tga!SizeOf(descriptor, header) \in Nat \ {0}
         /\ Tga!InputSize(header) \in Nat
<1>1. \A d \in Byte : (d % 128) + 1 \in Nat \ {0}
  BY DEF Byte, Unknown
<1>2. Tga!PixelsOf(descriptor) \in Nat \ {0}
  BY <1>1 DEF Tga!PixelsOf
<1>3. Tga!InputSize(header) \in Nat
  BY DEF Tga!InputSize, Tga!Headers
<1> DEFINE n == IF Tga!IsRun(descriptor) THEN 1 ELSE Tga!PixelsOf(descriptor)
           s == Tga!InputSize(header)
<1>4. n \in Nat
  BY <1>2
<1> HIDE DEF n, s
<1>5. n * s \in Nat
  BY <1>3, <1>4, ProductType DEF s
<1>6. Tga!SizeOf(descriptor, header) = 1 + n * s
  BY DEF Tga!SizeOf, n, s
<1> QED BY <1>2, <1>3, <1>5, <1>6

(* The packets go with the image: from one to the next the decoder is in   *)
(* step with them, and its pixels end where the image does at the latest.  *)
LeavesInStep(before, index, position) ==
  LET all == call.header.width * call.header.height
  IN  /\ index <= 4 * all
      /\ \/ index = 4 * all
         \/ /\ position \in DOMAIN file.at /\ position >= Tga!FirstPacket(call.header)
            /\ index = 4 * before[position]

(* TGA: from a packet of the picture the decoder steps to the next one, or *)
(* behind the last pixel.                                                  *)
LEMMA NextPacket ==
  ASSUME IsFile(file), call.header \in Tga!Headers,
         Tga!FirstPacket(call.header) \in DOMAIN file.at,
         NEW before \in [DOMAIN file.at -> 0 .. call.header.width * call.header.height],
         Tga!ArePixelsBefore(before, call.header), InStep(before),
         call.position \in Nat, call.index < 4 * (call.header.width * call.header.height),
         Holds(file, call.position, 1)
  PROVE  LeavesInStep(before, call.index + 4 * Tga!PacketCount, call.position + Tga!PacketSize)
<1> DEFINE all == call.header.width * call.header.height
           first == Tga!FirstPacket(call.header)
           o == call.position
           count == Tga!PixelsOf(Tga!ByteWritten(file, o))
           size  == Tga!SizeOf(Tga!ByteWritten(file, o), call.header)
<1>1. all \in Nat /\ first \in Nat /\ o < file.size
  BY ProductType DEF Tga!Headers, Holds, IsFile, Tga!FirstPacket, Tga!TGA_HEADER_SIZE,
     Tga!PALETTE_SIZE
<1>2. o \in DOMAIN file.at /\ o >= first /\ call.index = 4 * before[o]
  BY <1>1 DEF InStep
<1>3. before[o] \in Nat /\ before[o] < all
  <2>1. before[o] \in 0 .. all
    BY <1>2
  <2> HIDE DEF all
  <2> QED BY <1>1, <1>2, <2>1 DEF all
<1>4. ByteWritten(file, o) \in Byte
  BY ByteType
<1>5. count \in Nat \ {0} /\ size \in Nat \ {0}
  BY <1>4, PacketType, TgaOthers
<1>6. Tga!PacketCount = count /\ Tga!PacketSize = size
  <2>1. ~ (o >= file.size)
    BY <1>1 DEF IsFile
  <2>2. Tga!Descriptor = Tga!ByteWritten(file, o)
    BY <2>1 DEF Tga!Descriptor, Tga!ByteAt
  <2> QED BY <2>2 DEF Tga!PacketCount, Tga!PacketSize, Tga!h
<1>7. \/ before[o] + count = all
      \/ before[o] + count < all /\ o + size \in DOMAIN file.at
         /\ before[o + size] = before[o] + count
  BY <1>2, <1>3 DEF Tga!ArePixelsBefore
<1> HIDE DEF all, first, o, count, size
<1>8. /\ call.index + 4 * count = 4 * (before[o] + count)
      /\ call.index + 4 * count <= 4 * all
  BY <1>1, <1>2, <1>3, <1>5, <1>7
<1>9. o + size >= first
  BY <1>1, <1>2, <1>5 DEF o
<1>10. o \in Nat
  BY DEF o
<1>11. \/ call.index + 4 * count = 4 * all
       \/ /\ o + size \in DOMAIN file.at
          /\ call.index + 4 * count = 4 * before[o + size]
  BY <1>7, <1>8
<1> QED BY <1>6, <1>8, <1>9, <1>11 DEF LeavesInStep, all, first, o

(* What Decode makes of a packet are bytes.                                *)
LEMMA SourceByteType ==
  ASSUME IsFile(file), call.header \in Tga!Headers, call.position \in Nat,
         NEW k \in Nat, NEW n \in Nat
  PROVE  Tga!SourceByte(k, n) \in Byte
<1> DEFINE m == IF Tga!IsRun(Tga!Descriptor) THEN 0 ELSE k
           s == Tga!InputSize(call.header)
<1>1. m \in Nat /\ s \in Nat
  BY DEF Tga!InputSize, Tga!Headers
<1> HIDE DEF m, s
<1>2. m * s \in Nat
  BY <1>1, ProductType
<1>3. call.position + 1 + m * s + n \in Int
  BY <1>2
<1>4. Tga!SourceByte(k, n) = ByteAt(file, call.position + 1 + m * s + n)
  BY TgaStream DEF Tga!SourceByte, Tga!h, m, s
<1> QED BY <1>3, <1>4, ByteType

(* TGA: a pixel that is decoded is four bytes.                             *)
LEMMA DecodedType ==
  ASSUME IsFile(file), call.header \in Tga!Headers, call.position \in Nat, NEW k \in Nat,
         \A i \in DOMAIN call.palette : call.palette[i] \in Byte \X Byte \X Byte
  PROVE  \A n \in 1 .. 4 : Tga!Decoded(k)[n] \in Byte
<1>1. CASE Tga!IsIndexed(call.header)
  BY <1>1, ColourType DEF Tga!Decoded, Tga!h
<1>2. CASE ~ Tga!IsIndexed(call.header)
  <2> DEFINE a == Tga!SourceByte(k, 0)
             b == Tga!SourceByte(k, 1)
             c == Tga!SourceByte(k, 2)
             d == IF Tga!InputSize(call.header) = 4 THEN Tga!SourceByte(k, 3) ELSE 255
  <2>1. a \in Byte /\ b \in Byte /\ c \in Byte /\ Tga!SourceByte(k, 3) \in Byte
    BY SourceByteType
  <2>2. d \in Byte
    BY <2>1 DEF Byte, Unknown
  <2>3. Tga!Decoded(k) = <<a, b, c, d>>
    BY <1>2 DEF Tga!Decoded, Tga!h
  <2> HIDE DEF a, b, c, d
  <2> QED BY <2>1, <2>2, <2>3
<1> QED BY <1>1, <1>2

(* TGA: a packet that is decoded leaves a buffer of bytes, of the size it  *)
(* was.                                                                    *)
LEMMA DecodedPacketType ==
  ASSUME IsFile(file), NEW w, NEW h, NEW bpp, TgaAtPixels(w, h, bpp)
  PROVE  Tga!DecodedPacket(call.index) \in [1 .. bitmap.data -> Byte]
<1>1. /\ call.header \in Tga!Headers /\ call.position \in Nat /\ call.index \in Nat
      /\ pixels \in [1 .. bitmap.data -> Byte]
      /\ \A i \in DOMAIN call.palette : call.palette[i] \in Byte \X Byte \X Byte
  BY DEF TgaAtPixels
<1> DEFINE count == Tga!PacketCount
<1>2. count \in Nat
  <2>1. Tga!Descriptor \in Byte
    BY <1>1, ByteType, TgaStream DEF Tga!Descriptor
  <2> QED BY <1>1, <2>1, PacketType DEF Tga!PacketCount
<1> HIDE DEF count
<1>3. CASE GetBytesPerPixel(Tga!GetFormat(call.header)) = 1
  <2> DEFINE opaque == [k \in 1 .. count |-> 255]
             values == [k \in 1 .. count |-> Tga!SourceByte(k - 1, 0)]
  <2>1. Tga!DecodedPacket(call.index) = Put(Put(pixels, call.index + 3, opaque), call.index, values)
    BY <1>3, TgaStream DEF Tga!DecodedPacket, Tga!h, count
  <2>2. \A k \in DOMAIN opaque : opaque[k] \in Byte
    BY DEF Byte, Unknown
  <2>3. \A k \in DOMAIN values : values[k] \in Byte
    <3>1. ASSUME NEW k \in 1 .. count
          PROVE  Tga!SourceByte(k - 1, 0) \in Byte
      BY <1>1, <1>2, SourceByteType
    <3> QED BY <3>1
  <2> HIDE DEF opaque, values
  <2>4. call.index + 3 \in Int /\ call.index \in Int
    BY <1>1
  <2>5. Put(pixels, call.index + 3, opaque) \in [1 .. bitmap.data -> Byte]
    BY <1>1, <2>2, <2>4, PutType
  <2> QED BY <2>1, <2>3, <2>4, <2>5, PutType
<1>4. CASE GetBytesPerPixel(Tga!GetFormat(call.header)) # 1
  <2> DEFINE list == [k \in 1 .. count |-> Tga!Decoded(k - 1)]
  <2>1. Tga!DecodedPacket(call.index) = Put(pixels, call.index, Tga!FourByFour(list))
    BY <1>4, TgaStream DEF Tga!DecodedPacket, Tga!h, count
  <2>2. ASSUME NEW k \in 1 .. count
        PROVE  \A n \in 1 .. 4 : list[k][n] \in Byte
    <3>1. k - 1 \in Nat /\ list[k] = Tga!Decoded(k - 1)
      BY <1>2
    <3> QED BY <1>1, <3>1, DecodedType
  <2>3. Len(list) = count
    BY <1>2
  <2> HIDE DEF list
  <2>4. Tga!FourByFour(list) \in [1 .. 4 * count -> Byte]
    BY <1>2, <2>2, <2>3, FourByFourType
  <2>5. \A k \in DOMAIN Tga!FourByFour(list) : Tga!FourByFour(list)[k] \in Byte
    BY <2>4
  <2> QED BY <1>1, <2>1, <2>5, PutType
<1> QED BY <1>3, <1>4

(* The decoder writes to the buffer, or may go beyond.                     *)
LEMMA PacketStaysInside ==
  ASSUME Common, TgaReads, call.step = "Packets", NEW w, NEW h, NEW bpp, TgaAtPixels(w, h, bpp),
         call.index < bitmap.data, Holds(file, call.position, 1), ~ MayGoBeyond
  PROVE  /\ bpp = 4
         /\ \E before : LeavesInStep(before, call.index + 4 * Tga!PacketCount,
                                     call.position + Tga!PacketSize)
<1>1. /\ HeaderOf("tgaHeader", 0) /\ bpp = GetBytesPerPixel(Tga!GetFormat(call.header))
      /\ bpp \in {1, 4} /\ call.header \in Tga!Headers /\ call.position \in Nat
      /\ bitmap.data = w * h * bpp /\ w * h \in Nat /\ call.header.width = w
      /\ call.header.height = h
  BY DEF TgaAtPixels
<1>2. call.header \in Header("tgaHeader")
  BY <1>1 DEF Header, HeaderOf
<1>3. call.header.imageType \in Tga!RLE_PIXELS \union {Tga!RLE_INDEXED} /\ StaysInStep
  BY DEF TgaReads
<1>4. Tga!PacketsFit(call.header)
  BY <1>2, <1>3 DEF MayGoBeyond
<1>5. bpp # 1
  <2> SUFFICES ASSUME bpp = 1 PROVE FALSE
    OBVIOUS
  <2>1. ~ Tga!IsIndexed(call.header) /\ call.header.bpp = 8
    BY <1>1, TgaFormats
  <2>2. call.header.imageType \in Tga!RLE_PIXELS
    BY <1>3, <2>1 DEF Tga!IsIndexed
  <2> QED BY <1>2, <2>1, <2>2 DEF MayGoBeyond
<1>6. Tga!GetFormat(call.header) # PIXEL_FORMAT_R8_UNORM
  BY <1>1, <1>5, TgaFormats
<1>7. PICK before \in [DOMAIN file.at -> 0 .. call.header.width * call.header.height] :
             Tga!ArePixelsBefore(before, call.header)
  BY <1>4 DEF Tga!PacketsFit
<1>8. Tga!FirstPacket(call.header) \in DOMAIN file.at
  BY <1>4 DEF Tga!PacketsFit
<1>9. InStep(before)
  BY <1>3, <1>6, <1>7, <1>8 DEF StaysInStep
<1>10. bitmap.data = 4 * (call.header.width * call.header.height)
  <2> DEFINE n == w * h
  <2>1. bitmap.data = n * 4 /\ n \in Nat
    BY <1>1, <1>5
  <2> HIDE DEF n
  <2>2. n * 4 = 4 * n
    BY <2>1
  <2> QED BY <1>1, <2>1, <2>2 DEF n
<1> QED BY <1>1, <1>5, <1>7, <1>8, <1>9, <1>10, NextPacket DEF Common

(* TGA: the decoding of a packet keeps the invariant.                      *)
LEMMA TgaPacketIsDecoded ==
  ASSUME Inv, Tga!DecodePacket
  PROVE  Inv'
<1> DEFINE w == call.header.width
           h == call.header.height
           bpp == GetBytesPerPixel(Tga!GetFormat(call.header))
           index    == call.index + Tga!PacketCount * bpp
           position == call.position + Tga!PacketSize
           beyond   == Tga!PacketEnd(call.index) > bitmap.data
<1>1. At("ReadTga", "Packets") /\ UNCHANGED <<file, metadata>>
  BY TgaCalls DEF Tga!DecodePacket
<1>2. /\ Common /\ TgaReads /\ IsTyped(call) /\ IsFile(file)
      /\ call.op = "ReadTga" /\ call.step = "Packets" /\ StaysInStep
      /\ call.header.imageType \in Tga!RLE_PIXELS \union {Tga!RLE_INDEXED}
  BY <1>1 DEF Inv, Common, During, Running, At, TgaReads
<1>3. TgaAtPixels(w, h, bpp) /\ call.step \in TgaPixels
  BY <1>2, TgaIsAtPixels DEF TgaPixels
<1>4. /\ call.header \in Tga!Headers /\ call.position \in Nat /\ call.index \in Nat
      /\ bpp \in {1, 4} /\ bitmap.data \in Nat /\ bitmap.data = w * h * bpp /\ w * h \in Nat
      /\ GetMipSize(bitmap, 0) = bitmap.data
      /\ \A i \in DOMAIN call.palette : call.palette[i] \in Byte \X Byte \X Byte
  BY <1>3 DEF TgaAtPixels
<1>5. call.index < bitmap.data
  BY <1>4, TgaOthers DEF Tga!DecodePacket
<1>6. Tga!PacketCount \in Nat \ {0} /\ Tga!PacketSize \in Nat \ {0}
  <2>1. Tga!Descriptor \in Byte
    BY <1>2, <1>4, ByteType, TgaStream DEF Tga!Descriptor
  <2> QED BY <1>4, <2>1, PacketType DEF Tga!PacketCount, Tga!PacketSize, Tga!h
<1>7. index \in Nat /\ position \in Nat
  BY <1>4, <1>6
<1>8. ASSUME Holds(file, call.position, 1), bpp = 4
      PROVE  StaysInStep => \A before \in [DOMAIN file.at -> 0 .. w * h] :
               Tga!FirstPacket(call.header) \in DOMAIN file.at
                 /\ Tga!ArePixelsBefore(before, call.header) =>
                 LeavesInStep(before, index, position)
  <2>1. Tga!GetFormat(call.header) # PIXEL_FORMAT_R8_UNORM
    BY <1>8, TgaFormats
  <2>2. index = call.index + 4 * Tga!PacketCount
    BY <1>6, <1>8
  <2>3. call.index < 4 * (call.header.width * call.header.height)
    <3> DEFINE n == w * h
    <3>1. bitmap.data = n * 4 /\ n \in Nat
      BY <1>4, <1>8
    <3> HIDE DEF n
    <3>2. n * 4 = 4 * n
      BY <3>1
    <3> QED BY <1>5, <3>1, <3>2 DEF n
  <2> SUFFICES ASSUME StaysInStep, NEW before \in [DOMAIN file.at -> 0 .. w * h],
                      Tga!FirstPacket(call.header) \in DOMAIN file.at,
                      Tga!ArePixelsBefore(before, call.header)
               PROVE  LeavesInStep(before, call.index + 4 * Tga!PacketCount, position)
    BY <2>2
  <2>4. InStep(before)
    BY <2>1 DEF StaysInStep
  <2> QED BY <1>2, <1>4, <1>8, <2>3, <2>4, NextPacket
<1>9. ASSUME Holds(file, call.position, 1), ~ MayGoBeyond
      PROVE  ~ beyond
  <2>1. /\ bpp = 4
        /\ \E before : LeavesInStep(before, call.index + 4 * Tga!PacketCount, position)
    BY <1>2, <1>3, <1>5, <1>9, PacketStaysInside
  <2>2. call.index + 4 * Tga!PacketCount <= 4 * (w * h)
    BY <2>1 DEF LeavesInStep
  <2>3. Tga!PacketEnd(call.index) = call.index + Tga!PacketCount * 4 + 0
    BY <2>1, TgaStream DEF Tga!PacketEnd, Tga!PixelsEnd, Tga!h
  <2> DEFINE n == w * h
  <2>4. bitmap.data = n * 4 /\ n \in Nat
    BY <1>4, <2>1
  <2> HIDE DEF n
  <2>5. n * 4 = 4 * n
    BY <2>4
  <2>6. call.index + 4 * Tga!PacketCount <= bitmap.data
    BY <2>2, <2>4, <2>5 DEF n
  <2> QED BY <1>4, <1>6, <2>3, <2>6
<1>10. CASE Fail("INVALID_DATA")
  <2>1. "INVALID_DATA" \in Result \ {"OK"}
    BY DEF Result
  <2> QED BY <1>1, <1>10, <2>1, FailKeeps
<1>11. CASE /\ Holds(file, call.position, 1)
            /\ pixels' = Tga!DecodedPacket(call.index) /\ UNCHANGED bitmap
            /\ call' = [call EXCEPT !.index = index, !.position = position, !.beyond = @ \/ beyond]
  <2>1. pixels' \in [1 .. bitmap.data -> Byte]
    BY <1>2, <1>3, <1>11, DecodedPacketType
  <2> HIDE DEF index, position, beyond
  <2>2. /\ call'.op = "ReadTga" /\ call'.wants = call.wants /\ call'.step = "Packets"
        /\ call'.header = call.header /\ call'.palette = call.palette
        /\ call'.index = index /\ call'.position = position
        /\ call'.beyond = (call.beyond \/ beyond)
    BY <1>2, <1>11 DEF IsTyped
  <2>3. beyond \in BOOLEAN
    BY DEF beyond
  <2>4. IsTyped(call')
    BY <1>2, <1>7, <1>11, <2>2, <2>3 DEF IsTyped
  <2>5. \A before, header :
          Tga!ArePixelsBefore(before, header)' <=> Tga!ArePixelsBefore(before, header)
    BY <1>1, PacketsStay
  <2>6. StaysInStep'
    <3> SUFFICES ASSUME Tga!FirstPacket(call.header) \in DOMAIN file.at,
                        Tga!GetFormat(call.header) # PIXEL_FORMAT_R8_UNORM,
                        NEW before \in [DOMAIN file.at -> 0 .. w * h],
                        Tga!ArePixelsBefore(before, call.header)
                 PROVE  InStep(before)'
      BY <1>1, <2>2, <2>5 DEF StaysInStep
    <3>1. bpp = 4
      BY <1>4, TgaFormats
    <3>2. LeavesInStep(before, index, position)
      BY <1>2, <1>8, <1>11, <3>1
    <3> QED BY <1>1, <2>2, <3>2 DEF LeavesInStep, InStep
  <2> QED BY <1>1, <1>2, <1>3, <1>4, <1>9, <1>11, <2>1, <2>2, <2>4, <2>6, TgaGoesOn DEF TgaPixels
<1>12. \/ Tga!Fail("INVALID_DATA")
       \/ Tga!PacketFallsShort("INVALID_DATA")
       \/ /\ Tga!PacketIsWhole
          /\ pixels' = Tga!DecodedPacket(call.index) /\ UNCHANGED bitmap
          /\ call' = [call EXCEPT
               !.index = @ + Tga!PacketCount * Tga!GetBytesPerPixel(Tga!GetFormat(call.header)),
               !.position = @ + Tga!PacketSize, !.beyond = @ \/ beyond]
  BY DEF Tga!DecodePacket, Tga!h
<1>13. Tga!PacketIsWhole => Holds(file, call.position, 1)
  BY TgaStream DEF Tga!PacketIsWhole
<1>14. Tga!GetBytesPerPixel(Tga!GetFormat(call.header)) = bpp
  BY TgaStream
<1>15. Tga!Fail("INVALID_DATA") <=> Fail("INVALID_DATA")
  BY TgaCalls
<1>16. CASE /\ Holds(file, call.position, 1)
            /\ pixels' = Tga!DecodedPacket(call.index) /\ UNCHANGED bitmap
            /\ call' = [call EXCEPT
                 !.index = @ + Tga!PacketCount * bpp,
                 !.position = @ + Tga!PacketSize, !.beyond = @ \/ beyond]
  <2>1. call' = [call EXCEPT !.index = index, !.position = position, !.beyond = @ \/ beyond]
    <3> HIDE DEF beyond, bpp
    <3> QED BY <1>2, <1>16 DEF IsTyped, index, position
  <2> HIDE DEF index, position, beyond
  <2> QED BY <1>11, <1>16, <2>1
<1>17. CASE Tga!PacketFallsShort("INVALID_DATA")
  <2> DEFINE far(n) == Tga!PixelsEnd(call.index, n) > bitmap.data
             next(n) == [call EXCEPT !.beyond = @ \/ far(n)]
  <2>1. Holds(file, call.position, 1) /\ Destroy
    BY <1>17, TgaStream, TgaDestroys DEF Tga!PacketFallsShort
  <2>2. PICK n \in 1 .. Tga!PacketCount :
               call' = Finished(next(n), "INVALID_DATA", call.faults)
    BY <1>17, TgaCalls DEF Tga!PacketFallsShort
  <2>3. far(n) => beyond
    <3> DEFINE m == Tga!PacketCount
               e == IF bpp = 1 THEN 3 ELSE 0
    <3>1. n \in Nat /\ m \in Nat /\ n <= m /\ e \in Nat
      BY <1>6
    <3>2. /\ Tga!PixelsEnd(call.index, n) = call.index + n * bpp + e
          /\ Tga!PacketEnd(call.index) = call.index + m * bpp + e
      BY TgaStream DEF Tga!PacketEnd, Tga!PixelsEnd, Tga!h
    <3> HIDE DEF m, e, bpp
    <3>3. n * bpp <= m * bpp /\ n * bpp \in Nat /\ m * bpp \in Nat
      BY <1>4, <3>1
    <3> QED BY <1>4, <3>1, <3>2, <3>3
  <2>4. far(n) \in BOOLEAN
    OBVIOUS
  <2> HIDE DEF far, beyond
  <2>5. next(n).op = call.op /\ next(n).wants = call.wants
        /\ next(n).beyond \in BOOLEAN /\ (next(n).beyond => call.beyond \/ far(n))
    BY <1>2, <2>4 DEF IsTyped
  <2> HIDE DEF next
  <2>6. "INVALID_DATA" \in Result /\ "INVALID_DATA" # "OK"
    BY DEF Result
  <2>7. /\ IsTyped(call') /\ call'.op = call.op /\ call'.step = "Done"
        /\ call'.result = "INVALID_DATA" /\ call'.beyond = next(n).beyond
    BY <1>2, <2>2, <2>5, <2>6 DEF Finished, Called, IsTyped
  <2>8. IsImage(bitmap', pixels')
    <3>1. bitmap' = Destroyed(bitmap) /\ pixels' = <<>> /\ bitmap \in Bitmap
      BY <1>2, <2>1 DEF Destroy, Common, IsImage
    <3>2. bitmap' \in Bitmap /\ bitmap'.data = 0
      BY <3>1, DestroyedType
    <3> QED BY <3>1, <3>2, NoBytes DEF IsImage, IsValid
  <2>9. PixelsStayInside'
    BY <1>1, <1>2, <1>9, <2>1, <2>3, <2>5, <2>7, MayGoBeyondStays DEF Common, PixelsStayInside
  <2>10. Common'
    BY <1>1, <1>2, <2>7, <2>8, <2>9 DEF Common
  <2>11. MetadataComeFromTheFile'
    BY <2>6, <2>7 DEF MetadataComeFromTheFile
  <2> QED BY <2>7, <2>10, <2>11, Over
<1> HIDE DEF index, position, beyond, bpp
<1> QED BY <1>10, <1>12, <1>13, <1>14, <1>15, <1>16, <1>17

(* A step of the reads that changes no more than the pixels.               *)
LEMMA TgaPixelsChange ==
  ASSUME Inv, call.op = "ReadTga", call.step \in TgaPixels,
         UNCHANGED <<file, bitmap, metadata>>, pixels' \in [1 .. bitmap.data -> Byte],
         (call.step = "Mirror" /\ call' = call) \/ call' = Goto("Mirror")
  PROVE  Inv'
<1>1. Common /\ IsTyped(call) /\ TgaReads
  BY DEF Inv, Common, During, Running, TgaPixels
<1>2. TgaAtPixels(call.header.width, call.header.height,
                  GetBytesPerPixel(Tga!GetFormat(call.header)))
  BY <1>1, TgaIsAtPixels
<1>3. /\ IsTyped(call') /\ call'.op = "ReadTga" /\ call'.wants = call.wants
      /\ call'.header = call.header /\ call'.palette = call.palette
      /\ call'.beyond = call.beyond /\ call'.step = "Mirror"
  BY <1>1 DEF Goto, IsTyped
<1>4. \A i \in DOMAIN call.palette : call.palette[i] \in Byte \X Byte \X Byte
  BY <1>2 DEF TgaAtPixels
<1> QED BY <1>1, <1>3, <1>4, TgaGoesOn DEF TgaPixels

(* TGA: the end of the decoding keeps the invariant.                       *)
LEMMA TgaPacketsAreDecoded ==
  ASSUME Inv, Tga!PacketsAreDecoded
  PROVE  Inv'
<1> DEFINE w == call.header.width
           h == call.header.height
           bpp == GetBytesPerPixel(Tga!GetFormat(call.header))
<1>1. At("ReadTga", "Packets") /\ UNCHANGED <<file, bitmap, metadata>>
      /\ pixels' = Tga!RowsReversed(pixels) /\ call' = Goto("Mirror")
  BY TgaCalls DEF Tga!PacketsAreDecoded
<1>2. Common /\ TgaReads /\ call.op = "ReadTga" /\ call.step \in TgaPixels
  BY <1>1 DEF Inv, During, Running, At, TgaPixels
<1>3. TgaAtPixels(w, h, bpp) /\ pixels \in [1 .. bitmap.data -> Byte]
  BY <1>2, TgaIsAtPixels DEF TgaAtPixels
<1>4. pixels' \in [1 .. bitmap.data -> Byte]
  BY <1>1, <1>3, RowsReversedType
<1> QED BY <1>1, <1>2, <1>4, TgaPixelsChange

(* TGA: a row whose ends are exchanged leaves a buffer of bytes.           *)
LEMMA EndsSwappedType ==
  ASSUME NEW w, NEW h, NEW bpp, TgaAtPixels(w, h, bpp), NEW data \in [1 .. bitmap.data -> Byte]
  PROVE  Tga!EndsSwapped(data, bpp) \in [1 .. bitmap.data -> Byte]
<1> DEFINE pitch == Tga!pitch
           n     == bitmap.data
<1>1. /\ pitch = w * bpp /\ n = h * pitch /\ n \in Nat /\ pitch \in Nat \ {0} /\ bpp \in {1, 4}
      /\ w \in Nat \ {0} /\ h \in Nat \ {0}
  BY DEF TgaAtPixels
<1>2. bpp <= pitch
  <2>1. 1 * bpp <= w * bpp
    <3>1. bpp \in Nat /\ 1 \in Nat /\ w \in Nat /\ 1 <= w
      BY <1>1
    <3> QED BY <3>1, ProductGrows
  <2> QED BY <1>1, <2>1
<1>3. pitch <= n
  <2> HIDE DEF pitch, n
  <2>1. 1 * pitch <= h * pitch
    <3>1. pitch \in Nat /\ 1 \in Nat /\ h \in Nat /\ 1 <= h
      BY <1>1
    <3> QED BY <3>1, ProductGrows
  <2> QED BY <1>1, <2>1
<1>4. Tga!EndsSwapped(data, bpp) =
        [i \in 1 .. n |-> CASE i <= bpp                      -> data[i + pitch - bpp]
                            [] pitch - bpp < i /\ i <= pitch -> data[i - pitch + bpp]
                            [] OTHER                         -> data[i]]
  BY DEF Tga!EndsSwapped
<1>5. data \in [1 .. n -> Byte]
  OBVIOUS
<1> HIDE DEF pitch, n
<1>6. ASSUME NEW i \in 1 .. n
      PROVE  (CASE i <= bpp                      -> data[i + pitch - bpp]
                [] pitch - bpp < i /\ i <= pitch -> data[i - pitch + bpp]
                [] OTHER                         -> data[i]) \in Byte
  <2>1. i <= bpp => i + pitch - bpp \in 1 .. n
    BY <1>1, <1>2, <1>3
  <2>2. pitch - bpp < i /\ i <= pitch => i - pitch + bpp \in 1 .. n
    BY <1>1, <1>2, <1>3
  <2>3. /\ i <= bpp => data[i + pitch - bpp] \in Byte
        /\ pitch - bpp < i /\ i <= pitch => data[i - pitch + bpp] \in Byte
        /\ data[i] \in Byte
    BY <1>5, <2>1, <2>2
  <2> QED BY <2>3
<1>7. Tga!EndsSwapped(data, bpp) \in [1 .. n -> Byte]
  BY <1>4, <1>6
<1> QED BY <1>7 DEF n

(* TGA: the mirroring of a row keeps the invariant.                        *)
LEMMA TgaRowIsMirrored ==
  ASSUME Inv, Tga!MirrorRow
  PROVE  Inv'
<1> DEFINE w == call.header.width
           h == call.header.height
           bpp == GetBytesPerPixel(Tga!GetFormat(call.header))
<1>1. At("ReadTga", "Mirror") /\ UNCHANGED <<file, bitmap, metadata, call>>
      /\ pixels' = Tga!EndsSwapped(pixels, GetBytesPerPixel(bitmap.format))
  BY TgaCalls, TgaStream DEF Tga!MirrorRow
<1>2. Common /\ TgaReads /\ call.op = "ReadTga" /\ call.step \in TgaPixels /\ call.step = "Mirror"
  BY <1>1 DEF Inv, During, Running, At, TgaPixels
<1>3. TgaAtPixels(w, h, bpp) /\ pixels \in [1 .. bitmap.data -> Byte]
      /\ GetBytesPerPixel(bitmap.format) = bpp
  BY <1>2, TgaIsAtPixels DEF TgaAtPixels
<1>4. pixels' \in [1 .. bitmap.data -> Byte]
  BY <1>1, <1>3, EndsSwappedType
<1> QED BY <1>1, <1>2, <1>4, TgaPixelsChange

(* TGA: the end of the mirroring keeps the invariant.                      *)
LEMMA TgaRowsAreMirrored ==
  ASSUME Inv, Tga!RowsAreMirrored
  PROVE  Inv'
<1> DEFINE w == call.header.width
           h == call.header.height
           bpp == GetBytesPerPixel(Tga!GetFormat(call.header))
<1>1. /\ At("ReadTga", "Mirror") /\ UNCHANGED <<file, bitmap, metadata>>
      /\ pixels' \in {pixels, Tga!RowsReversed(pixels)}
      /\ IF call.wants THEN call' = Goto("Footer") ELSE Return("OK")
  BY TgaCalls DEF Tga!RowsAreMirrored
<1>2. Common /\ IsTyped(call) /\ TgaReads /\ call.op = "ReadTga" /\ call.step \in TgaPixels
  BY <1>1 DEF Inv, Common, During, Running, At, TgaPixels
<1>3. TgaAtPixels(w, h, bpp) /\ pixels \in [1 .. bitmap.data -> Byte]
      /\ (call.wants => metadata.strings = <<>>)
      /\ \A i \in DOMAIN call.palette : call.palette[i] \in Byte \X Byte \X Byte
  BY <1>2, TgaIsAtPixels DEF TgaAtPixels
<1>4. pixels' \in [1 .. bitmap.data -> Byte]
  BY <1>1, <1>3, RowsReversedType
<1>5. CASE call.wants
  <2>1. /\ IsTyped(call') /\ call'.op = "ReadTga" /\ call'.step = "Footer"
        /\ call'.wants = call.wants /\ call'.palette = call.palette /\ call'.beyond = call.beyond
    BY <1>1, <1>2, <1>5 DEF Goto, IsTyped
  <2>2. Common'
    BY <1>1, <1>2, <1>4, <2>1, PixelsPut
  <2>3. TgaReads'
    BY <1>1, <1>2, <1>3, <1>5, <2>1 DEF TgaReads, TgaPixels, TgaMetadata
  <2> QED BY <2>1, <2>2, <2>3, GoesOnReading
<1>6. CASE ~ call.wants
  <2>1. "OK" \in Result /\ Return("OK")
    BY <1>1, <1>6 DEF Result
  <2>2. /\ IsTyped(call') /\ call'.op = "ReadTga" /\ call'.step = "Done"
        /\ ~ call'.wants /\ call'.beyond = call.beyond
    BY <1>2, <1>6, <2>1, Returned
  <2>3. Common'
    BY <1>1, <1>2, <1>4, <2>2, PixelsPut
  <2>4. MetadataComeFromTheFile'
    BY <2>2 DEF MetadataComeFromTheFile
  <2> QED BY <2>2, <2>3, <2>4, Over
<1> QED BY <1>5, <1>6

-----------------------------------------------------------------------------
(* TGA: the metadata of a file                                             *)

(* No metadata are found, and there are none to find, or something has     *)
(* failed, or the end of the file is lost, or an entry led to a chunk that *)
(* is not all there.                                                       *)
LEMMA TgaFindsNothing ==
  ASSUME Inv, call.op = "ReadTga", UNCHANGED <<file, bitmap, pixels>>,
         metadata' \in MetadataType, metadata'.strings = <<>>,
         \/ ReturnFault("OK")
         \/ Return("OK") /\ (file.strings = <<>> \/ file.cut \/ HasStrayEntry(file))
  PROVE  Inv'
<1>1. Common /\ IsTyped(call) /\ "OK" \in Result
  BY DEF Inv, Common, Result
<1>2. Return("OK") \/ ReturnFault("OK")
  OBVIOUS
<1>3. /\ IsTyped(call') /\ call'.op = call.op /\ call'.step = "Done" /\ call'.beyond = call.beyond
      /\ \/ Return("OK")
         \/ ReturnFault("OK") /\ call'.faults
  BY <1>1, <1>2, Returned
<1>4. Common'
  BY <1>1, <1>3, CommonStays
<1>5. file'.strings = <<>> \/ file'.cut \/ HasStrayEntry(file') \/ call'.faults
  <2>1. CASE ReturnFault("OK")
    BY <2>1 DEF ReturnFault, Finished, Called
  <2>2. CASE Return("OK") /\ (file.strings = <<>> \/ file.cut \/ HasStrayEntry(file))
    <3>1. file' = file
      OBVIOUS
    <3> QED BY <2>2, <3>1
  <2> QED BY <2>1, <2>2
<1>6. MetadataComeFromTheFile'
  BY <1>3, <1>5 DEF MetadataComeFromTheFile
<1> QED BY <1>3, <1>4, <1>6, Over

(* The search goes on.                                                     *)
LEMMA TgaSearchGoesOn ==
  ASSUME Inv, TgaReads, call.op = "ReadTga", call.step \in TgaMetadata,
         UNCHANGED <<file, bitmap, pixels>>, metadata' \in MetadataType,
         metadata'.strings = <<>>, IsTyped(call'), call'.op = "ReadTga",
         call'.step \in {"Directory", "Entries"}, call'.wants = call.wants,
         call'.palette = call.palette, call'.beyond = call.beyond,
         call'.step = "Directory" =>
           /\ IsAt(file, FooterOf(file), "footer") /\ file.at[FooterOf(file)].value # 0
           /\ call'.position = DirectoryOf(file),
         call'.step = "Entries" =>
           /\ HasDirectory(file) /\ call'.header = file.at[DirectoryOf(file)].value
           /\ call'.index \in Nat \ {0}
           /\ \A i \in EntriesOf(file) : i < call'.index => IsNoChunk(file, LeadsTo(file, i))
  PROVE  Inv'
<1>1. Common'
  BY CommonStays DEF Inv
<1>2. file' = file
  OBVIOUS
<1>3. file.codec = "tga" /\ call.wants
  BY DEF TgaReads
<1>4. \A i \in DOMAIN call'.palette : call'.palette[i] \in Byte \X Byte \X Byte
  BY DEF TgaReads
<1> USE DEF TgaPixels, TgaMetadata
<1>5. CASE call'.step = "Directory"
  <2>1. /\ IsAt(file', FooterOf(file'), "footer") /\ file'.at[FooterOf(file')].value # 0
        /\ call'.position = DirectoryOf(file')
    BY <1>2, <1>5
  <2>2. TgaReads'
    BY <1>2, <1>3, <1>4, <1>5, <2>1 DEF TgaReads
  <2> QED BY <1>1, <1>5, <2>2, GoesOnReading
<1>6. CASE call'.step = "Entries"
  <2>1. /\ HasDirectory(file') /\ call'.header = file'.at[DirectoryOf(file')].value
        /\ call'.index \in Nat \ {0}
        /\ \A i \in EntriesOf(file') : i < call'.index => IsNoChunk(file', LeadsTo(file', i))
    BY <1>2, <1>6
  <2>2. TgaReads'
    BY <1>2, <1>3, <1>4, <1>6, <2>1 DEF TgaReads
  <2> QED BY <1>1, <1>6, <2>2, GoesOnReading
<1> QED BY <1>5, <1>6

(* A whole TGA file with metadata has an entry that leads to them.         *)
LEMMA MetadataAreFound ==
  ASSUME IsFile(file), file.codec = "tga", ~ LeadsToChunk(file)
  PROVE  file.strings = <<>> \/ file.cut
BY DEF IsFile, HasMetadata

(* TGA: the read of the footer keeps the invariant.                        *)
LEMMA TgaFooterIsRead ==
  ASSUME Inv, Tga!ReadFooter
  PROVE  Inv'
<1> DEFINE p == FooterOf(file)
           d == DirectoryOf(file)
<1>1. /\ call.op = "ReadTga" /\ call.step = "Footer"
      /\ UNCHANGED <<file, bitmap, pixels, metadata>>
      /\ \/ ReturnFault("OK")
         \/ /\ ~ IsAt(file, p, "footer") \/ file.at[p].value = 0
            /\ Return("OK")
         \/ /\ IsAt(file, p, "footer") /\ file.at[p].value # 0
            /\ call' = [call EXCEPT !.step = "Directory", !.position = d]
  BY TgaCalls, TgaStream DEF Tga!ReadFooter, Tga!MetadataFails, Tga!MetadataIsRead, FooterOf,
     DirectoryOf, At
<1>2. /\ Common /\ IsTyped(call) /\ IsFile(file) /\ TgaReads /\ metadata' \in MetadataType
      /\ call.step \in TgaMetadata
  BY <1>1 DEF Inv, Common, During, Running, TgaMetadata
<1>3. metadata'.strings = <<>> /\ file.codec = "tga"
  BY <1>1, <1>2 DEF TgaReads
<1>4. LeadsToChunk(file) => IsAt(file, p, "footer") /\ file.at[p].value # 0
  BY DEF LeadsToChunk, HasDirectory
<1>5. CASE ReturnFault("OK")
  BY <1>1, <1>2, <1>3, <1>5, TgaFindsNothing
<1>6. CASE Return("OK") /\ (~ IsAt(file, p, "footer") \/ file.at[p].value = 0)
  <2>1. file.strings = <<>> \/ file.cut
    BY <1>2, <1>3, <1>4, <1>6, MetadataAreFound
  <2> QED BY <1>1, <1>2, <1>3, <1>6, <2>1, TgaFindsNothing
<1>7. CASE /\ IsAt(file, p, "footer") /\ file.at[p].value # 0
           /\ call' = [call EXCEPT !.step = "Directory", !.position = d]
  <2>1. d \in Nat
    <3>1. file.at[p].value \in Nat /\ file.size \in Nat
      BY <1>2, <1>7 DEF IsFile, IsPiece, IsAt
    <3> QED BY <3>1 DEF DirectoryOf, Clamped
  <2> HIDE DEF p, d
  <2>2. /\ IsTyped(call') /\ call'.op = "ReadTga" /\ call'.step = "Directory"
        /\ call'.wants = call.wants /\ call'.palette = call.palette
        /\ call'.beyond = call.beyond /\ call'.position = d
    BY <1>1, <1>2, <1>7, <2>1 DEF IsTyped
  <2> USE DEF p, d
  <2> QED BY <1>1, <1>2, <1>3, <1>7, <2>2, TgaSearchGoesOn
<1> QED BY <1>1, <1>5, <1>6, <1>7

(* TGA: the read of the developer directory keeps the invariant.           *)
LEMMA TgaDirectoryIsRead ==
  ASSUME Inv, Tga!ReadDirectory
  PROVE  Inv'
<1> DEFINE d == DirectoryOf(file)
<1>1. /\ call.op = "ReadTga" /\ call.step = "Directory"
      /\ UNCHANGED <<file, bitmap, pixels, metadata>>
      /\ \/ ReturnFault("OK")
         \/ ~ IsWhole("directory") /\ Return("OK")
         \/ /\ IsWhole("directory")
            /\ call' = [call EXCEPT !.step = "Entries", !.index = 1,
                                    !.header = file.at[call.position].value]
  BY TgaCalls, TgaOthers DEF Tga!ReadDirectory, Tga!MetadataFails, Tga!MetadataIsRead, At
<1>2. /\ Common /\ IsTyped(call) /\ IsFile(file) /\ TgaReads /\ metadata' \in MetadataType
      /\ call.step \in TgaMetadata
  BY <1>1 DEF Inv, Common, During, Running, TgaMetadata
<1>3. /\ metadata'.strings = <<>> /\ file.codec = "tga"
      /\ IsAt(file, FooterOf(file), "footer") /\ file.at[FooterOf(file)].value # 0
      /\ call.position = d
  BY <1>1, <1>2 DEF TgaReads
<1>4. IsWhole("directory") <=> HasDirectory(file)
  BY <1>3 DEF IsWhole, HasDirectory
<1>5. CASE ReturnFault("OK")
  BY <1>1, <1>2, <1>3, <1>5, TgaFindsNothing
<1>6. CASE ~ IsWhole("directory") /\ Return("OK")
  <2>1. file.strings = <<>> \/ file.cut
    BY <1>2, <1>3, <1>4, <1>6, MetadataAreFound DEF LeadsToChunk
  <2> QED BY <1>1, <1>2, <1>3, <1>6, <2>1, TgaFindsNothing
<1>7. CASE /\ IsWhole("directory")
           /\ call' = [call EXCEPT !.step = "Entries", !.index = 1,
                                   !.header = file.at[call.position].value]
  <2>1. \A i \in EntriesOf(file) : ~ i < 1
    BY DEF EntriesOf
  <2>2. /\ IsTyped(call') /\ call'.op = "ReadTga" /\ call'.step = "Entries"
        /\ call'.wants = call.wants /\ call'.palette = call.palette
        /\ call'.beyond = call.beyond /\ call'.index = 1
        /\ call'.header = file.at[call.position].value
    BY <1>1, <1>2, <1>7 DEF IsTyped
  <2> QED BY <1>1, <1>2, <1>3, <1>4, <1>7, <2>1, <2>2, TgaSearchGoesOn
<1> QED BY <1>1, <1>5, <1>6, <1>7

(* TGA: the read of an entry of the directory keeps the invariant, whether *)
(* it leads to the metadata, to an error or to the next entry.             *)
LEMMA TgaEntryIsRead ==
  ASSUME Inv, Tga!ReadEntry
  PROVE  Inv'
<1> DEFINE entry == call.header[call.index]
           p     == Clamped(file, entry.offset)
           none  == [metadata EXCEPT !.strings = <<>>]
<1>1. /\ call.op = "ReadTga" /\ call.step = "Entries" /\ UNCHANGED <<file, bitmap, pixels>>
      /\ \/ call.index > Len(call.header) /\ Return("OK") /\ UNCHANGED metadata
         \/ /\ call.index <= Len(call.header) /\ ~ Tga!IsCcpEntry(entry)
            /\ call' = [call EXCEPT !.index = @ + 1] /\ UNCHANGED metadata
         \/ /\ call.index <= Len(call.header) /\ Tga!IsCcpEntry(entry)
            /\ \/ /\ IsNoChunk(file, p)
                  /\ call' = [call EXCEPT !.index = @ + 1] /\ metadata' = none
               \/ /\ ChunkIsWhole(file, p) /\ Return("OK")
                  /\ metadata' = [metadata EXCEPT !.strings = ChunkStrings(file, p)]
               \/ ChunkFallsShort(file, p) /\ Return("OK") /\ metadata' = none
               \/ ReturnFault("OK") /\ metadata' = none
  BY TgaCalls, TgaStream, TgaOthers
     DEF Tga!ReadEntry, Tga!LoadMetadata, Tga!MetadataIsRead, Tga!h, At
<1>2. /\ Common /\ IsTyped(call) /\ IsFile(file) /\ TgaReads /\ metadata \in MetadataType
      /\ call.step \in TgaMetadata
  BY <1>1 DEF Inv, Common, During, Running, TgaMetadata
<1>3. /\ metadata.strings = <<>> /\ file.codec = "tga"
      /\ HasDirectory(file) /\ call.header = file.at[DirectoryOf(file)].value
      /\ call.index \in Nat \ {0}
      /\ \A i \in EntriesOf(file) : i < call.index => IsNoChunk(file, LeadsTo(file, i))
  BY <1>1, <1>2 DEF TgaReads
<1>4. none \in MetadataType /\ none.strings = <<>>
  <2> DEFINE S == Seq(Strings \X Strings)
  <2>1. <<>> \in S
    BY NoMembers
  <2>2. metadata \in [cutout : {"default", "set"}, strings : S]
    BY <1>2 DEF MetadataType
  <2> HIDE DEF S
  <2>3. none \in [cutout : {"default", "set"}, strings : S] /\ none.strings = <<>>
    BY <2>1, <2>2
  <2> QED BY <2>3 DEF MetadataType, S
<1>5. /\ EntriesOf(file) = {i \in 1 .. Len(call.header) : Tga!IsCcpEntry(call.header[i])}
      /\ p = LeadsTo(file, call.index)
      /\ Len(call.header) \in Nat
  <2>1. call.header \in Seq(Tga!DirectoryEntry)
    BY <1>2, <1>3 DEF IsFile, IsPiece, IsAt, HasDirectory
  <2> QED BY <1>3, <2>1 DEF EntriesOf, LeadsTo
<1>6. ASSUME UNCHANGED metadata \/ metadata' = none, call' = [call EXCEPT !.index = @ + 1],
             call.index \in EntriesOf(file) => IsNoChunk(file, p)
      PROVE  Inv'
  <2>1. metadata' \in MetadataType /\ metadata'.strings = <<>>
    BY <1>2, <1>3, <1>4, <1>6
  <2>2. /\ IsTyped(call') /\ call'.op = "ReadTga" /\ call'.step = "Entries"
        /\ call'.wants = call.wants /\ call'.palette = call.palette
        /\ call'.beyond = call.beyond /\ call'.index = call.index + 1
        /\ call'.header = call.header
    BY <1>1, <1>2, <1>6 DEF IsTyped
  <2>3. \A i \in EntriesOf(file) : i < call'.index => IsNoChunk(file, LeadsTo(file, i))
    <3>1. \A i \in EntriesOf(file) : i \in Nat
      BY <1>5
    <3>2. \A i \in EntriesOf(file) : i < call.index + 1 => i < call.index \/ i = call.index
      BY <1>3, <3>1
    <3> QED BY <1>3, <1>5, <1>6, <2>2, <3>2
  <2>4. call'.index \in Nat \ {0}
    BY <1>3, <2>2
  <2> QED BY <1>1, <1>2, <1>3, <2>1, <2>2, <2>3, <2>4, TgaSearchGoesOn
<1>7. CASE call.index > Len(call.header) /\ Return("OK") /\ UNCHANGED metadata
  <2>1. \A i \in EntriesOf(file) : i < call.index
    BY <1>3, <1>5, <1>7
  <2>2. ~ LeadsToChunk(file)
    BY <1>3, <2>1 DEF LeadsToChunk, IsNoChunk, ChunkIsWhole
  <2>3. file.strings = <<>> \/ file.cut
    BY <1>2, <1>3, <2>2, MetadataAreFound
  <2> QED BY <1>1, <1>2, <1>3, <1>7, <2>3, TgaFindsNothing
<1>8. CASE /\ ChunkIsWhole(file, p) /\ Return("OK")
           /\ metadata' = [metadata EXCEPT !.strings = ChunkStrings(file, p)]
  <2>1. p \in DOMAIN file.at /\ HeaderIsValid(file, p)
    BY <1>8 DEF ChunkIsWhole, HeaderIsValid, IsAt
  <2>2. \E o \in DOMAIN file.at : file.at[o].kind = "footer"
    BY <1>3 DEF HasDirectory, IsAt
  <2>3. ChunkStrings(file, p) = file.strings /\ file.strings \in Seq(Strings \X Strings)
    BY <1>2, <2>1, <2>2 DEF IsFile, HasMetadata
  <2>4. metadata' \in MetadataType /\ metadata'.strings = file.strings
    BY <1>2, <1>8, <2>3 DEF MetadataType
  <2>5. "OK" \in Result /\ Return("OK")
    BY <1>8 DEF Result
  <2>6. IsTyped(call') /\ call'.op = call.op /\ call'.step = "Done" /\ call'.beyond = call.beyond
    BY <1>2, <2>5, Returned
  <2>7. Common'
    BY <1>1, <1>2, <2>4, <2>6, CommonStays
  <2>8. MetadataComeFromTheFile'
    BY <1>1, <2>4 DEF MetadataComeFromTheFile
  <2> QED BY <2>6, <2>7, <2>8, Over
<1>9. CASE /\ call.index \in EntriesOf(file) /\ ChunkFallsShort(file, p)
           /\ Return("OK") /\ metadata' = none
  <2>1. \A j \in EntriesOf(file) : j < call.index => ~ ChunkIsWhole(file, LeadsTo(file, j))
    BY <1>3 DEF IsNoChunk, ChunkIsWhole
  <2>2. HasStrayEntry(file)
    BY <1>3, <1>5, <1>9, <2>1 DEF HasStrayEntry
  <2> QED BY <1>1, <1>4, <1>9, <2>2, TgaFindsNothing
<1>10. CASE ReturnFault("OK") /\ metadata' = none
  BY <1>1, <1>4, <1>10, TgaFindsNothing
<1>11. call.index <= Len(call.header) => (call.index \in EntriesOf(file) <=> Tga!IsCcpEntry(entry))
  BY <1>3, <1>5
<1> HIDE DEF entry, p, none
<1> QED BY <1>1, <1>6, <1>7, <1>8, <1>9, <1>10, <1>11

(* A read of TGA begins with the caller's metadata forgotten.              *)
LEMMA TgaReadBegins ==
  ASSUME Inv, NEW wants \in BOOLEAN, Tga!ReadImage(wants)
  PROVE  Inv'
<1>1. /\ Begin("ReadTga", "Header", wants) /\ UNCHANGED <<file, bitmap, pixels>>
      /\ file.codec = "tga" /\ metadata' = IF wants THEN NoMetadata ELSE metadata
  BY TgaCalls DEF Tga!ReadImage, Tga!NoMetadata, NoMetadata
<1>2. metadata' \in MetadataType /\ "ReadTga" \in ReadOp /\ (wants => metadata'.strings = <<>>)
  BY <1>1 DEF Inv, Common, ReadOp, NoMetadata, MetadataType
<1>3. /\ Common' /\ call'.op = "ReadTga" /\ call'.step = "Header" /\ call'.wants = wants
      /\ call'.index = 0 /\ call'.row = 0 /\ call'.palette = <<>>
  BY <1>1, <1>2, Begun
<1>4. TgaReads'
  BY <1>1, <1>2, <1>3 DEF TgaReads, TgaPixels, TgaMetadata
<1> QED BY <1>3, <1>4, GoesOnReading

-----------------------------------------------------------------------------
(* TGA: the metadata that are saved                                        *)

(* A key or a value of the pairs.                                          *)
LEMMA TextType ==
  ASSUME NEW m \in Seq(Strings \X Strings), NEW i \in 0 .. 2 * Len(m) - 1
  PROVE  Text(m, i) \in Strings /\ TextSize(m, i) \in Nat \ {0}
<1> DEFINE k == i \div 2 + 1
<1>1. Len(m) \in Nat /\ k \in 1 .. Len(m) /\ i % 2 \in {0, 1}
  OBVIOUS
<1> HIDE DEF k
<1>2. m[k] \in Strings \X Strings
  BY <1>1
<1>3. m[k][1] \in Strings /\ m[k][2] \in Strings
  BY <1>2
<1>4. Text(m, i) = m[k][(i % 2) + 1]
  BY DEF Text, k
<1>5. Text(m, i) \in Strings
  BY <1>1, <1>3, <1>4
<1>6. Length[Text(m, i)] \in Nat
  BY <1>5, LengthAssumption
<1> QED BY <1>5, <1>6 DEF TextSize

(* The strings follow each other.                                          *)
LEMMA TextOffsets ==
  ASSUME NEW m \in Seq(Strings \X Strings)
  PROVE  /\ TextOffset(m, 0) = 16 * Len(m)
         /\ \A i \in 0 .. 2 * Len(m) : TextOffset(m, i) \in Nat
         /\ \A i \in 0 .. 2 * Len(m) - 1 : TextOffset(m, i) < TextOffset(m, i + 1)
<1> DEFINE t == [j \in Nat |-> TextSize(m, j)]
           r == Recursion(Adding(t), 0)
           n == 2 * Len(m)
           P == {i \in Nat : i <= n => r[i] \in Nat}
<1>1. Follows(r, Adding(t), 0) /\ n \in Nat /\ Len(m) \in Nat
  BY RecursionUnfolds
<1>2. \A i : TextOffset(m, i) = 16 * Len(m) + r[i]
  BY DEF TextOffset, Total, Adding, ENTRY_SIZE
<1>3. \A i \in Nat : i < n => t[i] \in Nat \ {0}
  BY <1>1, TextType
<1> HIDE DEF t, r, n
<1>4. ASSUME NEW i \in Nat, r[i] \in Nat
      PROVE  r[i + 1] = r[i] + t[i]
  <2>1. r[i + 1] = Adding(t)[<<i, r[i]>>]
    BY <1>1 DEF Follows
  <2>2. <<i, r[i]>> \in Nat \X Nat
    BY <1>4
  <2> QED BY <2>1, <2>2 DEF Adding
<1>5. 0 \in P /\ r[0] = 0
  BY <1>1 DEF Follows
<1>6. ASSUME NEW i \in Nat, i \in P
      PROVE  i + 1 \in P
  BY <1>1, <1>3, <1>4, <1>6
<1>7. Nat \subseteq P
  <2> HIDE DEF P
  <2> QED BY <1>5, <1>6, SetInduction
<1>8. \A i \in 0 .. n : r[i] \in Nat
  BY <1>1, <1>7
<1>9. \A i \in 0 .. n - 1 : r[i] < r[i + 1] /\ r[i] \in Nat /\ r[i + 1] \in Nat
  BY <1>1, <1>3, <1>4, <1>8
<1> HIDE DEF P
<1>10. TextOffset(m, 0) = 16 * Len(m)
  BY <1>1, <1>2, <1>5
<1>11. \A i \in 0 .. n : TextOffset(m, i) \in Nat
  BY <1>1, <1>2, <1>8
<1>12. \A i \in 0 .. n - 1 : TextOffset(m, i) < TextOffset(m, i + 1)
  <2> TAKE i \in 0 .. n - 1
  <2>1. TextOffset(m, i) = 16 * Len(m) + r[i] /\ TextOffset(m, i + 1) = 16 * Len(m) + r[i + 1]
    BY <1>2
  <2>2. r[i] < r[i + 1] /\ r[i] \in Nat /\ r[i + 1] \in Nat
    BY <1>9
  <2> QED BY <1>1, <2>1, <2>2
<1> QED BY <1>10, <1>11, <1>12 DEF n

(* TGA: of the texts of a chunk of metadata, each later one lies behind    *)
(* the earlier.                                                            *)
LEMMA TextsAreApart ==
  ASSUME NEW m \in Seq(Strings \X Strings), NEW i \in 0 .. 2 * Len(m), NEW k \in 0 .. 2 * Len(m),
         i < k
  PROVE  TextOffset(m, i) < TextOffset(m, k)
<1> DEFINE n == 2 * Len(m)
           P == {j \in Nat : i < j /\ j <= n => TextOffset(m, i) < TextOffset(m, j)}
<1>1. n \in Nat /\ i \in Nat /\ k \in Nat /\ k <= n
  OBVIOUS
<1>2. /\ \A j \in Nat : j <= n => TextOffset(m, j) \in Nat
      /\ \A j \in Nat : j < n => TextOffset(m, j) < TextOffset(m, j + 1)
  BY <1>1, TextOffsets
<1> HIDE DEF n
<1>3. 0 \in P
  BY <1>1
<1>4. ASSUME NEW j \in Nat, j \in P
      PROVE  j + 1 \in P
  <2> SUFFICES ASSUME i < j + 1, j + 1 <= n
               PROVE  TextOffset(m, i) < TextOffset(m, j + 1)
    OBVIOUS
  <2>1. TextOffset(m, j) < TextOffset(m, j + 1) /\ TextOffset(m, j) \in Nat
        /\ TextOffset(m, j + 1) \in Nat /\ TextOffset(m, i) \in Nat
    BY <1>1, <1>2
  <2>2. CASE i = j
    BY <2>1, <2>2
  <2>3. CASE i # j
    BY <1>1, <1>4, <2>1, <2>3
  <2> QED BY <2>2, <2>3
<1>5. Nat \subseteq P
  <2> HIDE DEF P
  <2> QED BY <1>3, <1>4, SetInduction
<1> QED BY <1>1, <1>5

(* What is read at a string's offset is the string.                        *)
LEMMA CharactersAreText ==
  ASSUME NEW m \in Seq(Strings \X Strings), NEW i \in 0 .. 2 * Len(m) - 1
  PROVE  Characters(m)[TextOffset(m, i)] = Text(m, i)
<1> DEFINE n == 2 * Len(m)
           o == TextOffset(m, i)
           k == CHOOSE j \in 0 .. n - 1 : TextOffset(m, j) = o
<1>1. \A j \in 0 .. n - 1 : TextOffset(m, j) = o => j = i
  <2> SUFFICES ASSUME NEW j \in 0 .. n - 1, TextOffset(m, j) = o, j # i
               PROVE  FALSE
    OBVIOUS
  <2>1. j \in 0 .. n /\ i \in 0 .. n /\ (j < i \/ i < j)
    OBVIOUS
  <2>2. o \in Nat
    BY <2>1, TextOffsets
  <2>3. TextOffset(m, j) < o \/ o < TextOffset(m, j)
    BY <2>1, TextsAreApart
  <2> HIDE DEF o
  <2> QED BY <2>2, <2>3
<1>2. k = i
  BY <1>1
<1>3. o \in {TextOffset(m, j) : j \in 0 .. n - 1}
  OBVIOUS
<1> QED BY <1>2, <1>3 DEF Characters

(* Pairs are what their keys and values say.                               *)
LEMMA PairsAreTheirTexts ==
  ASSUME NEW m \in Seq(Strings \X Strings), NEW i \in 1 .. Len(m)
  PROVE  <<Text(m, 2 * i - 2), Text(m, 2 * i - 1)>> = m[i]
<1> DEFINE even == 2 * i - 2
           odd  == 2 * i - 1
<1>1. even \div 2 + 1 = i /\ (even % 2) + 1 = 1 /\ odd \div 2 + 1 = i /\ (odd % 2) + 1 = 2
  OBVIOUS
<1>2. /\ Text(m, even) = m[even \div 2 + 1][(even % 2) + 1]
      /\ Text(m, odd) = m[odd \div 2 + 1][(odd % 2) + 1]
  BY DEF Text
<1> HIDE DEF even, odd
<1>3. Text(m, even) = m[i][1] /\ Text(m, odd) = m[i][2]
  BY <1>1, <1>2
<1>4. m[i] \in Strings \X Strings
  BY MemberOf
<1>5. m[i] = <<m[i][1], m[i][2]>>
  BY <1>4
<1> QED BY <1>3, <1>5 DEF even, odd

(* What the sizes of the pieces are.                                       *)
LEMMA ChunkSizes ==
  ASSUME NEW m \in Seq(Strings \X Strings), m # <<>>
  PROVE  /\ Len(m) \in Nat \ {0} /\ ChunkSize(m) \in Nat /\ ChunkSize(m) > 16 * Len(m)
<1>1. Len(m) \in Nat \ {0}
  OBVIOUS
<1>2. 0 \in 0 .. 2 * Len(m) /\ 2 * Len(m) \in 0 .. 2 * Len(m) /\ 0 < 2 * Len(m)
  BY <1>1
<1>3. TextOffset(m, 0) < TextOffset(m, 2 * Len(m))
  BY <1>2, TextsAreApart
<1> QED BY <1>1, <1>2, <1>3, TextOffsets DEF ChunkSize

(* The chunk that was saved is read as what it was made of.                *)
LEMMA ChunkIsRead ==
  ASSUME NEW f, NEW c, NEW m \in Seq(Strings \X Strings),
         f.at[c].value = [count |-> Len(m), size |-> ChunkSize(m)],
         f.at[c + 20].value = Entries(m),
         f.at[c + 20 + 16 * Len(m)].value = Characters(m)
  PROVE  ChunkStrings(f, c) = m
<1> DEFINE at(i) == <<Characters(m)[Entries(m)[i].key], Characters(m)[Entries(m)[i].value]>>
<1>1. ChunkStrings(f, c) = [i \in 1 .. Len(m) |-> at(i)]
  BY DEF ChunkStrings, HEADER_SIZE, ENTRY_SIZE
<1>2. ASSUME NEW i \in 1 .. Len(m)
      PROVE  at(i) = m[i]
  <2>1. 2 * i - 2 \in 0 .. 2 * Len(m) - 1 /\ 2 * i - 1 \in 0 .. 2 * Len(m) - 1
    OBVIOUS
  <2>2. /\ Characters(m)[TextOffset(m, 2 * i - 2)] = Text(m, 2 * i - 2)
        /\ Characters(m)[TextOffset(m, 2 * i - 1)] = Text(m, 2 * i - 1)
    BY <2>1, CharactersAreText
  <2>3. Entries(m)[i].key = TextOffset(m, 2 * i - 2) /\ Entries(m)[i].value = TextOffset(m, 2 * i - 1)
    BY DEF Entries
  <2> QED BY <2>2, <2>3, PairsAreTheirTexts
<1> HIDE DEF at
<1>3. m = [i \in 1 .. Len(m) |-> m[i]]
  OBVIOUS
<1>4. [i \in 1 .. Len(m) |-> at(i)] = [i \in 1 .. Len(m) |-> m[i]]
  BY <1>2
<1> QED BY <1>1, <1>3, <1>4

-----------------------------------------------------------------------------
(* TGA: the saves                                                          *)

TgaPictureKinds == {"tgaHeader", "bytes"}
TgaKinds == {"tgaHeader", "bytes", "metadataHeader", "metadataEntries", "metadataStrings",
             "directory"}

(* TGA: no piece of the picture speaks of another.                         *)
LEMMA TgaKindsAreSimple == Simple(TgaKinds) /\ Simple(TgaPictureKinds)
BY DEF Simple, TgaKinds, TgaPictureKinds

(* TGA: what is saved is a plain picture in a format that is handled.      *)
LEMMA TgaCanBeSaved ==
  ASSUME Tga!CanSave
  PROVE  bitmap.format \in HandledFormats /\ bitmap.type = "2D" /\ bitmap.arraySize = 1
BY DEF Tga!CanSave, Tga!SavedFormats, HandledFormats, Tga!PIXEL_FORMAT_B8G8R8X8_UNORM,
   Tga!PIXEL_FORMAT_B8G8R8A8_UNORM, Tga!PIXEL_FORMAT_R8_UNORM, PIXEL_FORMAT_B8G8R8X8_UNORM,
   PIXEL_FORMAT_B8G8R8A8_UNORM, PIXEL_FORMAT_R8_UNORM

(* TGA: the header of a save is a piece of a file, of 18 bytes.            *)
LEMMA TgaHeaderIsPiece ==
  ASSUME bitmap \in Bitmap, Tga!CanSave
  PROVE  /\ IsPiece(Tga!SavedHeader) /\ Tga!SavedHeader.kind = "tgaHeader"
         /\ Tga!SavedHeader.size = 18
<1> DEFINE w == bitmap.width % Uint16Range
           h == bitmap.height % Uint16Range
<1>1. w \in Nat /\ h \in Nat
  BY RangeAssumption DEF Bitmap
<1> HIDE DEF w, h
<1>2. bitmap.format \in {Tga!PIXEL_FORMAT_B8G8R8X8_UNORM, Tga!PIXEL_FORMAT_B8G8R8A8_UNORM,
                         Tga!PIXEL_FORMAT_R8_UNORM}
  BY DEF Tga!CanSave, Tga!SavedFormats
<1> DEFINE type == IF bitmap.format = Tga!PIXEL_FORMAT_R8_UNORM THEN 3 ELSE 2
           bpp  == CASE bitmap.format = Tga!PIXEL_FORMAT_B8G8R8X8_UNORM -> 24
                     [] bitmap.format = Tga!PIXEL_FORMAT_B8G8R8A8_UNORM -> 32
                     [] bitmap.format = Tga!PIXEL_FORMAT_R8_UNORM       -> 8
<1>3. bpp \in Nat /\ type \in Nat
  BY <1>2 DEF Tga!PIXEL_FORMAT_B8G8R8X8_UNORM, Tga!PIXEL_FORMAT_B8G8R8A8_UNORM,
     Tga!PIXEL_FORMAT_R8_UNORM
<1>4. Tga!SavedHeader = Tga!Piece("tgaHeader", 18,
        Tga!Header(0, FALSE, FALSE, type, w, h, bpp, FALSE, FALSE, FALSE))
  BY DEF Tga!SavedHeader, Tga!TGA_HEADER_SIZE, w, h
<1> HIDE DEF bpp, type
<1>5. Tga!Header(0, FALSE, FALSE, type, w, h, bpp, FALSE, FALSE, FALSE) \in Tga!Headers
  BY <1>1, <1>3 DEF Tga!Header, Tga!Headers
<1> QED BY <1>4, <1>5 DEF IsPiece, Tga!Piece

(* Whatever a save of TGA writes, it goes on from there.                   *)
LEMMA TgaSaveGoesOn ==
  ASSUME Inv, call.op = "SaveTga", TgaSaves, IsFile(file'),
         file'.codec = "tga", file'.cut, file'.strings = file.strings, file'.size >= 18,
         UNCHANGED <<bitmap, pixels, metadata>>, IsTyped(call'), call'.op = "SaveTga",
         call'.step \in {"Rows", "Metadata", "Close"},
         call'.step = "Rows" => Kinds(file', TgaPictureKinds) /\ call'.row < bitmap.height,
         call'.step = "Metadata" =>
           /\ file.strings # <<>> /\ call'.index \in 1 .. 5
           /\ Kinds(file', TgaKinds)
           /\ \A o \in DOMAIN file'.at : file'.at[o].kind = "metadataHeader" => o = call'.position
           /\ call'.position > 0
           /\ ChunkIsAt(file', call'.position, call'.index),
         call'.step = "Close" /\ file.strings # <<>> => LeadsToChunk(file')
  PROVE  Inv'
<1>1. Common'
  BY CommonIsSaved DEF Inv, SaveOp
<1>2. Tga!CanSave' /\ IsValid(bitmap)'
  BY DEF TgaSaves, SavesTo, Tga!CanSave, IsValid
<1>3. SavesTo("tga")'
  BY <1>2 DEF SavesTo
<1>4. file'.strings \in {<<>>, metadata'.strings}
  BY DEF TgaSaves
<1>5. CASE call'.step = "Rows"
  <2>1. TgaSaves'
    BY <1>2, <1>3, <1>4, <1>5 DEF TgaSaves, TgaPictureKinds
  <2> QED BY <1>1, <1>5, <2>1, GoesOnReading
<1>6. CASE call'.step = "Metadata"
  <2>1. ChunkIsAt(file, call.position, call.index)' /\ Kinds(file, TgaKinds)'
    BY <1>6 DEF ChunkIsAt, Kinds
  <2>2. TgaSaves'
    BY <1>2, <1>3, <1>4, <1>6, <2>1 DEF TgaSaves, TgaKinds
  <2> QED BY <1>1, <1>6, <2>2, GoesOnReading
<1>7. CASE call'.step = "Close"
  <2>1. file'.strings # <<>> => LeadsToChunk(file)'
    BY <1>7
  <2>2. TgaSaves'
    BY <1>2, <1>3, <1>4, <1>7, <2>1 DEF TgaSaves
  <2> QED BY <1>1, <1>7, <2>2, GoesOnReading
<1> QED BY <1>5, <1>6, <1>7

(* TGA: the write of the header keeps the invariant.                       *)
LEMMA TgaHeaderIsSaved ==
  ASSUME Inv, Tga!SaveHeader
  PROVE  Inv'
<1> DEFINE p == Tga!SavedHeader
           g == Appended(file, p)
<1>1. /\ call.op = "SaveTga" /\ call.step = "Header" /\ UNCHANGED <<bitmap, pixels, metadata>>
      /\ \/ WriteFails(p, "WRITE_FAILURE")
         \/ file' = g /\ call' = Goto("Rows")
  BY TgaCalls, TgaWrites DEF Tga!SaveHeader, At
<1>2. /\ Common /\ TgaSaves /\ IsTyped(call) /\ IsFile(file) /\ call.op \in SaveOp
      /\ bitmap \in Bitmap /\ IsImage(bitmap, pixels)
  BY <1>1 DEF Inv, Common, During, Running, SaveOp, IsImage
<1>3. /\ file.codec = "tga" /\ file.cut /\ file.at = <<>> /\ file.size = 0
      /\ call.row = 0 /\ IsValid(bitmap) /\ Tga!CanSave
  BY <1>1, <1>2 DEF TgaSaves, SavesTo
<1>4. IsPiece(p) /\ p.kind = "tgaHeader" /\ p.size = 18
  BY <1>2, <1>3, TgaHeaderIsPiece
<1>5. "tgaHeader" \in TgaPictureKinds /\ "WRITE_FAILURE" \in Result
  BY DEF TgaPictureKinds, Result
<1> HIDE DEF p
<1>6. /\ IsFile(g) /\ Kinds(g, TgaPictureKinds)
      /\ \A n \in {0, p.size - 1} : IsFile(AppendedPart(file, n))
  BY <1>2, <1>3, <1>4, <1>5, TgaKindsAreSimple, FirstWrite
<1>7. g.codec = "tga" /\ g.strings = file.strings /\ g.size = 18
  BY <1>2, <1>3, <1>4, AppendFields
<1>8. g.cut
  BY <1>2, <1>3, AppendFields, Zenon
<1> HIDE DEF g
<1>9. CASE WriteFails(p, "WRITE_FAILURE")
  BY <1>1, <1>2, <1>5, <1>6, <1>9, WriteFailsKeeps
<1>10. CASE file' = g /\ call' = Goto("Rows")
  <2>1. IsTyped(call') /\ call'.op = "SaveTga" /\ call'.step = "Rows" /\ call'.row = 0
    BY <1>1, <1>2, <1>3, <1>10 DEF Goto, IsTyped
  <2>2. 0 < bitmap.height
    BY <1>2, <1>3 DEF IsImage, Bitmap
  <2> QED BY <1>1, <1>2, <1>6, <1>7, <1>8, <1>10, <2>1, <2>2, TgaSaveGoesOn
<1> QED BY <1>1, <1>9, <1>10

(* TGA: a row that is saved is a piece of bytes, and not an empty one.     *)
LEMMA TgaRowIsBytes ==
  ASSUME Common, IsValid(bitmap), Tga!CanSave, NEW row \in Nat, row < bitmap.height
  PROVE  /\ IsPiece(Tga!SavedRow(row)) /\ Tga!SavedRow(row).kind = "bytes"
         /\ Tga!SavedRow(row).size \in Nat \ {0}
<1> DEFINE packed  == PackedRow(bitmap.height - 1 - row)
<1>1. bitmap.height \in Nat
  BY DEF Common, IsImage, Bitmap
<1>2. bitmap.height - 1 - row \in 0 .. bitmap.height - 1
  BY <1>1
<1>3. packed \in Seq(Byte) /\ Len(packed) \in Nat \ {0}
  BY <1>2, TgaCanBeSaved, PackedRowType DEF Common
<1>4. Tga!SavedRow(row) = Bytes(packed)
  BY TgaWrites DEF Tga!SavedRow
<1> HIDE DEF packed
<1> QED BY <1>3, <1>4, BytesArePiece

(* TGA: the write of a row keeps the invariant.                            *)
LEMMA TgaRowIsSaved ==
  ASSUME Inv, Tga!SaveRow
  PROVE  Inv'
<1> DEFINE p == Tga!SavedRow(call.row)
           g == Appended(file, p)
<1>1. /\ call.op = "SaveTga" /\ call.step = "Rows" /\ UNCHANGED <<bitmap, pixels, metadata>>
      /\ \/ WriteFails(p, "WRITE_FAILURE")
         \/ /\ file' = g
            /\ call' = [call EXCEPT
                 !.step = IF call.row + 1 < bitmap.height THEN "Rows"
                          ELSE IF file.strings = <<>> THEN "Close" ELSE "Metadata",
                 !.row = @ + 1, !.index = 1, !.position = file'.size]
  BY TgaCalls, TgaWrites DEF Tga!SaveRow, At
<1>2. /\ Common /\ TgaSaves /\ IsTyped(call) /\ IsFile(file) /\ call.op \in SaveOp
      /\ bitmap.height \in Nat
  BY <1>1 DEF Inv, Common, During, Running, SaveOp, IsImage, Bitmap
<1>3. /\ file.codec = "tga" /\ file.cut /\ IsValid(bitmap) /\ Tga!CanSave
      /\ Kinds(file, TgaPictureKinds) /\ file.size >= 18
      /\ call.row < bitmap.height /\ call.row \in Nat
  BY <1>1, <1>2 DEF TgaSaves, SavesTo, TgaPictureKinds, IsTyped
<1>4. IsPiece(p) /\ p.kind \in TgaPictureKinds /\ p.size \in Nat \ {0}
  BY <1>2, <1>3, TgaRowIsBytes DEF TgaPictureKinds
<1>5. HasBegun(file) /\ "WRITE_FAILURE" \in Result
  BY <1>3 DEF HasBegun, Result
<1> HIDE DEF p
<1>6. /\ IsFile(g) /\ Kinds(g, TgaPictureKinds) /\ HasBegun(g)
      /\ \A n \in {0, p.size - 1} : IsFile(AppendedPart(file, n))
  BY <1>2, <1>3, <1>4, <1>5, TgaKindsAreSimple, SimpleWrite
<1>7. g.codec = "tga" /\ g.strings = file.strings
  BY <1>2, <1>3, AppendFields
<1>8. g.cut
  BY <1>2, <1>3, AppendFields, Zenon
<1>9. g.size >= 18 /\ g.size \in Nat
  BY <1>6, <1>7 DEF HasBegun, IsFile
<1> HIDE DEF g
<1>10. CASE WriteFails(p, "WRITE_FAILURE")
  BY <1>1, <1>2, <1>5, <1>6, <1>10, WriteFailsKeeps
<1>11. CASE /\ file' = g
            /\ call' = [call EXCEPT
                 !.step = IF call.row + 1 < bitmap.height THEN "Rows"
                          ELSE IF file.strings = <<>> THEN "Close" ELSE "Metadata",
                 !.row = @ + 1, !.index = 1, !.position = file'.size]
  <2>1. /\ call' = [call EXCEPT
             !.step = IF call.row + 1 < bitmap.height THEN "Rows"
                      ELSE IF file.strings = <<>> THEN "Close" ELSE "Metadata",
             !.row = @ + 1, !.index = 1, !.position = g.size]
    BY <1>11
  <2>2. /\ IsTyped(call') /\ call'.op = "SaveTga"
        /\ call'.index = 1 /\ call'.position = g.size /\ call'.row = call.row + 1
        /\ call'.step = IF call.row + 1 < bitmap.height THEN "Rows"
                        ELSE IF file.strings = <<>> THEN "Close" ELSE "Metadata"
    BY <1>1, <1>2, <1>3, <1>9, <2>1 DEF IsTyped
  <2>3. Kinds(g, TgaKinds) /\ \A o \in DOMAIN g.at : g.at[o].kind # "metadataHeader"
    BY <1>6 DEF Kinds, TgaKinds, TgaPictureKinds
  <2>4. ChunkIsAt(g, g.size, 1)
    BY DEF ChunkIsAt
  <2>5. /\ call'.step = "Rows" => call'.row < bitmap.height
        /\ call'.step \in {"Rows", "Metadata", "Close"}
        /\ call'.step = "Metadata" => file.strings # <<>>
        /\ call'.step = "Close" => file.strings = <<>>
    BY <2>2
  <2>6. file'.size > 0 /\ 1 \in 1 .. 5
    BY <1>9, <1>11
  <2> QED BY <1>1, <1>2, <1>6, <1>7, <1>8, <1>9, <1>11, <2>2, <2>3, <2>4, <2>5, <2>6, TgaSaveGoesOn
<1> QED BY <1>1, <1>10, <1>11

(* The pieces behind the pixels, and where they begin.                     *)
TgaPiece(m, c, k) ==
  CASE k = 1 -> Chunk(m)[1]
    [] k = 2 -> Chunk(m)[2]
    [] k = 3 -> Chunk(m)[3]
    [] k = 4 -> Tga!Directory(<<Tga!Entry("CP", c)>>)
    [] k = 5 -> Tga!Footer(c + 20 + ChunkSize(m))

TgaPieceKind ==
  <<"metadataHeader", "metadataEntries", "metadataStrings", "directory", "footer">>

TgaPlace(m, c, k) ==
  CASE k = 1 -> c
    [] k = 2 -> c + 20
    [] k = 3 -> c + 20 + 16 * Len(m)
    [] k = 4 -> c + 20 + ChunkSize(m)
    [] k = 5 -> c + 20 + ChunkSize(m) + 12

(* A piece is one of a file, and ends where the next one begins.           *)
TgaPieceFollows(m, c, k) ==
  LET p == TgaPiece(m, c, k)
  IN  /\ IsPiece(p) /\ p.size \in Nat \ {0} /\ p.kind = TgaPieceKind[k]
      /\ TgaPlace(m, c, k) \in Nat
      /\ k < 5 => TgaPlace(m, c, k) + p.size = TgaPlace(m, c, k + 1)
      /\ k = 5 => p.size = 26

(* TGA: the pieces of the metadata, one by one.                            *)
LEMMA TgaPieces ==
  ASSUME call.index \in 1 .. 5
  PROVE  Tga!MetadataPieces[call.index] = TgaPiece(metadata.strings, call.position, call.index)
<1> DEFINE m == metadata.strings
           c == call.position
           d == Tga!Directory(<<Tga!Entry("CP", c)>>)
           e == Tga!Footer(c + 20 + ChunkSize(m))
<1>1. Tga!MetadataPieces = Chunk(m) \o <<d, e>>
  BY TgaOthers DEF Tga!MetadataPieces, Tga!HEADER_SIZE
<1> HIDE DEF m, c, d, e
<1> DEFINE one   == Chunk(m)[1]
           two   == Chunk(m)[2]
           three == Chunk(m)[3]
<1>2. Chunk(m) = <<one, two, three>>
  BY DEF Chunk
<1> HIDE DEF one, two, three
<1>3. /\ Tga!MetadataPieces[1] = one /\ Tga!MetadataPieces[2] = two
      /\ Tga!MetadataPieces[3] = three /\ Tga!MetadataPieces[4] = d
      /\ Tga!MetadataPieces[5] = e
  <2>1. Tga!MetadataPieces = <<one, two, three>> \o <<d, e>>
    BY <1>1, <1>2
  <2> QED BY <2>1
<1> QED BY <1>3 DEF TgaPiece, m, c, d, e, one, two, three

(* TGA: each piece of the metadata begins where the one ahead of it ends.  *)
LEMMA TgaPiecesFollow ==
  ASSUME NEW m \in Seq(Strings \X Strings), m # <<>>, NEW c \in Nat, NEW k \in 1 .. 5
  PROVE  TgaPieceFollows(m, c, k)
<1> DEFINE n == Len(m)
           s == ChunkSize(m)
<1>1. n \in Nat \ {0} /\ s \in Nat /\ s > 16 * n
  BY ChunkSizes
<1> HIDE DEF n, s
<1> USE DEF TgaPieceFollows, TgaPieceKind
<1>2. CASE k = 1
  <2>1. TgaPiece(m, c, k) = Piece("metadataHeader", 20, [count |-> n, size |-> s])
    BY <1>2 DEF TgaPiece, Chunk, HEADER_SIZE, n, s
  <2> QED BY <1>2, <2>1 DEF IsPiece, Piece, TgaPlace
<1>3. CASE k = 2
  <2>1. TgaPiece(m, c, k) = Piece("metadataEntries", 16 * n, Entries(m))
    BY <1>3 DEF TgaPiece, Chunk, ENTRY_SIZE, n
  <2>2. TgaPlace(m, c, 2) = c + 20 /\ TgaPlace(m, c, 3) = c + 20 + 16 * n
    BY DEF TgaPlace, n
  <2> DEFINE p == TgaPiece(m, c, k)
  <2>3. p.kind = "metadataEntries" /\ p.size = 16 * n /\ 16 * n \in Nat \ {0}
    BY <1>1, <2>1 DEF Piece
  <2>4. IsPiece(p)
    BY <2>1, <2>3 DEF IsPiece, Piece
  <2> HIDE DEF p
  <2>5. TgaPlace(m, c, k) + p.size = TgaPlace(m, c, k + 1) /\ TgaPlace(m, c, k) \in Nat
    <3>1. k + 1 = 3
      BY <1>3
    <3>2. c + 20 \in Nat /\ c + 20 + p.size = c + 20 + 16 * n
      BY <1>1, <2>3
    <3> QED BY <1>3, <2>2, <3>1, <3>2
  <2> QED BY <1>3, <2>3, <2>4, <2>5 DEF p
<1>4. CASE k = 3
  <2>1. TgaPiece(m, c, k) = Piece("metadataStrings", s - 16 * n, Characters(m))
    BY <1>4 DEF TgaPiece, Chunk, ENTRY_SIZE, n, s
  <2>2. TgaPlace(m, c, 3) = c + 20 + 16 * n /\ TgaPlace(m, c, 4) = c + 20 + s
    BY DEF TgaPlace, n, s
  <2> DEFINE p == TgaPiece(m, c, k)
  <2>3. p.kind = "metadataStrings" /\ p.size = s - 16 * n /\ s - 16 * n \in Nat \ {0}
    BY <1>1, <2>1 DEF Piece
  <2>4. IsPiece(p)
    BY <2>1, <2>3 DEF IsPiece, Piece
  <2> HIDE DEF p
  <2>5. TgaPlace(m, c, k) + p.size = TgaPlace(m, c, k + 1) /\ TgaPlace(m, c, k) \in Nat
    BY <1>1, <1>4, <2>2, <2>3
  <2> QED BY <1>4, <2>3, <2>4, <2>5 DEF p
<1>5. CASE k = 4
  <2> DEFINE entries == <<Tga!Entry("CP", c)>>
  <2>1. entries \in Seq(Tga!DirectoryEntry) /\ Len(entries) = 1
    <3>1. Tga!Entry("CP", c) \in Tga!DirectoryEntry
      BY DEF Tga!DirectoryEntry, Tga!Entry, Tga!Tag
    <3> QED BY <3>1, SingleMember, Zenon
  <2>2. TgaPiece(m, c, k) = Tga!Piece("directory", 12, entries)
    BY <1>5, <2>1 DEF TgaPiece, Tga!Directory
  <2> HIDE DEF entries
  <2>3. TgaPlace(m, c, 4) = c + 20 + s /\ TgaPlace(m, c, 5) = c + 20 + s + 12
    BY DEF TgaPlace, s
  <2> QED BY <1>1, <1>5, <2>1, <2>2, <2>3 DEF IsPiece, Tga!Piece
<1>6. CASE k = 5
  <2>1. TgaPiece(m, c, k) = Tga!Piece("footer", 26, c + 20 + s)
    BY <1>6 DEF TgaPiece, Tga!Footer, Tga!FOOTER_SIZE, s
  <2>2. TgaPlace(m, c, 5) = c + 20 + s + 12
    BY DEF TgaPlace, s
  <2> QED BY <1>1, <1>6, <2>1, <2>2 DEF IsPiece, Tga!Piece
<1> QED BY <1>2, <1>3, <1>4, <1>5, <1>6

(* The pieces that are written so far.                                     *)
LEMMA ChunkPieces ==
  ASSUME NEW f, NEW c, NEW n \in 1 .. 5
  PROVE  ChunkIsAt(f, c, n) <=>
           /\ f.size = TgaPlace(f.strings, c, n)
           /\ \A k \in 1 .. 4 : k < n => AtPiece(f, TgaPlace(f.strings, c, k), TgaPiece(f.strings, c, k))
<1> DEFINE at(k) == AtPiece(f, TgaPlace(f.strings, c, k), TgaPiece(f.strings, c, k))
<1>1. ChunkIsAt(f, c, n) <=>
        /\ f.size = TgaPlace(f.strings, c, n)
        /\ n > 1 => at(1)
        /\ n > 2 => at(2)
        /\ n > 3 => at(3)
        /\ n > 4 => at(4)
  BY DEF ChunkIsAt, TgaPlace, TgaPiece, HEADER_SIZE, ENTRY_SIZE
<1> HIDE DEF at
<1>2. (\A k \in 1 .. 4 : k < n => at(k)) <=>
        (n > 1 => at(1)) /\ (n > 2 => at(2)) /\ (n > 3 => at(3)) /\ (n > 4 => at(4))
  OBVIOUS
<1> QED BY <1>1, <1>2 DEF at

(* The places of the pieces are apart.                                     *)
LEMMA PlacesAreApart ==
  ASSUME NEW m \in Seq(Strings \X Strings), m # <<>>, NEW c \in Nat, NEW k \in 1 .. 5,
         NEW n \in 1 .. 5, k < n
  PROVE  TgaPlace(m, c, k) < TgaPlace(m, c, n)
<1> DEFINE l == Len(m)
           s == ChunkSize(m)
<1>1. l \in Nat \ {0} /\ s \in Nat /\ s > 16 * l
  BY ChunkSizes
<1> HIDE DEF l, s
<1>2. /\ TgaPlace(m, c, 1) = c /\ TgaPlace(m, c, 2) = c + 20
      /\ TgaPlace(m, c, 3) = c + 20 + 16 * l /\ TgaPlace(m, c, 4) = c + 20 + s
      /\ TgaPlace(m, c, 5) = c + 20 + s + 12
  BY DEF TgaPlace, l, s
<1> QED BY <1>1, <1>2

(* Writing the next piece.                                                 *)
LEMMA ChunkGrows ==
  ASSUME NEW f, IsFile(f), f.strings # <<>>, NEW c \in Nat, NEW k \in 1 .. 4,
         ChunkIsAt(f, c, k)
  PROVE  ChunkIsAt(Appended(f, TgaPiece(f.strings, c, k)), c, k + 1)
<1> DEFINE m == f.strings
           p == TgaPiece(m, c, k)
           g == Appended(f, p)
<1>1. m \in Seq(Strings \X Strings) /\ m # <<>> /\ k \in 1 .. 5 /\ k + 1 \in 1 .. 5 /\ k < 5
  BY DEF IsFile, HasMetadata
<1>2. TgaPlace(m, c, k) + p.size = TgaPlace(m, c, k + 1)
  <2> HIDE DEF m
  <2>1. TgaPieceFollows(m, c, k)
    BY <1>1, TgaPiecesFollow, Zenon
  <2> QED BY <1>1, <2>1 DEF TgaPieceFollows
<1>3. /\ f.size = TgaPlace(m, c, k)
      /\ \A j \in 1 .. 4 : j < k => AtPiece(f, TgaPlace(m, c, j), TgaPiece(m, c, j))
  BY <1>1, ChunkPieces
<1>4. \A j \in 1 .. 4 : j < k => TgaPlace(m, c, j) # f.size
  <2> SUFFICES ASSUME NEW j \in 1 .. 4, j < k PROVE TgaPlace(m, c, j) # f.size
    OBVIOUS
  <2>1. j \in 1 .. 5
    OBVIOUS
  <2>2. TgaPlace(m, c, j) < TgaPlace(m, c, k) /\ TgaPlace(m, c, j) \in Nat
    BY <1>1, <2>1, PlacesAreApart, TgaPiecesFollow DEF TgaPieceFollows
  <2> QED BY <1>3, <2>2
<1> HIDE DEF p
<1>5. /\ g.strings = m /\ g.size = f.size + p.size
      /\ DOMAIN g.at = DOMAIN f.at \union {f.size} /\ g.at[f.size] = p
      /\ \A o \in DOMAIN f.at : o # f.size => g.at[o] = f.at[o]
  BY AppendFields
<1> HIDE DEF m, g
<1>6. ASSUME NEW j \in 1 .. 4, j < k + 1
      PROVE  AtPiece(g, TgaPlace(m, c, j), TgaPiece(m, c, j))
  <2>1. CASE j = k
    BY <1>3, <1>5, <2>1 DEF AtPiece, p
  <2>2. CASE j # k
    <3>1. j < k
      BY <1>6, <2>2
    <3> QED BY <1>3, <1>4, <1>5, <3>1 DEF AtPiece
  <2> QED BY <2>1, <2>2
<1>7. g.size = TgaPlace(m, c, k + 1)
  BY <1>2, <1>3, <1>5
<1>8. ChunkIsAt(g, c, k + 1)
  BY <1>1, <1>5, <1>6, <1>7, ChunkPieces
<1> QED BY <1>8 DEF g, p, m

(* With the footer the file leads to the chunk.                            *)
LEMMA FooterIsWritten ==
  ASSUME NEW f, IsFile(f), f.cut, f.codec = "tga", f.size >= 18, Kinds(f, TgaKinds),
         f.strings # <<>>, NEW c \in Nat, c > 0,
         \A o \in DOMAIN f.at : f.at[o].kind = "metadataHeader" => o = c,
         ChunkIsAt(f, c, 5)
  PROVE  LET g == Appended(f, TgaPiece(f.strings, c, 5))
         IN  IsFile(g) /\ LeadsToChunk(g)
<1> DEFINE m == f.strings
           p == TgaPiece(m, c, 5)
           g == Appended(f, p)
           n == Len(m)
           s == ChunkSize(m)
           d == c + 20 + s
<1>1. m \in Seq(Strings \X Strings) /\ m # <<>> /\ f.size \in Nat
  BY DEF IsFile, HasMetadata
<1>2. n \in Nat \ {0} /\ s \in Nat /\ s > 16 * n
  BY <1>1, ChunkSizes
<1>3. IsPiece(p) /\ p.kind = "footer" /\ p.size = 26 /\ p.value = d
  <2>1. 5 \in 1 .. 5
    OBVIOUS
  <2>2. IsPiece(p) /\ p.size = 26
    <3> HIDE DEF m
    <3>1. TgaPieceFollows(m, c, 5)
      BY <1>1, <2>1, TgaPiecesFollow, Zenon
    <3> QED BY <3>1 DEF TgaPieceFollows
  <2>3. p = Tga!Footer(d)
    BY DEF TgaPiece
  <2> HIDE DEF p, d
  <2> QED BY <2>2, <2>3 DEF Tga!Footer, Tga!Piece
<1>4. f.size = TgaPlace(m, c, 5) /\ d \in Nat /\ d # 0
      /\ TgaPlace(m, c, 5) = d + 12 /\ TgaPlace(m, c, 4) = d
      /\ TgaPlace(m, c, 1) = c /\ TgaPlace(m, c, 2) = c + 20
      /\ TgaPlace(m, c, 3) = c + 20 + 16 * n
  <2>1. f.size = TgaPlace(m, c, 5)
    BY ChunkPieces
  <2>2. /\ TgaPlace(m, c, 5) = d + 12 /\ TgaPlace(m, c, 4) = d
        /\ TgaPlace(m, c, 1) = c /\ TgaPlace(m, c, 2) = c + 20
        /\ TgaPlace(m, c, 3) = c + 20 + 16 * n
    BY DEF TgaPlace
  <2> HIDE DEF n, s
  <2>3. d \in Nat /\ d # 0
    BY <1>2
  <2> QED BY <2>1, <2>2, <2>3
<1>5. \A k \in 1 .. 4 : AtPiece(f, TgaPlace(m, c, k), TgaPiece(m, c, k))
  BY ChunkPieces
<1>6. \A k \in 1 .. 4 : TgaPlace(m, c, k) # f.size
  <2> SUFFICES ASSUME NEW k \in 1 .. 4 PROVE TgaPlace(m, c, k) # f.size
    OBVIOUS
  <2>1. k \in 1 .. 5 /\ 5 \in 1 .. 5 /\ k < 5
    OBVIOUS
  <2>2. TgaPlace(m, c, k) < TgaPlace(m, c, 5) /\ TgaPlace(m, c, k) \in Nat
    BY <1>1, <2>1, PlacesAreApart, TgaPiecesFollow DEF TgaPieceFollows
  <2> QED BY <1>4, <2>2
<1>7. TgaPiece(m, c, 1) = Piece("metadataHeader", 20, [count |-> n, size |-> s])
      /\ TgaPiece(m, c, 2).value = Entries(m)
      /\ TgaPiece(m, c, 3).value = Characters(m)
      /\ TgaPiece(m, c, 4) = Tga!Directory(<<Tga!Entry("CP", c)>>)
  BY DEF TgaPiece, Chunk, Piece, HEADER_SIZE, ENTRY_SIZE
<1> HIDE DEF p
<1>8. /\ g.strings = m /\ g.size = f.size + 26 /\ g.codec = "tga"
      /\ DOMAIN g = {"codec", "at", "size", "picture", "strings", "cut"}
      /\ DOMAIN g.at = DOMAIN f.at \union {f.size} /\ g.at[f.size] = p
      /\ \A o \in DOMAIN f.at : o # f.size => g.at[o] = f.at[o]
  BY <1>3, AppendFields
<1>9. g.cut
  BY AppendFields, Zenon
<1>10. HasHeaders(g)
  <2>1. HasBegun(f)
    BY DEF HasBegun
  <2> QED BY <2>1, HeadersStay
<1> HIDE DEF m, g, n, s, d
<1>11. \A k \in 1 .. 4 : AtPiece(g, TgaPlace(m, c, k), TgaPiece(m, c, k))
  BY <1>5, <1>6, <1>8 DEF AtPiece
<1>12. /\ AtPiece(g, c, TgaPiece(m, c, 1)) /\ AtPiece(g, c + 20, TgaPiece(m, c, 2))
       /\ AtPiece(g, c + 20 + 16 * n, TgaPiece(m, c, 3)) /\ AtPiece(g, d, TgaPiece(m, c, 4))
  <2>1. 1 \in 1 .. 4 /\ 2 \in 1 .. 4 /\ 3 \in 1 .. 4 /\ 4 \in 1 .. 4
    OBVIOUS
  <2> QED BY <1>4, <1>11, <2>1
<1>13. /\ c \in DOMAIN g.at /\ g.at[c].kind = "metadataHeader"
       /\ g.at[c].value = [count |-> n, size |-> s]
       /\ g.at[c + 20].value = Entries(m)
       /\ g.at[c + 20 + 16 * n].value = Characters(m)
  BY <1>7, <1>12 DEF AtPiece, Piece
<1>14. ChunkStrings(g, c) = m
  BY <1>1, <1>13, ChunkIsRead DEF n, s
<1>15. \A o \in DOMAIN g.at : (o = f.size /\ g.at[o] = p) \/ (o \in DOMAIN f.at /\ g.at[o] = f.at[o])
  BY <1>8
<1>16. \A o \in DOMAIN g.at : g.at[o].kind \in TgaKinds \union {"footer"}
  BY <1>3, <1>15 DEF Kinds
<1>17. ASSUME NEW o \in DOMAIN g.at, HeaderIsValid(g, o)
       PROVE  ChunkStrings(g, o) = g.strings
  <2>1. g.at[o].kind = "metadataHeader"
    BY <1>17 DEF HeaderIsValid, IsAt
  <2>2. o = c
    BY <1>3, <1>15, <2>1
  <2> QED BY <1>8, <1>14, <2>2
<1>18. HasMetadata(g)
  <2>1. \A o \in DOMAIN g.at : g.at[o].kind # "info"
    BY <1>16 DEF TgaKinds
  <2> QED BY <1>1, <1>8, <1>9, <1>17, <2>1 DEF HasMetadata
<1>19. HasRows(g)
  BY <1>16 DEF HasRows, TgaKinds
<1>20. IsFile(g)
  <2>1. g.codec \in Codec /\ g.size \in Nat
    BY <1>1, <1>8 DEF Codec
  <2>2. g.cut \in BOOLEAN
    <3>1. g.cut = f.cut /\ f.cut \in BOOLEAN
      BY AppendFields, Zenon DEF g, IsFile
    <3> QED BY <3>1
  <2>3. DOMAIN g.at \subseteq Nat
    BY <1>1, <1>8 DEF IsFile
  <2>4. \A o \in DOMAIN g.at : IsPiece(g.at[o])
    BY <1>3, <1>15 DEF IsFile
  <2> QED BY <1>8, <1>10, <1>18, <1>19, <2>1, <2>2, <2>3, <2>4 DEF IsFile
<1>21. LeadsToChunk(g)
  <2>1. FooterOf(g) = f.size
    BY <1>1, <1>8 DEF FooterOf, Clamped, Tga!FOOTER_SIZE
  <2>2. IsAt(g, f.size, "footer") /\ g.at[f.size].value = d
    BY <1>3, <1>8 DEF IsAt
  <2>3. d = c + 20 + s /\ g.size = d + 38 /\ c \in Nat /\ s \in Nat /\ d \in Nat
    BY <1>1, <1>2, <1>4, <1>8 DEF d
  <2>4. Clamped(g, d) = d /\ Clamped(g, c) = c
    BY <2>3 DEF Clamped
  <2>5. DirectoryOf(g) = d
    BY <2>1, <2>2, <2>4 DEF DirectoryOf
  <2> DEFINE entries == <<Tga!Entry("CP", c)>>
  <2>6. d \in DOMAIN g.at /\ g.at[d] = Tga!Directory(entries)
    BY <1>7, <1>12 DEF AtPiece
  <2>7. Len(entries) = 1 /\ entries[1].tag = "CP" /\ entries[1].offset = c
    BY DEF Tga!Entry
  <2> HIDE DEF entries
  <2>8. IsAt(g, d, "directory") /\ g.at[d].value = entries /\ g.at[d].size = 12
    BY <2>6, <2>7 DEF IsAt, Tga!Directory, Tga!Piece
  <2>9. HasDirectory(g)
    <3>1. IsAt(g, FooterOf(g), "footer") /\ g.at[FooterOf(g)].value # 0
      BY <1>4, <2>1, <2>2
    <3>2. Holds(g, d, g.at[d].size)
      BY <2>3, <2>8 DEF Holds
    <3>3. /\ IsAt(g, DirectoryOf(g), "directory")
          /\ Holds(g, DirectoryOf(g), g.at[DirectoryOf(g)].size)
      BY <2>5, <2>8, <3>2
    <3> QED BY <3>1, <3>3 DEF HasDirectory
  <2>10. 1 \in EntriesOf(g) /\ LeadsTo(g, 1) = c
    <3>1. g.at[DirectoryOf(g)].value = entries
      BY <2>5, <2>8
    <3>2. 1 \in 1 .. Len(entries) /\ Tga!IsCcpEntry(entries[1])
      BY <2>7 DEF Tga!IsCcpEntry
    <3>3. LeadsTo(g, 1) = c
      BY <2>4, <2>7, <3>1 DEF LeadsTo
    <3> QED BY <3>1, <3>2, <3>3 DEF EntriesOf
  <2>11. ChunkIsWhole(g, c)
    BY <1>13, <2>3
    DEF ChunkIsWhole, HeaderCanBeRead, HeaderIsValid, ChunkCanBeRead, IsAt, Holds, HEADER_SIZE
  <2> QED BY <2>9, <2>10, <2>11 DEF LeadsToChunk
<1> QED BY <1>20, <1>21 DEF g, p, m

(* TGA: the write of a piece of the metadata keeps the invariant.          *)
LEMMA TgaMetadataAreSaved ==
  ASSUME Inv, Tga!SaveMetadata
  PROVE  Inv'
<1> DEFINE m == file.strings
           c == call.position
           k == call.index
           p == TgaPiece(m, c, k)
           g == Appended(file, p)
<1>1. /\ call.op = "SaveTga" /\ call.step = "Metadata"
      /\ UNCHANGED <<bitmap, pixels, metadata>>
      /\ \/ \E result \in {"WRITE_FAILURE", "READ_FAILURE"} :
              WriteFails(Tga!MetadataPieces[k], result)
         \/ /\ file' = Appended(file, Tga!MetadataPieces[k])
            /\ call' = [call EXCEPT !.index = @ + 1,
                          !.step = IF call.index = 5 THEN "Close" ELSE "Metadata"]
  BY TgaCalls, TgaWrites DEF Tga!SaveMetadata, At
<1>2. /\ Common /\ TgaSaves /\ IsTyped(call) /\ IsFile(file) /\ call.op \in SaveOp
  BY <1>1 DEF Inv, Common, During, Running, SaveOp
<1>3. /\ file.codec = "tga" /\ file.cut /\ file.size >= 18
      /\ m # <<>> /\ m = metadata.strings /\ k \in 1 .. 5 /\ Kinds(file, TgaKinds)
      /\ \A o \in DOMAIN file.at : file.at[o].kind = "metadataHeader" => o = c
      /\ c > 0 /\ ChunkIsAt(file, c, k)
  BY <1>1, <1>2 DEF TgaSaves, SavesTo, TgaKinds
<1>4. Tga!MetadataPieces[k] = p
  BY <1>3, TgaPieces
<1>5. m \in Seq(Strings \X Strings) /\ c \in Nat /\ file.size \in Nat
  BY <1>2 DEF IsFile, HasMetadata, IsTyped
<1>6. /\ IsPiece(p) /\ p.size \in Nat \ {0}
      /\ p.kind = TgaPieceKind[k]
  <2> HIDE DEF m, c
  <2>1. TgaPieceFollows(m, c, k)
    BY <1>3, <1>5, TgaPiecesFollow, Zenon
  <2> QED BY <2>1 DEF TgaPieceFollows
<1>7. HasBegun(file) /\ "WRITE_FAILURE" \in Result /\ "READ_FAILURE" \in Result
  BY <1>3 DEF HasBegun, Result
<1>8. \A n \in {0, p.size - 1} : IsFile(AppendedPart(file, n))
  <2> HIDE DEF p
  <2>1. ASSUME NEW n \in {0, p.size - 1}
        PROVE  IsFile(AppendedPart(file, n))
    <3>1. n \in Nat
      BY <1>6
    <3>2. HasHeaders(Appended(file, Piece("part", n, <<>>)))
      BY <1>2, <1>7, HeadersStay
    <3> QED BY <1>2, <1>3, <3>1, <3>2, TgaKindsAreSimple, SimplePart
  <2> QED BY <2>1
<1> HIDE DEF p
<1>9. g.codec = "tga" /\ g.strings = m /\ g.size = file.size + p.size
      /\ DOMAIN g.at = DOMAIN file.at \union {file.size} /\ g.at[file.size] = p
      /\ \A o \in DOMAIN file.at : o # file.size => g.at[o] = file.at[o]
  BY <1>2, <1>3, AppendFields
<1>10. g.cut
  BY <1>2, <1>3, AppendFields, Zenon
<1>11. g.size >= 18
  BY <1>3, <1>5, <1>6, <1>9
<1> HIDE DEF g
<1>12. ASSUME NEW result \in {"WRITE_FAILURE", "READ_FAILURE"}, WriteFails(p, result)
       PROVE  Inv'
  BY <1>1, <1>2, <1>7, <1>8, <1>12, WriteFailsKeeps
<1>13. CASE file' = g /\ call' = [call EXCEPT !.index = k + 1,
                                    !.step = IF k = 5 THEN "Close" ELSE "Metadata"]
  <2>1. /\ IsTyped(call') /\ call'.op = "SaveTga" /\ call'.index = k + 1 /\ call'.position = c
        /\ call'.step = IF k = 5 THEN "Close" ELSE "Metadata"
    BY <1>1, <1>2, <1>3, <1>13 DEF IsTyped
  <2>2. CASE k = 5
    <3>1. IsFile(g) /\ LeadsToChunk(g)
      BY <1>2, <1>3, <1>5, <2>2, FooterIsWritten DEF g, p
    <3> QED BY <1>1, <1>2, <1>9, <1>10, <1>11, <1>13, <2>1, <2>2, <3>1, TgaSaveGoesOn
  <2>3. CASE k # 5
    <3>1. k \in 1 .. 4 /\ k + 1 \in 1 .. 5
      BY <1>3, <2>3
    <3>2. p.kind \in TgaKinds /\ (p.kind = "metadataHeader" => k = 1)
      BY <1>6, <3>1 DEF TgaKinds, TgaPieceKind
    <3>3. IsFile(g) /\ Kinds(g, TgaKinds)
      BY <1>2, <1>3, <1>6, <1>7, <3>2, TgaKindsAreSimple, SimpleWrite DEF g
    <3>4. ChunkIsAt(g, c, k + 1)
      BY <1>2, <1>3, <1>5, <3>1, ChunkGrows DEF g, p
    <3>5. k = 1 => file.size = c
      BY <1>3 DEF ChunkIsAt
    <3>6. \A o \in DOMAIN g.at : g.at[o].kind = "metadataHeader" => o = c
      BY <1>3, <1>9, <3>2, <3>5
    <3>7. call'.step = "Metadata"
      BY <2>1, <2>3
    <3> QED BY <1>1, <1>2, <1>3, <1>9, <1>10, <1>11, <1>13, <2>1, <3>1, <3>3, <3>4, <3>6, <3>7,
            TgaSaveGoesOn
  <2> QED BY <2>2, <2>3
<1> HIDE DEF m, c
<1> QED BY <1>1, <1>4, <1>12, <1>13 DEF g

(* TGA: the end of a save keeps the invariant.                             *)
LEMMA TgaIsClosed ==
  ASSUME Inv, Tga!Close("SaveTga")
  PROVE  Inv'
<1>1. Close("SaveTga") /\ call.op = "SaveTga" /\ call.step = "Close"
  BY TgaWrites DEF Close, At
<1>2. file.strings # <<>> => LeadsToChunk(file)
  BY <1>1 DEF Inv, During, Running, TgaSaves
<1> QED BY <1>1, <1>2, CloseKeeps DEF SaveOp

(* A save of TGA begins.                                                   *)
LEMMA TgaSaveBegins ==
  ASSUME Inv, NEW wants \in BOOLEAN, Tga!Save(wants)
  PROVE  Inv'
<1> DEFINE strings == IF wants THEN metadata.strings ELSE <<>>
           picture == Tga!Opaque(Tga!Shown)
<1>1. \/ Refuse("SaveTga", "INVALID_BITMAP", wants) \/ Refuse("SaveTga", "SAVE_NOT_SUPPORTED", wants)
      \/ /\ IsValid(bitmap) /\ Tga!CanSave /\ Begin("SaveTga", "Header", wants)
         /\ file' = NewFile("tga", picture, strings)
         /\ UNCHANGED <<bitmap, pixels, metadata>>
  BY TgaCalls, TgaWrites, TgaValid DEF Tga!Save
<1>2. strings \in Seq(Strings \X Strings) /\ strings \in {<<>>, metadata.strings}
  BY DEF Inv, Common, MetadataType
<1> HIDE DEF strings, picture
<1>3. CASE Refuse("SaveTga", "INVALID_BITMAP", wants) \/ Refuse("SaveTga", "SAVE_NOT_SUPPORTED", wants)
  BY <1>3, RefuseKeeps DEF SaveOp, Result
<1>4. CASE /\ IsValid(bitmap) /\ Tga!CanSave /\ Begin("SaveTga", "Header", wants)
           /\ file' = NewFile("tga", picture, strings)
           /\ UNCHANGED <<bitmap, pixels, metadata>>
  <2>1. "SaveTga" \in SaveOp /\ "tga" \in Codec
    BY DEF SaveOp, Codec
  <2>2. SaveHasBegun("SaveTga", "Header", wants, "tga", strings)
    BY <1>2, <1>4, <2>1, SaveBegun
  <2>3. Tga!CanSave' /\ IsValid(bitmap)'
    BY <1>4 DEF Tga!CanSave, IsValid
  <2>4. TgaSaves'
    BY <1>2, <1>4, <2>2, <2>3 DEF SaveHasBegun, TgaSaves, SavesTo
  <2> QED BY <2>2, <2>4, GoesOnReading DEF SaveHasBegun
<1> QED BY <1>1, <1>3, <1>4

(* TGA: a call that begins keeps the invariant.                            *)
LEMMA TgaBegins ==
  ASSUME Inv, Tga!Start
  PROVE  Inv'
BY TgaReadBegins, TgaSaveBegins DEF Tga!Start

(* TGA: a step of a call keeps the invariant.                              *)
LEMMA TgaGoes ==
  ASSUME Inv, Tga!Step
  PROVE  Inv'
BY TgaHeaderIsRead, TgaIsCreated, TgaPixelsAreBegun, TgaPaletteIsRead, TgaIndexesAreRead,
   TgaRowIsRead, TgaCompressedIsRead, TgaPacketIsDecoded, TgaPacketsAreDecoded, TgaRowIsMirrored,
   TgaRowsAreMirrored, TgaFooterIsRead, TgaDirectoryIsRead, TgaEntryIsRead, TgaHeaderIsSaved,
   TgaRowIsSaved, TgaMetadataAreSaved, TgaIsClosed DEF Tga!Step

-----------------------------------------------------------------------------
(* The invariant holds                                                     *)

(* The invariant holds when the program begins.                            *)
LEMMA FirstStates == Init => Inv
<1> SUFFICES ASSUME Init PROVE Inv
  OBVIOUS
<1>1. /\ IsFile(file) /\ IsImage(bitmap, pixels) /\ metadata \in MetadataType
      /\ call = Called("None", "Done", "OK", FALSE)
  BY ScenesAssumption DEF Init, MetadataType
<1>2. /\ IsTyped(call) /\ call.op = "None" /\ call.step = "Done"
  BY <1>1 DEF Called, IsTyped, Result
<1>3. PixelsStayInside /\ MetadataComeFromTheFile
  BY <1>2 DEF PixelsStayInside, MetadataComeFromTheFile, ReadOp
<1> QED BY <1>1, <1>2, <1>3 DEF Inv, Common, During, Running

(* Nothing happens.                                                        *)
LEMMA NothingHappens ==
  ASSUME Inv, UNCHANGED vars
  PROVE  Inv'
<1> USE DEF vars
<1>1. Common /\ Common'
  BY CommonStays DEF Inv, Common
<1>2. MetadataComeFromTheFile'
  BY DEF Inv, MetadataComeFromTheFile, Running
<1>3. CASE ~ Running
  BY <1>1, <1>2, <1>3, Over DEF Running
<1>4. CASE Running
  <2>1. call'.step # "Done" /\ call' = call
    BY <1>4 DEF Running
  <2>2. CASE During("ReadTga")
    <3>1. TgaReads
      BY <2>2 DEF Inv
    <3>2. StaysInStep => StaysInStep'
      BY PacketsStay DEF StaysInStep, InStep
    <3>3. TgaReads'
      BY <3>1, <3>2 DEF TgaReads, HeaderOf, Fresh, IsAt
    <3> QED BY <1>1, <2>1, <2>2, <3>3, GoesOnReading DEF During
  <2>3. CASE During("ReadBmp")
    <3>1. BmpReads'
      BY <2>3 DEF Inv, BmpReads, HeaderOf, Fresh, IsAt
    <3> QED BY <1>1, <2>1, <2>3, <3>1, GoesOnReading DEF During
  <2>4. CASE During("ReadPsd")
    <3>1. PsdReads'
      BY <2>4 DEF Inv, PsdReads, HeaderOf, Fresh, IsAt
    <3> QED BY <1>1, <2>1, <2>4, <3>1, GoesOnReading DEF During
  <2>5. CASE During("ReadPng")
    <3>1. PngReads'
      BY <2>5 DEF Inv, PngReads, PngFound, HeaderOf, Fresh, IsAt
    <3> QED BY <1>1, <2>1, <2>5, <3>1, GoesOnReading DEF During
  <2>6. CASE During("ReadJpeg")
    <3>1. JpegReads'
      BY <2>6 DEF Inv, JpegReads, HeaderOf, Fresh, IsAt
    <3> QED BY <1>1, <2>1, <2>6, <3>1, GoesOnReading DEF During
  <2>7. CASE During("SaveTga")
    <3>1. TgaSaves /\ Tga!CanSave'
      BY <2>7 DEF Inv, TgaSaves, Tga!CanSave
    <3>2. LeadsToChunk(file) => LeadsToChunk(file')
      OBVIOUS
    <3>3. TgaSaves'
      BY <3>1, <3>2 DEF TgaSaves, SavesTo, Kinds, ChunkIsAt
    <3> QED BY <1>1, <2>1, <2>7, <3>3, GoesOnReading DEF During
  <2>8. CASE During("SaveBmp")
    <3>1. BmpSaves /\ Bmp!CanSave'
      BY <2>8 DEF Inv, BmpSaves, Bmp!CanSave
    <3>2. BmpSaves'
      BY <3>1 DEF BmpSaves, SavesTo, Kinds
    <3> QED BY <1>1, <2>1, <2>8, <3>2, GoesOnReading DEF During
  <2>9. CASE During("SavePsd")
    <3>1. PsdSaves /\ Psd!CanSave' /\ Psd!SavedChannels' = Psd!SavedChannels
      BY <2>9 DEF Inv, PsdSaves, Psd!CanSave, Psd!SavedChannels
    <3>2. PsdSaves'
      BY <3>1 DEF PsdSaves, SavesTo, Kinds
    <3> QED BY <1>1, <2>1, <2>9, <3>2, GoesOnReading DEF During
  <2>10. CASE During("SavePng")
    <3>1. PngSaves
      BY <2>10 DEF Inv
    <3>2. Png!CanSave'
      BY <3>1 DEF PngSaves, Png!CanSave
    <3>3. Png!SavedInfo' = Png!SavedInfo
      BY DEF Png!SavedInfo, Png!IsGrey, Png!IsColour, Png!IsWide, Png!Is1010102
    <3>4. PngSaves'
      BY <3>1, <3>2, <3>3 DEF PngSaves, SavesTo, Kinds
    <3> QED BY <1>1, <2>1, <2>10, <3>4, GoesOnReading DEF During
  <2>11. CASE During("SaveJpeg")
    <3>1. JpegSaves
      BY <2>11 DEF Inv
    <3>2. Jpeg!CanSave'
      BY <3>1 DEF JpegSaves, Jpeg!CanSave, Jpeg!Is1010102
    <3>3. JpegSaved' = JpegSaved
      BY DEF JpegSaved, Jpeg!SavedChannels
    <3>4. JpegSaves'
      BY <3>1, <3>2, <3>3 DEF JpegSaves, SavesTo, Kinds
    <3> QED BY <1>1, <2>1, <2>11, <3>4, GoesOnReading DEF During
  <2>12. \/ During("ReadTga") \/ During("ReadBmp") \/ During("ReadPsd") \/ During("ReadPng")
         \/ During("ReadJpeg") \/ During("SaveTga") \/ During("SaveBmp") \/ During("SavePsd")
         \/ During("SavePng") \/ During("SaveJpeg")
    BY <1>1, <1>4 DEF Common, IsTyped, During, Inv, ReadOp, SaveOp
  <2> QED BY <2>2, <2>3, <2>4, <2>5, <2>6, <2>7, <2>8, <2>9, <2>10, <2>11, <2>12
<1> QED BY <1>3, <1>4

(* Every step keeps the invariant.                                         *)
LEMMA NextStates ==
  ASSUME Inv, [Next]_allVars
  PROVE  Inv'
<1>1. CASE Call
  BY <1>1, TgaBegins, BmpBegins, PsdBegins, PngBegins, JpegBegins DEF Call
<1>2. CASE Step
  BY <1>2, TgaGoes, BmpGoes, PsdGoes, PngGoes, JpegGoes DEF Step
<1>3. CASE \E n \in LostBytes : CutOff(n)
  <2>1. \A n \in LostBytes : n \in Nat
    BY LostAssumption
  <2> QED BY <1>3, <2>1, CutOffKeeps
<1>4. CASE UNCHANGED allVars
  BY <1>4, NothingHappens DEF allVars
<1> QED BY <1>1, <1>2, <1>3, <1>4 DEF Next

(* What the caller holds, and what each call that is going on knows of its *)
(* file, its bitmap and the metadata: for every set of files, bitmaps and  *)
(* losses, and whatever fails.                                             *)
THEOREM FilesStayFiles == Spec => []Inv
<1>1. Inv /\ [Next]_allVars => Inv'
  BY NextStates
<1> QED BY FirstStates, <1>1, PTL DEF Spec

(* The buffer of a valid bitmap has as many bytes as its dimensions call   *)
(* for, in every state of every call.                                      *)
THEOREM TypesAreKept == Spec => []TypeOK
<1>1. Inv => TypeOK
  BY DEF Inv, Common, IsFile, IsImage, IsTyped, Exact, TypeOK
<1> QED BY FilesStayFiles, <1>1, PTL

(* The readers of every format put pixels into the buffer only, whatever   *)
(* the header and the packets say, but in the cases that MayGoBeyond       *)
(* names.                                                                  *)
THEOREM PixelsAreInside == Spec => []PixelsStayInside
<1>1. Inv => PixelsStayInside
  BY DEF Inv, Common
<1> QED BY FilesStayFiles, <1>1, PTL

(* Metadata that a read of TGA or PNG hands out are those of the file, and *)
(* those a save of TGA wrote are found again.                              *)
THEOREM MetadataAreTheFiles == Spec => []MetadataComeFromTheFile
<1>1. Inv => MetadataComeFromTheFile
  BY DEF Inv
<1> QED BY FilesStayFiles, <1>1, PTL
=============================================================================
