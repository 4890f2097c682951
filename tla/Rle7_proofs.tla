---------------------------- MODULE Rle7_proofs ----------------------------
(***************************************************************************)
(* The run-length code of Rle7 for every sequence of values: what is coded *)
(* decodes to itself, and the code is never longer than what it stands     *)
(* for.                                                                    *)
(*                                                                         *)
(* The two loops run at different times and count different things, so     *)
(* that the invariant of the encoder speaks of the decoder: whatever comes *)
(* behind what has been written so far, the decoder gets to its end and    *)
(* has put out the values of the runs that are closed.                     *)
(*                                                                         *)
(* Then a grid that is coded and decoded frame by frame, for every         *)
(* sequence of frames and every choice of the bits that are kept: what is  *)
(* lost in one frame is not lost again in the next.  NothingDrifts is not  *)
(* inductive: that a decoded value is near the frame it was decoded from   *)
(* says nothing about the next frame, of which only the kept bits come     *)
(* from the code.  What every step leaves behind is that the decoded       *)
(* values agree with the frame in the bits that are kept.                  *)
(***************************************************************************)
EXTENDS Rle7Stream, BitmapLayout_proofs, SequenceTheorems

(* The values that are coded: the lowest bit is left for the code.         *)
EvenByte == {b \in Byte : b % 2 = 0}

(* The largest is 254, and one more is odd.                                *)
LEMMA EvenFacts ==
  \A x \in EvenByte : x \in Byte /\ x \in Nat /\ x \in 0 .. 254 /\ x + 1 \in Byte /\ x % 2 = 0 /\ (x + 1) % 2 = 1
<1>1. \A x \in Nat : x <= 255 /\ x % 2 = 0 => x <= 254 /\ (x + 1) % 2 = 1
  OBVIOUS
<1>2. \A x \in EvenByte : x \in Byte /\ x \in Nat /\ x <= 255 /\ x % 2 = 0
  BY DEF EvenByte, Byte
<1>3. \A x \in Nat : x <= 254 => x \in 0 .. 254 /\ x + 1 \in Byte
  BY DEF Byte
<1> QED BY <1>1, <1>2, <1>3

(* A length fits its byte.                                                *)
LEMMA LengthsAreBytes ==
  \A len \in 0 .. LengthMax : len \in Byte /\ len \in Nat
<1>1. LengthMax \in Nat /\ LengthMax <= 255
  BY LengthMaxAssumption
<1>2. \A len \in 0 .. LengthMax : len \in Nat /\ 0 <= len /\ len <= 255
  BY <1>1
<1> QED BY <1>2 DEF Byte

-----------------------------------------------------------------------------
(* The two loops                                                           *)

EncodeStep(values) ==
  [p \in Nat \X Run |->
     IF p[1] + 2 <= Len(values) THEN Extended(p[2], values[p[1] + 2]) ELSE p[2]]

FirstRun(values) == [out |-> <<>>, current |-> values[1], len |-> 0]

(* The encoder after n passes.                                             *)
Encoder(values) == Recursion(EncodeStep(values), FirstRun(values))

DecodeStep(size, rle) ==
  [p \in Nat \X Cursor |-> IF Len(p[2].dest) >= size THEN p[2] ELSE Decoded(rle, p[2])]

FirstCursor == [at |-> 1, dest |-> <<>>]

(* The decoder after n passes.                                             *)
Decoder(size, rle) == Recursion(DecodeStep(size, rle), FirstCursor)

LEMMA EncodedEnds ==
  ASSUME NEW values, values # <<>>
  PROVE  Encoded(values) = Flushed(Encoder(values)[Len(values) - 1])
BY DEF Encoded, Encoder, EncodeStep, FirstRun

LEMMA DecodedEnds ==
  ASSUME NEW size, NEW rle
  PROVE  DecodeRle7(size, rle) = Decoder(size, rle)[size].dest
BY DEF DecodeRle7, Decoder, DecodeStep, FirstCursor

LEMMA DecoderStarts ==
  ASSUME NEW size, NEW rle
  PROVE  /\ Decoder(size, rle)[0] = FirstCursor
         /\ \A n \in Nat : Decoder(size, rle)[n] \in Cursor =>
              Decoder(size, rle)[n + 1] =
                IF Len(Decoder(size, rle)[n].dest) >= size THEN Decoder(size, rle)[n]
                ELSE Decoded(rle, Decoder(size, rle)[n])
<1>1. Follows(Decoder(size, rle), DecodeStep(size, rle), FirstCursor)
  BY RecursionUnfolds DEF Decoder
<1>2. ASSUME NEW n \in Nat, NEW c \in Cursor
      PROVE  DecodeStep(size, rle)[<<n, c>>] =
               IF Len(c.dest) >= size THEN c ELSE Decoded(rle, c)
  BY <<n, c>> \in Nat \X Cursor DEF DecodeStep
<1> QED BY <1>1, <1>2 DEF Follows

LEMMA EncoderStarts ==
  ASSUME NEW values
  PROVE  /\ Encoder(values)[0] = FirstRun(values)
         /\ \A n \in Nat : Encoder(values)[n] \in Run /\ n + 2 <= Len(values) =>
              Encoder(values)[n + 1] = Extended(Encoder(values)[n], values[n + 2])
<1>1. Follows(Encoder(values), EncodeStep(values), FirstRun(values))
  BY RecursionUnfolds DEF Encoder
<1>2. ASSUME NEW n \in Nat, NEW r \in Run, n + 2 <= Len(values)
      PROVE  EncodeStep(values)[<<n, r>>] = Extended(r, values[n + 2])
  BY <1>2, <<n, r>> \in Nat \X Run DEF EncodeStep
<1> QED BY <1>1, <1>2 DEF Follows

(* A decoder that has put out what was asked for stays as it is.           *)
LEMMA DecoderStops ==
  ASSUME NEW size \in Nat, NEW rle, NEW m \in Nat, NEW n \in Nat, m <= n,
         Decoder(size, rle)[m] \in Cursor, Len(Decoder(size, rle)[m].dest) >= size
  PROVE  Decoder(size, rle)[n] = Decoder(size, rle)[m]
<1> DEFINE D == Decoder(size, rle)
           P == {j \in Nat : D[m + j] = D[m]}
<1>1. 0 \in P
  OBVIOUS
<1>2. ASSUME NEW j \in Nat, j \in P PROVE j + 1 \in P
  <2>1. D[m + j] = D[m] /\ m + j \in Nat
    BY <1>2
  <2>2. D[(m + j) + 1] = D[m + j]
    BY <2>1, DecoderStarts
  <2>3. m + (j + 1) = (m + j) + 1
    OBVIOUS
  <2> QED BY <2>1, <2>2, <2>3
<1> HIDE DEF P
<1>3. Nat \subseteq P
  BY <1>1, <1>2, SetInduction
<1>4. n - m \in P
  BY <1>3
<1>5. D[m + (n - m)] = D[m] /\ m + (n - m) = n
  BY <1>4 DEF P
<1> QED BY <1>5

-----------------------------------------------------------------------------
(* A code and the values it stands for                                     *)

IsPrefix(out, rle) == Len(out) <= Len(rle) /\ \A i \in 1 .. Len(out) : rle[i] = out[i]

(* Whatever comes behind out, and however much more is asked for: when the *)
(* decoder has read out, it has written the first k values.                *)
StandsFor(out, values, k) ==
  \A rle \in Seq(Byte), size \in Nat :
    IsPrefix(out, rle) /\ k <= size =>
      \E m \in 0 .. k : Decoder(size, rle)[m] = [at |-> Len(out) + 1, dest |-> SubSeq(values, 1, k)]

(* The encoder when it has read n + 1 values: its run is of the last ones, *)
(* the code in front of it stands for the others and is not longer.        *)
IsEncoding(r, values, n) ==
  /\ r \in Run /\ r.current \in EvenByte /\ r.len <= n
  /\ \A i \in n - r.len + 1 .. n + 1 : values[i] = r.current
  /\ Len(r.out) <= n - r.len
  /\ StandsFor(r.out, values, n - r.len)

(* The decoder reads the code of one run.                                  *)
LEMMA RunIsDecoded ==
  ASSUME NEW out \in Seq(Byte), NEW rle \in Seq(Byte), IsPrefix(out, rle),
         NEW current \in EvenByte, NEW dest \in Seq(Byte)
  PROVE  /\ IsPrefix(out \o <<current>>, rle) =>
              Decoded(rle, [at |-> Len(out) + 1, dest |-> dest]) =
                [at |-> Len(out) + 2, dest |-> Append(dest, current)]
         /\ \A len \in 1 .. LengthMax : IsPrefix(out \o <<current + 1, len>>, rle) =>
              Decoded(rle, [at |-> Len(out) + 1, dest |-> dest]) =
                [at |-> Len(out) + 3, dest |-> dest \o Repeated(current, len + 1)]
<1> DEFINE n == Len(out) + 1
           c == [at |-> n, dest |-> dest]
<1>1. n \in Nat /\ n + 1 = Len(out) + 2 /\ n + 2 = Len(out) + 3
  OBVIOUS
<1>2. current \in 0 .. 254 /\ current % 2 = 0 /\ (current + 1) % 2 = 1
  BY EvenFacts
<1>3. ASSUME IsPrefix(out \o <<current>>, rle)
      PROVE  Decoded(rle, c) = [at |-> n + 1, dest |-> Append(dest, current)]
  <2>1. rle[n] = current
    BY <1>3 DEF IsPrefix, EvenByte
  <2>2. rle[c.at] % 2 # 1
    BY <2>1, <1>2
  <2> QED BY <2>1, <2>2 DEF Decoded
<1>4. ASSUME NEW len \in 1 .. LengthMax, IsPrefix(out \o <<current + 1, len>>, rle)
      PROVE  Decoded(rle, c) = [at |-> n + 2, dest |-> dest \o Repeated(current, len + 1)]
  <2>1. len \in Byte /\ current + 1 \in Byte
    BY <1>2, LengthMaxAssumption DEF Byte
  <2>2. rle[n] = current + 1 /\ rle[n + 1] = len
    BY <1>4, <2>1 DEF IsPrefix
  <2>3. (current + 1) - 1 = current /\ rle[c.at] % 2 = 1
    BY <1>2, <2>2
  <2> QED BY <2>2, <2>3 DEF Decoded
<1> QED BY <1>1, <1>3, <1>4

(* The runs that are closed have their values where they belong.           *)
LEMMA RunExtendsValues ==
  ASSUME NEW values \in Seq(EvenByte), NEW n \in Nat, n + 1 <= Len(values),
         NEW len \in Nat, len <= n, NEW current \in EvenByte,
         \A i \in n - len + 1 .. n + 1 : values[i] = current
  PROVE  /\ SubSeq(values, 1, n - len) \in Seq(Byte) /\ Len(SubSeq(values, 1, n - len)) = n - len
         /\ SubSeq(values, 1, n - len) \o Repeated(current, len + 1) = SubSeq(values, 1, n + 1)
         /\ len = 0 => Append(SubSeq(values, 1, n - len), current) = SubSeq(values, 1, n + 1)
<1> DEFINE k == n - len
           front == SubSeq(values, 1, k)
           all == SubSeq(values, 1, n + 1)
           tail == Repeated(current, len + 1)
<1>1. k \in Nat /\ k + len = n /\ k <= Len(values) /\ k + 1 + len = n + 1
  OBVIOUS
<1>2. EvenByte \subseteq Byte
  BY DEF EvenByte
<1>3. front \in Seq(EvenByte) /\ Len(front) = k /\ \A i \in 1 .. k : front[i] = values[i]
  BY <1>1
<1>4. all \in Seq(EvenByte) /\ Len(all) = n + 1 /\ \A i \in 1 .. n + 1 : all[i] = values[i]
  OBVIOUS
<1>5. tail \in Seq(EvenByte) /\ Len(tail) = len + 1 /\ \A i \in 1 .. len + 1 : tail[i] = current
  BY DEF Repeated
<1>6. front \in Seq(Byte)
  BY <1>2, <1>3
<1> HIDE DEF front, all, tail, k
<1>7. /\ front \o tail \in Seq(EvenByte) /\ Len(front \o tail) = k + (len + 1)
      /\ \A i \in 1 .. k + (len + 1) :
           (front \o tail)[i] = IF i <= k THEN front[i] ELSE tail[i - k]
  <2>1. /\ front \o tail \in Seq(EvenByte) /\ Len(front \o tail) = Len(front) + Len(tail)
        /\ \A i \in 1 .. Len(front) + Len(tail) :
             (front \o tail)[i] = IF i <= Len(front) THEN front[i] ELSE tail[i - Len(front)]
    <3>1. front \in Seq(EvenByte) /\ tail \in Seq(EvenByte)
      BY <1>3, <1>5
    <3> QED BY <3>1, ConcatProperties, Zenon
  <2>2. Len(front) = k /\ Len(tail) = len + 1
    BY <1>3, <1>5
  <2> QED BY <2>1, <2>2
<1>8. k + (len + 1) = n + 1
  BY <1>1
<1>9. front \o tail = all
  <2>1. ASSUME NEW i \in 1 .. n + 1 PROVE (front \o tail)[i] = all[i]
    <3>1. CASE i <= k
      <4>1. i \in 1 .. k /\ i \in 1 .. k + (len + 1)
        BY <3>1, <1>1, <1>8
      <4> QED BY <3>1, <4>1, <1>3, <1>4, <1>7
    <3>2. CASE ~ (i <= k)
      <4>1. i - k \in 1 .. len + 1 /\ i \in k + 1 .. n + 1
        BY <3>2, <1>1
      <4>2. values[i] = current
        BY <4>1 DEF k
      <4> QED BY <3>2, <4>1, <4>2, <1>4, <1>5, <1>7, <1>8
    <3> QED BY <3>1, <3>2
  <2> QED BY <2>1, <1>4, <1>7, <1>8, SeqEqual
<1>10. ASSUME len = 0 PROVE Append(front, current) = front \o tail
  <2>1. Append(front, current) \in Seq(EvenByte) /\ Len(Append(front, current)) = k + 1
    BY <1>3
  <2>2. ASSUME NEW i \in 1 .. k + 1 PROVE Append(front, current)[i] = (front \o tail)[i]
    <3>1. (front \o tail)[i] = IF i <= k THEN front[i] ELSE current
      BY <1>10, <1>1, <1>5, <1>7
    <3>2. Append(front, current)[i] = IF i <= k THEN front[i] ELSE current
      BY <1>1, <1>3
    <3> QED BY <3>1, <3>2
  <2> QED BY <2>1, <2>2, <1>7, <1>10, SeqEqual
<1> QED BY <1>3, <1>6, <1>9, <1>10 DEF k, front, all, tail

-----------------------------------------------------------------------------
(* The encoder                                                             *)

(* A run that is closed: a code for all values so far.                     *)
LEMMA FlushedStandsForAll ==
  ASSUME NEW values \in Seq(EvenByte), NEW n \in Nat, n + 1 <= Len(values),
         NEW r, IsEncoding(r, values, n)
  PROVE  /\ Flushed(r) \in Seq(Byte) /\ Len(Flushed(r)) <= n + 1
         /\ StandsFor(Flushed(r), values, n + 1)
<1> DEFINE k == n - r.len
           front == SubSeq(values, 1, k)
           all == SubSeq(values, 1, n + 1)
           token == IF r.len = 0 THEN <<r.current>> ELSE <<r.current + 1, r.len>>
           code == Flushed(r)
<1>1. /\ r.out \in Seq(Byte) /\ r.current \in EvenByte
      /\ r.len \in 0 .. LengthMax /\ r.len \in Nat /\ r.len <= n
      /\ k \in 0 .. n /\ k + r.len = n /\ Len(r.out) <= k
  BY LengthMaxAssumption DEF IsEncoding, Run
<1>2. code = r.out \o token
  BY DEF Flushed
<1>3. /\ token \in Seq(Byte) /\ Len(token) = (IF r.len = 0 THEN 1 ELSE 2)
  <2>1. r.current \in Byte /\ r.current + 1 \in Byte /\ r.len \in Byte
    BY <1>1, EvenFacts, LengthsAreBytes
  <2>2. CASE r.len = 0
    BY <2>1, <2>2
  <2>3. CASE r.len # 0
    BY <2>1, <2>3
  <2> QED BY <2>2, <2>3
<1>4. code \in Seq(Byte) /\ Len(code) = Len(r.out) + Len(token)
  BY <1>1, <1>2, <1>3, ConcatProperties
<1> HIDE DEF token, code, k
<1>5. Len(code) <= n + 1 /\ Len(r.out) <= Len(code) /\ Len(r.out) \in Nat
  <2>1. Len(r.out) \in Nat /\ Len(code) \in Nat /\ k \in Nat
    BY <1>1, <1>4
  <2>2. CASE r.len = 0
    BY <2>1, <2>2, <1>1, <1>3, <1>4
  <2>3. CASE r.len # 0
    BY <2>1, <2>3, <1>1, <1>3, <1>4
  <2> QED BY <2>2, <2>3
<1>6. /\ front \in Seq(Byte) /\ Len(front) = k
      /\ front \o Repeated(r.current, r.len + 1) = all
      /\ r.len = 0 => Append(front, r.current) = all
  BY <1>1, RunExtendsValues DEF IsEncoding, k
<1> HIDE DEF front, all
<1>7. ASSUME NEW rle \in Seq(Byte), NEW size \in Nat, IsPrefix(code, rle), n + 1 <= size
      PROVE  \E m \in 0 .. n + 1 :
               Decoder(size, rle)[m] = [at |-> Len(code) + 1, dest |-> all]
  <2>1. IsPrefix(r.out, rle)
    <3>1. Len(r.out) <= Len(rle)
      BY <1>4, <1>5, <1>7 DEF IsPrefix
    <3>2. ASSUME NEW i \in 1 .. Len(r.out) PROVE rle[i] = r.out[i]
      <4>1. (r.out \o token)[i] = r.out[i]
        BY <1>1, <1>3, ConcatProperties
      <4>2. i \in 1 .. Len(code)
        BY <1>4, <1>5
      <4> QED BY <4>1, <4>2, <1>2, <1>7 DEF IsPrefix
    <3> QED BY <3>1, <3>2 DEF IsPrefix
  <2>2. PICK m \in 0 .. k :
          Decoder(size, rle)[m] = [at |-> Len(r.out) + 1, dest |-> front]
    <3>1. StandsFor(r.out, values, k)
      BY DEF IsEncoding, k
    <3>2. k <= size
      BY <1>1, <1>7
    <3> QED BY <2>1, <3>1, <3>2, <1>7 DEF StandsFor, front
  <2> DEFINE c == [at |-> Len(r.out) + 1, dest |-> front]
  <2>3. m \in Nat /\ m + 1 \in 0 .. n + 1
    BY <1>1
  <2>4. c \in Cursor /\ ~ (Len(c.dest) >= size)
    BY <1>1, <1>6, <1>7 DEF Cursor
  <2>5. Decoder(size, rle)[m + 1] = Decoded(rle, c)
    <3>1. Decoder(size, rle)[m] = c /\ Decoder(size, rle)[m] \in Cursor
      BY <2>2, <2>4
    <3>2. Decoder(size, rle)[m + 1] =
            IF Len(Decoder(size, rle)[m].dest) >= size THEN Decoder(size, rle)[m]
            ELSE Decoded(rle, Decoder(size, rle)[m])
      BY <3>1, <2>3, DecoderStarts
    <3> QED BY <3>1, <3>2, <2>4
  <2>6. Decoded(rle, c) = [at |-> Len(code) + 1, dest |-> all]
    <3>1. CASE r.len = 0
      <4>1. token = <<r.current>> /\ Len(code) + 1 = Len(r.out) + 2
        BY <3>1, <1>1, <1>3, <1>4 DEF token
      <4>2. Decoded(rle, c) = [at |-> Len(r.out) + 2, dest |-> Append(front, r.current)]
        BY <4>1, <1>1, <1>2, <1>6, <1>7, <2>1, RunIsDecoded
      <4> QED BY <3>1, <4>1, <4>2, <1>6
    <3>2. CASE r.len # 0
      <4>1. token = <<r.current + 1, r.len>> /\ Len(code) + 1 = Len(r.out) + 3
            /\ r.len \in 1 .. LengthMax
        BY <3>2, <1>1, <1>3, <1>4 DEF token
      <4>2. Decoded(rle, c) = [at |-> Len(r.out) + 3, dest |-> front \o Repeated(r.current, r.len + 1)]
        BY ZenonT(60), <4>1, <1>1, <1>2, <1>6, <1>7, <2>1, RunIsDecoded
      <4> QED BY <4>1, <4>2, <1>6
    <3> QED BY <3>1, <3>2
  <2> QED BY <2>3, <2>5, <2>6
<1> QED BY <1>4, <1>5, <1>7 DEF StandsFor, code, all

(* Nothing stands for nothing.                                             *)
LEMMA EmptyStandsForNothing ==
  ASSUME NEW values \in Seq(EvenByte)
  PROVE  StandsFor(<<>>, values, 0)
<1>1. SubSeq(values, 1, 0) = <<>> /\ Len(<<>>) + 1 = 1
  OBVIOUS
<1>2. \A rle, size : Decoder(size, rle)[0] = [at |-> 1, dest |-> <<>>]
  BY DecoderStarts DEF FirstCursor
<1> QED BY <1>1, <1>2, 0 \in 0 .. 0 DEF StandsFor

(* The invariant of the encoder's loop.                                    *)
LEMMA EncoderEncodes ==
  ASSUME NEW values \in Seq(EvenByte), values # <<>>
  PROVE  \A n \in Nat : n + 1 <= Len(values) => IsEncoding(Encoder(values)[n], values, n)
<1> DEFINE E == Encoder(values)
           P == {n \in Nat : n + 1 <= Len(values) => IsEncoding(E[n], values, n)}
<1>1. Len(values) >= 1 /\ \A i \in 1 .. Len(values) : values[i] \in EvenByte
  OBVIOUS
<1>2. 0 \in P
  <2>1. E[0] = FirstRun(values)
    BY EncoderStarts
  <2>2. FirstRun(values) \in Run
    <3>1. <<>> \in Seq(Byte) /\ 0 \in 0 .. LengthMax
      BY LengthMaxAssumption
    <3>2. values[1] \in Byte
      BY <1>1, EvenFacts
    <3> QED BY <3>1, <3>2 DEF FirstRun, Run
  <2>3. StandsFor(<<>>, values, 0)
    BY EmptyStandsForNothing
  <2>4. IsEncoding(FirstRun(values), values, 0)
    BY <1>1, <2>2, <2>3 DEF IsEncoding, FirstRun
  <2> QED BY <2>1, <2>4
<1>3. ASSUME NEW n \in Nat, n \in P PROVE n + 1 \in P
  <2> SUFFICES ASSUME (n + 1) + 1 <= Len(values)
               PROVE  IsEncoding(E[n + 1], values, n + 1)
    OBVIOUS
  <2> DEFINE r == E[n]
             next == values[n + 2]
  <2>1. IsEncoding(r, values, n)
    BY <1>3
  <2>2. r \in Run /\ n + 1 <= Len(values) /\ n + 2 <= Len(values) /\ n + 2 \in 1 .. Len(values)
    BY <2>1 DEF IsEncoding
  <2>3. next \in EvenByte
    BY <1>1, <2>2
  <2>4. E[n + 1] = Extended(r, next)
    BY <2>2, EncoderStarts
  <2> HIDE DEF r, next, E
  <2>5. /\ r.len \in 0 .. LengthMax /\ r.len \in Nat /\ r.len <= n
        /\ r.current \in EvenByte /\ r.out \in Seq(Byte)
        /\ Len(r.out) <= n - r.len /\ StandsFor(r.out, values, n - r.len)
        /\ \A i \in n - r.len + 1 .. n + 1 : values[i] = r.current
    BY <2>1, <2>2, LengthMaxAssumption DEF IsEncoding, Run
  <2>6. CASE next # r.current \/ r.len = LengthMax
    <3> DEFINE s == [out |-> Flushed(r), current |-> next, len |-> 0]
    <3>1. E[n + 1] = s
      BY <2>4, <2>6 DEF Extended
    <3>2. Flushed(r) \in Seq(Byte) /\ Len(Flushed(r)) <= n + 1 /\ StandsFor(Flushed(r), values, n + 1)
      BY <2>1, <2>2, FlushedStandsForAll
    <3>3. s \in Run
      BY <3>2, <2>3, EvenFacts, LengthMaxAssumption DEF Run
    <3>4. \A i \in (n + 1) - 0 + 1 .. (n + 1) + 1 : values[i] = next
      BY DEF next
    <3>5. (n + 1) - 0 = n + 1
      OBVIOUS
    <3> QED BY <3>1, <3>2, <3>3, <3>4, <3>5, <2>3 DEF IsEncoding
  <2>7. CASE next = r.current /\ r.len # LengthMax
    <3> DEFINE s == [r EXCEPT !.len = @ + 1]
    <3>1. E[n + 1] = s
      BY <2>4, <2>7 DEF Extended
    <3>2. s \in Run /\ s.len = r.len + 1 /\ s.current = r.current /\ s.out = r.out
      <4>1. r.len + 1 \in 0 .. LengthMax
        BY <2>5, <2>7, LengthMaxAssumption
      <4> QED BY <4>1, <2>2 DEF Run
    <3>3. (n + 1) - s.len = n - r.len /\ s.len <= n + 1
      BY <3>2, <2>5
    <3>4. \A i \in (n + 1) - s.len + 1 .. (n + 1) + 1 : values[i] = s.current
      <4>1. ASSUME NEW i \in n - r.len + 1 .. n + 2 PROVE values[i] = r.current
        <5>1. CASE i = n + 2
          BY <5>1, <2>7 DEF next
        <5>2. CASE i # n + 2
          BY <5>2, <2>5, i \in n - r.len + 1 .. n + 1
        <5> QED BY <5>1, <5>2
      <4> QED BY <4>1, <3>2, <3>3, (n + 1) + 1 = n + 2
    <3> QED BY <3>1, <3>2, <3>3, <3>4, <2>5 DEF IsEncoding
  <2> QED BY <2>6, <2>7
<1> HIDE DEF P
<1>4. Nat \subseteq P
  BY <1>2, <1>3, SetInduction
<1> QED BY <1>4 DEF P

(* Every code begins with itself.                                          *)
LEMMA CodeIsItsPrefix ==
  \A code \in Seq(Byte) : IsPrefix(code, code)
BY DEF IsPrefix

(* EncodeRle7 and DecodeRle7: what is coded decodes to itself, and its     *)
(* code is not longer than itself, whatever runs it has and however long   *)
(* they are (VtaHandler.cpp:19-113); also where the code lies in a larger  *)
(* buffer, whatever is behind it.                                          *)
THEOREM CodeDecodes ==
  ASSUME NEW values \in Seq(EvenByte), values # <<>>
  PROVE  /\ Encoded(values) \in Seq(Byte)
         /\ Len(Encoded(values)) <= Len(values)
         /\ DecodeRle7(Len(values), Encoded(values)) = values
         /\ \A rle \in Seq(Byte) :
              IsPrefix(Encoded(values), rle) => DecodeRle7(Len(values), rle) = values
<1> DEFINE size == Len(values)
           n == size - 1
           code == Encoded(values)
<1>1. n \in Nat /\ n + 1 = size /\ size \in Nat
  OBVIOUS
<1>2. IsEncoding(Encoder(values)[n], values, n) /\ code = Flushed(Encoder(values)[n])
  BY <1>1, EncoderEncodes, EncodedEnds
<1>3. code \in Seq(Byte) /\ Len(code) <= size /\ StandsFor(code, values, size)
  BY <1>1, <1>2, FlushedStandsForAll
<1> HIDE DEF code
<1>4. SubSeq(values, 1, size) = values
  BY SubSeqFull
<1>5. values \in Seq(Byte)
  BY EvenFacts
<1>6. ASSUME NEW rle \in Seq(Byte), IsPrefix(code, rle)
      PROVE  DecodeRle7(size, rle) = values
  <2> DEFINE D == Decoder(size, rle)
  <2>1. PICK m \in 0 .. size : D[m] = [at |-> Len(code) + 1, dest |-> values]
    BY <1>1, <1>3, <1>4, <1>6 DEF StandsFor
  <2>2. D[m] \in Cursor /\ Len(D[m].dest) >= size
    BY <1>1, <1>3, <1>5, <2>1 DEF Cursor
  <2>3. D[size] = D[m]
    BY <1>1, <2>2, DecoderStops
  <2> QED BY <2>1, <2>3, DecodedEnds
<1> QED BY <1>3, <1>6, CodeIsItsPrefix DEF code

(* A buffer of values that announce no length is a code of itself.         *)
LEMMA EvenBytesDecode ==
  ASSUME NEW rle \in Seq(EvenByte)
  PROVE  DecodeRle7(Len(rle), rle) = rle
<1> DEFINE n == Len(rle)
           D == Decoder(n, rle)
           front(m) == SubSeq(rle, 1, m)
           P == {m \in Nat : m <= n => D[m] = [at |-> m + 1, dest |-> front(m)]}
<1>1. n \in Nat /\ \A i \in 1 .. n : rle[i] \in EvenByte
  OBVIOUS
<1>2. \A m \in 0 .. n : front(m) \in Seq(Byte) /\ Len(front(m)) = m
  <2> TAKE m \in 0 .. n
  <2>1. front(m) \in Seq(EvenByte) /\ Len(front(m)) = m
    OBVIOUS
  <2> QED BY <2>1, EvenFacts
<1>3. 0 \in P
  <2>1. SubSeq(rle, 1, 0) = <<>>
    OBVIOUS
  <2> QED BY <2>1, DecoderStarts DEF FirstCursor
<1>4. ASSUME NEW m \in Nat, m \in P PROVE m + 1 \in P
  <2> SUFFICES ASSUME m + 1 <= n PROVE D[m + 1] = [at |-> (m + 1) + 1, dest |-> front(m + 1)]
    OBVIOUS
  <2> DEFINE c == [at |-> m + 1, dest |-> front(m)]
  <2>1. D[m] = c
    <3>1. m <= n
      BY <1>1
    <3> QED BY <1>4, <3>1
  <2>2. c \in Cursor /\ ~ (Len(c.dest) >= n)
    BY <1>1, <1>2 DEF Cursor
  <2>3. D[m + 1] = Decoded(rle, c)
    <3> HIDE DEF c
    <3> QED BY <2>1, <2>2, DecoderStarts
  <2>4. rle[m + 1] % 2 = 0
    BY <1>1 DEF EvenByte
  <2>5. Decoded(rle, c) = [at |-> (m + 1) + 1, dest |-> Append(front(m), rle[m + 1])]
    BY <2>4 DEF Decoded
  <2>6. Append(front(m), rle[m + 1]) = front(m + 1)
    BY <1>1
  <2> QED BY <2>3, <2>5, <2>6
<1> HIDE DEF P
<1>5. Nat \subseteq P
  BY <1>3, <1>4, SetInduction
<1>6. D[n].dest = front(n)
  <2>1. n \in P /\ n <= n
    BY <1>1, <1>5
  <2>2. D[n] = [at |-> n + 1, dest |-> front(n)]
    BY <2>1 DEF P
  <2> HIDE DEF D, front
  <2> QED BY <2>2
<1>7. front(n) = rle
  BY SubSeqFull
<1> QED BY <1>6, <1>7, DecodedEnds

-----------------------------------------------------------------------------
(* Frames                                                                  *)

LEMMA GrainFacts ==
  \A bits \in 1 .. 8 : Grain(bits) \in {2, 4, 8, 16, 32, 64, 128}
<1> SUFFICES ASSUME NEW bits \in 1 .. 8 PROVE Grain(bits) \in {2, 4, 8, 16, 32, 64, 128}
  OBVIOUS
<1>1. 2^0 = 1 /\ 2^1 = 2 /\ 2^2 = 4 /\ 2^3 = 8 /\ 2^4 = 16 /\ 2^5 = 32 /\ 2^6 = 64 /\ 2^7 = 128
  OBVIOUS
<1>2. 8 - bits \in {0, 1, 2, 3, 4, 5, 6, 7}
  OBVIOUS
<1>3. ASSUME NEW n, n \in {0, 1, 2, 3, 4, 5, 6, 7}
      PROVE  2^n \in {1, 2, 4, 8, 16, 32, 64, 128}
  <2>1. CASE n = 0 BY <1>1, <2>1, Zenon
  <2>2. CASE n = 1 BY <1>1, <2>2, Zenon
  <2>3. CASE n = 2 BY <1>1, <2>3, Zenon
  <2>4. CASE n = 3 BY <1>1, <2>4, Zenon
  <2>5. CASE n = 4 BY <1>1, <2>5, Zenon
  <2>6. CASE n = 5 BY <1>1, <2>6, Zenon
  <2>7. CASE n = 6 BY <1>1, <2>7, Zenon
  <2>8. CASE n = 7 BY <1>1, <2>8, Zenon
  <2> QED BY <1>3, <2>1, <2>2, <2>3, <2>4, <2>5, <2>6, <2>7, <2>8, Zenon
<1>4. 2^(8 - bits) \in {1, 2, 4, 8, 16, 32, 64, 128}
  BY ZenonT(60), <1>2, <1>3
<1>5. \A x \in {1, 2, 4, 8, 16, 32, 64, 128} : Larger(x, 2) \in {2, 4, 8, 16, 32, 64, 128}
  BY DEF Larger
<1> QED BY <1>4, <1>5 DEF Grain

(* What a grain leaves of a value, and what it drops of it.                *)
Splits(value, g) ==
  /\ value % g \in 0 .. g - 1
  /\ value - (value % g) \in 0 .. 256 - g
  /\ (value - (value % g)) % 2 = 0
  /\ \A rest \in 0 .. g - 1 : ((value - (value % g)) + rest) % g = rest

(* Every grain divides 256.                                                *)
LEMMA GrainsSplit ==
  ASSUME NEW value \in Nat, value <= 255
  PROVE  \A g \in {2, 4, 8, 16, 32, 64, 128} : Splits(value, g)
<1>1. Splits(value, 2)
  <2>1. value % 2 \in Nat /\ value % 2 <= 1 /\ value - (value % 2) >= 0 /\ value - (value % 2) <= 254
    OBVIOUS
  <2>2. (value - (value % 2)) % 2 = 0
    OBVIOUS
  <2>3. ASSUME NEW rest \in Nat, rest <= 1 PROVE ((value - (value % 2)) + rest) % 2 = rest
    BY <2>3
  <2> QED BY <2>1, <2>2, <2>3 DEF Splits
<1>2. Splits(value, 4)
  <2>1. value % 4 \in Nat /\ value % 4 <= 3 /\ value - (value % 4) >= 0 /\ value - (value % 4) <= 252
    OBVIOUS
  <2>2. (value - (value % 4)) % 2 = 0
    OBVIOUS
  <2>3. ASSUME NEW rest \in Nat, rest <= 3 PROVE ((value - (value % 4)) + rest) % 4 = rest
    BY <2>3
  <2> QED BY <2>1, <2>2, <2>3 DEF Splits
<1>3. Splits(value, 8)
  <2>1. value % 8 \in Nat /\ value % 8 <= 7 /\ value - (value % 8) >= 0 /\ value - (value % 8) <= 248
    OBVIOUS
  <2>2. (value - (value % 8)) % 2 = 0
    OBVIOUS
  <2>3. ASSUME NEW rest \in Nat, rest <= 7 PROVE ((value - (value % 8)) + rest) % 8 = rest
    BY <2>3
  <2> QED BY <2>1, <2>2, <2>3 DEF Splits
<1>4. Splits(value, 16)
  <2>1. value % 16 \in Nat /\ value % 16 <= 15 /\ value - (value % 16) >= 0 /\ value - (value % 16) <= 240
    OBVIOUS
  <2>2. (value - (value % 16)) % 2 = 0
    OBVIOUS
  <2>3. ASSUME NEW rest \in Nat, rest <= 15 PROVE ((value - (value % 16)) + rest) % 16 = rest
    BY <2>3
  <2> QED BY <2>1, <2>2, <2>3 DEF Splits
<1>5. Splits(value, 32)
  <2>1. value % 32 \in Nat /\ value % 32 <= 31 /\ value - (value % 32) >= 0 /\ value - (value % 32) <= 224
    OBVIOUS
  <2>2. (value - (value % 32)) % 2 = 0
    OBVIOUS
  <2>3. ASSUME NEW rest \in Nat, rest <= 31 PROVE ((value - (value % 32)) + rest) % 32 = rest
    BY <2>3
  <2> QED BY <2>1, <2>2, <2>3 DEF Splits
<1>6. Splits(value, 64)
  <2>1. value % 64 \in Nat /\ value % 64 <= 63 /\ value - (value % 64) >= 0 /\ value - (value % 64) <= 192
    OBVIOUS
  <2>2. (value - (value % 64)) % 2 = 0
    OBVIOUS
  <2>3. ASSUME NEW rest \in Nat, rest <= 63 PROVE ((value - (value % 64)) + rest) % 64 = rest
    BY <2>3
  <2> QED BY <2>1, <2>2, <2>3 DEF Splits
<1>7. Splits(value, 128)
  <2>1. value % 128 \in Nat /\ value % 128 <= 127 /\ value - (value % 128) >= 0 /\ value - (value % 128) <= 128
    OBVIOUS
  <2>2. (value - (value % 128)) % 2 = 0
    OBVIOUS
  <2>3. ASSUME NEW rest \in Nat, rest <= 127 PROVE ((value - (value % 128)) + rest) % 128 = rest
    BY <2>3
  <2> QED BY <2>1, <2>2, <2>3 DEF Splits
<1> QED BY <1>1, <1>2, <1>3, <1>4, <1>5, <1>6, <1>7

(* The part of a value that is kept, and the part that is dropped: a kept  *)
(* value has room for any dropped one, and keeps what it is when one is    *)
(* put back.                                                               *)
LEMMA MaskedFacts ==
  ASSUME NEW value \in Byte, NEW bits \in 1 .. 8
  PROVE  /\ Grain(bits) \in Nat
         /\ Masked(value, bits) \in EvenByte
         /\ value % Grain(bits) \in 0 .. Grain(bits) - 1
         /\ Masked(value, bits) + (value % Grain(bits)) = value
         /\ \A rest \in 0 .. Grain(bits) - 1 :
              /\ Masked(value, bits) + rest \in Byte
              /\ Masked(Masked(value, bits) + rest, bits) = Masked(value, bits)
<1> DEFINE g == Grain(bits)
<1>1. value \in Nat /\ value <= 255
  BY DEF Byte
<1>2. g \in {2, 4, 8, 16, 32, 64, 128}
  BY GrainFacts
<1>3. Splits(value, g)
  BY <1>1, <1>2, GrainsSplit
<1> HIDE DEF g
<1>4. g \in Nat
  BY <1>2
<1> DEFINE kept == value - (value % g)
<1>5. kept \in 0 .. 256 - g /\ value % g \in 0 .. g - 1 /\ kept + (value % g) = value
  BY <1>1, <1>3, <1>4 DEF Splits
<1>6. kept % 2 = 0 /\ \A rest \in 0 .. g - 1 : (kept + rest) % g = rest
  BY <1>3 DEF Splits
<1>7. Masked(value, bits) = kept
  BY DEF Masked, g
<1> HIDE DEF kept
<1>8. kept \in EvenByte
  <2>1. kept \in Nat /\ kept <= 255
    BY <1>2, <1>4, <1>5
  <2> QED BY <1>6, <2>1 DEF EvenByte, Byte
<1>9. ASSUME NEW rest \in 0 .. g - 1
      PROVE  kept + rest \in Byte /\ Masked(kept + rest, bits) = kept
  <2>1. rest \in Nat /\ kept \in Nat /\ kept + rest <= 255
    BY <1>4, <1>5
  <2>2. (kept + rest) % g = rest
    BY <1>6
  <2>3. Masked(kept + rest, bits) = (kept + rest) - rest
    BY <2>2 DEF Masked, g
  <2>4. kept + rest \in Byte
    BY <2>1 DEF Byte
  <2>5. (kept + rest) - rest = kept
    BY <2>1
  <2> QED BY <2>3, <2>4, <2>5
<1> QED BY <1>4, <1>5, <1>7, <1>8, <1>9 DEF g

(* The difference of two kept values is one.                               *)
LEMMA MinusIsEven ==
  \A a, b \in EvenByte : Minus(a, b) \in EvenByte /\ (Minus(a, b) + b) % 256 = a
<1>1. ASSUME NEW a \in Nat, NEW b \in Nat, a <= 255, b <= 255, a % 2 = 0, b % 2 = 0
      PROVE  /\ (a - b + 256) % 256 \in Nat
             /\ (a - b + 256) % 256 <= 255
             /\ ((a - b + 256) % 256) % 2 = 0
             /\ (((a - b + 256) % 256) + b) % 256 = a
  <2>1. CASE a >= b
    <3>1. (a - b + 256) % 256 = a - b
      BY <1>1, <2>1
    <3>2. (a - b) % 2 = 0 /\ ((a - b) + b) % 256 = a
      BY <1>1, <2>1
    <3> QED BY <1>1, <2>1, <3>1, <3>2
  <2>2. CASE a < b
    <3>1. (a - b + 256) % 256 = a - b + 256
      BY <1>1, <2>2
    <3>2. (a - b + 256) % 2 = 0 /\ ((a - b + 256) + b) % 256 = a
      BY <1>1, <2>2
    <3> QED BY <1>1, <2>2, <3>1, <3>2
  <2> QED BY <2>1, <2>2
<1>2. \A x \in EvenByte : x \in Nat /\ x <= 255 /\ x % 2 = 0
  BY EvenFacts
<1> QED BY <1>1, <1>2 DEF Minus, EvenByte, Byte

(* The values that are coded for a frame.                                  *)
LEMMA FrameIsCoded ==
  ASSUME NEW src \in Seq(Byte), src # <<>>, NEW bits \in 1 .. 8
  PROVE  LET kept == [i \in 1 .. Len(src) |-> Masked(src[i], bits)]
         IN  /\ kept \in Seq(EvenByte) /\ Len(kept) = Len(src) /\ kept # <<>>
             /\ EncodeRle7(bits, src) = Encoded(kept)
<1> DEFINE n == Len(src)
           kept == [i \in 1 .. n |-> Masked(src[i], bits)]
<1>1. n \in Nat \ {0} /\ DOMAIN src = 1 .. n /\ \A i \in 1 .. n : src[i] \in Byte
  BY EmptySeq, LenProperties, ElementOfSeq
<1>2. kept \in Seq(EvenByte) /\ Len(kept) = n
  <2>1. \A i \in 1 .. n : Masked(src[i], bits) \in EvenByte
    BY <1>1, MaskedFacts
  <2> HIDE DEF n
  <2>2. kept \in [1 .. n -> EvenByte] /\ n \in Nat
    BY <1>1, <2>1
  <2> HIDE DEF kept
  <2> QED BY <2>2
<1>3. kept # <<>>
  BY <1>1, <1>2
<1>4. EncodeRle7(bits, src) = Encoded(kept)
  BY <1>1 DEF EncodeRle7
<1> QED BY <1>2, <1>3, <1>4

(* And for the difference of one from another.                             *)
LEMMA DifferenceIsCoded ==
  ASSUME NEW src \in Seq(Byte), src # <<>>, NEW bits \in 1 .. 8,
         NEW base \in Seq(Byte), Len(base) = Len(src)
  PROVE  LET difference == [i \in 1 .. Len(src) |-> Minus(Masked(src[i], bits), Masked(base[i], bits))]
         IN  /\ difference \in Seq(EvenByte) /\ Len(difference) = Len(src) /\ difference # <<>>
             /\ EncodeRle7Delta(bits, src, base) = Encoded(difference)
<1> DEFINE n == Len(src)
           difference == [i \in 1 .. n |-> Minus(Masked(src[i], bits), Masked(base[i], bits))]
<1>1. /\ n \in Nat \ {0} /\ DOMAIN src = 1 .. n
      /\ \A i \in 1 .. n : src[i] \in Byte /\ base[i] \in Byte
  BY EmptySeq, LenProperties, ElementOfSeq
<1>2. \A i \in 1 .. n : Masked(src[i], bits) \in EvenByte /\ Masked(base[i], bits) \in EvenByte
  BY <1>1, MaskedFacts
<1>3. difference \in Seq(EvenByte) /\ Len(difference) = n
  <2>1. \A i \in 1 .. n : Minus(Masked(src[i], bits), Masked(base[i], bits)) \in EvenByte
    BY <1>2, MinusIsEven
  <2> HIDE DEF n
  <2>2. difference \in [1 .. n -> EvenByte] /\ n \in Nat
    BY <1>1, <2>1
  <2> HIDE DEF difference
  <2> QED BY <2>2
<1>4. difference # <<>>
  BY <1>1, <1>3
<1>5. EncodeRle7Delta(bits, src, base) = Encoded(difference)
  BY <1>1 DEF EncodeRle7Delta
<1> QED BY <1>3, <1>4, <1>5

(* A frame is decoded to what was kept of it, also from a buffer that      *)
(* holds something behind the code.                                        *)
THEOREM FrameDecodes ==
  ASSUME NEW src \in Seq(Byte), src # <<>>, NEW bits \in 1 .. 8
  PROVE  LET code == EncodeRle7(bits, src)
             kept == [i \in 1 .. Len(src) |-> Masked(src[i], bits)]
         IN  /\ code \in Seq(Byte)
             /\ Len(code) <= Len(src)
             /\ DecodeRle7(Len(src), code) = kept
             /\ \A rle \in Seq(Byte) : IsPrefix(code, rle) => DecodeRle7(Len(src), rle) = kept
<1> DEFINE kept == [i \in 1 .. Len(src) |-> Masked(src[i], bits)]
<1>1. kept \in Seq(EvenByte) /\ Len(kept) = Len(src) /\ kept # <<>> /\ EncodeRle7(bits, src) = Encoded(kept)
  BY FrameIsCoded
<1> HIDE DEF kept
<1>2. /\ Encoded(kept) \in Seq(Byte)
      /\ Len(Encoded(kept)) <= Len(kept)
      /\ DecodeRle7(Len(kept), Encoded(kept)) = kept
      /\ \A rle \in Seq(Byte) : IsPrefix(Encoded(kept), rle) => DecodeRle7(Len(kept), rle) = kept
  BY <1>1, CodeDecodes
<1> QED BY <1>1, <1>2 DEF kept

(* A frame that is coded as the difference from another one is decoded to  *)
(* what was kept of it and, below that, to what the other one had there.   *)
THEOREM DifferenceDecodes ==
  ASSUME NEW src \in Seq(Byte), src # <<>>, NEW bits \in 1 .. 8,
         NEW base \in Seq(Byte), Len(base) = Len(src)
  PROVE  LET code == EncodeRle7Delta(bits, src, base)
         IN  /\ code \in Seq(Byte)
             /\ Len(code) <= Len(src)
             /\ \A rle \in Seq(Byte) : IsPrefix(code, rle) =>
                  DecodeRle7Delta(Len(src), rle, base)
                    = [i \in 1 .. Len(src) |-> Masked(src[i], bits) + (base[i] % Grain(bits))]
             /\ DecodeRle7Delta(Len(src), code, base)
                  = [i \in 1 .. Len(src) |-> Masked(src[i], bits) + (base[i] % Grain(bits))]
<1> DEFINE n == Len(src)
           difference == [i \in 1 .. n |-> Minus(Masked(src[i], bits), Masked(base[i], bits))]
<1>1. /\ n \in Nat \ {0} /\ DOMAIN src = 1 .. n
      /\ \A i \in 1 .. n : src[i] \in Byte /\ base[i] \in Byte
  BY EmptySeq, LenProperties, ElementOfSeq
<1>2. \A i \in 1 .. n : Masked(src[i], bits) \in EvenByte /\ Masked(base[i], bits) \in EvenByte
  BY <1>1, MaskedFacts
<1>3. /\ difference \in Seq(EvenByte) /\ Len(difference) = n /\ difference # <<>>
      /\ EncodeRle7Delta(bits, src, base) = Encoded(difference)
  BY DifferenceIsCoded
<1>4. \A i \in 1 .. n : Plus(difference[i], base[i]) = Masked(src[i], bits) + (base[i] % Grain(bits))
  <2> TAKE i \in 1 .. n
  <2> DEFINE a == Masked(src[i], bits)
             b == Masked(base[i], bits)
             low == base[i] % Grain(bits)
  <2>1. difference[i] = Minus(a, b)
    OBVIOUS
  <2>2. (Minus(a, b) + b) % 256 = a /\ Minus(a, b) \in Nat /\ a \in Nat /\ b \in Nat
    <3>1. a \in EvenByte /\ b \in EvenByte
      BY <1>2
    <3> HIDE DEF a, b
    <3>2. Minus(a, b) \in EvenByte /\ (Minus(a, b) + b) % 256 = a
      BY <3>1, MinusIsEven
    <3>3. \A x \in EvenByte : x \in Nat
      BY EvenFacts
    <3> QED BY <3>1, <3>2, <3>3
  <2>3. low \in 0 .. Grain(bits) - 1 /\ b + low = base[i]
    BY <1>1, MaskedFacts
  <2>4. a + low \in Byte
    BY <1>1, <2>3, MaskedFacts
  <2>5. a \in Nat /\ b \in Nat /\ low \in Nat
    <3>1. Grain(bits) \in Nat
      BY <1>1, MaskedFacts
    <3> HIDE DEF a, b, low
    <3> QED BY <2>2, <2>3, <3>1
  <2> DEFINE d == Minus(a, b)
  <2>6. d \in Nat /\ (d + b) % 256 = a
    BY <2>2
  <2> HIDE DEF a, b, low, d
  <2>7. (d + (b + low)) % 256 = a + low
    <3>1. a + low <= 255
      BY <2>4, <2>5 DEF Byte
    <3> QED BY <2>5, <2>6, <3>1
  <2>8. Plus(d, base[i]) = a + low
    BY <2>3, <2>7 DEF Plus
  <2> QED BY <2>1, <2>8 DEF a, b, low, d
<1> HIDE DEF difference
<1>5. /\ Encoded(difference) \in Seq(Byte)
      /\ Len(Encoded(difference)) <= Len(difference)
      /\ \A rle \in Seq(Byte) : IsPrefix(Encoded(difference), rle) =>
           DecodeRle7(Len(difference), rle) = difference
  BY <1>3, CodeDecodes
<1>6. DOMAIN difference = 1 .. n
  BY <1>3
<1>7. ASSUME NEW rle \in Seq(Byte), IsPrefix(Encoded(difference), rle)
      PROVE  DecodeRle7Delta(n, rle, base)
               = [i \in 1 .. n |-> Masked(src[i], bits) + (base[i] % Grain(bits))]
  <2>1. DecodeRle7(n, rle) = difference
    BY <1>3, <1>5, <1>7
  <2>2. DecodeRle7Delta(n, rle, base) = [i \in 1 .. n |-> Plus(difference[i], base[i])]
    BY <1>6, <2>1 DEF DecodeRle7Delta
  <2> QED BY <1>4, <2>2
<1> QED BY <1>3, <1>5, <1>7, CodeIsItsPrefix

-----------------------------------------------------------------------------
(* A grid that is coded and decoded frame by frame.                        *)

(* The writer holds a frame of bytes, its code, and as many decoded bytes. *)
StreamTypeOK ==
  /\ lastFrame \in Seq(Byte) /\ lastFrame # <<>>
  /\ lastBits \in 1 .. 8
  /\ lastCode \in Seq(Byte)
  /\ lastShown \in Seq(Byte) /\ Len(lastShown) = Len(lastFrame)

(* The decoded values are those of the frame in the bits that are kept.    *)
KeptBitsAgree ==
  \A i \in 1 .. Len(lastFrame) : Masked(lastShown[i], lastBits) = Masked(lastFrame[i], lastBits)

StreamInv == StreamTypeOK /\ CodeFitsFrame /\ KeptBitsAgree

-----------------------------------------------------------------------------
(* A frame with other values in the bits that are not kept.                *)
Refilled(frame, b, low) == [i \in 1 .. Len(frame) |-> Masked(frame[i], b) + low[i]]

(* It is a frame of bytes, and agrees in the bits that are kept.           *)
LEMMA RefilledKeeps ==
  ASSUME NEW frame \in Seq(Byte), NEW b \in 1 .. 8,
         NEW low \in [1 .. Len(frame) -> 0 .. Grain(b) - 1]
  PROVE  /\ Refilled(frame, b, low) \in Seq(Byte)
         /\ Len(Refilled(frame, b, low)) = Len(frame)
         /\ \A i \in 1 .. Len(frame) :
              Masked(Refilled(frame, b, low)[i], b) = Masked(frame[i], b)
<1> DEFINE n == Len(frame)
           shown == Refilled(frame, b, low)
<1>1. n \in Nat /\ \A i \in 1 .. n : frame[i] \in Byte
  BY LenProperties, ElementOfSeq
<1>2. \A i \in 1 .. n : /\ Masked(frame[i], b) + low[i] \in Byte
                        /\ Masked(Masked(frame[i], b) + low[i], b) = Masked(frame[i], b)
  BY <1>1, MaskedFacts
<1>3. shown = [i \in 1 .. n |-> Masked(frame[i], b) + low[i]]
  BY DEF Refilled
<1> HIDE DEF shown
<1>4. shown \in [1 .. n -> Byte]
  BY <1>2, <1>3
<1>5. /\ shown \in Seq(Byte) /\ Len(shown) = Len(frame)
      /\ \A i \in 1 .. n : Masked(shown[i], b) = Masked(frame[i], b)
  BY <1>1, <1>2, <1>3, <1>4
<1> QED BY <1>5 DEF shown

LEMMA FirstFrameEstablishes ==
  FirstFrame => StreamInv
<1> SUFFICES ASSUME FirstFrame PROVE StreamInv
  OBVIOUS
<1>1. lastFrame \in Seq(Byte) /\ lastFrame # <<>> /\ lastBits \in 1 .. 8
  BY GridFramesAssumption, GridBitsAssumption DEF FirstFrame
<1>2. /\ lastCode = EncodeRle7(lastBits, lastFrame) /\ lastShown = DecodeRle7(Len(lastFrame), lastCode)
  BY DEF FirstFrame
<1>3. /\ lastCode \in Seq(Byte) /\ Len(lastCode) <= Len(lastFrame)
      /\ lastShown = [i \in 1 .. Len(lastFrame) |-> Masked(lastFrame[i], lastBits)]
  BY <1>1, <1>2, FrameDecodes
<1> DEFINE low == [i \in 1 .. Len(lastFrame) |-> 0]
<1>4. \A i \in 1 .. Len(lastFrame) : lastFrame[i] \in Byte
  BY <1>1, ElementOfSeq
<1>5. low \in [1 .. Len(lastFrame) -> 0 .. Grain(lastBits) - 1]
  <2>1. Grain(lastBits) \in {2, 4, 8, 16, 32, 64, 128}
    BY <1>1, GrainFacts
  <2>2. 0 \in 0 .. Grain(lastBits) - 1
    BY <2>1
  <2> QED BY <2>2
<1>6. lastShown = Refilled(lastFrame, lastBits, low)
  <2>1. ASSUME NEW i \in 1 .. Len(lastFrame)
        PROVE  Masked(lastFrame[i], lastBits) + low[i] = Masked(lastFrame[i], lastBits)
    <3>1. Masked(lastFrame[i], lastBits) \in EvenByte
      BY <1>1, <1>4, MaskedFacts
    <3>2. Masked(lastFrame[i], lastBits) \in Nat
      BY <3>1, EvenFacts
    <3> QED BY <3>2
  <2> QED BY <1>3, <2>1 DEF Refilled
<1> HIDE DEF low
<1>7. /\ lastShown \in Seq(Byte) /\ Len(lastShown) = Len(lastFrame)
      /\ \A i \in 1 .. Len(lastFrame) : Masked(lastShown[i], lastBits) = Masked(lastFrame[i], lastBits)
  BY <1>1, <1>5, <1>6, RefilledKeeps
<1> QED BY <1>1, <1>3, <1>7 DEF StreamInv, StreamTypeOK, CodeFitsFrame, KeptBitsAgree

(* The next frame is decoded onto the one before it.                       *)
LEMMA NextFrameDecodes ==
  ASSUME StreamInv, NextFrame
  PROVE  /\ lastFrame' \in Seq(Byte) /\ lastFrame' # <<>> /\ Len(lastFrame') = Len(lastFrame) /\ lastBits' \in 1 .. 8
         /\ lastCode' \in Seq(Byte) /\ Len(lastCode') <= Len(lastFrame')
         /\ lastShown' = [i \in 1 .. Len(lastFrame') |->
                          Masked(lastFrame'[i], lastBits') + (lastShown[i] % Grain(lastBits'))]
<1>1. /\ lastFrame \in Seq(Byte) /\ lastFrame # <<>> /\ lastShown \in Seq(Byte) /\ Len(lastShown) = Len(lastFrame)
  BY DEF StreamInv, StreamTypeOK
<1>2. lastFrame' \in Seq(Byte) /\ Len(lastFrame') = Len(lastFrame) /\ lastBits' \in 1 .. 8
  BY GridFramesAssumption, GridBitsAssumption DEF NextFrame
<1>3. lastFrame' # <<>>
  BY <1>1, <1>2, EmptySeq
<1>4. /\ lastCode' = EncodeRle7Delta(lastBits', lastFrame', lastShown)
      /\ lastShown' = DecodeRle7Delta(Len(lastFrame'), lastCode', lastShown)
  BY DEF NextFrame
<1> DEFINE frame == lastFrame'
           b == lastBits'
<1>5. frame \in Seq(Byte) /\ frame # <<>> /\ b \in 1 .. 8 /\ Len(lastShown) = Len(frame)
  BY <1>1, <1>2, <1>3
<1> HIDE DEF frame, b
<1>6. LET code == EncodeRle7Delta(b, frame, lastShown)
      IN  /\ code \in Seq(Byte)
          /\ Len(code) <= Len(frame)
          /\ DecodeRle7Delta(Len(frame), code, lastShown)
               = [i \in 1 .. Len(frame) |-> Masked(frame[i], b) + (lastShown[i] % Grain(b))]
  BY <1>1, <1>5, DifferenceDecodes
<1> QED BY <1>2, <1>3, <1>4, <1>6 DEF frame, b

LEMMA StreamInvInductive ==
  StreamInv /\ [NextFrame]_streamVars => StreamInv'
<1> SUFFICES ASSUME StreamInv, [NextFrame]_streamVars PROVE StreamInv'
  OBVIOUS
<1>1. CASE NextFrame
  <2>1. /\ lastFrame' \in Seq(Byte) /\ lastFrame' # <<>> /\ Len(lastFrame') = Len(lastFrame) /\ lastBits' \in 1 .. 8
        /\ lastCode' \in Seq(Byte) /\ Len(lastCode') <= Len(lastFrame')
        /\ lastShown' = [i \in 1 .. Len(lastFrame') |->
                         Masked(lastFrame'[i], lastBits') + (lastShown[i] % Grain(lastBits'))]
    BY <1>1, NextFrameDecodes
  <2> DEFINE frame == lastFrame'
             b == lastBits'
             shown == lastShown'
             low == [i \in 1 .. Len(frame) |-> lastShown[i] % Grain(b)]
  <2>2. low \in [1 .. Len(frame) -> 0 .. Grain(b) - 1]
    <3>1. lastShown \in Seq(Byte) /\ Len(lastShown) = Len(frame) /\ b \in 1 .. 8
      BY <2>1 DEF StreamInv, StreamTypeOK
    <3> HIDE DEF frame, b
    <3>2. \A i \in 1 .. Len(frame) : lastShown[i] \in Byte
      BY <3>1, ElementOfSeq
    <3> QED BY <3>1, <3>2, MaskedFacts
  <2>3. shown = Refilled(frame, b, low)
    BY <2>1 DEF Refilled
  <2>4. frame \in Seq(Byte) /\ b \in 1 .. 8
    BY <2>1
  <2> HIDE DEF frame, b, shown, low
  <2>5. /\ shown \in Seq(Byte) /\ Len(shown) = Len(frame)
        /\ \A i \in 1 .. Len(frame) : Masked(shown[i], b) = Masked(frame[i], b)
    BY <2>2, <2>3, <2>4, RefilledKeeps
  <2> QED BY <2>1, <2>5
          DEF StreamInv, StreamTypeOK, CodeFitsFrame, KeptBitsAgree, frame, b, shown
<1>2. CASE UNCHANGED streamVars
  BY <1>2 DEF streamVars, StreamInv, StreamTypeOK, CodeFitsFrame, KeptBitsAgree
<1> QED BY <1>1, <1>2

LEMMA StreamInvariant ==
  StreamSpec => []StreamInv
<1> QED BY FirstFrameEstablishes, StreamInvInductive, PTL DEF StreamSpec

-----------------------------------------------------------------------------
(* The code of a frame fits the buffer of the decoder, which is as large   *)
(* as a frame (VtaHandler.cpp:435), for every frame.                       *)
THEOREM CodesFit ==
  StreamSpec => []CodeFitsFrame
<1>1. StreamInv => CodeFitsFrame
  BY DEF StreamInv
<1> QED BY <1>1, StreamInvariant, PTL

(* Two values that agree in the bits that are kept are closer than what is *)
(* dropped.                                                                *)
LEMMA AgreementIsNear ==
  ASSUME NEW x \in Byte, NEW y \in Byte, NEW b \in 1 .. 8, Masked(x, b) = Masked(y, b)
  PROVE  Apart(x, y) < Grain(b)
<1> DEFINE g == Grain(b)
           kept == Masked(x, b)
           r == x % g
           s == y % g
<1>1. kept \in EvenByte /\ g \in Nat /\ r \in 0 .. g - 1 /\ s \in 0 .. g - 1
  BY MaskedFacts
<1>2. x = kept + r /\ y = kept + s
  BY MaskedFacts
<1>3. kept \in Nat
  BY <1>1, EvenFacts
<1> HIDE DEF g, kept, r, s
<1>4. x - y < g /\ y - x < g
  BY <1>1, <1>2, <1>3
<1> QED BY <1>4 DEF Apart, Larger, g

(* However many frames were coded as differences, and whatever was kept of *)
(* each, the decoded values are closer to the frame that was given than    *)
(* what masking drops: nothing adds up (VtaHandler.cpp:325-368).           *)
THEOREM NothingEverDrifts ==
  StreamSpec => []NothingDrifts
<1>1. StreamInv => NothingDrifts
  <2> SUFFICES ASSUME StreamInv PROVE NothingDrifts
    OBVIOUS
  <2>1. /\ lastFrame \in Seq(Byte) /\ lastShown \in Seq(Byte) /\ Len(lastShown) = Len(lastFrame) /\ lastBits \in 1 .. 8
        /\ \A i \in 1 .. Len(lastFrame) : Masked(lastShown[i], lastBits) = Masked(lastFrame[i], lastBits)
    BY DEF StreamInv, StreamTypeOK, KeptBitsAgree
  <2>2. DOMAIN lastFrame = 1 .. Len(lastFrame) /\ DOMAIN lastShown = 1 .. Len(lastFrame)
    BY <2>1, LenProperties
  <2>3. \A i \in 1 .. Len(lastFrame) : lastFrame[i] \in Byte /\ lastShown[i] \in Byte
    BY <2>1, ElementOfSeq
  <2>4. \A i \in 1 .. Len(lastFrame) : Apart(lastShown[i], lastFrame[i]) < Grain(lastBits)
    BY <2>1, <2>3, AgreementIsNear
  <2> QED BY <2>2, <2>4 DEF NothingDrifts
<1> QED BY <1>1, StreamInvariant, PTL

(* A frame that has not changed in any bit is decoded to what it was       *)
(* decoded to before, however it was reached: a still image stands.        *)
THEOREM StillImagesStand ==
  StreamSpec => StillImageStands
<1>1. StreamInv /\ [NextFrame]_streamVars
      => [lastFrame' = lastFrame /\ lastBits' = lastBits => lastShown' = lastShown]_streamVars
  <2> SUFFICES ASSUME StreamInv, [NextFrame]_streamVars, lastFrame' = lastFrame, lastBits' = lastBits
               PROVE  lastShown' = lastShown
    BY DEF streamVars
  <2>1. CASE UNCHANGED streamVars
    BY <2>1 DEF streamVars
  <2>2. CASE NextFrame
    <3>1. lastShown' = [i \in 1 .. Len(lastFrame) |-> Masked(lastFrame[i], lastBits) + (lastShown[i] % Grain(lastBits))]
      BY <2>2, NextFrameDecodes
    <3>2. /\ lastShown \in Seq(Byte) /\ Len(lastShown) = Len(lastFrame) /\ lastBits \in 1 .. 8
          /\ \A i \in 1 .. Len(lastFrame) : Masked(lastShown[i], lastBits) = Masked(lastFrame[i], lastBits)
      BY DEF StreamInv, StreamTypeOK, KeptBitsAgree
    <3>3. \A i \in 1 .. Len(lastFrame) : lastShown[i] \in Byte
      BY <3>2, ElementOfSeq
    <3>4. \A i \in 1 .. Len(lastFrame) : Masked(lastShown[i], lastBits) + (lastShown[i] % Grain(lastBits)) = lastShown[i]
      BY <3>2, <3>3, MaskedFacts
    <3>5. lastShown = [i \in 1 .. Len(lastFrame) |-> lastShown[i]]
      BY <3>2, LenProperties
    <3>6. [i \in 1 .. Len(lastFrame) |-> Masked(lastFrame[i], lastBits) + (lastShown[i] % Grain(lastBits))]
            = [i \in 1 .. Len(lastFrame) |-> lastShown[i]]
      BY <3>2, <3>4
    <3> QED BY <3>1, <3>5, <3>6
  <2> QED BY <2>1, <2>2
<1> QED BY <1>1, StreamInvariant, PTL DEF StreamSpec, StillImageStands
=============================================================================
