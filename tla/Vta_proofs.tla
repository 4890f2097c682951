----------------------------- MODULE Vta_proofs -----------------------------
(***************************************************************************)
(* Volume animations, for all grids, frame counts, images, metadata and    *)
(* decoders, and all sequences of calls, short writes and failed reads:    *)
(* where the frames are found in the file, what a decoder shows, what is   *)
(* loaded, and that decoders are projectors.                               *)
(*                                                                         *)
(* A frame is a difference to what its decoder has by then, and that is    *)
(* known only to the writer that made it: the invariant (IInv) says that   *)
(* the code of a frame given in order is the code made from the images     *)
(* themselves, because what the writer keeps agrees with the image in      *)
(* every bit the next code looks at; and that a decoder which read all     *)
(* frames since the first one agrees with the image likewise.              *)
(***************************************************************************)
EXTENDS Vta, Rle7_proofs

-----------------------------------------------------------------------------
(* Sums of the sizes of pieces                                             *)

(* A sum asks nothing of the terms behind its end, not even that they are  *)
(* numbers.                                                                *)
LEMMA TotalOfFront ==
  ASSUME NEW t, NEW u \in [Nat -> Nat], NEW n \in Nat, \A i \in Nat : i < n => t[i] = u[i]
  PROVE  \A m \in Nat : m <= n => Total(t, m) = Total(u, m)
<1> DEFINE it == Recursion(Adding(t), 0)
           P == {m \in Nat : m <= n => it[m] = Total(u, m)}
<1>1. Follows(it, Adding(t), 0)
  BY RecursionUnfolds
<1>2. \A m \in Nat : Total(t, m) = it[m]
  BY DEF Total, Adding
<1> HIDE DEF it
<1>3. 0 \in P
  BY <1>1, TotalUnfolds DEF Follows
<1>4. ASSUME NEW m \in Nat, m \in P PROVE m + 1 \in P
  <2> SUFFICES ASSUME m + 1 <= n PROVE it[m + 1] = Total(u, m + 1)
    OBVIOUS
  <2>1. it[m] = Total(u, m) /\ t[m] = u[m]
    BY <1>4
  <2>2. Total(u, m) \in Nat /\ Total(u, m + 1) = Total(u, m) + u[m]
    BY TotalUnfolds
  <2>3. it[m + 1] = Adding(t)[<<m, it[m]>>]
    BY <1>1 DEF Follows
  <2>4. <<m, it[m]>> \in Nat \X Nat
    BY <2>1, <2>2
  <2>5. Adding(t)[<<m, it[m]>>] = it[m] + t[m]
    BY <2>4 DEF Adding
  <2> QED BY <2>1, <2>2, <2>3, <2>5
<1> HIDE DEF P
<1>5. Nat \subseteq P
  BY <1>3, <1>4, SetInduction
<1> QED BY <1>2, <1>5 DEF P

(* Pieces of one size.                                                     *)
LEMMA TotalOfEquals ==
  ASSUME NEW t \in [Nat -> Nat], NEW k \in Nat, NEW n \in Nat, NEW c \in Nat,
         \A i \in Nat : i < n => t[k + i] = c
  PROVE  Total(t, k + n) = Total(t, k) + n * c
<1> DEFINE P == {m \in Nat : m <= n => Total(t, k + m) = Total(t, k) + m * c}
<1>1. 0 \in P
  <2>1. Total(t, k) \in Nat /\ 0 * c = 0 /\ k + 0 = k
    BY TotalUnfolds
  <2> QED BY <2>1
<1>2. ASSUME NEW m \in Nat, m \in P PROVE m + 1 \in P
  <2> SUFFICES ASSUME m + 1 <= n PROVE Total(t, k + (m + 1)) = Total(t, k) + (m + 1) * c
    OBVIOUS
  <2>1. Total(t, k + m) = Total(t, k) + m * c /\ t[k + m] = c
    BY <1>2
  <2>2. k + m \in Nat /\ k + (m + 1) = (k + m) + 1 /\ (m + 1) * c = m * c + c /\ m * c \in Nat
    OBVIOUS
  <2>3. Total(t, k) \in Nat /\ Total(t, (k + m) + 1) = Total(t, k + m) + t[k + m]
    BY <2>2, TotalUnfolds
  <2> QED BY <2>1, <2>2, <2>3
<1> HIDE DEF P
<1>3. n \in P
  BY <1>1, <1>2, SetInduction
<1> QED BY <1>3 DEF P

(* The bytes of a metadata entry: a key and a value, each behind its       *)
(* length.                                                                 *)
EntryBytes == 2 * (LengthBytes + StringBytes)

EntriesAt(t, k, n) ==
  \A i \in Nat : i < n => /\ t[k + 4 * i] = LengthBytes     /\ t[k + 4 * i + 1] = StringBytes
                          /\ t[k + 4 * i + 2] = LengthBytes /\ t[k + 4 * i + 3] = StringBytes

LEMMA TotalOfEntries ==
  ASSUME NEW t \in [Nat -> Nat], NEW k \in Nat, NEW n \in Nat, EntriesAt(t, k, n)
  PROVE  Total(t, k + 4 * n) = Total(t, k) + n * EntryBytes
<1> DEFINE a == LengthBytes
           b == StringBytes
           c == EntryBytes
<1>1. a \in Nat /\ b \in Nat /\ c \in Nat /\ c = a + b + a + b
  BY DEF LengthBytes, StringBytes, EntryBytes
<1> DEFINE P == {m \in Nat : m <= n => Total(t, k + 4 * m) = Total(t, k) + m * c}
<1>2. 0 \in P
  <2>1. Total(t, k) \in Nat /\ 0 * c = 0 /\ k + 4 * 0 = k
    BY <1>1, TotalUnfolds
  <2> QED BY <2>1
<1> HIDE DEF c
<1>3. ASSUME NEW m \in Nat, m \in P PROVE m + 1 \in P
  <2> SUFFICES ASSUME m + 1 <= n PROVE Total(t, k + 4 * (m + 1)) = Total(t, k) + (m + 1) * c
    OBVIOUS
  <2> DEFINE j == k + 4 * m
  <2>1. Total(t, j) = Total(t, k) + m * c
    BY <1>3
  <2>2. t[j] = a /\ t[j + 1] = b /\ t[j + 2] = a /\ t[j + 3] = b
    BY <1>3 DEF EntriesAt
  <2>3. /\ j \in Nat /\ k + 4 * (m + 1) = j + 4
        /\ (j + 1) + 1 = j + 2 /\ (j + 2) + 1 = j + 3 /\ (j + 3) + 1 = j + 4
    OBVIOUS
  <2> HIDE DEF j
  <2>5. m * c \in Nat /\ (m + 1) * c = m * c + c
    BY <1>1
  <2>6. \A i \in Nat : Total(t, i) \in Nat /\ Total(t, i + 1) = Total(t, i) + t[i]
    BY TotalUnfolds
  <2>7. /\ Total(t, j + 1) = Total(t, j) + t[j]
        /\ Total(t, j + 2) = Total(t, j + 1) + t[j + 1]
        /\ Total(t, j + 3) = Total(t, j + 2) + t[j + 2]
        /\ Total(t, j + 4) = Total(t, j + 3) + t[j + 3]
    <3>1. j + 1 \in Nat /\ j + 2 \in Nat /\ j + 3 \in Nat
      BY <2>3
    <3> QED BY <2>3, <2>6, <3>1
  <2>8. Total(t, j + 4) = Total(t, j) + c
    <3>1. Total(t, j) \in Nat
      BY <2>3, <2>6
    <3> QED BY <1>1, <2>2, <2>7, <3>1
  <2>9. Total(t, k) \in Nat
    BY <2>6
  <2> QED BY <1>1, <2>1, <2>3, <2>5, <2>8, <2>9
<1> HIDE DEF P
<1>4. n \in P
  BY <1>2, <1>3, SetInduction
<1> QED BY <1>4 DEF P, c

-----------------------------------------------------------------------------
(* The pieces of a file                                                    *)

(* A file can be made from any writer: frames have a size, or were never   *)
(* added.                                                                  *)
Cells(w) == Len(w.grids) * w.frames

Writable(w) ==
  /\ w.grids \in Seq(Encoding) \ {<<>>} /\ w.frames \in Nat \ {0}
  /\ Len(w.metadata) \in Nat
  /\ \A i \in 0 .. Cells(w) - 1 :
       w.blobs[i].size \in Nat /\ (w.blobs[i].size = 0 => w.blobs[i].code = <<>>)

LEMMA CellFacts ==
  ASSUME NEW w, Writable(w)
  PROVE  /\ Len(w.grids) \in Nat \ {0} /\ w.frames \in Nat \ {0} /\ Len(w.metadata) \in Nat
         /\ Cells(w) \in Nat
         /\ Len(Blobs(w)) = Cells(w)
         /\ \A i \in 1 .. Cells(w) : Blobs(w)[i] = w.blobs[i - 1]
         /\ \A i \in 0 .. Cells(w) - 1 : Blobs(w)[i + 1] = w.blobs[i] /\ w.blobs[i].size \in Nat
<1>1. Len(w.grids) \in Nat \ {0} /\ w.frames \in Nat \ {0} /\ Len(w.metadata) \in Nat
  BY EmptySeq DEF Writable
<1>2. Cells(w) \in Nat
  BY <1>1, ProductType DEF Cells
<1>3. Blobs(w) = [i \in 1 .. Cells(w) |-> w.blobs[i - 1]]
  BY DEF Blobs, Cells
<1>4. Len(Blobs(w)) = Cells(w)
  BY <1>2, <1>3
<1>5. ASSUME NEW i \in 0 .. Cells(w) - 1 PROVE Blobs(w)[i + 1] = w.blobs[i]
  <2>1. i + 1 \in 1 .. Cells(w) /\ (i + 1) - 1 = i
    BY <1>2
  <2> QED BY <1>3, <2>1
<1> QED BY <1>1, <1>2, <1>3, <1>4, <1>5 DEF Writable

(* Where the parts of five sequences are in the sequence they make.        *)
Joined(S, s, a, b, c, d, e) ==
  /\ s \in Seq(S) /\ Len(s) = Len(a) + Len(b) + Len(c) + Len(d) + Len(e)
  /\ \A i \in 1 .. Len(a) : s[i] = a[i]
  /\ \A i \in 1 .. Len(b) : s[Len(a) + i] = b[i]
  /\ \A i \in 1 .. Len(c) : s[Len(a) + Len(b) + i] = c[i]
  /\ \A i \in 1 .. Len(d) : s[Len(a) + Len(b) + Len(c) + i] = d[i]
  /\ \A i \in 1 .. Len(e) : s[Len(a) + Len(b) + Len(c) + Len(d) + i] = e[i]

LEMMA FiveParts ==
  ASSUME NEW S, NEW a \in Seq(S), NEW b \in Seq(S), NEW c \in Seq(S), NEW d \in Seq(S), NEW e \in Seq(S)
  PROVE  Joined(S, a \o b \o c \o d \o e, a, b, c, d, e)
<1>1. \A x, y \in Seq(S) :
        /\ x \o y \in Seq(S) /\ Len(x \o y) = Len(x) + Len(y)
        /\ \A i \in 1 .. Len(x) : (x \o y)[i] = x[i]
        /\ \A i \in 1 .. Len(y) : (x \o y)[Len(x) + i] = y[i]
  <2> TAKE x, y \in Seq(S)
  <2> DEFINE z == x \o y
  <2>1. /\ z \in Seq(S) /\ Len(z) = Len(x) + Len(y)
        /\ \A i \in 1 .. Len(x) + Len(y) : z[i] = IF i <= Len(x) THEN x[i] ELSE y[i - Len(x)]
    BY ConcatProperties
  <2>2. Len(x) \in Nat /\ Len(y) \in Nat
    OBVIOUS
  <2> HIDE DEF z
  <2>3. ASSUME NEW i \in 1 .. Len(x) PROVE z[i] = x[i]
    <3>1. i \in 1 .. Len(x) + Len(y) /\ i <= Len(x)
      BY <2>2
    <3> QED BY <2>1, <3>1
  <2>4. ASSUME NEW i \in 1 .. Len(y) PROVE z[Len(x) + i] = y[i]
    <3>1. Len(x) + i \in 1 .. Len(x) + Len(y) /\ ~ (Len(x) + i <= Len(x)) /\ (Len(x) + i) - Len(x) = i
      BY <2>2
    <3> QED BY <2>1, <3>1
  <2> QED BY <2>1, <2>3, <2>4 DEF z
<1> DEFINE ab == a \o b
           abc == ab \o c
           abcd == abc \o d
           s == abcd \o e
<1>2. /\ ab \in Seq(S) /\ Len(ab) = Len(a) + Len(b)
      /\ \A i \in 1 .. Len(a) : ab[i] = a[i]
      /\ \A i \in 1 .. Len(b) : ab[Len(a) + i] = b[i]
  BY <1>1
<1> HIDE DEF ab
<1>3. /\ abc \in Seq(S) /\ Len(abc) = Len(ab) + Len(c)
      /\ \A i \in 1 .. Len(ab) : abc[i] = ab[i]
      /\ \A i \in 1 .. Len(c) : abc[Len(ab) + i] = c[i]
  BY <1>1, <1>2
<1> HIDE DEF abc
<1>4. /\ abcd \in Seq(S) /\ Len(abcd) = Len(abc) + Len(d)
      /\ \A i \in 1 .. Len(abc) : abcd[i] = abc[i]
      /\ \A i \in 1 .. Len(d) : abcd[Len(abc) + i] = d[i]
  BY <1>1, <1>3
<1> HIDE DEF abcd
<1>5. /\ s \in Seq(S) /\ Len(s) = Len(abcd) + Len(e)
      /\ \A i \in 1 .. Len(abcd) : s[i] = abcd[i]
      /\ \A i \in 1 .. Len(e) : s[Len(abcd) + i] = e[i]
  BY <1>1, <1>4
<1> HIDE DEF s
<1>6. Len(a) \in Nat /\ Len(b) \in Nat /\ Len(c) \in Nat /\ Len(d) \in Nat /\ Len(e) \in Nat
  OBVIOUS
<1>7. ASSUME NEW i \in 1 .. Len(ab) PROVE s[i] = ab[i]
  <2>1. i \in 1 .. Len(abc) /\ i \in 1 .. Len(abcd)
    BY <1>2, <1>3, <1>4, <1>6
  <2> QED BY <2>1, <1>3, <1>4, <1>5
<1>8. \A i \in 1 .. Len(a) : s[i] = a[i]
  BY <1>2, <1>6, <1>7
<1>9. \A i \in 1 .. Len(b) : s[Len(a) + i] = b[i]
  BY <1>2, <1>6, <1>7
<1>10. ASSUME NEW i \in 1 .. Len(c) PROVE s[Len(ab) + i] = c[i]
  <2>1. Len(ab) + i \in 1 .. Len(abc) /\ Len(ab) + i \in 1 .. Len(abcd)
    BY <1>2, <1>3, <1>4, <1>6
  <2> QED BY <2>1, <1>3, <1>4, <1>5
<1>11. ASSUME NEW i \in 1 .. Len(d) PROVE s[Len(abc) + i] = d[i]
  <2>1. Len(abc) + i \in 1 .. Len(abcd)
    BY <1>2, <1>3, <1>4, <1>6
  <2> QED BY <2>1, <1>4, <1>5
<1>12. /\ s \in Seq(S) /\ Len(s) = Len(a) + Len(b) + Len(c) + Len(d) + Len(e)
       /\ \A i \in 1 .. Len(c) : s[Len(a) + Len(b) + i] = c[i]
       /\ \A i \in 1 .. Len(d) : s[Len(a) + Len(b) + Len(c) + i] = d[i]
       /\ \A i \in 1 .. Len(e) : s[Len(a) + Len(b) + Len(c) + Len(d) + i] = e[i]
  BY <1>2, <1>3, <1>4, <1>5, <1>10, <1>11
<1>13. Joined(S, s, a, b, c, d, e)
  BY <1>8, <1>9, <1>12 DEF Joined
<1> QED BY <1>13 DEF s, abcd, abc, ab

(* The four pieces of a metadata entry.                                    *)
LEMMA EntryPieces ==
  \A key, value :
    LET pieces == StringPieces(key) \o StringPieces(value)
    IN  /\ pieces[1].size = LengthBytes /\ pieces[2].size = StringBytes
        /\ pieces[3].size = LengthBytes /\ pieces[4].size = StringBytes
<1> TAKE key, value
<1> DEFINE n == Piece("length", LengthBytes, StringBytes)
           k == Piece("string", StringBytes, key)
           v == Piece("string", StringBytes, value)
<1>1. n.size = LengthBytes /\ k.size = StringBytes /\ v.size = StringBytes
  BY DEF Piece
<1>2. StringPieces(key) = <<n, k>> /\ StringPieces(value) = <<n, v>>
  BY DEF StringPieces
<1> HIDE DEF n, k, v
<1> DEFINE z == <<n, k>> \o <<n, v>>
<1>3. <<n, k>> \in Seq({n, k, v}) /\ <<n, v>> \in Seq({n, k, v})
  OBVIOUS
<1>4. \A i \in 1 .. 4 : z[i] = IF i <= 2 THEN <<n, k>>[i] ELSE <<n, v>>[i - 2]
  BY <1>3, ConcatProperties
<1>5. z[1] = n /\ z[2] = k /\ z[3] = n /\ z[4] = v
  BY <1>4
<1>6. StringPieces(key) \o StringPieces(value) = z
  BY <1>2
<1> QED BY <1>1, <1>5, <1>6

LEMMA MetadataSizes ==
  ASSUME NEW w, Len(w.metadata) \in Nat
  PROVE  LET m == MetadataPieces(w)
         IN  /\ Len(m) = 4 * Len(w.metadata)
             /\ \A i \in Nat : i < Len(w.metadata) =>
                  /\ m[4 * i + 1].size = LengthBytes /\ m[4 * i + 2].size = StringBytes
                  /\ m[4 * i + 3].size = LengthBytes /\ m[4 * i + 4].size = StringBytes
<1> DEFINE m == MetadataPieces(w)
           n == Len(w.metadata)
           pieces(i) == LET entry == w.metadata[(i + 3) \div 4]
                        IN  StringPieces(entry[1]) \o StringPieces(entry[2])
<1>1. m = [i \in 1 .. 4 * n |-> pieces(i)[((i - 1) % 4) + 1]]
  BY DEF MetadataPieces
<1>2. \A i : /\ pieces(i)[1].size = LengthBytes /\ pieces(i)[2].size = StringBytes
             /\ pieces(i)[3].size = LengthBytes /\ pieces(i)[4].size = StringBytes
  BY EntryPieces
<1> HIDE DEF pieces, m
<1>3. Len(m) = 4 * n
  BY <1>1
<1>4. ASSUME NEW i \in Nat, i < n
      PROVE  /\ m[4 * i + 1].size = LengthBytes /\ m[4 * i + 2].size = StringBytes
             /\ m[4 * i + 3].size = LengthBytes /\ m[4 * i + 4].size = StringBytes
  <2>1. /\ 4 * i + 1 \in 1 .. 4 * n /\ 4 * i + 2 \in 1 .. 4 * n
        /\ 4 * i + 3 \in 1 .. 4 * n /\ 4 * i + 4 \in 1 .. 4 * n
    BY <1>4
  <2>2. /\ (((4 * i + 1) - 1) % 4) + 1 = 1 /\ (((4 * i + 2) - 1) % 4) + 1 = 2
        /\ (((4 * i + 3) - 1) % 4) + 1 = 3 /\ (((4 * i + 4) - 1) % 4) + 1 = 4
    OBVIOUS
  <2>3. /\ m[4 * i + 1] = pieces(4 * i + 1)[1] /\ m[4 * i + 2] = pieces(4 * i + 2)[2]
        /\ m[4 * i + 3] = pieces(4 * i + 3)[3] /\ m[4 * i + 4] = pieces(4 * i + 4)[4]
    BY <1>1, <2>1, <2>2
  <2> QED BY <1>2, <2>3
<1> QED BY <1>3, <1>4 DEF m
(* How many pieces there are before the data.                              *)
PiecesBefore(w) == 1 + Len(w.grids) + Cells(w) + 4 * Len(w.metadata)

LEMMA PiecesAre ==
  ASSUME NEW w, Writable(w)
  PROVE  LET s == Pieces(w)
             grids == Len(w.grids)
         IN  /\ \E S : s \in Seq(S)
             /\ Len(s) = PiecesBefore(w) + Cells(w)
             /\ s[1] = Piece("header", HeaderBytes, Header(w))
             /\ \A i \in 1 .. grids : s[1 + i] = Piece("grid", GridBytes, w.grids[i])
             /\ \A i \in 1 .. Cells(w) :
                  s[1 + grids + i] = Piece("offset", OffsetBytes, DataStart(w) + SizesBefore(w, i - 1))
             /\ \A i \in 1 .. 4 * Len(w.metadata) : s[1 + grids + Cells(w) + i] = MetadataPieces(w)[i]
             /\ \A i \in 1 .. Cells(w) :
                  s[PiecesBefore(w) + i] = Piece("frame", w.blobs[i - 1].size, w.blobs[i - 1].code)
<1> DEFINE n == Len(w.grids)
           c == Cells(w)
           m == Len(w.metadata)
           h == Piece("header", HeaderBytes, Header(w))
           head == <<h>>
           gridAt(i) == Piece("grid", GridBytes, w.grids[i])
           offsetAt(i) == Piece("offset", OffsetBytes, DataStart(w) + SizesBefore(w, i - 1))
           frameAt(i) == Piece("frame", Blobs(w)[i].size, Blobs(w)[i].code)
           grids == [i \in 1 .. n |-> gridAt(i)]
           offsets == [i \in 1 .. c |-> offsetAt(i)]
           entries == MetadataPieces(w)
           frames == [i \in 1 .. c |-> frameAt(i)]
           S == {h} \union {gridAt(i) : i \in 1 .. n} \union {offsetAt(i) : i \in 1 .. c}
                  \union {entries[i] : i \in 1 .. 4 * m} \union {frameAt(i) : i \in 1 .. c}
           s == head \o grids \o offsets \o entries \o frames
<1>1. n \in Nat /\ c \in Nat /\ m \in Nat /\ Len(Blobs(w)) = c
      /\ \A i \in 1 .. c : Blobs(w)[i] = w.blobs[i - 1]
  BY CellFacts
<1>2. Pieces(w) = s
  BY <1>1 DEF Pieces
<1>3. entries \in [1 .. 4 * m -> S]
  <2> DEFINE pieces(i) == (StringPieces(w.metadata[(i + 3) \div 4][1])
                             \o StringPieces(w.metadata[(i + 3) \div 4][2]))[((i - 1) % 4) + 1]
  <2>1. entries = [i \in 1 .. 4 * m |-> pieces(i)]
    BY DEF MetadataPieces
  <2>2. \A i \in 1 .. 4 * m : entries[i] \in S
    OBVIOUS
  <2> HIDE DEF pieces, entries, S
  <2> QED BY <2>1, <2>2
<1>4. \A i \in 1 .. c : frameAt(i) = Piece("frame", w.blobs[i - 1].size, w.blobs[i - 1].code)
  BY <1>1
<1>5. /\ h \in S /\ \A i \in 1 .. n : gridAt(i) \in S
      /\ \A i \in 1 .. c : offsetAt(i) \in S /\ frameAt(i) \in S
  OBVIOUS
<1> HIDE DEF n, c, m, h, gridAt, offsetAt, frameAt, entries, S
<1>6. head \in Seq(S) /\ Len(head) = 1 /\ head[1] = h
  BY <1>5
<1>7. grids \in Seq(S) /\ Len(grids) = n /\ \A i \in 1 .. n : grids[i] = gridAt(i)
  BY <1>1, <1>5
<1>8. offsets \in Seq(S) /\ Len(offsets) = c /\ \A i \in 1 .. c : offsets[i] = offsetAt(i)
  BY <1>1, <1>5
<1>9. entries \in Seq(S) /\ Len(entries) = 4 * m
  BY <1>1, <1>3
<1>10. frames \in Seq(S) /\ Len(frames) = c /\ \A i \in 1 .. c : frames[i] = frameAt(i)
  BY <1>1, <1>5
<1> HIDE DEF head, grids, offsets, frames
<1>11. Joined(S, s, head, grids, offsets, entries, frames)
  BY <1>6, <1>7, <1>8, <1>9, <1>10, FiveParts
<1> HIDE DEF s, entries
<1>12. /\ s \in Seq(S) /\ Len(s) = 1 + n + c + 4 * m + c
       /\ s[1] = h
       /\ \A i \in 1 .. n : s[1 + i] = gridAt(i)
       /\ \A i \in 1 .. c : s[1 + n + i] = offsetAt(i)
       /\ \A i \in 1 .. 4 * m : s[1 + n + c + i] = entries[i]
       /\ \A i \in 1 .. c : s[1 + n + c + 4 * m + i] = frameAt(i)
  <2>1. /\ s \in Seq(S)
        /\ Len(s) = Len(head) + Len(grids) + Len(offsets) + Len(entries) + Len(frames)
        /\ \A i \in 1 .. Len(head) : s[i] = head[i]
        /\ \A i \in 1 .. Len(grids) : s[Len(head) + i] = grids[i]
        /\ \A i \in 1 .. Len(offsets) : s[Len(head) + Len(grids) + i] = offsets[i]
        /\ \A i \in 1 .. Len(entries) : s[Len(head) + Len(grids) + Len(offsets) + i] = entries[i]
        /\ \A i \in 1 .. Len(frames) :
             s[Len(head) + Len(grids) + Len(offsets) + Len(entries) + i] = frames[i]
    BY <1>11, Zenon DEF Joined
  <2> DEFINE gridsFrom   == Len(head)
             offsetsFrom == Len(head) + Len(grids)
             entriesFrom == Len(head) + Len(grids) + Len(offsets)
             framesFrom  == Len(head) + Len(grids) + Len(offsets) + Len(entries)
  <2>2. /\ gridsFrom = 1 /\ offsetsFrom = 1 + n /\ entriesFrom = 1 + n + c
        /\ framesFrom = 1 + n + c + 4 * m /\ framesFrom + Len(frames) = 1 + n + c + 4 * m + c
    BY <1>1, <1>6, <1>7, <1>8, <1>9, <1>10
  <2>3. /\ \A i \in 1 .. Len(grids) : s[gridsFrom + i] = grids[i]
        /\ \A i \in 1 .. Len(offsets) : s[offsetsFrom + i] = offsets[i]
        /\ \A i \in 1 .. Len(entries) : s[entriesFrom + i] = entries[i]
        /\ \A i \in 1 .. Len(frames) : s[framesFrom + i] = frames[i]
        /\ Len(s) = framesFrom + Len(frames)
    BY <2>1
  <2> HIDE DEF gridsFrom, offsetsFrom, entriesFrom, framesFrom
  <2>4. s[1] = h
    BY <1>6, <2>1
  <2>5. /\ \A i \in 1 .. n : s[1 + i] = gridAt(i)
        /\ \A i \in 1 .. c : s[1 + n + i] = offsetAt(i)
    BY <1>7, <1>8, <2>2, <2>3
  <2>6. \A i \in 1 .. 4 * m : s[1 + n + c + i] = entries[i]
    BY <1>9, <2>2, <2>3
  <2>7. \A i \in 1 .. c : s[1 + n + c + 4 * m + i] = frameAt(i)
    BY <1>10, <2>2, <2>3
  <2> QED BY <2>1, <2>2, <2>3, <2>4, <2>5, <2>6, <2>7
<1>13. PiecesBefore(w) = 1 + n + c + 4 * m
  BY DEF PiecesBefore, n, c, m
<1> QED BY <1>2, <1>4, <1>12, <1>13 DEF n, c, m, h, gridAt, offsetAt, entries

-----------------------------------------------------------------------------
(* Their sizes, and where they begin                                       *)

SizeOf(w) == [j \in Nat |-> IF j < Len(Pieces(w)) THEN Pieces(w)[j + 1].size ELSE 0]

LEMMA PieceSizes ==
  ASSUME NEW w, Writable(w)
  PROVE  LET grids == Len(w.grids)
         IN  /\ SizeOf(w) \in [Nat -> Nat]
             /\ SizeOf(w)[0] = HeaderBytes
             /\ \A i \in Nat : i < grids => SizeOf(w)[1 + i] = GridBytes
             /\ \A i \in Nat : i < Cells(w) => SizeOf(w)[1 + grids + i] = OffsetBytes
             /\ \A i \in Nat : i < Len(w.metadata) =>
                  LET j == 1 + grids + Cells(w) + 4 * i
                  IN  /\ SizeOf(w)[j] = LengthBytes     /\ SizeOf(w)[j + 1] = StringBytes
                      /\ SizeOf(w)[j + 2] = LengthBytes /\ SizeOf(w)[j + 3] = StringBytes
             /\ \A i \in Nat : i < Cells(w) => SizeOf(w)[PiecesBefore(w) + i] = w.blobs[i].size
             /\ \A j \in Nat : j < PiecesBefore(w) => SizeOf(w)[j] # 0
<1> DEFINE n == Len(w.grids)
           c == Cells(w)
           m == Len(w.metadata)
           z == SizeOf(w)
           s == Pieces(w)
<1>1. n \in Nat /\ c \in Nat /\ m \in Nat /\ \A i \in 0 .. c - 1 : w.blobs[i].size \in Nat
  BY CellFacts
<1>2. PiecesBefore(w) = 1 + n + c + 4 * m
  BY DEF PiecesBefore
<1>3. /\ Len(s) = 1 + n + c + 4 * m + c
      /\ s[1].size = HeaderBytes
      /\ \A i \in 1 .. n : s[1 + i].size = GridBytes
      /\ \A i \in 1 .. c : s[1 + n + i].size = OffsetBytes
      /\ \A i \in 1 .. 4 * m : s[1 + n + c + i].size = MetadataPieces(w)[i].size
      /\ \A i \in 1 .. c : s[1 + n + c + 4 * m + i].size = w.blobs[i - 1].size
  <2>1. \A kind, size, value : Piece(kind, size, value).size = size
    BY DEF Piece
  <2>2. /\ Len(s) = PiecesBefore(w) + c
        /\ s[1] = Piece("header", HeaderBytes, Header(w))
        /\ \A i \in 1 .. n : s[1 + i] = Piece("grid", GridBytes, w.grids[i])
        /\ \A i \in 1 .. c :
             s[1 + n + i] = Piece("offset", OffsetBytes, DataStart(w) + SizesBefore(w, i - 1))
        /\ \A i \in 1 .. 4 * m : s[1 + n + c + i] = MetadataPieces(w)[i]
        /\ \A i \in 1 .. c :
             s[PiecesBefore(w) + i] = Piece("frame", w.blobs[i - 1].size, w.blobs[i - 1].code)
    BY ZenonT(60), PiecesAre
  <2> HIDE DEF s, n, c, m
  <2> QED BY <1>2, <2>1, <2>2
<1>4. \A i \in Nat : i < m =>
        /\ MetadataPieces(w)[4 * i + 1].size = LengthBytes /\ MetadataPieces(w)[4 * i + 2].size = StringBytes
        /\ MetadataPieces(w)[4 * i + 3].size = LengthBytes /\ MetadataPieces(w)[4 * i + 4].size = StringBytes
  BY <1>1, MetadataSizes
<1>5. \A j \in Nat : z[j] = IF j < Len(s) THEN s[j + 1].size ELSE 0
  BY DEF SizeOf
<1>6. z = [j \in Nat |-> z[j]]
  BY DEF SizeOf
<1> HIDE DEF n, c, m, z, s
<1>7. Len(s) = 1 + n + c + 4 * m + c /\ z[0] = HeaderBytes
  <2>1. Len(s) = 1 + n + c + 4 * m + c /\ s[1].size = HeaderBytes
    BY <1>3
  <2> QED BY <1>1, <1>5, <2>1
<1>8. \A i \in Nat : i < n => z[1 + i] = GridBytes
  <2> TAKE i \in Nat
  <2> HAVE i < n
  <2>1. (1 + i) + 1 = 1 + (i + 1) /\ i + 1 \in 1 .. n /\ 1 + i < Len(s) /\ 1 + i \in Nat
    BY <1>1, <1>7
  <2> QED BY <1>3, <1>5, <2>1
<1>9. \A i \in Nat : i < c => z[1 + n + i] = OffsetBytes
  <2> TAKE i \in Nat
  <2> HAVE i < c
  <2>1. (1 + n + i) + 1 = 1 + n + (i + 1) /\ i + 1 \in 1 .. c /\ 1 + n + i < Len(s) /\ 1 + n + i \in Nat
    BY <1>1, <1>7
  <2> QED BY <1>3, <1>5, <2>1
<1>10. \A i \in Nat : i < 4 * m => z[1 + n + c + i] = MetadataPieces(w)[i + 1].size
  <2> TAKE i \in Nat
  <2> HAVE i < 4 * m
  <2>1. /\ (1 + n + c + i) + 1 = 1 + n + c + (i + 1) /\ i + 1 \in 1 .. 4 * m
        /\ 1 + n + c + i < Len(s) /\ 1 + n + c + i \in Nat
    BY <1>1, <1>7
  <2> QED BY <1>3, <1>5, <2>1
<1>11. \A i \in Nat : i < c => z[1 + n + c + 4 * m + i] = w.blobs[i].size
  <2> TAKE i \in Nat
  <2> HAVE i < c
  <2>1. /\ (1 + n + c + 4 * m + i) + 1 = 1 + n + c + 4 * m + (i + 1) /\ i + 1 \in 1 .. c /\ (i + 1) - 1 = i
        /\ 1 + n + c + 4 * m + i < Len(s) /\ 1 + n + c + 4 * m + i \in Nat
    <3>1. Len(s) = 1 + n + c + 4 * m + c
      BY <1>3
    <3> QED BY <1>1, <3>1
  <2> QED BY <1>3, <1>5, <2>1
<1>12. ASSUME NEW i \in Nat, i < m
       PROVE  /\ z[1 + n + c + 4 * i] = LengthBytes       /\ z[(1 + n + c + 4 * i) + 1] = StringBytes
              /\ z[(1 + n + c + 4 * i) + 2] = LengthBytes /\ z[(1 + n + c + 4 * i) + 3] = StringBytes
  <2>1. /\ 4 * i \in Nat /\ 4 * i + 1 \in Nat /\ 4 * i + 2 \in Nat /\ 4 * i + 3 \in Nat
        /\ 4 * i < 4 * m /\ 4 * i + 1 < 4 * m /\ 4 * i + 2 < 4 * m /\ 4 * i + 3 < 4 * m
        /\ (1 + n + c + 4 * i) + 1 = 1 + n + c + (4 * i + 1)
        /\ (1 + n + c + 4 * i) + 2 = 1 + n + c + (4 * i + 2)
        /\ (1 + n + c + 4 * i) + 3 = 1 + n + c + (4 * i + 3)
        /\ (4 * i + 1) + 1 = 4 * i + 2 /\ (4 * i + 2) + 1 = 4 * i + 3 /\ (4 * i + 3) + 1 = 4 * i + 4
    BY <1>1, <1>12
  <2>2. /\ z[1 + n + c + 4 * i] = MetadataPieces(w)[4 * i + 1].size
        /\ z[1 + n + c + (4 * i + 1)] = MetadataPieces(w)[4 * i + 2].size
        /\ z[1 + n + c + (4 * i + 2)] = MetadataPieces(w)[4 * i + 3].size
        /\ z[1 + n + c + (4 * i + 3)] = MetadataPieces(w)[4 * i + 4].size
    BY <1>10, <2>1
  <2> QED BY <1>4, <1>12, <2>1, <2>2
<1>13. ASSUME NEW j \in Nat, j < 1 + n + c + 4 * m
       PROVE  z[j] \in Nat /\ z[j] # 0
  <2>1. CASE j = 0
    BY <2>1, <1>7 DEF HeaderBytes
  <2>2. CASE j >= 1 /\ j < 1 + n
    <3>1. j - 1 \in Nat /\ j - 1 < n /\ 1 + (j - 1) = j
      BY <2>2, <1>1
    <3>2. z[j] = GridBytes
      BY <3>1, <1>8
    <3> QED BY <3>2 DEF GridBytes
  <2>3. CASE j >= 1 + n /\ j < 1 + n + c
    <3>1. j - (1 + n) \in Nat /\ j - (1 + n) < c /\ 1 + n + (j - (1 + n)) = j
      BY <2>3, <1>1
    <3>2. z[j] = OffsetBytes
      BY <3>1, <1>9
    <3> QED BY <3>2 DEF OffsetBytes
  <2>4. CASE j >= 1 + n + c
    <3>1. PICK k \in Nat : j = 1 + n + c + k /\ k < 4 * m
      <4>1. j - (1 + n + c) \in Nat
        BY <2>4, <1>1
      <4> QED BY <4>1, <1>1, <1>13
    <3>2. PICK i \in Nat, r \in 0 .. 3 : k = 4 * i + r /\ i < m
      <4>1. k \div 4 \in Nat /\ k % 4 \in 0 .. 3 /\ k = 4 * (k \div 4) + (k % 4) /\ k \div 4 < m
        BY <3>1, <1>1
      <4> QED BY <4>1
    <3>3. j = (1 + n + c + 4 * i) + r
      BY <3>1, <3>2, <1>1
    <3>4. r = 0 => j = 1 + n + c + 4 * i
      BY <3>3, <1>1
    <3>5. z[j] \in {LengthBytes, StringBytes}
      BY <1>12, <3>2, <3>3, <3>4
    <3> QED BY <3>5 DEF LengthBytes, StringBytes
  <2> QED BY <2>1, <2>2, <2>3, <2>4, <1>1
<1>14. z \in [Nat -> Nat]
  <2>1. ASSUME NEW j \in Nat PROVE z[j] \in Nat
    <3>1. CASE j < 1 + n + c + 4 * m
      BY <3>1, <1>13
    <3>2. CASE ~ (j < 1 + n + c + 4 * m) /\ j < Len(s)
      <4>1. /\ j - (1 + n + c + 4 * m) \in Nat /\ j - (1 + n + c + 4 * m) < c
            /\ 1 + n + c + 4 * m + (j - (1 + n + c + 4 * m)) = j
        BY <3>2, <1>1, <1>7
      <4>2. j - (1 + n + c + 4 * m) \in 0 .. c - 1
        BY <4>1, <1>1
      <4>3. z[j] = w.blobs[j - (1 + n + c + 4 * m)].size
        BY <4>1, <1>11
      <4> QED BY <4>2, <4>3, <1>1
    <3>3. CASE ~ (j < Len(s))
      BY <3>3, <1>5
    <3> QED BY <3>1, <3>2, <3>3
  <2> QED BY <2>1, <1>6
<1> QED BY <1>2, <1>7, <1>8, <1>9, <1>11, <1>12, <1>13, <1>14 DEF n, c, m, z
BlobSizes(w) == [i \in Nat |-> IF i < Cells(w) THEN w.blobs[i].size ELSE 0]

(* What AddFrame has summed is where the data of each frame begin.         *)
LEMMA FramesBegin ==
  ASSUME NEW w, Writable(w)
  PROVE  /\ DataStart(w) \in Nat
         /\ \A i \in 0 .. Cells(w) :
              /\ SizesBefore(w, i) \in Nat
              /\ Total(SizeOf(w), PiecesBefore(w) + i) = DataStart(w) + SizesBefore(w, i)
         /\ \A i \in 0 .. Cells(w) - 1 : SizesBefore(w, i + 1) = SizesBefore(w, i) + w.blobs[i].size
<1> DEFINE n == Len(w.grids)
           c == Cells(w)
           m == Len(w.metadata)
           z == SizeOf(w)
           u == BlobSizes(w)
<1>1. /\ n \in Nat /\ c \in Nat /\ m \in Nat /\ Len(Blobs(w)) = c
      /\ \A i \in 0 .. c - 1 : Blobs(w)[i + 1] = w.blobs[i] /\ w.blobs[i].size \in Nat
  BY CellFacts
<1>2. PiecesBefore(w) = 1 + n + c + 4 * m
  BY DEF PiecesBefore
<1>3. /\ z \in [Nat -> Nat]
      /\ z[0] = HeaderBytes
      /\ \A i \in Nat : i < n => z[1 + i] = GridBytes
      /\ \A i \in Nat : i < c => z[1 + n + i] = OffsetBytes
      /\ \A i \in Nat : i < m =>
           /\ z[1 + n + c + 4 * i] = LengthBytes     /\ z[1 + n + c + 4 * i + 1] = StringBytes
           /\ z[1 + n + c + 4 * i + 2] = LengthBytes /\ z[1 + n + c + 4 * i + 3] = StringBytes
      /\ \A i \in Nat : i < c => z[PiecesBefore(w) + i] = w.blobs[i].size
  BY ZenonT(60), PieceSizes
<1>4. u \in [Nat -> Nat] /\ \A i \in Nat : i < c => u[i] = w.blobs[i].size
  <2>1. \A i \in Nat : i < c => i \in 0 .. c - 1
    BY <1>1
  <2> QED BY <1>1, <2>1 DEF BlobSizes
<1>5. \A i \in Nat : i <= c => SizesBefore(w, i) = Total(u, i)
  <2> DEFINE t == [i \in Nat |-> Blobs(w)[i + 1].size]
  <2>1. \A i \in Nat : i < c => t[i] = u[i]
    <3> TAKE i \in Nat
    <3> HAVE i < c
    <3>1. i \in 0 .. c - 1
      BY <1>1
    <3> QED BY <1>1, <1>4, <3>1
  <2>2. \A i : SizesBefore(w, i) = Total(t, i)
    BY DEF SizesBefore
  <2> HIDE DEF t, u, c
  <2>3. \A i \in Nat : i <= c => Total(t, i) = Total(u, i)
    BY <1>1, <1>4, <2>1, TotalOfFront
  <2> QED BY <2>2, <2>3
<1> DEFINE start == DataStart(w)
<1>6. start = HeaderBytes + n * GridBytes + c * OffsetBytes + m * 2 * (LengthBytes + StringBytes)
  BY <1>1 DEF DataStart
<1> HIDE DEF n, c, m, z, u, start
<1>7. Total(z, 1) = HeaderBytes
  BY <1>3, TotalOfOne
<1>8. Total(z, 1 + n) = Total(z, 1) + n * GridBytes
  <2>1. 1 \in Nat /\ GridBytes \in Nat
    BY DEF GridBytes
  <2>2. z \in [Nat -> Nat] /\ n \in Nat /\ \A i \in Nat : i < n => z[1 + i] = GridBytes
    BY <1>1, <1>3
  <2> QED BY ZenonT(60), <2>1, <2>2, TotalOfEquals
<1>9. Total(z, 1 + n + c) = Total(z, 1 + n) + c * OffsetBytes
  <2>1. 1 + n \in Nat /\ OffsetBytes \in Nat
    BY <1>1 DEF OffsetBytes
  <2>2. z \in [Nat -> Nat] /\ c \in Nat /\ \A i \in Nat : i < c => z[(1 + n) + i] = OffsetBytes
    BY <1>1, <1>3
  <2> QED BY ZenonT(60), <2>1, <2>2, TotalOfEquals
<1>10. Total(z, PiecesBefore(w)) = Total(z, 1 + n + c) + m * 2 * (LengthBytes + StringBytes)
  <2> DEFINE k == 1 + n + c
  <2>1. EntriesAt(z, k, m)
    BY <1>3 DEF EntriesAt
  <2>2. k \in Nat /\ m \in Nat /\ PiecesBefore(w) = k + 4 * m
    BY <1>1, <1>2
  <2>3. m * 2 * (LengthBytes + StringBytes) = m * EntryBytes
    BY <1>1 DEF EntryBytes, LengthBytes, StringBytes
  <2>4. z \in [Nat -> Nat]
    BY <1>3
  <2> HIDE DEF k
  <2>5. Total(z, k + 4 * m) = Total(z, k) + m * EntryBytes
    BY <2>1, <2>2, <2>4, TotalOfEntries
  <2> QED BY <2>2, <2>3, <2>5 DEF k
<1>11. Total(z, PiecesBefore(w)) = start
  <2>1. Total(z, 1 + n) = HeaderBytes + n * GridBytes
    BY <1>7, <1>8
  <2>2. Total(z, 1 + n + c) = HeaderBytes + n * GridBytes + c * OffsetBytes
    BY <1>9, <2>1
  <2> QED BY <1>6, <1>10, <2>2
<1>12. PiecesBefore(w) \in Nat
  BY <1>1, <1>2
<1>13. start \in Nat
  BY <1>3, <1>11, <1>12, TotalUnfolds
<1>14. ASSUME NEW i \in Nat, i <= c
       PROVE  Total(z, PiecesBefore(w) + i) = start + Total(u, i)
  <2> DEFINE b == PiecesBefore(w)
             v == [j \in Nat |-> z[b + j]]
  <2>1. v \in [Nat -> Nat]
    BY <1>3, <1>12
  <2>2. \A j \in Nat : j < i => v[j] = u[j]
    <3> TAKE j \in Nat
    <3> HAVE j < i
    <3>1. j < c
      BY <1>1, <1>14
    <3>2. z[PiecesBefore(w) + j] = w.blobs[j].size /\ u[j] = w.blobs[j].size
      BY <1>3, <1>4, <3>1
    <3> QED BY <3>2
  <2>3. Total(z, b + i) = Total(z, b) + Total(v, i)
    BY <1>3, <1>12, TotalSplits
  <2> HIDE DEF v, b
  <2>4. Total(v, i) = Total(u, i)
    BY <1>4, <2>1, <2>2, TotalsAgree
  <2> QED BY <1>11, <2>3, <2>4 DEF b
<1>15. \A i \in Nat : Total(u, i) \in Nat /\ Total(u, i + 1) = Total(u, i) + u[i]
  BY <1>4, TotalUnfolds
<1>16. ASSUME NEW i \in 0 .. c - 1
       PROVE  SizesBefore(w, i + 1) = SizesBefore(w, i) + w.blobs[i].size
  <2>1. i \in Nat /\ i < c /\ i <= c /\ i + 1 \in Nat /\ i + 1 <= c
    BY <1>1
  <2> QED BY <2>1, <1>4, <1>5, <1>15
<1>17. ASSUME NEW i \in 0 .. c
       PROVE  /\ SizesBefore(w, i) \in Nat
              /\ Total(z, PiecesBefore(w) + i) = start + SizesBefore(w, i)
  <2>1. i \in Nat /\ i <= c
    BY <1>1
  <2> QED BY <2>1, <1>5, <1>14, <1>15
<1> QED BY <1>13, <1>16, <1>17 DEF c, z, start

(* What a file that was cut off after n pieces has, and where.             *)
CutOff(f, w, n) ==
  /\ Len(f) = n /\ DOMAIN f = 1 .. n
  /\ \A i \in 1 .. n : f[i] = Pieces(w)[i]
  /\ \A i \in 1 .. n : PieceStart(f, i) = Total(SizeOf(w), i - 1)
  /\ FileSize(f) = Total(SizeOf(w), n)
  /\ f = NoFile <=> n = 0

LEMMA FileFacts ==
  ASSUME NEW w, Writable(w), NEW n \in 0 .. Len(Pieces(w)), NEW f, f = SubSeq(Pieces(w), 1, n)
  PROVE  CutOff(f, w, n)
<1> DEFINE s == Pieces(w)
           z == SizeOf(w)
           t == [j \in Nat |-> f[j + 1].size]
<1>1. PICK S : s \in Seq(S)
  BY PiecesAre
<1>2. z \in [Nat -> Nat] /\ \A j \in Nat : z[j] = IF j < Len(s) THEN s[j + 1].size ELSE 0
  <2>1. z \in [Nat -> Nat]
    BY ZenonT(60), PieceSizes
  <2> QED BY <2>1 DEF SizeOf
<1> HIDE DEF s, z
<1>3. Len(s) \in Nat /\ n \in Nat /\ n <= Len(s)
  BY <1>1 DEF s
<1>4. f = SubSeq(s, 1, n)
  BY DEF s
<1>5. f \in Seq(S) /\ Len(f) = n /\ \A i \in 1 .. n : f[i] = s[i]
  BY <1>1, <1>3, <1>4
<1>6. \A j \in Nat : j < n => t[j] = z[j]
  <2> TAKE j \in Nat
  <2> HAVE j < n
  <2>1. j + 1 \in 1 .. n /\ j < Len(s)
    BY <1>3
  <2> QED BY <1>2, <1>5, <2>1
<1>7. \A i : PieceStart(f, i) = Total(t, i - 1)
  BY DEF PieceStart
<1> HIDE DEF t
<1>8. \A j \in Nat : j <= n => Total(t, j) = Total(z, j)
  BY <1>2, <1>3, <1>6, TotalOfFront
<1>9. \A i \in 1 .. n : PieceStart(f, i) = Total(z, i - 1)
  <2> TAKE i \in 1 .. n
  <2>1. i - 1 \in Nat /\ i - 1 <= n
    BY <1>3
  <2> QED BY <1>7, <1>8, <2>1
<1>10. FileSize(f) = Total(z, n)
  <2>1. (n + 1) - 1 = n /\ n <= n
    BY <1>3
  <2>2. FileSize(f) = Total(t, (n + 1) - 1)
    BY <1>5, <1>7 DEF FileSize
  <2> QED BY <2>1, <2>2, <1>3, <1>8
<1>11. f = NoFile <=> n = 0
  BY <1>5, EmptySeq DEF NoFile
<1>12. DOMAIN f = 1 .. n
  BY <1>5
<1> QED BY <1>5, <1>9, <1>10, <1>11, <1>12 DEF CutOff, s, z
-----------------------------------------------------------------------------
(* The reader                                                              *)

(* What a reader knows of a file of w once it has read the header.         *)
Reading(r, w) ==
  /\ r.valid = TRUE /\ r.grids = w.grids /\ r.frames = w.frames
  /\ r.offsets \in Seq(Nat) /\ Len(r.offsets) = Cells(w)
  /\ \A i \in 1 .. Cells(w) : r.offsets[i] = DataStart(w) + SizesBefore(w, i - 1)
  /\ r.dataEnd = DataStart(w) + SizesBefore(w, Cells(w))

LEMMA ItselfAgain ==
  ASSUME NEW S, NEW s \in Seq(S)
  PROVE  s = [i \in 1 .. Len(s) |-> s[i]]
<1>1. s \in [1 .. Len(s) -> S]
  BY LenProperties
<1> QED BY <1>1

LEMMA HeaderIsRead ==
  ASSUME NEW w, Writable(w), NEW n \in 0 .. Len(Pieces(w)), NEW f, f = SubSeq(Pieces(w), 1, n)
  PROVE  ReadHeader(f) = NoReader \/ Reading(ReadHeader(f), w)
<1> DEFINE g == Len(w.grids)
           c == Cells(w)
           r == ReadHeader(f)
<1> SUFFICES ASSUME r # NoReader PROVE Reading(r, w)
  OBVIOUS
<1>1. g \in Nat \ {0} /\ c \in Nat /\ Len(Blobs(w)) = c /\ w.grids \in Seq(Encoding)
  BY SMTT(60), CellFacts DEF Writable
<1>2. /\ Len(f) = n /\ DOMAIN f = 1 .. n
      /\ \A i \in 1 .. n : f[i] = Pieces(w)[i]
      /\ f = NoFile <=> n = 0
  BY FileFacts DEF CutOff
<1>3. n \in Nat /\ n # 0 /\ f # NoFile
  <2>1. f # NoFile
    BY ZenonT(60) DEF ReadHeader
  <2>2. \E S : Pieces(w) \in Seq(S)
    BY PiecesAre
  <2>3. Len(Pieces(w)) \in Nat
    BY <2>2
  <2> QED BY <2>1, <2>3, <1>2
<1> DEFINE s == Pieces(w)
<1>4. /\ s[1] = Piece("header", HeaderBytes, Header(w))
      /\ \A i \in 1 .. g : s[1 + i] = Piece("grid", GridBytes, w.grids[i])
      /\ \A i \in 1 .. c :
           s[1 + g + i] = Piece("offset", OffsetBytes, DataStart(w) + SizesBefore(w, i - 1))
  BY ZenonT(60), PiecesAre
<1>5. \A kind, size, value : Piece(kind, size, value).value = value
  BY DEF Piece
<1>6. f[1].value = Header(w)
  BY <1>2, <1>3, <1>4, <1>5
<1>7. /\ Header(w).grids = g /\ Header(w).frames = w.frames /\ Header(w).metadata = 0
      /\ Header(w).dataEnd = DataStart(w) + SizesBefore(w, c)
  BY <1>1 DEF Header
<1> DEFINE h == Header(w)
           last(x) == 1 + x.grids + x.grids * x.frames + 4 * x.metadata
           full(x) ==
             [valid    |-> TRUE,
              grids    |-> [i \in 1 .. x.grids |-> f[1 + i].value],
              frames   |-> x.frames,
              offsets  |-> [i \in 1 .. x.grids * x.frames |-> f[1 + x.grids + i].value],
              dataEnd  |-> x.dataEnd,
              metadata |-> [i \in 1 .. x.metadata |->
                              <<f[1 + x.grids + x.grids * x.frames + 4 * i - 2].value,
                                f[1 + x.grids + x.grids * x.frames + 4 * i].value>>]]
<1>8. g * w.frames = c
  BY DEF Cells
<1>9. n >= 1 + g + c /\ r = full(h)
  <2>1. r = IF Len(f) < last(f[1].value) THEN NoReader ELSE full(f[1].value)
    BY Zenon, <1>3 DEF ReadHeader
  <2> HIDE DEF full, last, h, r, g, c
  <2>2. ~ (Len(f) < last(h)) /\ r = full(h)
    BY <1>6, <2>1 DEF h
  <2>3. last(h) = 1 + g + c
    <3>1. h.grids = g /\ h.frames = w.frames /\ h.metadata = 0
      BY <1>7 DEF h
    <3>2. last(h) = 1 + g + g * w.frames + 4 * 0
      BY <3>1 DEF last
    <3>3. last(h) = 1 + g + c + 4 * 0
      BY <3>2, <1>8
    <3> QED BY <3>3, <1>1
  <2> QED BY <2>2, <2>3, <1>1, <1>2, <1>3
<1>10. /\ r.valid = TRUE /\ r.grids = [i \in 1 .. g |-> f[1 + i].value] /\ r.frames = w.frames
       /\ r.offsets = [i \in 1 .. c |-> f[1 + g + i].value]
       /\ r.dataEnd = DataStart(w) + SizesBefore(w, c)
  <2> DEFINE grids(x)   == [i \in 1 .. x |-> f[1 + i].value]
             offsets(x, y) == [i \in 1 .. y |-> f[1 + x + i].value]
  <2>1. /\ full(h).valid = TRUE /\ full(h).grids = grids(h.grids) /\ full(h).frames = h.frames
        /\ full(h).offsets = offsets(h.grids, h.grids * h.frames) /\ full(h).dataEnd = h.dataEnd
    BY DEF full
  <2>2. h.grids = g /\ h.frames = w.frames /\ h.dataEnd = DataStart(w) + SizesBefore(w, c)
        /\ h.grids * h.frames = c
    BY <1>7, <1>8
  <2> HIDE DEF full, h, grids, offsets
  <2>3. /\ r.valid = TRUE /\ r.grids = grids(g) /\ r.frames = w.frames
        /\ r.offsets = offsets(g, c) /\ r.dataEnd = DataStart(w) + SizesBefore(w, c)
    BY <1>9, <2>1, <2>2
  <2> QED BY <2>3 DEF grids, offsets
<1> HIDE DEF full, h
<1> HIDE DEF g, c, s, r
<1>11. \A i \in 1 .. g : f[1 + i].value = w.grids[i]
  <2> TAKE i \in 1 .. g
  <2>1. 1 + i \in 1 .. n
    BY <1>1, <1>3, <1>9
  <2> QED BY <2>1, <1>2, <1>4, <1>5 DEF s
<1>12. \A i \in 1 .. c : f[1 + g + i].value = DataStart(w) + SizesBefore(w, i - 1)
  <2> TAKE i \in 1 .. c
  <2>1. 1 + g + i \in 1 .. n
    BY <1>1, <1>3, <1>9
  <2> QED BY <2>1, <1>2, <1>4, <1>5 DEF s
<1>13. \A i \in 1 .. c : DataStart(w) + SizesBefore(w, i - 1) \in Nat
  <2>1. DataStart(w) \in Nat /\ \A i \in 0 .. c : SizesBefore(w, i) \in Nat
    BY FramesBegin DEF c
  <2>2. \A i \in 1 .. c : i - 1 \in 0 .. c
    BY <1>1
  <2> QED BY <2>1, <2>2
<1>14. r.grids = w.grids
  <2> DEFINE grids == [i \in 1 .. g |-> w.grids[i]]
  <2>1. r.grids = grids
    BY <1>11, <1>10
  <2>2. w.grids = grids
    BY <1>1, ItselfAgain, Zenon DEF g
  <2> HIDE DEF grids
  <2> QED BY <2>1, <2>2
<1>15. r.offsets = [i \in 1 .. c |-> DataStart(w) + SizesBefore(w, i - 1)]
  BY <1>12, <1>10
<1>16. r.offsets \in Seq(Nat) /\ Len(r.offsets) = c
  <2>1. r.offsets \in [1 .. c -> Nat]
    BY <1>13, <1>15
  <2> QED BY SMTT(60), <2>1, <1>1
<1> QED BY ZenonT(60), <1>14, <1>15, <1>16, <1>10 DEF Reading, c

(* Whatever piece begins where a frame does and is as long: it has that    *)
(* frame's code.                                                           *)
LEMMA PieceIsFound ==
  ASSUME NEW w, Writable(w), NEW n \in 0 .. Len(Pieces(w)), NEW f, f = SubSeq(Pieces(w), 1, n),
         NEW j \in 0 .. Cells(w) - 1
  PROVE  LET blob  == w.blobs[j]
             read  == BytesAt(f, DataStart(w) + SizesBefore(w, j), blob.size)
             found == [ok |-> TRUE, code |-> blob.code]
         IN  read \in {NothingRead, found} /\ (n = Len(Pieces(w)) => read = found)
<1> DEFINE c == Cells(w)
           d == PiecesBefore(w)
           s == Pieces(w)
           z == SizeOf(w)
           blob == w.blobs[j]
           offset == DataStart(w) + SizesBefore(w, j)
           at == {i \in DOMAIN f : PieceStart(f, i) = offset /\ f[i].size = blob.size}
           read == BytesAt(f, offset, blob.size)
           found == [ok |-> TRUE, code |-> blob.code]
<1>1. /\ c \in Nat /\ d \in Nat
      /\ \A i \in 0 .. c - 1 : w.blobs[i].size \in Nat /\ (w.blobs[i].size = 0 => w.blobs[i].code = <<>>)
  <2>1. Len(w.grids) \in Nat /\ c \in Nat /\ Len(w.metadata) \in Nat
    BY CellFacts
  <2>2. d \in Nat
    <3> DEFINE g == Len(w.grids)
               m == Len(w.metadata)
    <3>1. d = 1 + g + c + 4 * m
      BY DEF PiecesBefore
    <3>2. g \in Nat /\ m \in Nat
      BY <2>1
    <3> HIDE DEF g, m, c, d
    <3> QED BY <2>1, <3>1, <3>2
  <2>3. \A i \in 0 .. c - 1 :
          w.blobs[i].size \in Nat /\ (w.blobs[i].size = 0 => w.blobs[i].code = <<>>)
    BY Zenon DEF Writable
  <2> QED BY <2>1, <2>2, <2>3
<1>2. /\ Len(f) = n /\ DOMAIN f = 1 .. n
      /\ \A i \in 1 .. n : f[i] = s[i] /\ PieceStart(f, i) = Total(z, i - 1)
      /\ FileSize(f) = Total(z, n)
  <2>1. CutOff(f, w, n)
    BY FileFacts
  <2> QED BY <2>1 DEF CutOff
<1>3. /\ Len(s) = d + c /\ Len(s) \in Nat
      /\ \A i \in 1 .. c : s[d + i] = Piece("frame", w.blobs[i - 1].size, w.blobs[i - 1].code)
  <2>1. /\ Len(s) = d + c
        /\ \A i \in 1 .. c : s[d + i] = Piece("frame", w.blobs[i - 1].size, w.blobs[i - 1].code)
    BY ZenonT(60), PiecesAre
  <2> QED BY <2>1, <1>1
<1>4. /\ z \in [Nat -> Nat]
      /\ \A i \in Nat : i < c => z[d + i] = w.blobs[i].size
      /\ \A i \in Nat : i < d => z[i] # 0
  BY ZenonT(60), PieceSizes
<1>5. \A i \in Nat : z[i] = IF i < Len(s) THEN s[i + 1].size ELSE 0
  BY DEF SizeOf
<1>6. Total(z, d + j) = offset
  <2>1. j \in 0 .. c
    BY <1>1
  <2> QED BY <2>1, FramesBegin
<1>7. z[d + j] = blob.size /\ blob.size \in Nat /\ j \in Nat /\ j < c
  <2>1. j \in Nat /\ j < c
    BY <1>1
  <2> QED BY <2>1, <1>1, <1>4
<1> HIDE DEF c, d, s, z, offset
<1>8. n \in Nat /\ n <= d + c
  BY <1>3 DEF s
<1>9. \A a, b \in Nat : a < b => Total(z, a) + z[a] <= Total(z, b) /\ Total(z, a) \in Nat /\ z[a] \in Nat
  <2> TAKE a, b \in Nat
  <2> HAVE a < b
  <2>1. a + 1 \in Nat /\ a + 1 <= b
    OBVIOUS
  <2>2. Total(z, a + 1) = Total(z, a) + z[a] /\ Total(z, a) \in Nat
    BY <1>4, TotalUnfolds
  <2>3. Total(z, a + 1) <= Total(z, b)
    BY <1>4, <2>1, TotalGrows
  <2> QED BY <1>4, <2>2, <2>3
<1>10. \A kind, size, value : Piece(kind, size, value).value = value /\ Piece(kind, size, value).size = size
  BY DEF Piece
<1>11. s[d + j + 1] = Piece("frame", blob.size, blob.code)
  <2>1. j + 1 \in 1 .. c /\ (j + 1) - 1 = j /\ d + (j + 1) = d + j + 1
    BY <1>1, <1>7
  <2> QED BY <1>3, <2>1
<1>12. ASSUME NEW i \in at PROVE f[i].value = blob.code
  <2>1. i \in 1 .. n /\ Total(z, i - 1) = offset /\ s[i].size = blob.size /\ f[i] = s[i]
    BY <1>2
  <2>2. i - 1 \in Nat /\ i - 1 < Len(s) /\ (i - 1) + 1 = i
    BY <2>1, <1>3, <1>8
  <2>3. z[i - 1] = blob.size
    BY <2>1, <2>2, <1>5
  <2>4. CASE blob.size # 0
    <3>1. ~ (i - 1 < d + j) /\ ~ (d + j < i - 1)
      <4>1. d + j \in Nat
        BY <1>1, <1>7
      <4>2. Total(z, i - 1) = Total(z, d + j)
        BY <2>1, <1>6
      <4>3. z[i - 1] > 0 /\ z[d + j] > 0
        BY <2>3, <2>4, <1>7
      <4>4. ASSUME i - 1 < d + j PROVE FALSE
        <5>1. Total(z, i - 1) + z[i - 1] <= Total(z, d + j) /\ Total(z, i - 1) \in Nat /\ z[i - 1] \in Nat
          BY <4>1, <4>4, <2>2, <1>9
        <5> QED BY <4>2, <4>3, <5>1
      <4>5. ASSUME d + j < i - 1 PROVE FALSE
        <5>1. Total(z, d + j) + z[d + j] <= Total(z, i - 1) /\ Total(z, d + j) \in Nat /\ z[d + j] \in Nat
          BY <4>1, <4>5, <2>2, <1>9
        <5> QED BY <4>2, <4>3, <5>1
      <4> QED BY <4>4, <4>5
    <3>2. i = d + j + 1
      <4>1. d + j \in Nat /\ i \in Nat
        BY <2>1, <1>1, <1>7, <1>8
      <4> QED BY <3>1, <4>1
    <3> QED BY <3>2, <2>1, <1>10, <1>11
  <2>5. CASE blob.size = 0
    <3>1. ~ (i - 1 < d)
      BY <2>2, <2>3, <2>5, <1>4
    <3>2. PICK k \in 1 .. c : i = d + k
      <4>1. i - d \in 1 .. c /\ i = d + (i - d)
        BY <3>1, <2>1, <2>2, <1>1, <1>8
      <4> QED BY <4>1
    <3>3. s[i] = Piece("frame", w.blobs[k - 1].size, w.blobs[k - 1].code)
      BY <3>2, <1>3
    <3>4. k - 1 \in 0 .. c - 1 /\ j \in 0 .. c - 1
      BY <1>1, <1>7
    <3>5. w.blobs[k - 1].size = 0
      BY <3>3, <2>1, <2>5, <1>10
    <3>6. w.blobs[k - 1].code = <<>> /\ blob.code = <<>>
      BY <3>4, <3>5, <2>5, <1>1
    <3> QED BY <3>3, <3>6, <2>1, <1>10
  <2> QED BY <2>4, <2>5
<1>13. read \in {NothingRead, found}
  <2>1. CASE offset + blob.size > FileSize(f) \/ at = {}
    <3>1. read = NothingRead
      BY <2>1 DEF BytesAt
    <3> QED BY <3>1
  <2>2. CASE ~ (offset + blob.size > FileSize(f) \/ at = {})
    <3>1. read = [ok |-> TRUE, code |-> f[CHOOSE i \in at : TRUE].value]
      BY <2>2 DEF BytesAt
    <3>2. (CHOOSE i \in at : TRUE) \in at
      BY <2>2
    <3> HIDE DEF at
    <3> QED BY <3>1, <3>2, <1>12
  <2> QED BY <2>1, <2>2
<1>14. ASSUME n = Len(s) PROVE read = found
  <2>1. d + j + 1 \in 1 .. n /\ (d + j + 1) - 1 = d + j
    BY <1>1, <1>3, <1>7, <1>14
  <2>2. f[d + j + 1] = Piece("frame", blob.size, blob.code) /\ PieceStart(f, d + j + 1) = offset
    BY <2>1, <1>2, <1>6, <1>11
  <2>3. d + j + 1 \in at
    BY <2>1, <2>2, <1>2, <1>10
  <2>4. ~ (offset + blob.size > FileSize(f))
    <3>1. d + j \in Nat /\ d + j < n
      BY <2>1, <1>1, <1>7
    <3>2. Total(z, d + j) + z[d + j] <= Total(z, n)
      BY <3>1, <1>8, <1>9
    <3>3. Total(z, n) \in Nat /\ Total(z, d + j) \in Nat
      BY <3>1, <1>4, <1>8, TotalUnfolds
    <3> QED BY <3>2, <3>3, <1>2, <1>6, <1>7
  <2>5. read = [ok |-> TRUE, code |-> f[CHOOSE i \in at : TRUE].value]
    BY <2>3, <2>4 DEF BytesAt
  <2>6. (CHOOSE i \in at : TRUE) \in at
    BY <2>3
  <2> HIDE DEF at
  <2> QED BY <2>5, <2>6, <1>12
<1> QED BY <1>13, <1>14 DEF offset, s
(* Every grid has a place of its own for each frame.                       *)
LEMMA IndexFacts ==
  ASSUME NEW n \in Nat, NEW m \in Nat, NEW g \in 0 .. n - 1, NEW k \in 0 .. m - 1
  PROVE  /\ Index(n, g, k) \in 0 .. n * m - 1
         /\ \A h \in 0 .. n - 1, l \in 0 .. m - 1 : Index(n, h, l) = Index(n, g, k) => h = g /\ l = k
<1>1. g \in Nat /\ k \in Nat /\ g < n /\ k < m
  OBVIOUS
<1>2. n * k \in Nat /\ n * m \in Nat
  BY <1>1, ProductType
<1>3. n * k + n <= n * m
  BY <1>1, MultiplesLieLower
<1>4. Index(n, g, k) = n * k + g
  BY DEF Index
<1>5. ASSUME NEW h \in 0 .. n - 1, NEW l \in 0 .. m - 1, Index(n, h, l) = Index(n, g, k)
      PROVE  h = g /\ l = k
  <2>1. h \in Nat /\ l \in Nat /\ h < n /\ n * l \in Nat
    BY <1>1, ProductType
  <2>2. n * l + h = n * k + g
    BY <1>5 DEF Index
  <2>3. l < k => n * l + n <= n * k
    BY <1>1, <2>1, MultiplesLieLower
  <2>4. k < l => n * k + n <= n * l
    BY <1>1, <2>1, MultiplesLieLower
  <2> DEFINE x == n * k
             y == n * l
  <2>5. /\ x \in Nat /\ y \in Nat /\ y + h = x + g
        /\ (l < k => y + n <= x) /\ (k < l => x + n <= y) /\ (l = k => x = y)
    BY <1>2, <2>1, <2>2, <2>3, <2>4
  <2> HIDE DEF x, y
  <2>6. l = k
    BY <2>5, <2>1, <1>1
  <2> QED BY <2>5, <2>6, <2>1, <1>1
<1> DEFINE x == n * k
           y == n * m
<1>6. x \in Nat /\ y \in Nat /\ x + n <= y /\ Index(n, g, k) = x + g
  BY <1>2, <1>3, <1>4
<1> HIDE DEF x, y
<1>7. Index(n, g, k) \in 0 .. y - 1
  BY <1>1, <1>6
<1> QED BY <1>5, <1>7 DEF y

(* A reader finds what the writer compressed, or the file does not have    *)
(* it.                                                                     *)
Finds(read, code, whole) ==
  LET found == [ok |-> TRUE, code |-> code]
  IN  read \in {NothingRead, found} /\ (whole => read = found)

LEMMA FrameIsFound ==
  ASSUME NEW w, Writable(w), NEW n \in 0 .. Len(Pieces(w)), NEW f, f = SubSeq(Pieces(w), 1, n),
         NEW r, Reading(r, w), NEW grid \in 0 .. Len(w.grids) - 1, NEW frame \in 0 .. w.frames - 1
  PROVE  Finds(GetFrame(r, f, grid, frame), w.blobs[Index(Len(w.grids), grid, frame)].code,
               n = Len(Pieces(w)))
<1> DEFINE g == Len(w.grids)
           c == Cells(w)
           j == Index(g, grid, frame)
           end == IF j + 1 = Len(r.offsets) THEN r.dataEnd ELSE r.offsets[j + 1 + 1]
           blob == w.blobs[j]
           offset == DataStart(w) + SizesBefore(w, j)
<1>1. g \in Nat /\ w.frames \in Nat /\ c \in Nat
  BY CellFacts
<1>2. j \in 0 .. c - 1
  BY <1>1, IndexFacts DEF Cells
<1>3. ~ (grid >= Len(r.grids) \/ frame >= r.frames)
  BY <1>1 DEF Reading
<1>4. GetFrame(r, f, grid, frame) = BytesAt(f, r.offsets[j + 1], end - r.offsets[j + 1])
  <2>1. Len(r.grids) = g
    BY DEF Reading
  <2> QED BY <1>3, <2>1 DEF GetFrame
<1> HIDE DEF j, c, g
<1>5. j + 1 \in 1 .. c /\ (j + 1) - 1 = j
  BY <1>1, <1>2
<1>6. r.offsets[j + 1] = offset
  BY <1>5 DEF Reading, c
<1>7. /\ DataStart(w) \in Nat /\ SizesBefore(w, j) \in Nat
      /\ SizesBefore(w, j + 1) = SizesBefore(w, j) + blob.size /\ blob.size \in Nat
  <2>1. j \in 0 .. c
    BY <1>1, <1>2
  <2>2. blob.size \in Nat
    BY <1>2, CellFacts DEF c
  <2> QED BY <1>2, <2>1, <2>2, FramesBegin DEF c
<1>8. end = DataStart(w) + SizesBefore(w, j + 1)
  <2>1. Len(r.offsets) = c
    BY DEF Reading, c
  <2>2. CASE j + 1 = c
    BY <2>1, <2>2 DEF Reading, c
  <2>3. CASE j + 1 # c
    <3>1. j + 1 + 1 \in 1 .. c /\ (j + 1 + 1) - 1 = j + 1
      BY <2>3, <1>1, <1>2
    <3> QED BY <2>1, <2>3, <3>1 DEF Reading, c
  <2> QED BY <2>2, <2>3
<1>9. end - r.offsets[j + 1] = blob.size
  BY <1>6, <1>7, <1>8
<1>10. GetFrame(r, f, grid, frame) = BytesAt(f, offset, blob.size)
  BY <1>4, <1>6, <1>9
<1>11. Finds(BytesAt(f, offset, blob.size), blob.code, n = Len(Pieces(w)))
  <2>1. j \in 0 .. Cells(w) - 1
    BY <1>2 DEF c
  <2> QED BY <2>1, PieceIsFound DEF Finds
<1> QED BY <1>10, <1>11 DEF j, g

-----------------------------------------------------------------------------
(* The pictures                                                            *)

(* All bitmaps have the same pixels, and there are some.                   *)
LEMMA PixelFacts ==
  /\ PixelCount \in Nat \ {0}
  /\ \A image \in Images : image \in Seq(Byte) /\ image # <<>> /\ Len(image) = PixelCount
<1> DEFINE one == CHOOSE image \in Images : TRUE
<1>1. one \in Images
  BY ImagesAssumption
<1> HIDE DEF one
<1>2. one \in Seq(Byte) /\ one # <<>>
  BY <1>1, ImagesAssumption
<1>3. Len(one) \in Nat \ {0}
  BY <1>2, EmptySeq, LenProperties
<1>4. ASSUME NEW image \in Images PROVE image \in Seq(Byte) /\ image # <<>> /\ Len(image) = Len(one)
  BY <1>1, ImagesAssumption
<1> QED BY <1>3, <1>4 DEF PixelCount, one

(* The bits that are kept, and what the others count.                      *)
LEMMA BitsFacts ==
  /\ Grain(7) = 2 /\ Grain(6) = 4 /\ Grain(5) = 8
  /\ \A encoding, frame : BitsKept(encoding, frame) \in {5, 6, 7}
  /\ \A encoding \in Encoding : \A frame :
       encoding # "None" => Loss(encoding, frame) = Grain(BitsKept(encoding, frame))
<1>1. 2^(8 - 7) = 2 /\ 2^(8 - 6) = 4 /\ 2^(8 - 5) = 8
  OBVIOUS
<1>2. Grain(7) = 2 /\ Grain(6) = 4 /\ Grain(5) = 8
  BY <1>1 DEF Grain, Larger
<1>3. \A encoding, frame : BitsKept(encoding, frame) \in {5, 6, 7}
  BY DEF BitsKept
<1>4. ASSUME NEW encoding \in Encoding, NEW frame, encoding # "None"
      PROVE  Loss(encoding, frame) = Grain(BitsKept(encoding, frame))
  BY <1>2, <1>4 DEF Encoding, Loss, BitsKept
<1> QED BY <1>2, <1>3, <1>4

(* The same, but for bits that are not kept.                               *)
Agrees(bytes, image, bits) ==
  /\ bytes \in Seq(Byte) /\ Len(bytes) = PixelCount
  /\ \A i \in 1 .. PixelCount : Masked(bytes[i], bits) = Masked(image[i], bits)

(* What agrees in the bits of one frame does so in those of the next one,  *)
(* of which no more are kept.                                              *)
LEMMA NextAgrees ==
  ASSUME NEW encoding, NEW frame \in Nat, NEW image \in Images, NEW bytes,
         Agrees(bytes, image, BitsKept(encoding, frame))
  PROVE  Agrees(bytes, image, BitsKept(encoding, frame + 1))
<1>1. \/ BitsKept(encoding, frame + 1) = BitsKept(encoding, frame)
      \/ BitsKept(encoding, frame) = 7 /\ BitsKept(encoding, frame + 1) = 5
  BY DEF BitsKept
<1>2. ASSUME NEW a \in Byte, NEW b \in Byte, Masked(a, 7) = Masked(b, 7)
      PROVE  Masked(a, 5) = Masked(b, 5)
  <2>1. a \in Nat /\ b \in Nat /\ a - (a % 2) = b - (b % 2)
    BY <1>2, BitsFacts DEF Masked, Byte
  <2>2. a - (a % 8) = b - (b % 8)
    BY <2>1
  <2> QED BY <2>2, BitsFacts DEF Masked
<1>3. bytes \in Seq(Byte) /\ Len(bytes) = PixelCount /\ image \in Seq(Byte) /\ Len(image) = PixelCount
  BY PixelFacts DEF Agrees
<1>4. \A i \in 1 .. PixelCount : bytes[i] \in Byte /\ image[i] \in Byte
  BY <1>3, ElementOfSeq
<1>5. CASE BitsKept(encoding, frame) = 7 /\ BitsKept(encoding, frame + 1) = 5
  <2>1. ASSUME NEW i \in 1 .. PixelCount PROVE Masked(bytes[i], 5) = Masked(image[i], 5)
    <3>1. Masked(bytes[i], 7) = Masked(image[i], 7)
      BY <1>5 DEF Agrees
    <3> QED BY <1>2, <1>4, <3>1
  <2> QED BY <1>3, <1>5, <2>1 DEF Agrees
<1> QED BY <1>1, <1>5

(* Two bytes that agree in what is kept differ by less than what is not.   *)
LEMMA AgreeingBytes ==
  ASSUME NEW a \in Byte, NEW b \in Byte, NEW bits \in {5, 6, 7}, Masked(a, bits) = Masked(b, bits)
  PROVE  Distance(a, b) < Grain(bits)
<1> DEFINE g == Grain(bits)
           low(x) == x % g
<1>1. bits \in 1 .. 8
  OBVIOUS
<1>2. /\ g \in Nat /\ low(a) \in 0 .. g - 1 /\ low(b) \in 0 .. g - 1
      /\ Masked(a, bits) + low(a) = a /\ Masked(b, bits) + low(b) = b
  BY <1>1, MaskedFacts
<1>3. Masked(a, bits) \in EvenByte
  BY <1>1, MaskedFacts
<1>4. Masked(a, bits) \in Nat
  BY <1>3, EvenFacts
<1> DEFINE m == Masked(a, bits)
           p == low(a)
           q == low(b)
<1>5. g \in Nat /\ m \in Nat /\ p \in 0 .. g - 1 /\ q \in 0 .. g - 1 /\ a = m + p /\ b = m + q
  BY <1>2, <1>4
<1> HIDE DEF g, m, p, q
<1>6. a - b < g /\ b - a < g
  BY <1>5
<1> QED BY <1>5, <1>6 DEF Distance, Larger, g

(* What a decoder should show of a frame, exactly.                         *)
Faithful(bitmap, encoding, image, frame) ==
  IF encoding = "None" THEN bitmap = image ELSE Agrees(bitmap, image, BitsKept(encoding, frame))

LEMMA FaithfulShows ==
  ASSUME NEW encoding \in Encoding, NEW frame, NEW image \in Images, NEW bitmap,
         Faithful(bitmap, encoding, image, frame)
  PROVE  Shows(bitmap, encoding, image, frame)
<1>1. image \in Seq(Byte) /\ Len(image) = PixelCount /\ PixelCount \in Nat /\ DOMAIN image = 1 .. PixelCount
  BY PixelFacts
<1>2. \A i \in 1 .. PixelCount : image[i] \in Byte
  BY <1>1, ElementOfSeq
<1>3. CASE encoding = "None"
  <2>1. bitmap = image /\ Loss(encoding, frame) = 1
    BY <1>3 DEF Faithful, Loss
  <2>2. ASSUME NEW i \in 1 .. PixelCount PROVE Distance(image[i], image[i]) < 1
    <3>1. image[i] \in Int
      BY <1>2 DEF Byte
    <3> QED BY <3>1 DEF Distance, Larger
  <2> QED BY <1>1, <2>1, <2>2 DEF Shows
<1>4. CASE encoding # "None"
  <2> DEFINE bits == BitsKept(encoding, frame)
  <2>1. Agrees(bitmap, image, bits)
    BY <1>4 DEF Faithful
  <2>2. bits \in {5, 6, 7} /\ Loss(encoding, frame) = Grain(bits)
    BY <1>4, BitsFacts
  <2> HIDE DEF bits
  <2>3. bitmap \in Seq(Byte) /\ DOMAIN bitmap = 1 .. PixelCount
    BY <2>1, <1>1 DEF Agrees
  <2>4. \A i \in 1 .. PixelCount : bitmap[i] \in Byte /\ Masked(bitmap[i], bits) = Masked(image[i], bits)
    BY <2>1, <2>3, <1>1, ElementOfSeq DEF Agrees
  <2>5. \A i \in 1 .. PixelCount : Distance(bitmap[i], image[i]) < Loss(encoding, frame)
    BY <2>2, <2>4, <1>2, AgreeingBytes
  <2> QED BY <1>1, <2>3, <2>5 DEF Shows
<1> QED BY <1>3, <1>4

-----------------------------------------------------------------------------
(* The codes                                                               *)

(* A buffer of a decoder: whatever it holds, there is a picture in it.     *)
Decodable(rle) ==
  /\ rle \in Seq(Byte) /\ Len(rle) = PixelCount
  /\ DecodeRle7(PixelCount, rle) \in Seq(Byte) /\ Len(DecodeRle7(PixelCount, rle)) = PixelCount

(* A code that fits into such a buffer, and makes a picture there whatever *)
(* is left behind it.                                                      *)
Plays(code) ==
  /\ code \in Seq(Byte) /\ Len(code) <= PixelCount
  /\ \A rle \in Seq(Byte) : Len(rle) = PixelCount /\ IsPrefix(code, rle) => Decodable(rle)

(* Whatever sequence of values is coded.                                   *)
LEMMA CodesPlay ==
  ASSUME NEW values \in Seq(EvenByte), values # <<>>, Len(values) = PixelCount
  PROVE  Plays(Encoded(values))
<1>1. /\ Encoded(values) \in Seq(Byte) /\ Len(Encoded(values)) <= PixelCount
      /\ \A rle \in Seq(Byte) : IsPrefix(Encoded(values), rle) => DecodeRle7(PixelCount, rle) = values
  BY CodeDecodes
<1>2. values \in Seq(Byte)
  BY EvenFacts
<1> QED BY <1>1, <1>2 DEF Plays, Decodable

(* The buffer of a new decoder, in which there is no code yet.             *)
LEMMA ZerosDecode ==
  Decodable(Zeros(PixelCount))
<1> DEFINE zeros == Zeros(PixelCount)
<1>1. zeros \in Seq(EvenByte) /\ Len(zeros) = PixelCount
  <2>1. zeros = [j \in 1 .. PixelCount |-> 0] /\ 0 \in EvenByte
    BY DEF Zeros, Repeated, EvenByte, Byte
  <2>2. PixelCount \in Nat
    BY PixelFacts
  <2> QED BY <2>1, <2>2
<1> HIDE DEF zeros
<1>2. DecodeRle7(PixelCount, zeros) = zeros
  BY <1>1, EvenBytesDecode
<1>3. zeros \in Seq(Byte)
  BY <1>1, EvenFacts
<1> QED BY <1>1, <1>2, <1>3 DEF Decodable, zeros

(* The code of a first frame.                                              *)
LEMMA FirstCode ==
  ASSUME NEW image \in Images, NEW bits \in {5, 6, 7}
  PROVE  /\ Plays(EncodeRle7(bits, image))
         /\ \A rle \in Seq(Byte) : IsPrefix(EncodeRle7(bits, image), rle) =>
              Agrees(DecodeRle7(PixelCount, rle), image, bits)
<1>1. image \in Seq(Byte) /\ image # <<>> /\ Len(image) = PixelCount /\ PixelCount \in Nat /\ bits \in 1 .. 8
  BY PixelFacts
<1> DEFINE kept == [i \in 1 .. PixelCount |-> Masked(image[i], bits)]
<1>2. kept \in Seq(EvenByte) /\ Len(kept) = PixelCount /\ kept # <<>> /\ EncodeRle7(bits, image) = Encoded(kept)
  BY <1>1, FrameIsCoded
<1>3. \A rle \in Seq(Byte) : IsPrefix(EncodeRle7(bits, image), rle) => DecodeRle7(PixelCount, rle) = kept
  BY <1>1, FrameDecodes
<1>4. ASSUME NEW i \in 1 .. PixelCount PROVE Masked(kept[i], bits) = Masked(image[i], bits)
  <2>1. image[i] \in Byte
    BY <1>1, ElementOfSeq
  <2>2. 0 \in 0 .. Grain(bits) - 1 /\ Masked(image[i], bits) \in Nat
    <3>1. Grain(bits) \in {2, 4, 8}
      BY BitsFacts
    <3>2. Masked(image[i], bits) \in EvenByte
      BY <1>1, <2>1, MaskedFacts
    <3> QED BY <3>1, <3>2, EvenFacts
  <2>3. Masked(Masked(image[i], bits) + 0, bits) = Masked(image[i], bits)
    BY <1>1, <2>1, <2>2, MaskedFacts
  <2>4. Masked(image[i], bits) + 0 = Masked(image[i], bits)
    BY <2>2
  <2> QED BY <2>3, <2>4
<1> HIDE DEF kept
<1>5. Agrees(kept, image, bits)
  <2>1. kept \in Seq(Byte)
    BY <1>2, EvenFacts
  <2> QED BY <1>2, <1>4, <2>1 DEF Agrees
<1>6. Plays(EncodeRle7(bits, image))
  BY <1>2, CodesPlay
<1> QED BY <1>3, <1>5, <1>6

(* And of a later one: with it goes what agrees with the frame before.     *)
LEMMA NextCode ==
  ASSUME NEW image \in Images, NEW bits \in {5, 6, 7},
         NEW base \in Seq(Byte), Len(base) = PixelCount
  PROVE  /\ Plays(EncodeRle7Delta(bits, image, base))
         /\ \A rle \in Seq(Byte) : IsPrefix(EncodeRle7Delta(bits, image, base), rle) =>
              Agrees(DecodeRle7Delta(PixelCount, rle, base), image, bits)
<1>1. image \in Seq(Byte) /\ image # <<>> /\ Len(image) = PixelCount /\ PixelCount \in Nat /\ bits \in 1 .. 8
  BY PixelFacts
<1> DEFINE difference == [i \in 1 .. PixelCount |-> Minus(Masked(image[i], bits), Masked(base[i], bits))]
           shown == [i \in 1 .. PixelCount |-> Masked(image[i], bits) + (base[i] % Grain(bits))]
<1> DEFINE n == Len(image)
           differenceOf == [i \in 1 .. n |-> Minus(Masked(image[i], bits), Masked(base[i], bits))]
           shownOf == [i \in 1 .. n |-> Masked(image[i], bits) + (base[i] % Grain(bits))]
<1>2. Len(base) = n
  BY <1>1
<1>3. /\ differenceOf \in Seq(EvenByte) /\ Len(differenceOf) = n /\ differenceOf # <<>>
      /\ EncodeRle7Delta(bits, image, base) = Encoded(differenceOf)
  BY <1>1, <1>2, DifferenceIsCoded
<1>4. \A rle \in Seq(Byte) : IsPrefix(EncodeRle7Delta(bits, image, base), rle) =>
        DecodeRle7Delta(n, rle, base) = shownOf
  BY <1>1, <1>2, DifferenceDecodes
<1>5. /\ difference \in Seq(EvenByte) /\ Len(difference) = PixelCount /\ difference # <<>>
      /\ EncodeRle7Delta(bits, image, base) = Encoded(difference)
  BY <1>1, <1>3
<1>6. \A rle \in Seq(Byte) : IsPrefix(EncodeRle7Delta(bits, image, base), rle) =>
        DecodeRle7Delta(PixelCount, rle, base) = shown
  BY <1>1, <1>4
<1> HIDE DEF differenceOf, shownOf
<1> HIDE DEF difference
<1>7. Plays(EncodeRle7Delta(bits, image, base))
  BY <1>5, CodesPlay
<1>8. ASSUME NEW i \in 1 .. PixelCount
      PROVE  shown[i] \in Byte /\ Masked(shown[i], bits) = Masked(image[i], bits)
  <2>1. image[i] \in Byte /\ base[i] \in Byte
    BY <1>1, ElementOfSeq
  <2>2. base[i] % Grain(bits) \in 0 .. Grain(bits) - 1
    BY <1>1, <2>1, MaskedFacts
  <2> QED BY <1>1, <2>1, <2>2, MaskedFacts
<1>9. Agrees(shown, image, bits)
  <2>1. shown \in [1 .. PixelCount -> Byte]
    BY <1>8
  <2>2. \A i \in 1 .. PixelCount : Masked(shown[i], bits) = Masked(image[i], bits)
    BY <1>8
  <2> HIDE DEF shown
  <2>3. shown \in Seq(Byte) /\ Len(shown) = PixelCount
    BY <1>1, <2>1
  <2> QED BY <2>2, <2>3 DEF Agrees
<1> QED BY <1>6, <1>7, <1>9

(* The code depends on the kept bits of the frame before only.             *)
LEMMA SameCode ==
  ASSUME NEW image \in Images, NEW bits, NEW before \in Images, NEW base, Agrees(base, before, bits)
  PROVE  EncodeRle7Delta(bits, image, base) = EncodeRle7Delta(bits, image, before)
<1>1. DOMAIN image = 1 .. PixelCount
  BY PixelFacts
<1>2. \A i \in DOMAIN image : Masked(base[i], bits) = Masked(before[i], bits)
  BY <1>1 DEF Agrees
<1>3. [i \in DOMAIN image |-> Minus(Masked(image[i], bits), Masked(base[i], bits))]
        = [i \in DOMAIN image |-> Minus(Masked(image[i], bits), Masked(before[i], bits))]
  BY <1>2
<1> QED BY <1>3 DEF EncodeRle7Delta

(* A difference is applied to any picture.                                 *)
LEMMA DeltaType ==
  ASSUME NEW rle, Decodable(rle), NEW base \in Seq(Byte), Len(base) = PixelCount
  PROVE  /\ DecodeRle7Delta(PixelCount, rle, base) \in Seq(Byte)
         /\ Len(DecodeRle7Delta(PixelCount, rle, base)) = PixelCount
<1> DEFINE d == DecodeRle7(PixelCount, rle)
           sum == [i \in 1 .. PixelCount |-> Plus(d[i], base[i])]
<1>1. PixelCount \in Nat /\ d \in Seq(Byte) /\ Len(d) = PixelCount
  BY PixelFacts DEF Decodable
<1> HIDE DEF d
<1>2. DecodeRle7Delta(PixelCount, rle, base) = sum
  BY <1>1 DEF DecodeRle7Delta, d
<1>3. ASSUME NEW i \in 1 .. PixelCount PROVE Plus(d[i], base[i]) \in Byte
  <2>1. d[i] \in Byte /\ base[i] \in Byte
    BY <1>1, ElementOfSeq
  <2>2. \A x, y \in Byte : Plus(x, y) \in Byte
    <3>1. \A x, y \in Nat : (x + y) \in Nat /\ (x + y) % 256 \in 0 .. 255
      OBVIOUS
    <3> QED BY <3>1 DEF Plus, Byte
  <2> QED BY <2>1, <2>2
<1>4. sum \in [1 .. PixelCount -> Byte]
  BY <1>3
<1> HIDE DEF sum
<1>5. sum \in Seq(Byte) /\ Len(sum) = PixelCount
  BY <1>1, <1>4
<1> QED BY <1>2, <1>5

(* uncompress writes over the beginning of a buffer.                       *)
LEMMA UncompressedFacts ==
  ASSUME NEW buffer \in Seq(Byte), NEW read, read.code \in Seq(Byte),
         Len(read.code) <= Len(buffer)
  PROVE  /\ Uncompressed(buffer, read) \in Seq(Byte)
         /\ Len(Uncompressed(buffer, read)) = Len(buffer)
         /\ read.code # <<>> => IsPrefix(read.code, Uncompressed(buffer, read))
         /\ read.code = <<>> => Uncompressed(buffer, read) = buffer
<1> DEFINE code == read.code
           rest == SubSeq(buffer, Len(code) + 1, Len(buffer))
           r == Uncompressed(buffer, read)
<1>1. CASE code = <<>>
  BY <1>1 DEF Uncompressed
<1>2. CASE code # <<>>
  <2>1. r = code \o rest
    BY <1>2 DEF Uncompressed
  <2>2. code \in Seq(Byte) /\ Len(code) \in Nat /\ Len(buffer) \in Nat /\ Len(code) <= Len(buffer)
    OBVIOUS
  <2>3. rest \in Seq(Byte) /\ Len(rest) = Len(buffer) - Len(code)
    <3> DEFINE n == Len(code)
               m == Len(buffer)
    <3>1. n \in Nat /\ m \in Nat /\ n <= m
      BY <2>2
    <3>2. \A j \in n + 1 .. m : buffer[j] \in Byte
      <4>1. \A j \in n + 1 .. m : j \in 1 .. m
        BY <3>1
      <4> QED BY <4>1, ElementOfSeq
    <3> HIDE DEF n, m
    <3>3. SubSeq(buffer, n + 1, m) \in Seq(Byte)
          /\ Len(SubSeq(buffer, n + 1, m)) = IF n + 1 <= m THEN m - (n + 1) + 1 ELSE 0
      BY <3>1, <3>2, SubSeqProperties
    <3>4. (IF n + 1 <= m THEN m - (n + 1) + 1 ELSE 0) = m - n
      BY <3>1
    <3>5. rest = SubSeq(buffer, n + 1, m)
      BY DEF n, m
    <3> HIDE DEF rest
    <3>6. rest \in Seq(Byte) /\ Len(rest) = m - n
      BY <3>3, <3>4, <3>5
    <3> QED BY <3>6 DEF n, m
  <2> HIDE DEF rest, code
  <2>4. code \o rest \in Seq(Byte) /\ Len(code \o rest) = Len(buffer)
    BY <2>2, <2>3
  <2>5. \A i \in 1 .. Len(code) : (code \o rest)[i] = code[i]
    BY <2>2, <2>3
  <2>6. IsPrefix(code, code \o rest)
    BY <2>2, <2>4, <2>5 DEF IsPrefix
  <2> QED BY <1>2, <2>1, <2>4, <2>6 DEF code
<1> QED BY <1>1, <1>2

-----------------------------------------------------------------------------
(* Decoders                                                                *)

(* What a frame is coded as, when the one before it was before.            *)
CodeOf(encoding, frame, image, before) ==
  CASE encoding = "None"               -> image
    [] encoding # "None" /\ frame = 0  -> EncodeRle7(BitsKept(encoding, frame), image)
    [] encoding # "None" /\ frame # 0  -> EncodeRle7Delta(BitsKept(encoding, frame), image, before)

(* A code a decoder of this encoding can be given.                         *)
Fits(code, encoding) ==
  code \in Seq(Byte) /\ IF encoding = "None" THEN Len(code) = PixelCount ELSE Plays(code)

LEMMA CodeFits ==
  ASSUME NEW encoding \in Encoding, NEW frame, NEW image \in Images, NEW before,
         encoding # "None" /\ frame # 0 => before \in Seq(Byte) /\ Len(before) = PixelCount
  PROVE  Fits(CodeOf(encoding, frame, image, before), encoding)
<1> DEFINE bits == BitsKept(encoding, frame)
<1>1. image \in Seq(Byte) /\ Len(image) = PixelCount
  BY PixelFacts
<1>2. bits \in {5, 6, 7}
  BY BitsFacts
<1> HIDE DEF bits
<1>3. CASE encoding = "None"
  BY <1>1, <1>3 DEF CodeOf, Fits
<1>4. CASE encoding # "None" /\ frame = 0
  <2>1. Plays(EncodeRle7(bits, image))
    BY <1>2, FirstCode
  <2>2. CodeOf(encoding, frame, image, before) = EncodeRle7(bits, image)
    BY <1>4 DEF CodeOf, bits
  <2> QED BY <1>4, <2>1, <2>2 DEF Fits, Plays
<1>5. CASE encoding # "None" /\ frame # 0
  <2>1. Plays(EncodeRle7Delta(bits, image, before))
    BY <1>2, <1>5, NextCode
  <2>2. CodeOf(encoding, frame, image, before) = EncodeRle7Delta(bits, image, before)
    BY <1>5 DEF CodeOf, bits
  <2> QED BY <1>5, <2>1, <2>2 DEF Fits, Plays
<1> QED BY <1>3, <1>4, <1>5

FrameDecoder ==
  [open : {TRUE}, grid : Nat, encoding : Encoding, frame : Nat,
   bitmap : Seq(Byte), rle : Seq(Byte), intact : BOOLEAN]

(* A decoder that is about to decode the frame it is at: a first frame     *)
(* needs no picture to begin with.                                         *)
Ready(d) ==
  /\ d \in FrameDecoder
  /\ IF d.encoding = "None" THEN d.rle = <<>> /\ Len(d.bitmap) \in {0, PixelCount}
     ELSE Decodable(d.rle) /\ (d.frame # 0 => Len(d.bitmap) = PixelCount)

(* And one that has.                                                       *)
Playing(d) ==
  /\ d \in FrameDecoder
  /\ IF d.encoding = "None" THEN d.rle = <<>> /\ Len(d.bitmap) \in {0, PixelCount}
     ELSE Decodable(d.rle) /\ Len(d.bitmap) = PixelCount

(* What has become of a decoder.                                           *)
Becomes(e, d, bitmap, rle, intact) ==
  /\ e.open = TRUE /\ e.grid = d.grid /\ e.encoding = d.encoding /\ e.frame = d.frame
  /\ e.bitmap = bitmap /\ e.rle = rle /\ e.intact = intact
  /\ bitmap \in Seq(Byte) /\ rle \in Seq(Byte) => e \in FrameDecoder

LEMMA DecodedFields ==
  ASSUME NEW d \in FrameDecoder, NEW read
  PROVE  /\ d.encoding = "None" =>
              Becomes(Decoded1(d, read), d, Uncompressed(d.bitmap, read), d.rle, read.code # <<>>)
         /\ d.encoding # "None" =>
              Becomes(Decoded1(d, read), d, Picture(d, Uncompressed(d.rle, read)),
                      Uncompressed(d.rle, read), read.code # <<>> /\ (d.frame = 0 \/ d.intact))
<1>1. ASSUME NEW b, NEW t \in BOOLEAN
      PROVE  Becomes([d EXCEPT !.bitmap = b, !.intact = t], d, b, d.rle, t)
  <2> DEFINE e == [d EXCEPT !.bitmap = b, !.intact = t]
  <2>1. /\ e.open = d.open /\ e.grid = d.grid /\ e.encoding = d.encoding /\ e.frame = d.frame
        /\ e.bitmap = b /\ e.rle = d.rle /\ e.intact = t /\ d.open = TRUE
    BY DEF FrameDecoder
  <2>2. b \in Seq(Byte) => e \in FrameDecoder
    BY DEF FrameDecoder
  <2> HIDE DEF e
  <2>3. Becomes(e, d, b, d.rle, t)
    BY <2>1, <2>2 DEF Becomes
  <2> QED BY <2>3 DEF e
<1>2. ASSUME NEW r, NEW b, NEW t \in BOOLEAN
      PROVE  Becomes([d EXCEPT !.rle = r, !.bitmap = b, !.intact = t], d, b, r, t)
  <2> DEFINE e == [d EXCEPT !.rle = r, !.bitmap = b, !.intact = t]
  <2>1. /\ e.open = d.open /\ e.grid = d.grid /\ e.encoding = d.encoding /\ e.frame = d.frame
        /\ e.bitmap = b /\ e.rle = r /\ e.intact = t /\ d.open = TRUE
    BY DEF FrameDecoder
  <2>2. b \in Seq(Byte) /\ r \in Seq(Byte) => e \in FrameDecoder
    BY DEF FrameDecoder
  <2> HIDE DEF e
  <2>3. Becomes(e, d, b, r, t)
    BY <2>1, <2>2 DEF Becomes
  <2> QED BY <2>3 DEF e
<1>3. CASE d.encoding = "None"
  <2> DEFINE t == read.code # <<>>
  <2>1. Decoded1(d, read) = [d EXCEPT !.bitmap = Uncompressed(d.bitmap, read), !.intact = t]
    BY <1>3, Zenon DEF Decoded1
  <2>2. t \in BOOLEAN
    OBVIOUS
  <2> HIDE DEF t
  <2>3. Becomes(Decoded1(d, read), d, Uncompressed(d.bitmap, read), d.rle, t)
    BY <1>1, <2>1, <2>2, Zenon
  <2> QED BY <1>3, <2>3, Zenon DEF t
<1>4. CASE d.encoding # "None"
  <2> DEFINE r == Uncompressed(d.rle, read)
             p == Picture(d, r)
             t == read.code # <<>> /\ (d.frame = 0 \/ d.intact)
  <2>1. Decoded1(d, read) = [d EXCEPT !.rle = r, !.bitmap = p, !.intact = t]
    BY <1>4, Zenon DEF Decoded1
  <2>2. t \in BOOLEAN
    BY DEF FrameDecoder
  <2> HIDE DEF t, p, r
  <2>3. Becomes([d EXCEPT !.rle = r, !.bitmap = p, !.intact = t], d, p, r, t)
    BY <1>2, <2>2, Zenon
  <2>4. Becomes(Decoded1(d, read), d, p, r, t)
    BY <2>1, <2>3, Zenon
  <2> QED BY <1>4, <2>4, Zenon DEF t, p, r
<1> QED BY <1>3, <1>4, Zenon

(* What it has read is the code of its frame, or nothing.                  *)
LEMMA DecodedPlays ==
  ASSUME NEW d, Ready(d), NEW read, read.code = <<>> \/ Fits(read.code, d.encoding)
  PROVE  /\ Playing(Decoded1(d, read))
         /\ Decoded1(d, read).grid = d.grid /\ Decoded1(d, read).encoding = d.encoding
         /\ Decoded1(d, read).frame = d.frame
<1> DEFINE e == Decoded1(d, read)
           code == read.code
<1>1. d \in FrameDecoder /\ PixelCount \in Nat \ {0} /\ d.bitmap \in Seq(Byte) /\ d.rle \in Seq(Byte)
  BY PixelFacts DEF Ready, FrameDecoder
<1>2. read.code \in Seq(Byte)
  <2>1. <<>> \in Seq(Byte)
    BY EmptySeq
  <2> QED BY <2>1 DEF Fits
<1>3. CASE d.encoding = "None"
  <2> DEFINE b == Uncompressed(d.bitmap, read)
  <2>1. Becomes(e, d, b, d.rle, read.code # <<>>)
    BY <1>1, <1>3, DecodedFields
  <2>2. b \in Seq(Byte) /\ Len(b) \in {0, PixelCount}
    <3>1. CASE read.code = <<>>
      <4>1. b = d.bitmap
        BY <3>1 DEF Uncompressed
      <4> QED BY <4>1, <1>1, <1>3 DEF Ready
    <3>2. CASE read.code # <<>>
      <4>1. code \in Seq(Byte) /\ Len(code) = PixelCount
        BY <3>2, <1>3 DEF Fits
      <4>2. b = code \o SubSeq(d.bitmap, PixelCount + 1, Len(d.bitmap))
        BY <3>2, <4>1 DEF Uncompressed
      <4>3. Len(d.bitmap) \in {0, PixelCount}
        BY <1>3 DEF Ready
      <4>4. SubSeq(d.bitmap, PixelCount + 1, Len(d.bitmap)) = <<>>
        <5>1. PixelCount + 1 \in Int /\ Len(d.bitmap) \in Int /\ Len(d.bitmap) < PixelCount + 1
          BY <1>1, <4>3
        <5> QED BY <5>1, SubSeqEmpty
      <4>5. b = code
        <5>1. code \o <<>> = code
          BY <4>1
        <5> QED BY <4>2, <4>4, <5>1
      <4> QED BY <4>1, <4>5
    <3> QED BY <3>1, <3>2
  <2> HIDE DEF b
  <2> HIDE DEF e
  <2>3. /\ e \in FrameDecoder /\ e.grid = d.grid /\ e.encoding = d.encoding /\ e.frame = d.frame
        /\ e.bitmap = b /\ e.rle = d.rle
    BY <1>1, <2>1, <2>2 DEF Becomes
  <2>4. d.rle = <<>>
    BY <1>3 DEF Ready
  <2>5. Playing(e)
    BY <1>3, <2>2, <2>3, <2>4 DEF Playing
  <2> QED BY <2>3, <2>5 DEF e
<1>4. CASE d.encoding # "None"
  <2> DEFINE r == Uncompressed(d.rle, read)
             b == Picture(d, r)
  <2>1. Becomes(e, d, b, r, read.code # <<>> /\ (d.frame = 0 \/ d.intact))
    BY <1>1, <1>4, DecodedFields
  <2>2. /\ Decodable(d.rle) /\ Len(d.rle) = PixelCount
        /\ code # <<>> => Plays(code)
        /\ Len(code) <= PixelCount
    <3>1. Len(<<>>) <= PixelCount
      BY <1>1, EmptySeq
    <3> QED BY <1>4, <3>1 DEF Ready, Fits, Decodable, Plays
  <2>3. Decodable(r)
    <3>1. Len(read.code) <= Len(d.rle)
      BY <1>1, <2>2
    <3>2. /\ r \in Seq(Byte) /\ Len(r) = PixelCount
          /\ read.code # <<>> => IsPrefix(read.code, r)
          /\ read.code = <<>> => r = d.rle
      BY <1>1, <1>2, <2>2, <3>1, UncompressedFacts
    <3> HIDE DEF r
    <3>3. CASE read.code = <<>>
      BY <3>2, <3>3, <2>2
    <3>4. CASE read.code # <<>>
      BY <3>2, <3>4, <2>2 DEF Plays
    <3> QED BY <3>3, <3>4
  <2> HIDE DEF r
  <2>4. b \in Seq(Byte) /\ Len(b) = PixelCount
    <3>1. CASE d.frame = 0
      BY <2>3, <3>1 DEF Picture, Decodable
    <3>2. CASE d.frame # 0
      <4>1. Len(d.bitmap) = PixelCount
        BY <1>4, <3>2 DEF Ready
      <4> QED BY <1>1, <2>3, <3>2, <4>1, DeltaType DEF Picture
    <3> QED BY <3>1, <3>2
  <2> HIDE DEF b
  <2> HIDE DEF e
  <2>5. /\ e \in FrameDecoder /\ e.grid = d.grid /\ e.encoding = d.encoding /\ e.frame = d.frame
        /\ e.bitmap = b /\ e.rle = r
    BY <2>1, <2>3, <2>4 DEF Becomes, Decodable
  <2>6. Playing(e)
    BY <1>4, <2>3, <2>4, <2>5 DEF Playing
  <2> QED BY <2>5, <2>6 DEF e
<1> QED BY <1>3, <1>4

(* A decoder that reads the code of its frame shows the frame, when it     *)
(* showed the one before.                                                  *)
LEMMA DecodedShows ==
  ASSUME NEW d, Ready(d), NEW image \in Images, NEW before, NEW read,
         read.code = CodeOf(d.encoding, d.frame, image, before), read.code # <<>>,
         d.encoding # "None" /\ d.frame # 0 =>
           before \in Images /\ Agrees(d.bitmap, before, BitsKept(d.encoding, d.frame - 1))
  PROVE  Faithful(Decoded1(d, read).bitmap, d.encoding, image, d.frame)
<1> DEFINE bits == BitsKept(d.encoding, d.frame)
           r == Uncompressed(d.rle, read)
<1>1. /\ d \in FrameDecoder /\ PixelCount \in Nat \ {0} /\ d.bitmap \in Seq(Byte) /\ d.rle \in Seq(Byte)
      /\ d.frame \in Nat /\ d.encoding \in Encoding
  BY PixelFacts DEF Ready, FrameDecoder
<1>2. bits \in {5, 6, 7}
  BY BitsFacts
<1>3. CASE d.encoding = "None"
  <2>1. read.code = image /\ image \in Seq(Byte) /\ Len(image) = PixelCount
    BY <1>3, PixelFacts DEF CodeOf
  <2>2. Decoded1(d, read).bitmap = Uncompressed(d.bitmap, read)
    BY <1>1, <1>3, DecodedFields DEF Becomes
  <2>3. Uncompressed(d.bitmap, read) = image \o SubSeq(d.bitmap, PixelCount + 1, Len(d.bitmap))
    BY <2>1 DEF Uncompressed
  <2>4. SubSeq(d.bitmap, PixelCount + 1, Len(d.bitmap)) = <<>>
    <3>1. Len(d.bitmap) \in {0, PixelCount}
      BY <1>3 DEF Ready
    <3>2. PixelCount + 1 \in Int /\ Len(d.bitmap) \in Int /\ Len(d.bitmap) < PixelCount + 1
      BY <1>1, <3>1
    <3> QED BY <3>2, SubSeqEmpty
  <2>5. image \o <<>> = image
    BY <2>1
  <2> QED BY <1>3, <2>2, <2>3, <2>4, <2>5 DEF Faithful
<1>4. CASE d.encoding # "None"
  <2>1. Decoded1(d, read).bitmap = Picture(d, r)
    BY <1>1, <1>4, DecodedFields DEF Becomes
  <2>2. (before \in Seq(Byte) /\ Len(before) = PixelCount) \/ d.frame = 0
    BY <1>4, PixelFacts
  <2>3. Fits(read.code, d.encoding)
    BY <1>1, <2>2, CodeFits
  <2>4. Decodable(d.rle) /\ Plays(read.code)
    BY <1>4, <2>3 DEF Ready, Fits
  <2>5. r \in Seq(Byte) /\ IsPrefix(read.code, r)
    <3>1. read.code \in Seq(Byte) /\ Len(read.code) <= Len(d.rle)
      BY <2>4 DEF Plays, Decodable
    <3> QED BY <1>1, <3>1, UncompressedFacts
  <2> HIDE DEF r, bits
  <2>6. Agrees(Picture(d, r), image, bits)
    <3>1. CASE d.frame = 0
      <4>1. read.code = EncodeRle7(bits, image)
        BY <1>4, <3>1 DEF CodeOf, bits
      <4>2. Agrees(DecodeRle7(PixelCount, r), image, bits)
        BY <1>2, <2>5, <4>1, FirstCode
      <4> QED BY <3>1, <4>2 DEF Picture
    <3>2. CASE d.frame # 0
      <4>1. read.code = EncodeRle7Delta(bits, image, before)
        BY <1>4, <3>2 DEF CodeOf, bits
      <4>2. before \in Images /\ Agrees(d.bitmap, before, bits)
        <5>1. d.frame - 1 \in Nat /\ (d.frame - 1) + 1 = d.frame
          BY <1>1, <3>2
        <5>2. before \in Images /\ Agrees(d.bitmap, before, BitsKept(d.encoding, d.frame - 1))
          BY <1>4, <3>2
        <5>3. Agrees(d.bitmap, before, BitsKept(d.encoding, (d.frame - 1) + 1))
          BY <5>1, <5>2, NextAgrees
        <5> QED BY <5>1, <5>2, <5>3 DEF bits
      <4>3. read.code = EncodeRle7Delta(bits, image, d.bitmap)
        BY <4>1, <4>2, SameCode
      <4>4. d.bitmap \in Seq(Byte) /\ Len(d.bitmap) = PixelCount
        BY <4>2 DEF Agrees
      <4>5. Agrees(DecodeRle7Delta(PixelCount, r, d.bitmap), image, bits)
        BY <1>2, <2>5, <4>3, <4>4, NextCode
      <4> QED BY <3>2, <4>5 DEF Picture
    <3> QED BY <3>1, <3>2
  <2> QED BY <1>4, <2>1, <2>6 DEF Faithful, bits
<1> QED BY <1>3, <1>4

-----------------------------------------------------------------------------
(* The invariant                                                           *)

IsWriter(w) ==
  w \in [grids    : Seq(Encoding) \ {<<>>},
         frames   : Nat \ {0},
         blobs    : [0 .. Cells(w) - 1 -> [code : Seq(Byte), size : Nat]],
         prev     : [0 .. Len(w.grids) - 1 -> Seq(Byte)],
         metadata : Seq(Keys \X Values),
         scratch  : {<<>>}]

Frames     == 0 .. writer.frames - 1
Blob(g, f) == writer.blobs[Index(Len(writer.grids), g, f)]

WriterType == IsWriter(writer)

FilmType ==
  film \in [Grids -> [images : [Frames -> Images \union {<<>>}], inOrder : 0 .. writer.frames]]

(* A frame has a code its decoder can be given, or was never added.        *)
BlobsFit ==
  /\ \A i \in 0 .. Cells(writer) - 1 :
       writer.blobs[i] = NoBlob \/ writer.blobs[i] = Compressed(writer.blobs[i].code)
  /\ \A g \in Grids, f \in Frames :
       Blob(g, f).code = <<>> \/ Fits(Blob(g, f).code, GridEncoding(writer, g))
  /\ \A g \in Grids : Len(writer.prev[g]) \in {0, PixelCount}

(* A frame that can be played was coded from the images themselves: the    *)
(* writer keeps what a decoder will have decoded, which agrees with the    *)
(* image in every bit the next code depends on.                            *)
FilmIsCoded ==
  /\ \A g \in Grids, f \in Frames : Playable(g, f) =>
       /\ film[g].images[f] \in Images
       /\ Blob(g, f).code =
            CodeOf(GridEncoding(writer, g), f, film[g].images[f], film[g].images[f - 1])
  /\ \A g \in Grids : GridEncoding(writer, g) # "None" /\ film[g].inOrder > 0 =>
       Agrees(writer.prev[g], film[g].images[film[g].inOrder - 1],
              BitsKept(GridEncoding(writer, g), film[g].inOrder - 1))

FileIsWritten ==
  /\ \E n \in 0 .. Len(Pieces(writer)) : file = SubSeq(Pieces(writer), 1, n)
  /\ reader \in {NoReader, ReadHeader(file)}

(* A decoder belongs to a grid of the file, and shows the frame it is at   *)
(* if it can.                                                              *)
Attached(d) ==
  d.grid \in Grids /\ d.frame \in Frames /\ d.encoding = GridEncoding(writer, d.grid)

Showing(d) ==
  /\ Playing(d) /\ Attached(d)
  /\ d.intact /\ Playable(d.grid, d.frame) =>
       Faithful(d.bitmap, d.encoding, film[d.grid].images[d.frame], d.frame)

ViewsShow ==
  /\ view \in [Views -> {NoView} \union FrameDecoder]
  /\ \A v \in Views : view[v].open => file # NoFile /\ Showing(view[v])

IInv == WriterType /\ FilmType /\ BlobsFit /\ FilmIsCoded /\ FileIsWritten /\ ViewsShow

-----------------------------------------------------------------------------
(* The writer                                                              *)

LEMMA WriterFields ==
  ASSUME NEW w, IsWriter(w)
  PROVE  /\ w.grids \in Seq(Encoding) \ {<<>>} /\ Len(w.grids) \in Nat \ {0}
         /\ w.frames \in Nat \ {0} /\ Cells(w) \in Nat \ {0}
         /\ w.blobs \in [0 .. Cells(w) - 1 -> [code : Seq(Byte), size : Nat]]
         /\ w.prev \in [0 .. Len(w.grids) - 1 -> Seq(Byte)]
         /\ w.metadata \in Seq(Keys \X Values) /\ Len(w.metadata) \in Nat /\ w.scratch = <<>>
         /\ \A g \in 0 .. Len(w.grids) - 1 : w.grids[g + 1] \in Encoding
<1>1. /\ w.grids \in Seq(Encoding) \ {<<>>} /\ w.frames \in Nat \ {0}
      /\ w.blobs \in [0 .. Cells(w) - 1 -> [code : Seq(Byte), size : Nat]]
      /\ w.prev \in [0 .. Len(w.grids) - 1 -> Seq(Byte)]
      /\ w.metadata \in Seq(Keys \X Values) /\ w.scratch = <<>>
  BY DEF IsWriter
<1>2. Len(w.grids) \in Nat \ {0} /\ Len(w.metadata) \in Nat
  BY <1>1, EmptySeq, LenProperties
<1>3. Cells(w) \in Nat \ {0}
  <2>1. \A m, n \in Nat \ {0} : m * n \in Nat \ {0}
    <3>1. \A m, n \in Nat \ {0} : m * n \in Nat
      BY ProductType
    <3>2. \A m, n \in Nat \ {0} : m * n # 0
      OBVIOUS
    <3> QED BY <3>1, <3>2
  <2> QED BY <1>1, <1>2, <2>1 DEF Cells
<1>4. ASSUME NEW g \in 0 .. Len(w.grids) - 1 PROVE w.grids[g + 1] \in Encoding
  <2>1. g + 1 \in 1 .. Len(w.grids)
    BY <1>2
  <2> QED BY <1>1, <2>1, ElementOfSeq
<1> QED BY <1>1, <1>2, <1>3, <1>4

(* A file can be written at any time.                                      *)
LEMMA WriterIsWritable ==
  ASSUME NEW w, IsWriter(w),
         \A i \in 0 .. Cells(w) - 1 : w.blobs[i] = NoBlob \/ w.blobs[i] = Compressed(w.blobs[i].code)
  PROVE  Writable(w)
<1>1. ASSUME NEW i \in 0 .. Cells(w) - 1
      PROVE  w.blobs[i].size \in Nat /\ (w.blobs[i].size = 0 => w.blobs[i].code = <<>>)
  <2> DEFINE b == w.blobs[i]
  <2>1. b \in [code : Seq(Byte), size : Nat]
    BY WriterFields
  <2>2. b = NoBlob \/ b = Compressed(b.code)
    OBVIOUS
  <2> HIDE DEF b
  <2>3. b.size = 0 => b.code = <<>>
    <3>1. CASE b = NoBlob
      BY <3>1 DEF NoBlob
    <3>2. CASE b = Compressed(b.code)
      <4>1. b.size = Len(b.code) + 1
        BY <3>2 DEF Compressed
      <4>2. Len(b.code) \in Nat
        BY <2>1
      <4> QED BY <4>1, <4>2
    <3> QED BY <2>2, <3>1, <3>2
  <2> QED BY <2>1, <2>3 DEF b
<1> QED BY <1>1, WriterFields DEF Writable

(* A buffer that has all its bytes is not changed by a resize.             *)
LEMMA ResizedFacts ==
  ASSUME NEW bytes \in Seq(Byte)
  PROVE  /\ ResizedTo(bytes, PixelCount) \in Seq(Byte) /\ Len(ResizedTo(bytes, PixelCount)) = PixelCount
         /\ Len(bytes) = PixelCount => ResizedTo(bytes, PixelCount) = bytes
<1> DEFINE n == PixelCount
           r == [i \in 1 .. n |-> IF i <= Len(bytes) THEN bytes[i] ELSE 0]
<1>1. n \in Nat /\ Len(bytes) \in Nat /\ 0 \in Byte
  BY PixelFacts DEF Byte
<1> HIDE DEF n
<1>2. r \in [1 .. n -> Byte]
  <2>1. \A i \in 1 .. n : i <= Len(bytes) => bytes[i] \in Byte
    BY <1>1, ElementOfSeq
  <2> QED BY <1>1, <2>1
<1>3. Len(bytes) = n => r = bytes
  OBVIOUS
<1> HIDE DEF r
<1>4. r \in Seq(Byte) /\ Len(r) = n
  BY <1>1, <1>2
<1> QED BY <1>3, <1>4 DEF ResizedTo, n, r

(* One cell of the writer and what it keeps of one grid are replaced.      *)
Replaced(y, w, cell, grid, blob, prev) ==
  /\ IsWriter(y) /\ y.grids = w.grids /\ y.frames = w.frames /\ y.metadata = w.metadata
  /\ y.blobs[cell] = blob /\ y.prev[grid] = prev
  /\ \A i \in 0 .. Cells(w) - 1 : i # cell => y.blobs[i] = w.blobs[i]
  /\ \A h \in 0 .. Len(w.grids) - 1 : h # grid => y.prev[h] = w.prev[h]

(* What an added frame does to the writer: m_prevFrames agrees with the    *)
(* image, in whatever order frames are added.                              *)
AddedTo(x, w, grid, frame, image) ==
  LET encoding == w.grids[grid + 1]
      cell     == Index(Len(w.grids), grid, frame)
      code     == CodeOf(encoding, frame, image, ResizedTo(w.prev[grid], PixelCount))
  IN  /\ IsWriter(x) /\ x.grids = w.grids /\ x.frames = w.frames /\ x.metadata = w.metadata
      /\ Fits(code, encoding) /\ x.blobs[cell] = Compressed(code)
      /\ \A i \in 0 .. Cells(w) - 1 : i # cell => x.blobs[i] = w.blobs[i]
      /\ \A h \in 0 .. Len(w.grids) - 1 : h # grid => x.prev[h] = w.prev[h]
      /\ IF encoding = "None" THEN x.prev[grid] = w.prev[grid]
         ELSE Agrees(x.prev[grid], image, BitsKept(encoding, frame))

LEMMA AddedFacts ==
  ASSUME NEW w, IsWriter(w), NEW grid \in 0 .. Len(w.grids) - 1, NEW frame \in 0 .. w.frames - 1,
         NEW image \in Images
  PROVE  AddedTo(Added(w, grid, frame, image), w, grid, frame, image)
<1> DEFINE encoding == w.grids[grid + 1]
           cell     == Index(Len(w.grids), grid, frame)
           base     == ResizedTo(w.prev[grid], PixelCount)
           bits     == BitsKept(encoding, frame)
           code     == CodeOf(encoding, frame, image, base)
           x        == Added(w, grid, frame, image)
<1>1. /\ Len(w.grids) \in Nat /\ w.frames \in Nat /\ encoding \in Encoding /\ w.scratch = <<>>
      /\ w.prev[grid] \in Seq(Byte) /\ Cells(w) \in Nat
  BY WriterFields
<1>2. cell \in 0 .. Cells(w) - 1
  BY <1>1, IndexFacts DEF Cells
<1>3. Len(image) = PixelCount /\ image \in Seq(Byte)
  BY PixelFacts
<1>4. base \in Seq(Byte) /\ Len(base) = PixelCount
  BY <1>1, ResizedFacts
<1> HIDE DEF base
<1>5. Fits(code, encoding)
  BY <1>1, <1>4, CodeFits
<1>6. bits \in {5, 6, 7}
  BY BitsFacts
<1>7. Compressed(code) \in [code : Seq(Byte), size : Nat]
  <2>1. code \in Seq(Byte) /\ Len(code) + 1 \in Nat
    BY <1>5 DEF Fits
  <2> HIDE DEF code
  <2> QED BY <2>1 DEF Compressed
<1>8. ASSUME NEW prev \in Seq(Byte), NEW c \in [code : Seq(Byte), size : Nat], NEW y,
             y = [w EXCEPT !.blobs[cell] = c, !.scratch = <<>>, !.prev[grid] = prev]
      PROVE  Replaced(y, w, cell, grid, c, prev)
  <2> DEFINE B == [w.blobs EXCEPT ![cell] = c]
             P == [w.prev EXCEPT ![grid] = prev]
             cells == 0 .. Cells(w) - 1
             grids == 0 .. Len(w.grids) - 1
             BS == [cells -> [code : Seq(Byte), size : Nat]]
             PS == [grids -> Seq(Byte)]
             MS == Seq(Keys \X Values)
             GS == Seq(Encoding) \ {<<>>}
             FS == Nat \ {0}
  <2>1. w.blobs \in BS /\ w.prev \in PS
    BY WriterFields
  <2>2. B \in BS /\ P \in PS
    BY <1>8, <2>1, <1>2
  <2>3. /\ B[cell] = c /\ P[grid] = prev
        /\ \A i \in cells : i # cell => B[i] = w.blobs[i]
        /\ \A h \in grids : h # grid => P[h] = w.prev[h]
    BY <2>1, <1>2
  <2>4. w \in [grids : GS, frames : FS, blobs : BS, prev : PS, metadata : MS, scratch : {<<>>}]
    BY DEF IsWriter
  <2>5. y = [w EXCEPT !.blobs = B, !.scratch = <<>>, !.prev = P]
    BY <1>8, Zenon
  <2> HIDE DEF B, P, BS, PS, MS, GS, FS
  <2>6. /\ y \in [grids : GS, frames : FS, blobs : BS, prev : PS, metadata : MS, scratch : {<<>>}]
        /\ y.grids = w.grids /\ y.frames = w.frames /\ y.metadata = w.metadata
        /\ y.blobs = B /\ y.prev = P
    BY <2>2, <2>4, <2>5
  <2>7. IsWriter(y)
    <3>1. Cells(y) = Cells(w) /\ Len(y.grids) = Len(w.grids)
      BY <2>6 DEF Cells
    <3> QED BY <2>6, <3>1 DEF IsWriter, BS, PS, MS, GS, FS
  <2> QED BY <2>3, <2>6, <2>7 DEF Replaced
<1> HIDE DEF cell
<1>9. CASE encoding = "None"
  <2>1. code = image
    BY <1>9 DEF CodeOf
  <2>2. x = [w EXCEPT !.blobs[cell] = Compressed(image), !.scratch = <<>>]
    BY <1>9, Zenon DEF Added, AddedRaw, GridEncoding, cell
  <2>3. w.prev = [w.prev EXCEPT ![grid] = w.prev[grid]]
    BY WriterFields
  <2>4. x = [w EXCEPT !.blobs[cell] = Compressed(code), !.scratch = <<>>, !.prev[grid] = w.prev[grid]]
    BY <2>1, <2>2, <2>3
  <2> HIDE DEF x, code
  <2>5. Replaced(x, w, cell, grid, Compressed(code), w.prev[grid])
    BY <1>1, <1>7, <1>8, <2>4
  <2> QED BY <1>5, <1>9, <2>5 DEF AddedTo, Replaced, x, code, cell, base
<1>10. CASE encoding # "None"
  <2> DEFINE next == IF frame = 0 THEN DecodeRle7(PixelCount, code)
                     ELSE DecodeRle7Delta(PixelCount, code, base)
  <2>1. code = IF frame = 0 THEN EncodeRle7(bits, image) ELSE EncodeRle7Delta(bits, image, base)
    BY <1>10 DEF CodeOf
  <2>2. code \in Seq(Byte) /\ IsPrefix(code, code)
    BY <1>5, CodeIsItsPrefix DEF Fits
  <2>3. <<>> \o code = code
    BY <2>2
  <2> HIDE DEF code
  <2>4. Agrees(next, image, bits)
    <3>1. CASE frame = 0
      BY <1>6, <2>1, <2>2, <3>1, FirstCode
    <3>2. CASE frame # 0
      BY <1>4, <1>6, <2>1, <2>2, <3>2, NextCode
    <3> QED BY <3>1, <3>2
  <2>5. x = [w EXCEPT !.blobs[cell] = Compressed(w.scratch \o IF frame = 0 THEN EncodeRle7(bits, image) ELSE EncodeRle7Delta(bits, image, base)),
                      !.scratch = <<>>,
                      !.prev[grid] = IF frame = 0 THEN DecodeRle7(Len(image), w.scratch \o IF frame = 0 THEN EncodeRle7(bits, image) ELSE EncodeRle7Delta(bits, image, base))
                                     ELSE DecodeRle7Delta(Len(image), w.scratch \o IF frame = 0 THEN EncodeRle7(bits, image) ELSE EncodeRle7Delta(bits, image, base), base)]
    BY <1>3, <1>10, Zenon DEF Added, AddedCoded, GridEncoding, cell, base
  <2>6. x = [w EXCEPT !.blobs[cell] = Compressed(code), !.scratch = <<>>, !.prev[grid] = next]
    BY <1>1, <1>3, <2>1, <2>3, <2>5, Zenon
  <2> HIDE DEF x, next
  <2>7. next \in Seq(Byte)
    BY <2>4 DEF Agrees
  <2>8. Compressed(code) \in [code : Seq(Byte), size : Nat]
    BY <1>7 DEF code
  <2>9. Replaced(x, w, cell, grid, Compressed(code), next)
    BY <1>8, <2>6, <2>7, <2>8
  <2> QED BY <1>5, <1>10, <2>4, <2>9 DEF AddedTo, Replaced, x, code, cell, base
<1> QED BY <1>9, <1>10

LEMMA NewWriterFacts ==
  ASSUME NEW grids \in Seq(Encoding) \ {<<>>}, NEW frames \in Nat \ {0},
         NEW w, w = NewWriter(grids, frames)
  PROVE  /\ IsWriter(w) /\ w.grids = grids /\ w.frames = frames
         /\ \A i \in 0 .. Cells(w) - 1 : w.blobs[i] = NoBlob
         /\ \A g \in 0 .. Len(grids) - 1 : w.prev[g] = <<>>
<1> DEFINE B == [i \in 0 .. Len(grids) * frames - 1 |-> NoBlob]
           P == [g \in 0 .. Len(grids) - 1 |-> <<>>]
<1>1. w = [grids |-> grids, frames |-> frames, blobs |-> B, prev |-> P, metadata |-> <<>>, scratch |-> <<>>]
  BY Zenon DEF NewWriter
<1>2. /\ B \in [0 .. Len(grids) * frames - 1 -> [code : Seq(Byte), size : Nat]]
      /\ \A i \in 0 .. Len(grids) * frames - 1 : B[i] = NoBlob
  <2>1. NoBlob \in [code : Seq(Byte), size : Nat]
    BY EmptySeq DEF NoBlob
  <2> DEFINE n == Len(grids) * frames - 1
  <2> HIDE DEF n
  <2> QED BY <2>1
<1>3. P \in [0 .. Len(grids) - 1 -> Seq(Byte)] /\ \A g \in 0 .. Len(grids) - 1 : P[g] = <<>>
  <2>1. <<>> \in Seq(Byte)
    BY EmptySeq
  <2> QED BY <2>1
<1>4. <<>> \in Seq(Keys \X Values)
  BY EmptySeq
<1> HIDE DEF B, P
<1>5. /\ w.grids = grids /\ w.frames = frames /\ w.blobs = B /\ w.prev = P
      /\ Cells(w) = Len(grids) * frames
  BY <1>1 DEF Cells
<1>6. w \in [grids : Seq(Encoding) \ {<<>>}, frames : Nat \ {0},
             blobs : [0 .. Cells(w) - 1 -> [code : Seq(Byte), size : Nat]],
             prev : [0 .. Len(w.grids) - 1 -> Seq(Byte)],
             metadata : Seq(Keys \X Values), scratch : {<<>>}]
  <2> DEFINE BS == [0 .. Cells(w) - 1 -> [code : Seq(Byte), size : Nat]]
             PS == [0 .. Len(w.grids) - 1 -> Seq(Byte)]
  <2>1. B \in BS /\ P \in PS
    BY <1>2, <1>3, <1>5
  <2> HIDE DEF BS, PS
  <2>2. w \in [grids : Seq(Encoding) \ {<<>>}, frames : Nat \ {0}, blobs : BS, prev : PS,
               metadata : Seq(Keys \X Values), scratch : {<<>>}]
    BY <1>1, <1>4, <2>1
  <2> QED BY <2>2 DEF BS, PS
<1> QED BY <1>2, <1>3, <1>5, <1>6 DEF IsWriter

(* Metadata may be set at any time, to any pairs.                          *)
SameFrames(x, w) ==
  /\ IsWriter(x) /\ x.grids = w.grids /\ x.frames = w.frames
  /\ x.blobs = w.blobs /\ x.prev = w.prev

LEMMA OtherMetadata ==
  ASSUME NEW w, IsWriter(w), NEW m \in Seq(Keys \X Values), NEW x, x = [w EXCEPT !.metadata = m]
  PROVE  SameFrames(x, w)
<1> DEFINE BS == [0 .. Cells(w) - 1 -> [code : Seq(Byte), size : Nat]]
           PS == [0 .. Len(w.grids) - 1 -> Seq(Byte)]
           MS == Seq(Keys \X Values)
           GS == Seq(Encoding) \ {<<>>}
           FS == Nat \ {0}
<1>1. w \in [grids : GS, frames : FS, blobs : BS, prev : PS, metadata : MS, scratch : {<<>>}] /\ m \in MS
  BY DEF IsWriter
<1> HIDE DEF BS, PS, MS, GS, FS
<1>2. /\ x \in [grids : GS, frames : FS, blobs : BS, prev : PS, metadata : MS, scratch : {<<>>}]
      /\ x.grids = w.grids /\ x.frames = w.frames /\ x.blobs = w.blobs /\ x.prev = w.prev
  BY <1>1
<1>3. Cells(x) = Cells(w) /\ Len(x.grids) = Len(w.grids)
  BY <1>2 DEF Cells
<1> QED BY <1>2, <1>3 DEF SameFrames, IsWriter, BS, PS, MS, GS, FS

LEMMA MetadataFacts ==
  ASSUME NEW w, IsWriter(w), NEW key \in Keys, NEW value \in Values,
         NEW x, x = WithMetadata(w, key, value)
  PROVE  SameFrames(x, w)
<1> DEFINE replaced == [i \in DOMAIN w.metadata |->
                          IF w.metadata[i][1] = key THEN <<key, value>> ELSE w.metadata[i]]
           appended == Append(w.metadata, <<key, value>>)
           MS == Seq(Keys \X Values)
<1>1. w.metadata \in MS /\ Len(w.metadata) \in Nat /\ DOMAIN w.metadata = 1 .. Len(w.metadata)
  BY WriterFields
<1>2. appended \in MS
  BY <1>1
<1>3. replaced \in MS
  <2> DEFINE n == Len(w.metadata)
             KV == Keys \X Values
             pair == <<key, value>>
  <2>1. \A i \in 1 .. n : w.metadata[i] \in KV
    BY <1>1, ElementOfSeq
  <2>2. pair \in KV
    OBVIOUS
  <2>3. replaced = [i \in 1 .. n |-> IF w.metadata[i][1] = key THEN pair ELSE w.metadata[i]]
    BY <1>1
  <2> HIDE DEF KV, pair, replaced
  <2>4. replaced \in [1 .. n -> KV]
    BY <2>1, <2>2, <2>3
  <2>5. replaced \in Seq(KV)
    BY <1>1, <2>4
  <2> QED BY <2>5 DEF KV
<1>4. x = [w EXCEPT !.metadata = replaced] \/ x = [w EXCEPT !.metadata = appended]
  BY Zenon DEF WithMetadata
<1> HIDE DEF replaced, appended
<1> QED BY <1>2, <1>3, <1>4, OtherMetadata

-----------------------------------------------------------------------------
(* Readers and decoders                                                    *)

LEMMA EmptyFile ==
  ASSUME NEW w, Writable(w)
  PROVE  /\ Len(Pieces(w)) \in Nat
         /\ \E n \in 0 .. Len(Pieces(w)) : NoFile = SubSeq(Pieces(w), 1, n)
<1>1. Len(Pieces(w)) \in Nat
  <2>1. PICK S : Pieces(w) \in Seq(S)
    BY PiecesAre
  <2> QED BY <2>1, LenProperties
<1>2. 0 \in 0 .. Len(Pieces(w)) /\ SubSeq(Pieces(w), 1, 0) = NoFile
  <2>1. SubSeq(Pieces(w), 1, 0) = <<>>
    BY SubSeqEmpty
  <2> QED BY <1>1, <2>1 DEF NoFile
<1> QED BY <1>1, <1>2

(* Whatever reads fail, a frame is read as it was compressed, or not.      *)
ReadAs(read, w, grid, frame) ==
  read.code = <<>> \/ read.code = w.blobs[Index(Len(w.grids), grid, frame)].code

LEMMA ReadsFind ==
  ASSUME NEW w, Writable(w), NEW n \in 0 .. Len(Pieces(w)), NEW f, f = SubSeq(Pieces(w), 1, n),
         NEW r, r \in {NoReader, ReadHeader(f)},
         NEW grid \in 0 .. Len(w.grids) - 1, NEW frame \in 0 .. w.frames - 1,
         NEW read \in Reads(r, f, grid, frame)
  PROVE  ReadAs(read, w, grid, frame)
<1> DEFINE code == w.blobs[Index(Len(w.grids), grid, frame)].code
<1>1. read = NothingRead \/ read = GetFrame(r, f, grid, frame)
  BY DEF Reads
<1>2. NothingRead.code = <<>>
  BY DEF NothingRead
<1>3. r = NoReader \/ Reading(r, w)
  BY HeaderIsRead
<1>4. CASE r = NoReader
  <2>1. Len(r.grids) = 0 /\ grid >= 0
    BY <1>4, EmptySeq DEF NoReader
  <2>2. GetFrame(r, f, grid, frame) = NothingRead
    BY <2>1 DEF GetFrame
  <2> QED BY <1>1, <1>2, <2>2 DEF ReadAs
<1>5. CASE Reading(r, w)
  <2>1. Finds(GetFrame(r, f, grid, frame), code, n = Len(Pieces(w)))
    BY <1>5, FrameIsFound
  <2> HIDE DEF code
  <2>2. GetFrame(r, f, grid, frame) = NothingRead \/ GetFrame(r, f, grid, frame).code = code
    BY <2>1 DEF Finds
  <2> QED BY <1>1, <1>2, <2>2 DEF ReadAs, code
<1> QED BY <1>3, <1>4, <1>5

(* A decoder before its first frame.                                       *)
LEMMA NewViewFacts ==
  ASSUME NEW w, IsWriter(w), NEW r, Reading(r, w), NEW grid \in 0 .. Len(w.grids) - 1,
         NEW d, d = NewView(r, grid)
  PROVE  Ready(d) /\ d.grid = grid /\ d.frame = 0 /\ d.encoding = w.grids[grid + 1]
<1> DEFINE rle == IF r.grids[grid + 1] = "None" THEN <<>> ELSE Zeros(PixelCount)
<1>1. /\ w.grids[grid + 1] \in Encoding /\ r.grids[grid + 1] = w.grids[grid + 1]
      /\ grid \in Nat /\ 0 \in Nat /\ <<>> \in Seq(Byte) /\ Len(<<>>) = 0
  BY WriterFields, EmptySeq DEF Reading
<1>2. Decodable(Zeros(PixelCount))
  BY ZerosDecode
<1>3. rle \in Seq(Byte)
  BY <1>1, <1>2 DEF Decodable
<1>4. d = [open |-> TRUE, grid |-> grid, encoding |-> r.grids[grid + 1], frame |-> 0,
           bitmap |-> <<>>, rle |-> rle, intact |-> FALSE]
  BY DEF NewView, Unwritten
<1>5. r.grids[grid + 1] = "None" => rle = <<>>
  OBVIOUS
<1>6. r.grids[grid + 1] # "None" => rle = Zeros(PixelCount)
  OBVIOUS
<1> HIDE DEF rle
<1>7. d \in FrameDecoder
  BY <1>1, <1>3, <1>4 DEF FrameDecoder
<1>8. d.encoding = r.grids[grid + 1] /\ d.rle = rle /\ d.bitmap = <<>> /\ d.frame = 0 /\ d.grid = grid
  BY <1>4
<1> QED BY <1>1, <1>2, <1>5, <1>6, <1>7, <1>8 DEF Ready

(* The frame that a decoder was turned to is shown, if it can be.          *)
LEMMA DecodeShows ==
  ASSUME WriterType, FilmType, BlobsFit, FilmIsCoded, FileIsWritten,
         NEW d, Ready(d), Attached(d),
         d.encoding # "None" /\ d.frame # 0 /\ d.intact /\ Playable(d.grid, d.frame) =>
           /\ film[d.grid].images[d.frame - 1] \in Images
           /\ Agrees(d.bitmap, film[d.grid].images[d.frame - 1], BitsKept(d.encoding, d.frame - 1)),
         NEW r \in {NoReader, ReadHeader(file)}, NEW read \in Reads(r, file, d.grid, d.frame)
  PROVE  Showing(Decoded1(d, read))
<1> DEFINE e == Decoded1(d, read)
           g == d.grid
           f == d.frame
           image == film[g].images[f]
           before == film[g].images[f - 1]
<1>1. g \in Grids /\ f \in Frames /\ d.encoding = GridEncoding(writer, g) /\ d \in FrameDecoder
  BY DEF Attached, Ready
<1>2. read.code = <<>> \/ read.code = Blob(g, f).code
  <2>1. Writable(writer)
    BY WriterIsWritable DEF WriterType, BlobsFit
  <2>2. PICK n \in 0 .. Len(Pieces(writer)) : file = SubSeq(Pieces(writer), 1, n)
    BY DEF FileIsWritten
  <2>3. g \in 0 .. Len(writer.grids) - 1 /\ f \in 0 .. writer.frames - 1
    BY <1>1 DEF Grids, Frames
  <2> HIDE DEF g, f
  <2>4. read \in Reads(r, file, g, f)
    BY DEF g, f
  <2>5. r \in {NoReader, ReadHeader(file)}
    OBVIOUS
  <2>6. ReadAs(read, writer, g, f)
    BY <2>1, <2>2, <2>3, <2>4, <2>5, ReadsFind
  <2> QED BY <2>6 DEF ReadAs, Blob
<1>3. read.code = <<>> \/ Fits(read.code, d.encoding)
  BY <1>1, <1>2 DEF BlobsFit
<1>4. Playing(e) /\ e.grid = g /\ e.encoding = d.encoding /\ e.frame = f
  BY <1>3, DecodedPlays
<1>5. ASSUME e.intact, Playable(g, f)
      PROVE  Faithful(e.bitmap, d.encoding, image, f)
  <2>1. read.code # <<>> /\ (d.encoding = "None" \/ f = 0 \/ d.intact)
    BY <1>1, <1>5, DecodedFields DEF Becomes
  <2>2. image \in Images /\ Blob(g, f).code = CodeOf(d.encoding, f, image, before)
    BY <1>1, <1>5 DEF FilmIsCoded
  <2>3. read.code = CodeOf(d.encoding, f, image, before)
    BY <1>2, <2>1, <2>2
  <2>4. d.encoding # "None" /\ f # 0 =>
          before \in Images /\ Agrees(d.bitmap, before, BitsKept(d.encoding, f - 1))
    BY <1>5, <2>1
  <2> HIDE DEF image, before
  <2> QED BY <2>1, <2>2, <2>3, <2>4, DecodedShows
<1> HIDE DEF e
<1>6. Attached(e)
  BY <1>1, <1>4 DEF Attached
<1>7. Showing(e)
  BY <1>4, <1>5, <1>6 DEF Showing
<1> QED BY <1>7 DEF e

-----------------------------------------------------------------------------
(* Every step keeps the invariant                                          *)

LEMMA InitIInv ==
  Init => IInv
<1> SUFFICES ASSUME Init PROVE IInv
  OBVIOUS
<1>1. PICK grids \in GridLists, frames \in FrameCounts :
        /\ writer = NewWriter(grids, frames)
        /\ film = [g \in 0 .. Len(grids) - 1 |->
                     [images |-> [f \in 0 .. frames - 1 |-> <<>>], inOrder |-> 0]]
        /\ file = NoFile /\ reader = NoReader /\ view = [v \in Views |-> NoView]
  BY DEF Init
<1>2. grids \in Seq(Encoding) \ {<<>>} /\ frames \in Nat \ {0}
  BY GridsAssumption, FramesAssumption
<1>3. /\ IsWriter(writer) /\ writer.grids = grids /\ writer.frames = frames
      /\ \A i \in 0 .. Cells(writer) - 1 : writer.blobs[i] = NoBlob
      /\ \A g \in 0 .. Len(grids) - 1 : writer.prev[g] = <<>>
  BY <1>1, <1>2, NewWriterFacts
<1>4. Grids = 0 .. Len(grids) - 1 /\ Frames = 0 .. frames - 1 /\ Len(grids) \in Nat
  BY <1>2, <1>3 DEF Grids, Frames
<1>5. \A g \in Grids : film[g] = [images |-> [f \in Frames |-> <<>>], inOrder |-> 0]
  BY <1>1, <1>4
<1>6. \A g \in Grids : /\ film[g].inOrder = 0
                       /\ \A f \in Frames : film[g].images[f] = <<>> /\ ~ Playable(g, f)
  <2> TAKE g \in Grids
  <2>1. film[g].inOrder = 0 /\ film[g].images = [f \in Frames |-> <<>>]
    BY <1>5
  <2>2. ASSUME NEW f \in Frames PROVE film[g].images[f] = <<>> /\ ~ Playable(g, f)
    <3>1. f \in Nat /\ film[g].images[f] = <<>>
      BY <1>2, <1>4, <2>1
    <3> QED BY <2>1, <3>1 DEF Playable
  <2> QED BY <2>1, <2>2
<1>7. FilmType
  <2>1. [images |-> [f \in Frames |-> <<>>], inOrder |-> 0]
          \in [images : [Frames -> Images \union {<<>>}], inOrder : 0 .. writer.frames]
    BY <1>2, <1>3
  <2>2. film = [g \in Grids |-> [images |-> [f \in Frames |-> <<>>], inOrder |-> 0]]
    BY <1>1, <1>4
  <2> QED BY <2>1, <2>2 DEF FilmType
<1>8. BlobsFit
  <2>1. ASSUME NEW g \in Grids, NEW f \in Frames PROVE Blob(g, f).code = <<>>
    <3>1. Index(Len(writer.grids), g, f) \in 0 .. Cells(writer) - 1
      BY <1>2, <1>3, <1>4, IndexFacts DEF Cells
    <3> QED BY <1>3, <3>1 DEF Blob, NoBlob
  <2>2. \A g \in Grids : Len(writer.prev[g]) = 0
    BY <1>3, <1>4, EmptySeq
  <2> QED BY <1>3, <2>1, <2>2 DEF BlobsFit
<1>9. FilmIsCoded
  BY <1>6 DEF FilmIsCoded
<1>10. FileIsWritten
  <2>1. Writable(writer)
    BY <1>3, WriterIsWritable
  <2> QED BY <1>1, <2>1, EmptyFile DEF FileIsWritten
<1>11. ViewsShow
  <2>1. ~ NoView.open
    BY DEF NoView
  <2> QED BY <1>1, <2>1 DEF ViewsShow
<1> QED BY <1>3, <1>7, <1>8, <1>9, <1>10, <1>11 DEF IInv, WriterType

(* While the file is not written, nothing plays.                           *)
LEMMA NothingPlays ==
  ASSUME IInv, file = NoFile
  PROVE  reader = NoReader /\ \A v \in Views : ~ view[v].open
<1>1. ReadHeader(NoFile) = NoReader
  BY DEF ReadHeader
<1> QED BY <1>1 DEF IInv, FileIsWritten, ViewsShow

(* The rest of the invariant after a step that only writes.                *)
LEMMA WritingKeepsFile ==
  ASSUME IInv, file = NoFile, UNCHANGED <<file, reader, view>>, Writable(writer')
  PROVE  FileIsWritten' /\ ViewsShow'
<1>1. FileIsWritten'
  <2>1. \E n \in 0 .. Len(Pieces(writer')) : NoFile = SubSeq(Pieces(writer'), 1, n)
    BY EmptyFile
  <2>2. reader' = NoReader /\ file' = NoFile
    BY NothingPlays
  <2> QED BY <2>1, <2>2 DEF FileIsWritten
<1>2. ViewsShow'
  BY NothingPlays DEF IInv, ViewsShow
<1> QED BY <1>1, <1>2

(* What AddFrame does to the film.                                         *)
Given(x, grid, frame, image) ==
  /\ x \in [Grids -> [images : [Frames -> Images \union {<<>>}], inOrder : 0 .. writer.frames]]
  /\ \A h \in Grids : h # grid => x[h] = film[h]
  /\ x[grid].images[frame] = image
  /\ \A f \in Frames : f # frame => x[grid].images[f] = film[grid].images[f]
  /\ x[grid].inOrder = InOrder(film[grid].inOrder, frame)

LEMMA FilmFacts ==
  ASSUME FilmType, WriterType, NEW grid \in Grids, NEW frame \in Frames, NEW image \in Images,
         NEW x, x = [film EXCEPT ![grid].images[frame] = image, ![grid].inOrder = InOrder(@, frame)]
  PROVE  Given(x, grid, frame, image)
<1> DEFINE IS == [Frames -> Images \union {<<>>}]
           OS == 0 .. writer.frames
           shown == [film[grid].images EXCEPT ![frame] = image]
           order == InOrder(film[grid].inOrder, frame)
<1>1. film \in [Grids -> [images : IS, inOrder : OS]]
  BY DEF FilmType
<1>2. film[grid] \in [images : IS, inOrder : OS]
  BY <1>1
<1>3. film[grid].images \in IS /\ film[grid].inOrder \in OS
  BY <1>2
<1>4. /\ shown \in IS /\ shown[frame] = image
      /\ \A f \in Frames : f # frame => shown[f] = film[grid].images[f]
  BY <1>3
<1>5. order \in OS
  <2>1. writer.frames \in Nat \ {0} /\ frame \in 0 .. writer.frames - 1
    BY WriterFields DEF WriterType, Frames
  <2> QED BY <2>1, <1>3 DEF InOrder
<1> DEFINE row == [film[grid] EXCEPT !.images = shown, !.inOrder = order]
<1>6. x = [film EXCEPT ![grid] = row]
  BY <1>1, <1>2
<1> HIDE DEF IS, OS, shown, order
<1>7. row \in [images : IS, inOrder : OS] /\ row.images = shown /\ row.inOrder = order
  BY <1>2, <1>4, <1>5
<1> HIDE DEF row
<1>8. x \in [Grids -> [images : IS, inOrder : OS]] /\ x[grid] = row /\ \A h \in Grids : h # grid => x[h] = film[h]
  BY <1>1, <1>6, <1>7
<1>9. x \in [Grids -> [images : [Frames -> Images \union {<<>>}], inOrder : 0 .. writer.frames]]
  BY <1>8 DEF IS, OS
<1>10. x[grid].inOrder = InOrder(film[grid].inOrder, frame)
  BY <1>7, <1>8 DEF order
<1>11. x[grid].images = shown
  BY <1>7, <1>8
<1> QED BY <1>4, <1>8, <1>9, <1>10, <1>11 DEF Given

(* AddFrame, in whatever order and however often: a code that is played    *)
(* after the one before it was made for what the decoder has by then.      *)
LEMMA AddFrameKeepsIInv ==
  ASSUME IInv, NEW grid \in Grids, NEW frame \in Frames, NEW image \in Images,
         AddFrame(grid, frame, image)
  PROVE  IInv'
<1> DEFINE cell == Index(Len(writer.grids), grid, frame)
           encoding == GridEncoding(writer, grid)
           base == ResizedTo(writer.prev[grid], PixelCount)
           code == CodeOf(encoding, frame, image, base)
<1>1. /\ file = NoFile /\ writer' = Added(writer, grid, frame, image)
      /\ film' = [film EXCEPT ![grid].images[frame] = image, ![grid].inOrder = InOrder(@, frame)]
      /\ UNCHANGED <<file, reader, view>>
  BY DEF AddFrame
<1>2. IsWriter(writer) /\ FilmType /\ BlobsFit /\ FilmIsCoded /\ WriterType
  BY DEF IInv, WriterType
<1>3. AddedTo(writer', writer, grid, frame, image)
  BY <1>1, <1>2, AddedFacts DEF Grids, Frames
<1>4. /\ IsWriter(writer') /\ writer'.grids = writer.grids /\ writer'.frames = writer.frames
      /\ Fits(code, encoding) /\ writer'.blobs[cell] = Compressed(code)
      /\ \A i \in 0 .. Cells(writer) - 1 : i # cell => writer'.blobs[i] = writer.blobs[i]
      /\ \A h \in Grids : h # grid => writer'.prev[h] = writer.prev[h]
      /\ encoding = "None" => writer'.prev[grid] = writer.prev[grid]
      /\ encoding # "None" => Agrees(writer'.prev[grid], image, BitsKept(encoding, frame))
  BY <1>3 DEF AddedTo, GridEncoding, Grids
<1>5. /\ Grids' = Grids /\ Frames' = Frames /\ Cells(writer') = Cells(writer)
      /\ Len(writer'.grids) = Len(writer.grids)
      /\ \A g : GridEncoding(writer', g) = GridEncoding(writer, g)
  BY <1>4 DEF Grids, Frames, Cells, GridEncoding
<1>6. /\ film' \in [Grids -> [images : [Frames -> Images \union {<<>>}], inOrder : 0 .. writer.frames]]
      /\ \A h \in Grids : h # grid => film'[h] = film[h]
      /\ film'[grid].images[frame] = image
      /\ \A f \in Frames : f # frame => film'[grid].images[f] = film[grid].images[f]
      /\ film'[grid].inOrder = InOrder(film[grid].inOrder, frame)
  <2>1. Given(film', grid, frame, image)
    BY <1>1, <1>2, FilmFacts
  <2> QED BY <2>1 DEF Given
<1>7. /\ Grids = 0 .. Len(writer.grids) - 1 /\ Frames = 0 .. writer.frames - 1
      /\ Len(writer.grids) \in Nat /\ writer.frames \in Nat /\ PixelCount \in Nat \ {0}
      /\ frame \in Nat /\ writer.prev[grid] \in Seq(Byte) /\ encoding \in Encoding
  <2>1. Grids = 0 .. Len(writer.grids) - 1 /\ Frames = 0 .. writer.frames - 1
    BY DEF Grids, Frames
  <2>2. Len(writer.grids) \in Nat /\ writer.frames \in Nat /\ PixelCount \in Nat \ {0}
    BY <1>2, WriterFields, PixelFacts
  <2>3. writer.prev[grid] \in Seq(Byte) /\ encoding \in Encoding
    BY <1>2, <2>1, WriterFields DEF GridEncoding
  <2>4. frame \in Nat
    BY <2>1, <2>2
  <2> QED BY <2>1, <2>2, <2>3, <2>4
<1>8. cell \in 0 .. Cells(writer) - 1 /\ \A g \in Grids, f \in Frames :
        /\ Index(Len(writer.grids), g, f) \in 0 .. Cells(writer) - 1
        /\ Index(Len(writer.grids), g, f) = cell => g = grid /\ f = frame
  <2> DEFINE n == Len(writer.grids)
             m == writer.frames
  <2>1. n \in Nat /\ m \in Nat /\ Grids = 0 .. n - 1 /\ Frames = 0 .. m - 1 /\ Cells(writer) = n * m
    BY <1>7 DEF Cells
  <2> HIDE DEF n, m
  <2>2. ASSUME NEW g \in Grids, NEW f \in Frames
        PROVE  /\ Index(n, g, f) \in 0 .. n * m - 1
               /\ Index(n, g, f) = Index(n, grid, frame) => g = grid /\ f = frame
    <3>1. g \in 0 .. n - 1 /\ f \in 0 .. m - 1 /\ grid \in 0 .. n - 1 /\ frame \in 0 .. m - 1
      BY <2>1
    <3>2. Index(n, g, f) \in 0 .. n * m - 1
      BY <2>1, <3>1, IndexFacts
    <3>3. \A h \in 0 .. n - 1, l \in 0 .. m - 1 :
            Index(n, h, l) = Index(n, grid, frame) => h = grid /\ l = frame
      BY <2>1, <3>1, IndexFacts
    <3> QED BY <3>1, <3>2, <3>3
  <2> QED BY <2>1, <2>2 DEF n
<1> HIDE DEF cell, encoding, base, code
<1>9. /\ Blob(grid, frame)' = Compressed(code)
      /\ \A g \in Grids, f \in Frames : <<g, f>> # <<grid, frame>> => Blob(g, f)' = Blob(g, f)
  BY <1>4, <1>5, <1>8 DEF Blob, cell
<1>10. Compressed(code).code = code
  BY DEF Compressed
<1>11. GridEncoding(writer, grid) = encoding
  BY DEF encoding
<1>12. WriterType'
  BY <1>4 DEF WriterType
<1>13. FilmType'
  BY <1>4, <1>5, <1>6 DEF FilmType
<1>14. BlobsFit'
  <2>1. ASSUME NEW i \in 0 .. Cells(writer) - 1
        PROVE  writer'.blobs[i] = NoBlob \/ writer'.blobs[i] = Compressed(writer'.blobs[i].code)
    BY <1>2, <1>4, <1>10 DEF BlobsFit
  <2>2. ASSUME NEW g \in Grids, NEW f \in Frames
        PROVE  Blob(g, f)'.code = <<>> \/ Fits(Blob(g, f)'.code, GridEncoding(writer, g))
    <3>1. CASE g = grid /\ f = frame
      BY <3>1, <1>4, <1>9, <1>10, <1>11
    <3>2. CASE ~ (g = grid /\ f = frame)
      BY <3>2, <1>2, <1>9 DEF BlobsFit
    <3> QED BY <3>1, <3>2
  <2>3. ASSUME NEW g \in Grids PROVE Len(writer'.prev[g]) \in {0, PixelCount}
    BY <1>2, <1>4 DEF BlobsFit, Agrees
  <2> QED BY <1>5, <2>1, <2>2, <2>3 DEF BlobsFit
<1>15. FilmIsCoded'
  <2>1. film[grid].inOrder \in 0 .. writer.frames /\ film'[grid].inOrder \in 0 .. writer.frames
    BY <1>2, <1>5, <1>6 DEF FilmType
  (* The code of a frame that is next in order.                            *)
  <2>2. ASSUME encoding # "None", frame # 0, frame = film[grid].inOrder
        PROVE  code = CodeOf(encoding, frame, image, film[grid].images[frame - 1])
    <3> DEFINE before == film[grid].images[frame - 1]
    <3>1. frame - 1 \in Frames /\ frame - 1 \in Nat /\ (frame - 1) + 1 = frame /\ frame - 1 < film[grid].inOrder
      BY <1>7, <2>2
    <3>2. Playable(grid, frame - 1)
      BY <1>11, <2>2, <3>1 DEF Playable
    <3>3. before \in Images
      BY <1>2, <3>1, <3>2 DEF FilmIsCoded
    <3>4. Agrees(writer.prev[grid], before, BitsKept(encoding, frame - 1))
      BY <1>2, <1>7, <1>11, <2>2 DEF FilmIsCoded
    <3> HIDE DEF before
    <3>5. Agrees(writer.prev[grid], before, BitsKept(encoding, (frame - 1) + 1))
      BY <3>1, <3>3, <3>4, NextAgrees
    <3>6. base = writer.prev[grid]
      <4>1. Len(writer.prev[grid]) = PixelCount
        BY <3>4 DEF Agrees
      <4> QED BY <1>7, <4>1, ResizedFacts DEF base
    <3>7. EncodeRle7Delta(BitsKept(encoding, frame), image, base)
            = EncodeRle7Delta(BitsKept(encoding, frame), image, before)
      BY <3>1, <3>3, <3>5, <3>6, SameCode
    <3>8. CodeOf(encoding, frame, image, base) = CodeOf(encoding, frame, image, before)
      BY <2>2, <3>7 DEF CodeOf
    <3> QED BY <3>8 DEF code, before
  (* The frame itself.                                                     *)
  <2>3. ASSUME Playable(grid, frame)'
        PROVE  code = CodeOf(encoding, frame, image, film'[grid].images[frame - 1])
    <3>1. CASE encoding = "None" \/ frame = 0
      BY <3>1 DEF code, CodeOf
    <3>2. CASE encoding # "None" /\ frame # 0
      <4>1. frame < InOrder(film[grid].inOrder, frame)
        BY <1>5, <1>6, <1>11, <2>3, <3>2 DEF Playable
      <4>2. frame = film[grid].inOrder
        BY <1>7, <3>2, <4>1 DEF InOrder
      <4>3. frame - 1 \in Frames /\ frame - 1 # frame
        BY <1>7, <3>2
      <4>4. film'[grid].images[frame - 1] = film[grid].images[frame - 1]
        BY <1>6, <4>3
      <4> QED BY <2>2, <3>2, <4>2, <4>4
    <3> QED BY <3>1, <3>2
  (* The other frames of the grid.                                         *)
  <2>4. ASSUME NEW f \in Frames, f # frame, Playable(grid, f)'
        PROVE  /\ Playable(grid, f)
               /\ CodeOf(encoding, f, film'[grid].images[f], film'[grid].images[f - 1])
                    = CodeOf(encoding, f, film[grid].images[f], film[grid].images[f - 1])
    <3>1. film'[grid].images[f] = film[grid].images[f]
      BY <1>6, <2>4
    <3>2. CASE encoding = "None"
      <4>1. Playable(grid, f)
        BY <1>5, <1>11, <2>4, <3>1, <3>2 DEF Playable
      <4> QED BY <3>1, <3>2, <4>1 DEF CodeOf
    <3>3. CASE encoding # "None"
      <4>1. f < InOrder(film[grid].inOrder, frame)
        BY <1>5, <1>6, <1>11, <2>4, <3>3 DEF Playable
      <4>2. f \in Nat /\ f < frame /\ frame = film[grid].inOrder
        BY <1>7, <2>1, <2>4, <4>1 DEF InOrder
      <4>3. Playable(grid, f)
        BY <1>7, <1>11, <3>3, <4>2 DEF Playable
      <4>4. f = 0 \/ film'[grid].images[f - 1] = film[grid].images[f - 1]
        <5>1. f = 0 \/ (f - 1 \in Frames /\ f - 1 # frame)
          BY <1>7, <4>2
        <5> QED BY <1>6, <5>1
      <4> QED BY <3>1, <3>3, <4>3, <4>4 DEF CodeOf
    <3> QED BY <3>2, <3>3
  <2>5. ASSUME NEW g \in Grids, NEW f \in Frames, Playable(g, f)'
        PROVE  /\ film'[g].images[f] \in Images
               /\ Blob(g, f)'.code =
                    CodeOf(GridEncoding(writer, g), f, film'[g].images[f], film'[g].images[f - 1])
    <3>1. CASE g # grid
      <4>1. film'[g] = film[g] /\ Blob(g, f)' = Blob(g, f)
        BY <1>6, <1>9, <3>1
      <4>2. Playable(g, f)
        BY <1>5, <2>5, <4>1 DEF Playable
      <4> QED BY <1>2, <4>1, <4>2 DEF FilmIsCoded
    <3>2. CASE g = grid /\ f = frame
      BY <1>6, <1>9, <1>10, <1>11, <2>3, <2>5, <3>2
    <3>3. CASE g = grid /\ f # frame
      <4>1. Playable(grid, f) /\ Blob(g, f)' = Blob(g, f) /\ film'[grid].images[f] = film[grid].images[f]
        BY <1>6, <1>9, <2>4, <2>5, <3>3
      <4>2. /\ film[grid].images[f] \in Images
            /\ Blob(grid, f).code = CodeOf(encoding, f, film[grid].images[f], film[grid].images[f - 1])
        BY <1>2, <1>11, <4>1 DEF FilmIsCoded
      <4>3. CodeOf(encoding, f, film'[grid].images[f], film'[grid].images[f - 1])
              = CodeOf(encoding, f, film[grid].images[f], film[grid].images[f - 1])
        BY <2>4, <2>5, <3>3
      <4> QED BY <1>11, <3>3, <4>1, <4>2, <4>3
    <3> QED BY <3>1, <3>2, <3>3
  (* What the writer keeps.                                                *)
  <2>6. ASSUME NEW g \in Grids, GridEncoding(writer, g) # "None", film'[g].inOrder > 0
        PROVE  Agrees(writer'.prev[g], film'[g].images[film'[g].inOrder - 1],
                      BitsKept(GridEncoding(writer, g), film'[g].inOrder - 1))
    <3>1. CASE g # grid
      <4>1. film'[g] = film[g] /\ writer'.prev[g] = writer.prev[g]
        BY <1>4, <1>6, <3>1
      <4> QED BY <1>2, <2>6, <4>1 DEF FilmIsCoded
    <3>2. CASE g = grid
      <4>1. film'[grid].inOrder - 1 = frame
        <5>1. InOrder(film[grid].inOrder, frame) > 0
          BY <1>6, <2>6, <3>2
        <5>2. InOrder(film[grid].inOrder, frame) = frame + 1
          BY <1>7, <5>1 DEF InOrder
        <5> QED BY <1>6, <1>7, <5>2
      <4> QED BY <1>4, <1>6, <1>11, <2>6, <3>2, <4>1
    <3> QED BY <3>1, <3>2
  <2> QED BY <1>5, <2>5, <2>6 DEF FilmIsCoded
<1>16. FileIsWritten' /\ ViewsShow'
  <2>1. Writable(writer')
    BY <1>4, <1>5, <1>14, WriterIsWritable DEF BlobsFit
  <2> QED BY <1>1, <2>1, WritingKeepsFile
<1> QED BY <1>12, <1>13, <1>14, <1>15, <1>16 DEF IInv

LEMMA SetMetadataKeepsIInv ==
  ASSUME IInv, NEW key \in Keys, NEW value \in Values, SetMetadata(key, value)
  PROVE  IInv'
<1>1. /\ file = NoFile /\ writer' = WithMetadata(writer, key, value)
      /\ film' = film /\ UNCHANGED <<file, reader, view>>
  BY DEF SetMetadata
<1>2. IsWriter(writer)
  BY DEF IInv, WriterType
<1>3. /\ IsWriter(writer') /\ writer'.grids = writer.grids /\ writer'.frames = writer.frames
      /\ writer'.blobs = writer.blobs /\ writer'.prev = writer.prev
  BY <1>1, <1>2, MetadataFacts DEF SameFrames
<1>4. /\ Grids' = Grids /\ Frames' = Frames /\ Cells(writer') = Cells(writer)
      /\ \A g : GridEncoding(writer', g) = GridEncoding(writer, g)
      /\ \A g, f : Blob(g, f)' = Blob(g, f)
  BY <1>3 DEF Grids, Frames, Cells, GridEncoding, Blob
<1>5. \A g, f : Playable(g, f)' = Playable(g, f)
  BY <1>1, <1>4 DEF Playable
<1>6. WriterType'
  BY <1>3 DEF WriterType
<1>7. FilmType'
  BY <1>1, <1>3, <1>4 DEF IInv, FilmType
<1>8. BlobsFit'
  BY <1>3, <1>4 DEF IInv, BlobsFit
<1>9. FilmIsCoded'
  BY <1>1, <1>3, <1>4, <1>5 DEF IInv, FilmIsCoded
<1>10. FileIsWritten' /\ ViewsShow'
  <2>1. \A i \in 0 .. Cells(writer') - 1 :
          writer'.blobs[i] = NoBlob \/ writer'.blobs[i] = Compressed(writer'.blobs[i].code)
    BY <1>3, <1>4 DEF IInv, BlobsFit
  <2>2. Writable(writer')
    BY <1>3, <2>1, WriterIsWritable
  <2> QED BY <1>1, <2>2, WritingKeepsFile
<1> QED BY <1>6, <1>7, <1>8, <1>9, <1>10 DEF IInv

(* What does not touch the writer leaves its part of the invariant alone.  *)
LEMMA WriterStays ==
  ASSUME IInv, UNCHANGED <<writer, film>>
  PROVE  /\ WriterType' /\ FilmType' /\ BlobsFit' /\ FilmIsCoded'
         /\ \A d : Showing(d)' = Showing(d)
<1>1. writer' = writer /\ film' = film
  OBVIOUS
<1>2. /\ Grids' = Grids /\ Frames' = Frames
      /\ \A g, f : Blob(g, f)' = Blob(g, f) /\ Playable(g, f)' = Playable(g, f)
  BY <1>1 DEF Grids, Frames, Blob, Playable
<1>3. WriterType'
  BY <1>1 DEF IInv, WriterType
<1>4. FilmType'
  BY <1>1, <1>2 DEF IInv, FilmType
<1>5. BlobsFit'
  BY <1>1, <1>2 DEF IInv, BlobsFit
<1>6. FilmIsCoded'
  BY <1>1, <1>2 DEF IInv, FilmIsCoded
<1>7. \A d : Showing(d)' = Showing(d)
  <2>1. \A d : Attached(d)' = Attached(d)
    BY <1>1, <1>2 DEF Attached
  <2> QED BY <1>1, <1>2, <2>1 DEF Showing
<1> QED BY <1>3, <1>4, <1>5, <1>6, <1>7

(* A file is there, in part or as a whole, and nothing plays it yet.       *)
LEMMA WriteDataKeepsIInv ==
  ASSUME IInv, WriteData
  PROVE  IInv'
<1>1. /\ file = NoFile /\ file' \in Written(writer)
      /\ writer' = writer /\ film' = film /\ reader' = reader /\ view' = view
  BY DEF WriteData
<1>2. FileIsWritten'
  <2>1. Writable(writer)
    BY WriterIsWritable DEF IInv, WriterType, BlobsFit
  <2>2. Len(Pieces(writer)) \in Nat
    BY <2>1, EmptyFile
  <2>3. Len(Pieces(writer)) \in 0 .. Len(Pieces(writer))
    BY <2>2
  <2>4. \E n \in 0 .. Len(Pieces(writer)) : file' = SubSeq(Pieces(writer), 1, n)
    BY <1>1, <2>3 DEF Written
  <2>5. reader' = NoReader
    BY <1>1, NothingPlays
  <2> QED BY <1>1, <2>4, <2>5 DEF FileIsWritten
<1>3. ViewsShow'
  BY <1>1, NothingPlays DEF IInv, ViewsShow
<1> QED BY <1>1, <1>2, <1>3, WriterStays DEF IInv

LEMMA SetStreamKeepsIInv ==
  ASSUME IInv, NEW stream \in {NoFile, file}, SetStream(stream)
  PROVE  IInv'
<1>1. /\ reader' \in Opened(stream)
      /\ writer' = writer /\ film' = film /\ file' = file /\ view' = view
  BY DEF SetStream
<1>2. reader' \in {NoReader, ReadHeader(file)}
  <2>1. ReadHeader(NoFile) = NoReader
    BY DEF ReadHeader
  <2> QED BY <1>1, <2>1 DEF Opened
<1>3. FileIsWritten'
  BY <1>1, <1>2 DEF IInv, FileIsWritten
<1>4. \A d : Showing(d)' = Showing(d)
  BY <1>1, WriterStays
<1>5. ViewsShow'
  BY <1>1, <1>4 DEF IInv, ViewsShow
<1> QED BY <1>1, <1>3, <1>5, WriterStays DEF IInv

(* A reader that read the header knows the writer, and a decoder that was  *)
(* made plays.                                                             *)
LEMMA ReaderFacts ==
  ASSUME IInv
  PROVE  /\ Writable(writer) /\ reader \in {NoReader, ReadHeader(file)}
         /\ reader = NoReader \/ Reading(reader, writer)
<1>1. Writable(writer)
  BY WriterIsWritable DEF IInv, WriterType, BlobsFit
<1>2. PICK n \in 0 .. Len(Pieces(writer)) : file = SubSeq(Pieces(writer), 1, n)
  BY DEF IInv, FileIsWritten
<1>3. ReadHeader(file) = NoReader \/ Reading(ReadHeader(file), writer)
  BY <1>1, <1>2, HeaderIsRead
<1> QED BY <1>1, <1>3 DEF IInv, FileIsWritten

LEMMA OpenFacts ==
  ASSUME IInv, NEW v \in Views, view[v].open
  PROVE  view[v] \in FrameDecoder /\ Showing(view[v]) /\ file # NoFile
<1>1. ~ NoView.open /\ view[v] \in {NoView} \union FrameDecoder
  BY DEF IInv, ViewsShow, NoView
<1> QED BY <1>1 DEF IInv, ViewsShow

(* A decoder decodes a frame, and no other one is touched.                 *)
LEMMA DecodingKeepsIInv ==
  ASSUME IInv, UNCHANGED <<writer, film, file, reader>>, NEW v \in Views, NEW e, Showing(e),
         file # NoFile, view' = [view EXCEPT ![v] = e]
  PROVE  IInv'
<1>1. \A d : Showing(d)' = Showing(d)
  BY WriterStays
<1>2. e \in FrameDecoder
  BY DEF Showing, Playing
<1>3. view' \in [Views -> {NoView} \union FrameDecoder]
  BY <1>2 DEF IInv, ViewsShow
<1>4. ASSUME NEW u \in Views, view'[u].open PROVE Showing(view[u])'
  <2>1. view'[u] = IF u = v THEN e ELSE view[u]
    BY DEF IInv, ViewsShow
  <2>2. Showing(view'[u])
    BY <1>4, <2>1 DEF IInv, ViewsShow
  <2> QED BY <1>1, <2>2
<1>5. ViewsShow'
  BY <1>3, <1>4 DEF ViewsShow
<1>6. FileIsWritten'
  BY DEF IInv, FileIsWritten
<1> QED BY <1>5, <1>6, WriterStays DEF IInv

(* What becomes of a decoder that decodes a frame: it does not get to rely *)
(* on what it shows, unless it could before or the frame needs no other.   *)
Whole(d) == d.open /\ d.intact /\ Playable(d.grid, d.frame)

TurnsTo(v, e, grid, frame) ==
  /\ view' = [view EXCEPT ![v] = e] /\ file # NoFile
  /\ Showing(e) /\ e.grid = grid /\ e.frame = frame
  /\ Whole(e) => e.encoding = "None" \/ frame = 0 \/ Whole(view[v])

LEMMA OpenDecoderTurns ==
  ASSUME IInv, NEW v \in Views, NEW grid \in Grids, OpenDecoder(v, grid)
  PROVE  \E e : TurnsTo(v, e, grid, 0)
<1> DEFINE d == NewView(reader, grid)
<1>1. /\ reader.valid /\ UNCHANGED <<writer, film, file, reader>>
      /\ DecodeFrame(v, d)
  BY DEF OpenDecoder
<1>2. IsWriter(writer)
  BY DEF IInv, WriterType
<1>3. reader \in {NoReader, ReadHeader(file)} /\ Reading(reader, writer)
  BY <1>1, ReaderFacts DEF NoReader
<1>4. file # NoFile
  BY <1>1, NothingPlays DEF NoReader
<1>5. Ready(d) /\ d.grid = grid /\ d.frame = 0 /\ d.encoding = GridEncoding(writer, grid)
  BY <1>2, <1>3, NewViewFacts DEF Grids, GridEncoding
<1>6. Attached(d)
  <2>1. 0 \in Frames
    BY <1>2, WriterFields DEF Frames
  <2> QED BY <1>5, <2>1 DEF Attached
<1> HIDE DEF d
<1>7. PICK read \in Reads(reader, file, d.grid, d.frame) :
        view' = [view EXCEPT ![v] = Decoded1(d, read)]
  BY <1>1 DEF DecodeFrame
<1>8. Showing(Decoded1(d, read))
  BY <1>3, <1>5, <1>6, DecodeShows DEF IInv
<1>9. Decoded1(d, read).grid = grid /\ Decoded1(d, read).frame = 0
  BY <1>5, DecodedFields DEF Becomes, Ready
<1> QED BY <1>4, <1>7, <1>8, <1>9 DEF TurnsTo

(* A decoder goes to the first frame or to the next one, over a reader     *)
(* that may be gone.                                                       *)
LEMMA DecoderTurns ==
  ASSUME IInv, NEW v \in Views, view[v].open, UNCHANGED <<writer, film, file, reader>>,
         NEW frame, frame = 0 \/ (frame = view[v].frame + 1 /\ frame < reader.frames),
         NEW d, d = [view[v] EXCEPT !.frame = frame], DecodeFrame(v, d)
  PROVE  \E e : TurnsTo(v, e, view[v].grid, frame)
<1> DEFINE e == view[v]
<1>1. e \in FrameDecoder /\ Showing(e) /\ file # NoFile
  BY OpenFacts
<1>2. d = [e EXCEPT !.frame = frame] /\ Attached(e) /\ Playing(e)
  BY <1>1 DEF Showing
<1> HIDE DEF e
<1>3. writer.frames \in Nat \ {0}
  BY WriterFields DEF IInv, WriterType
<1>4. reader \in {NoReader, ReadHeader(file)} /\ (reader = NoReader \/ Reading(reader, writer))
  BY ReaderFacts
<1>5. e.frame \in Nat /\ frame \in Frames /\ frame \in Nat /\ (frame = 0 \/ e.frame = frame - 1)
  <2>1. e.frame \in Nat
    BY <1>1 DEF FrameDecoder
  <2>2. CASE frame = 0
    BY <1>3, <2>1, <2>2 DEF Frames
  <2>3. CASE frame = e.frame + 1 /\ frame < reader.frames
    <3>1. reader # NoReader
      BY <2>1, <2>3 DEF NoReader
    <3>2. reader.frames = writer.frames
      BY <1>4, <3>1 DEF Reading
    <3> QED BY <1>3, <2>1, <2>3, <3>2 DEF Frames
  <2> QED BY <2>2, <2>3 DEF e
<1>6. /\ d \in FrameDecoder /\ d.grid = e.grid /\ d.encoding = e.encoding /\ d.frame = frame
      /\ d.bitmap = e.bitmap /\ d.rle = e.rle /\ d.intact = e.intact
  BY <1>1, <1>2, <1>5 DEF FrameDecoder
<1>7. Ready(d)
  BY <1>2, <1>6 DEF Ready, Playing
<1>8. Attached(d)
  BY <1>2, <1>5, <1>6 DEF Attached
<1>9. ASSUME d.encoding # "None", d.frame # 0, d.intact, Playable(d.grid, d.frame)
      PROVE  /\ e.intact /\ Playable(e.grid, e.frame)
             /\ film[d.grid].images[d.frame - 1] \in Images
             /\ Agrees(d.bitmap, film[d.grid].images[d.frame - 1], BitsKept(d.encoding, d.frame - 1))
  <2>1. e.frame = d.frame - 1 /\ e.frame \in Frames /\ e.grid \in Grids /\ e.intact
    BY <1>2, <1>5, <1>6, <1>9 DEF Attached
  <2>2. Playable(e.grid, e.frame)
    <3>1. d.frame < film[d.grid].inOrder /\ film[d.grid].inOrder \in Nat
      <4>1. d.frame < film[d.grid].inOrder
        BY <1>8, <1>9 DEF Playable, Attached
      <4>2. film[d.grid].inOrder \in 0 .. writer.frames
        BY <1>8 DEF IInv, FilmType, Attached
      <4> QED BY <1>3, <4>1, <4>2
    <3>2. e.frame < film[e.grid].inOrder
      BY <1>5, <1>6, <2>1, <3>1
    <3> QED BY <1>2, <1>6, <1>9, <3>2 DEF Playable, Attached
  <2>3. Faithful(e.bitmap, e.encoding, film[e.grid].images[e.frame], e.frame)
    BY <1>1, <2>1, <2>2 DEF Showing
  <2>4. film[e.grid].images[e.frame] \in Images
    BY <2>1, <2>2 DEF IInv, FilmIsCoded
  <2> QED BY <1>6, <1>9, <2>1, <2>2, <2>3, <2>4 DEF Faithful
<1>10. PICK read \in Reads(reader, file, d.grid, d.frame) :
         view' = [view EXCEPT ![v] = Decoded1(d, read)]
  BY DEF DecodeFrame
<1>11. Showing(Decoded1(d, read))
  BY <1>4, <1>7, <1>8, <1>9, DecodeShows DEF IInv
<1> DEFINE x == Decoded1(d, read)
<1>12. /\ x.grid = d.grid /\ x.frame = d.frame /\ x.encoding = d.encoding
       /\ x.intact => d.encoding = "None" \/ d.frame = 0 \/ d.intact
  <2>1. CASE d.encoding = "None"
    <3> DEFINE bitmap == Uncompressed(d.bitmap, read)
               intact == read.code # <<>>
    <3>1. Becomes(x, d, bitmap, d.rle, intact)
      BY <1>6, <2>1, DecodedFields
    <3> HIDE DEF x, bitmap, intact
    <3>2. x.grid = d.grid /\ x.frame = d.frame /\ x.encoding = d.encoding
      BY <3>1 DEF Becomes
    <3> QED BY <2>1, <3>2
  <2>2. CASE d.encoding # "None"
    <3> DEFINE rle    == Uncompressed(d.rle, read)
               bitmap == Picture(d, rle)
               intact == read.code # <<>> /\ (d.frame = 0 \/ d.intact)
    <3>1. Becomes(x, d, bitmap, rle, intact)
      BY <1>6, <2>2, DecodedFields
    <3>2. intact => d.frame = 0 \/ d.intact
      OBVIOUS
    <3> HIDE DEF x, bitmap, rle, intact
    <3>3. x.grid = d.grid /\ x.frame = d.frame /\ x.encoding = d.encoding /\ x.intact = intact
      BY <3>1 DEF Becomes
    <3> QED BY <3>2, <3>3
  <2> QED BY <2>1, <2>2
<1> HIDE DEF x
<1>13. e.open = TRUE
  BY <1>1 DEF FrameDecoder
<1>14. Whole(x) => x.encoding = "None" \/ frame = 0 \/ Whole(e)
  BY <1>6, <1>9, <1>12, <1>13 DEF Whole
<1>15. TurnsTo(v, x, e.grid, frame)
  BY <1>1, <1>6, <1>10, <1>11, <1>12, <1>14 DEF TurnsTo, e, x
<1> QED BY <1>15 DEF e

LEMMA AdvanceTurns ==
  ASSUME IInv, NEW v \in Views, AdvanceFrame(v)
  PROVE  \E e : TurnsTo(v, e, view[v].grid, NextIndex(view[v]))
<1> DEFINE frame == NextIndex(view[v])
           d == [view[v] EXCEPT !.frame = frame]
<1>1. view[v].open /\ DecodeFrame(v, d) /\ UNCHANGED <<writer, film, file, reader>>
  BY DEF AdvanceFrame
<1>2. frame = 0 \/ (frame = view[v].frame + 1 /\ frame < reader.frames)
  <2>1. view[v].frame \in Nat
    BY <1>1, OpenFacts DEF FrameDecoder
  <2>2. writer.frames \in Nat
    BY WriterFields DEF IInv, WriterType
  <2>3. reader.frames \in Nat
    <3>1. reader = NoReader \/ Reading(reader, writer)
      BY ReaderFacts
    <3>2. NoReader.frames = 0
      BY DEF NoReader
    <3> QED BY <2>2, <3>1, <3>2 DEF Reading
  <2> QED BY <2>1, <2>3 DEF NextIndex
<1> HIDE DEF frame, d
<1>3. d = [view[v] EXCEPT !.frame = frame]
  BY DEF d
<1>4. \E e : TurnsTo(v, e, view[v].grid, frame)
  BY <1>1, <1>2, <1>3, DecoderTurns
<1> QED BY <1>4 DEF frame

LEMMA RestartTurns ==
  ASSUME IInv, NEW v \in Views, Restart(v)
  PROVE  \E e : TurnsTo(v, e, view[v].grid, 0)
<1> DEFINE frame == 0
           d == [view[v] EXCEPT !.frame = frame]
<1>1. view[v].open /\ DecodeFrame(v, d) /\ UNCHANGED <<writer, film, file, reader>>
  BY DEF Restart
<1>2. frame = 0 \/ (frame = view[v].frame + 1 /\ frame < reader.frames)
  OBVIOUS
<1> HIDE DEF frame, d
<1>3. d = [view[v] EXCEPT !.frame = frame]
  BY DEF d
<1>4. \E e : TurnsTo(v, e, view[v].grid, frame)
  BY <1>1, <1>2, <1>3, DecoderTurns
<1> QED BY <1>4 DEF frame

LEMMA StepKeepsIInv ==
  IInv /\ [Next]_vars => IInv'
<1> SUFFICES ASSUME IInv, [Next]_vars PROVE IInv'
  OBVIOUS
<1>1. ASSUME NEW grid \in Grids, NEW frame \in 0 .. writer.frames - 1, NEW image \in Images,
             AddFrame(grid, frame, image)
      PROVE  IInv'
  BY <1>1, AddFrameKeepsIInv DEF Frames
<1>2. ASSUME NEW key \in Keys, NEW value \in Values, SetMetadata(key, value)
      PROVE  IInv'
  BY <1>2, SetMetadataKeepsIInv
<1>3. CASE WriteData
  BY <1>3, WriteDataKeepsIInv
<1>4. ASSUME NEW stream \in {NoFile, file}, SetStream(stream)
      PROVE  IInv'
  BY <1>4, SetStreamKeepsIInv
<1>5. ASSUME NEW v \in Views, NEW e, NEW grid, NEW frame, TurnsTo(v, e, grid, frame),
             UNCHANGED <<writer, film, file, reader>>
      PROVE  IInv'
  BY <1>5, DecodingKeepsIInv DEF TurnsTo
<1>6. ASSUME NEW v \in Views, NEW grid \in Grids, OpenDecoder(v, grid)
      PROVE  IInv'
  BY <1>5, <1>6, OpenDecoderTurns DEF OpenDecoder
<1>7. ASSUME NEW v \in Views, AdvanceFrame(v) \/ Restart(v)
      PROVE  IInv'
  BY <1>5, <1>7, AdvanceTurns, RestartTurns DEF AdvanceFrame, Restart
<1>8. CASE UNCHANGED vars
  <2>1. writer' = writer /\ film' = film /\ file' = file /\ reader' = reader /\ view' = view
    BY <1>8 DEF vars
  <2>2. \A d : Showing(d)' = Showing(d)
    BY <2>1, WriterStays
  <2>3. ViewsShow' /\ FileIsWritten'
    BY <2>1, <2>2 DEF IInv, ViewsShow, FileIsWritten
  <2> QED BY <2>1, <2>3, WriterStays DEF IInv
<1> QED BY <1>1, <1>2, <1>3, <1>4, <1>5, <1>6, <1>7, <1>8 DEF Next

-----------------------------------------------------------------------------
(* Theorems                                                                *)

LEMMA IInvHolds ==
  Spec => []IInv
BY InitIInv, StepKeepsIInv, PTL DEF Spec

(* What the writer compressed uncompresses into the buffer of a decoder,   *)
(* and the buffers keep their sizes, whatever is added in which order and  *)
(* whatever cannot be read.                                                *)
THEOREM TypesAreKept ==
  Spec => []TypeOK
<1>1. ASSUME IInv PROVE TypeOK
  <2>1. IsWriter(writer) /\ PixelCount \in Nat
    BY <1>1, PixelFacts DEF IInv, WriterType
  <2>2. ASSUME NEW g \in Grids, NEW f \in Frames
        PROVE  Blob(g, f).code \in Seq(Byte) /\ Len(Blob(g, f).code) <= PixelCount
    <3>1. Blob(g, f).code = <<>> \/ Fits(Blob(g, f).code, GridEncoding(writer, g))
      BY <1>1 DEF IInv, BlobsFit
    <3>2. <<>> \in Seq(Byte) /\ Len(<<>>) = 0
      BY EmptySeq
    <3> DEFINE code == Blob(g, f).code
    <3> HIDE DEF code
    <3>3. code = <<>> \/ Fits(code, GridEncoding(writer, g))
      BY <3>1 DEF code
    <3>4. code \in Seq(Byte) /\ Len(code) <= PixelCount
      <4>1. CASE code = <<>>
        BY <2>1, <3>2, <4>1
      <4>2. CASE Fits(code, GridEncoding(writer, g))
        <5>1. code \in Seq(Byte) /\ (Len(code) = PixelCount \/ Plays(code))
          BY <4>2 DEF Fits
        <5> QED BY <2>1, <5>1 DEF Plays
      <4> QED BY <3>3, <4>1, <4>2
    <3> QED BY <3>4 DEF code
  <2>3. ASSUME NEW g \in Grids
        PROVE  writer.prev[g] \in Seq(Byte) /\ Len(writer.prev[g]) \in {0, PixelCount}
    BY <1>1, <2>1, WriterFields DEF IInv, BlobsFit, Grids
  <2>4. reader.valid \in BOOLEAN /\ reader.offsets \in Seq(Nat)
    <3>1. reader = NoReader \/ Reading(reader, writer)
      BY <1>1, ReaderFacts
    <3>2. NoReader.valid = FALSE /\ NoReader.offsets = <<>> /\ <<>> \in Seq(Nat)
      BY EmptySeq DEF NoReader
    <3> QED BY <3>1, <3>2 DEF Reading
  <2>5. ASSUME NEW v \in Views, view[v].open
        PROVE  /\ view[v].encoding \in Encoding
               /\ view[v].bitmap \in Seq(Byte) /\ Len(view[v].bitmap) \in {0, PixelCount}
               /\ Len(view[v].rle) = IF view[v].encoding = "None" THEN 0 ELSE PixelCount
    <3> DEFINE d == view[v]
    <3>1. d \in FrameDecoder /\ Playing(d) /\ Len(<<>>) = 0
      BY <1>1, <2>5, OpenFacts, EmptySeq DEF Showing
    <3> HIDE DEF d
    <3>2. d.encoding \in Encoding /\ d.bitmap \in Seq(Byte)
      BY <3>1 DEF FrameDecoder
    <3>3. Len(d.bitmap) \in {0, PixelCount} /\ Len(d.rle) = IF d.encoding = "None" THEN 0 ELSE PixelCount
      BY <3>1 DEF Playing, Decodable
    <3> QED BY <3>2, <3>3 DEF d
  <2>6. \A g \in Grids :
          /\ writer.prev[g] \in Seq(Byte) /\ Len(writer.prev[g]) \in {0, PixelCount}
          /\ \A f \in 0 .. writer.frames - 1 :
               LET blob == writer.blobs[Index(Len(writer.grids), g, f)]
               IN  blob.code \in Seq(Byte) /\ Len(blob.code) <= PixelCount
    BY <2>2, <2>3 DEF Blob, Frames
  <2> QED BY <2>4, <2>5, <2>6 DEF TypeOK
<1> QED BY <1>1, IInvHolds, PTL

(* WriteData and GetFrame: the offsets lead a reader to what was           *)
(* compressed for each frame of each grid, for every number of them and    *)
(* whatever metadata lies between; a file that was cut off has the frame   *)
(* as a whole or is found not to have it.                                  *)
THEOREM FramesAreFound ==
  Spec => []OffsetsLeadToFrames
<1>1. ASSUME IInv, reader.valid, NEW grid \in Grids, NEW frame \in 0 .. writer.frames - 1
      PROVE  LET blob == writer.blobs[Index(Len(writer.grids), grid, frame)]
                 read == GetFrame(reader, file, grid, frame)
             IN  IF Len(file) = Len(Pieces(writer)) THEN read = [ok |-> TRUE, code |-> blob.code]
                 ELSE read \in {NothingRead, [ok |-> TRUE, code |-> blob.code]}
  <2> DEFINE code == writer.blobs[Index(Len(writer.grids), grid, frame)].code
             read == GetFrame(reader, file, grid, frame)
  <2>1. Writable(writer) /\ Reading(reader, writer)
    BY <1>1, ReaderFacts DEF NoReader
  <2>2. PICK n \in 0 .. Len(Pieces(writer)) : file = SubSeq(Pieces(writer), 1, n)
    BY <1>1 DEF IInv, FileIsWritten
  <2>3. Len(file) = n
    BY <2>1, <2>2, FileFacts DEF CutOff
  <2>4. Finds(read, code, n = Len(Pieces(writer)))
    BY <2>1, <2>2, FrameIsFound DEF Grids
  <2> HIDE DEF code, read
  <2>5. IF Len(file) = Len(Pieces(writer)) THEN read = [ok |-> TRUE, code |-> code]
        ELSE read \in {NothingRead, [ok |-> TRUE, code |-> code]}
    BY <2>3, <2>4 DEF Finds
  <2> QED BY <2>5 DEF code, read
<1>2. ASSUME IInv PROVE OffsetsLeadToFrames
  BY <1>1, <1>2, Zenon DEF OffsetsLeadToFrames
<1> QED BY <1>2, IInvHolds, PTL

(* AddFrame and DecodeFrame: for every number of grids and frames, in      *)
(* every encoding, however long a film is played and whatever reads fail,  *)
(* a decoder that has read every frame since the first one shows the frame *)
(* it is at: nothing is lost but the bits the encoding drops, and the      *)
(* losses of the frames do not add up.                                     *)
THEOREM FilmIsShown ==
  Spec => []DecodersShowTheFilm
<1>1. ASSUME IInv, NEW v \in Views, view[v].open, view[v].intact, Playable(view[v].grid, view[v].frame)
      PROVE  Shows(view[v].bitmap, view[v].encoding, film[view[v].grid].images[view[v].frame], view[v].frame)
  <2> DEFINE d == view[v]
             image == film[d.grid].images[d.frame]
  <2>1. d \in FrameDecoder /\ Showing(d)
    BY <1>1, OpenFacts
  <2>2. Playable(d.grid, d.frame) /\ d.intact
    BY <1>1
  <2> HIDE DEF d
  <2>3. d.grid \in Grids /\ d.frame \in Frames /\ d.encoding \in Encoding
    BY <2>1 DEF Showing, Attached, FrameDecoder
  <2>4. image \in Images
    BY <1>1, <2>2, <2>3 DEF IInv, FilmIsCoded
  <2>5. Faithful(d.bitmap, d.encoding, image, d.frame)
    BY <2>1, <2>2 DEF Showing
  <2> HIDE DEF image
  <2>6. Shows(d.bitmap, d.encoding, image, d.frame)
    BY <2>3, <2>4, <2>5, FaithfulShows
  <2> QED BY <2>6 DEF d, image
<1>2. ASSUME IInv PROVE DecodersShowTheFilm
  BY <1>1, <1>2 DEF DecodersShowTheFilm
<1> QED BY <1>2, IInvHolds, PTL

(* The first frame of a grid, decoded by a decoder of its own over a       *)
(* reader of its own.                                                      *)
LEMMA FirstFrameShows ==
  ASSUME NEW w, IsWriter(w), Writable(w),
         NEW n \in 0 .. Len(Pieces(w)), NEW f, f = SubSeq(Pieces(w), 1, n),
         NEW image \in Images, NEW before,
         w.blobs[Index(Len(w.grids), 0, 0)].code = CodeOf(w.grids[1], 0, image, before),
         NEW loaded \in ReadImage(f), loaded.intact
  PROVE  Shows(loaded.bitmap, w.grids[1], image, 0)
<1> DEFINE image0 == w.blobs[Index(Len(w.grids), 0, 0)].code
<1>1. PICK r \in Opened(f) : \E read \in Reads(r, f, 0, 0) :
        r.valid /\ loaded = [bitmap |-> Decoded1(NewView(r, 0), read).bitmap,
                             intact |-> Decoded1(NewView(r, 0), read).intact]
  BY DEF ReadImage
<1>2. PICK read \in Reads(r, f, 0, 0) :
        loaded = [bitmap |-> Decoded1(NewView(r, 0), read).bitmap,
                  intact |-> Decoded1(NewView(r, 0), read).intact]
  BY <1>1
<1>3. r \in {NoReader, ReadHeader(f)} /\ r # NoReader
  BY <1>1 DEF Opened, NoReader
<1>4. Reading(r, w)
  BY <1>3, HeaderIsRead
<1>5. 0 \in 0 .. Len(w.grids) - 1 /\ 0 \in 0 .. w.frames - 1 /\ 0 + 1 = 1 /\ w.grids[0 + 1] \in Encoding
  BY WriterFields
<1> DEFINE d == NewView(r, 0)
           e == Decoded1(d, read)
<1>6. Ready(d) /\ d.grid = 0 /\ d.frame = 0 /\ d.encoding = w.grids[0 + 1]
  BY <1>4, <1>5, NewViewFacts
<1>7. ReadAs(read, w, 0, 0)
  BY <1>3, <1>5, ReadsFind
<1>8. loaded.bitmap = e.bitmap /\ e.intact
  BY <1>2
<1> HIDE DEF d
<1>9. d \in FrameDecoder /\ d.encoding = w.grids[1]
  BY <1>5, <1>6 DEF Ready
<1>10. read.code # <<>>
  BY <1>8, <1>9, DecodedFields DEF Becomes
<1>11. read.code = CodeOf(d.encoding, d.frame, image, before)
  BY <1>6, <1>7, <1>9, <1>10 DEF ReadAs
<1>12. Faithful(e.bitmap, d.encoding, image, d.frame)
  BY <1>6, <1>10, <1>11, DecodedShows
<1> HIDE DEF e
<1>13. Shows(e.bitmap, w.grids[1], image, 0)
  BY <1>5, <1>6, <1>9, <1>12, FaithfulShows
<1> QED BY <1>8, <1>13

(* ReadImage and Save, for every bitmap: what is loaded with its frame     *)
(* read is the first frame of the file, and what was saved.                *)
THEOREM FirstFrameIsLoaded ==
  Spec => []LoadedIsTheFirstFrame
<1>1. ASSUME IInv, Playable(0, 0), NEW loaded \in ReadImage(file), loaded.intact
      PROVE  Shows(loaded.bitmap, GridEncoding(writer, 0), film[0].images[0], 0)
  <2> DEFINE image == film[0].images[0]
             before == film[0].images[0 - 1]
  <2>1. IsWriter(writer) /\ Writable(writer)
    BY <1>1, ReaderFacts DEF IInv, WriterType
  <2>2. 0 \in Grids /\ 0 \in Frames /\ GridEncoding(writer, 0) = writer.grids[1]
    BY <2>1, WriterFields DEF Grids, Frames, GridEncoding
  <2>3. image \in Images /\ Blob(0, 0).code = CodeOf(GridEncoding(writer, 0), 0, image, before)
    BY <1>1, <2>2 DEF IInv, FilmIsCoded
  <2>4. PICK n \in 0 .. Len(Pieces(writer)) : file = SubSeq(Pieces(writer), 1, n)
    BY <1>1 DEF IInv, FileIsWritten
  <2> HIDE DEF image, before
  <2>5. writer.blobs[Index(Len(writer.grids), 0, 0)].code = CodeOf(writer.grids[1], 0, image, before)
    BY <2>2, <2>3 DEF Blob
  <2>6. Shows(loaded.bitmap, writer.grids[1], image, 0)
    BY <1>1, <2>1, <2>3, <2>4, <2>5, FirstFrameShows
  <2> QED BY <2>2, <2>6 DEF image
<1>2. ASSUME IInv, NEW image \in Images, NEW loaded \in ReadImage(Save(image, writer.metadata)), loaded.intact
      PROVE  Shows(loaded.bitmap, "Rle7", image, 0)
  <2> DEFINE grids == <<"Rle7">>
             new == NewWriter(grids, 1)
             added == Added(new, 0, 0, image)
             w == [added EXCEPT !.metadata = writer.metadata]
             base == ResizedTo(new.prev[0], PixelCount)
  <2>1. /\ grids \in Seq(Encoding) \ {<<>>} /\ Len(grids) = 1 /\ grids[1] = "Rle7" /\ 1 \in Nat \ {0}
    BY DEF Encoding
  <2>2. IsWriter(new) /\ new.grids = grids /\ new.frames = 1 /\ \A i \in 0 .. Cells(new) - 1 : new.blobs[i] = NoBlob
    <3>1. new = NewWriter(grids, 1)
      OBVIOUS
    <3> HIDE DEF new, grids
    <3> QED BY <2>1, <3>1, NewWriterFacts
  <2> HIDE DEF grids, new
  <2>3. 0 \in 0 .. Len(new.grids) - 1 /\ 0 \in 0 .. new.frames - 1
    BY <2>1, <2>2
  <2>4. AddedTo(added, new, 0, 0, image)
    BY <2>2, <2>3, AddedFacts
  <2>5. writer.metadata \in Seq(Keys \X Values)
    BY <1>2, WriterFields DEF IInv, WriterType
  <2>6. Index(1, 0, 0) = 0 /\ Cells(new) = 1
    <3>1. 1 * 0 + 0 = 0 /\ 1 * 1 = 1
      OBVIOUS
    <3>2. Len(new.grids) = 1 /\ new.frames = 1
      BY <2>1, <2>2
    <3> QED BY <3>1, <3>2 DEF Index, Cells
  <2>7. /\ IsWriter(added) /\ added.grids = grids /\ added.frames = 1
        /\ added.blobs[0] = Compressed(CodeOf("Rle7", 0, image, base))
    <3>1. /\ IsWriter(added) /\ added.grids = new.grids /\ added.frames = new.frames
          /\ added.blobs[Index(Len(new.grids), 0, 0)] =
               Compressed(CodeOf(new.grids[0 + 1], 0, image, base))
      BY <2>4 DEF AddedTo, base
    <3>2. Len(new.grids) = 1 /\ new.grids[0 + 1] = "Rle7"
      BY <2>1, <2>2
    <3> QED BY <2>2, <2>6, <3>1, <3>2
  <2> HIDE DEF added, base
  <2>8. /\ IsWriter(w) /\ w.grids = grids /\ w.frames = 1 /\ w.blobs = added.blobs
    <3>1. SameFrames(w, added)
      BY <2>5, <2>7, OtherMetadata
    <3> HIDE DEF w
    <3> QED BY <2>7, <3>1 DEF SameFrames
  <2> HIDE DEF w
  <2>9. Writable(w)
    <3>1. Cells(w) = 1 /\ w.blobs[0] = Compressed(w.blobs[0].code)
      <4>1. 1 * 1 = 1 /\ Len(w.grids) = 1 /\ w.frames = 1
        BY <2>1, <2>8
      <4> QED BY <2>7, <2>8, <4>1 DEF Cells, Compressed
    <3>2. \A i \in 0 .. Cells(w) - 1 : w.blobs[i] = Compressed(w.blobs[i].code)
      BY <3>1
    <3> QED BY <2>8, <3>2, WriterIsWritable
  <2>10. w.blobs[Index(Len(w.grids), 0, 0)].code = CodeOf(w.grids[1], 0, image, base)
    <3>1. Len(w.grids) = 1 /\ w.grids[1] = "Rle7"
      BY <2>1, <2>8
    <3> QED BY <2>6, <2>7, <2>8, <3>1 DEF Compressed
  <2>11. Len(Pieces(w)) \in Nat /\ Save(image, writer.metadata) = SubSeq(Pieces(w), 1, Len(Pieces(w)))
    <3>1. Save(image, writer.metadata) = Pieces(w)
      BY DEF Save, w, added, new, grids
    <3>2. PICK S : Pieces(w) \in Seq(S)
      BY <2>9, PiecesAre
    <3> DEFINE s == Pieces(w)
    <3>3. s \in Seq(S)
      BY <3>2
    <3> HIDE DEF s
    <3>4. Len(s) \in Nat /\ SubSeq(s, 1, Len(s)) = s
      BY <3>3, SubSeqFull
    <3> QED BY <3>1, <3>4 DEF s
  <2>12. Shows(loaded.bitmap, w.grids[1], image, 0)
    <3> DEFINE n == Len(Pieces(w))
               f == Save(image, writer.metadata)
    <3>1. IsWriter(w) /\ Writable(w) /\ n \in 0 .. Len(Pieces(w)) /\ f = SubSeq(Pieces(w), 1, n)
      BY <2>8, <2>9, <2>11
    <3>2. loaded \in ReadImage(f) /\ loaded.intact
      BY <1>2
    <3> HIDE DEF n, f
    <3> QED BY <2>10, <3>1, <3>2, FirstFrameShows
  <2> QED BY <2>1, <2>8, <2>12
<1>3. ASSUME IInv PROVE LoadedIsTheFirstFrame
  BY <1>1, <1>2, <1>3 DEF LoadedIsTheFirstFrame
<1> QED BY <1>3, IInvHolds, PTL

-----------------------------------------------------------------------------
(* Decoders are projectors                                                 *)

(* What a decoder is as a projector.                                       *)
AtOf(d)     == IF d.open THEN d.frame ELSE -1
ReelOf(d)   == IF d.open THEN Reel(d) ELSE <<>>
AloneOf(d)  == d.open /\ d.encoding = "None"
ScreenOf(d) == IF d.open THEN d.bitmap ELSE <<>>

Reels   == [v \in Views |-> ReelOf(view[v])]
Alones  == [v \in Views |-> AloneOf(view[v])]
Ats     == [v \in Views |-> AtOf(view[v])]
Screens == [v \in Views |-> ScreenOf(view[v])]
Wholes  == [v \in Views |-> Whole(view[v])]

LEMMA ProjectionIs ==
  /\ Projection!vars = <<Reels, Alones, Ats, Screens, Wholes>>
  /\ Projection!vars' = <<Reels', Alones', Ats', Screens', Wholes'>>
BY DEF Projection!vars, Reels, Alones, Ats, Screens, Wholes, ReelOf, AloneOf, AtOf, ScreenOf, Whole, Opens

(* Whatever changes but the decoders is not seen.                          *)
LEMMA ReelsStay ==
  ASSUME UNCHANGED <<writer, film>>
  PROVE  \A d : ReelOf(d)' = ReelOf(d) /\ Whole(d)' = Whole(d)
<1>1. \A d : Reel(d)' = Reel(d)
  BY DEF Reel
<1>2. \A g, f : Playable(g, f)' = Playable(g, f)
  BY DEF Playable, GridEncoding
<1> QED BY <1>1, <1>2 DEF ReelOf, Whole

(* The step of a decoder is one of its projector.                          *)
LEMMA TurnProjects ==
  ASSUME IInv, UNCHANGED <<writer, film>>, NEW v \in Views, NEW e, NEW grid, NEW frame,
         TurnsTo(v, e, grid, frame)
  PROVE  /\ Projection!TurnTo(v, frame)
         /\ Ats[v] = AtOf(view[v]) /\ Reels[v] = ReelOf(view[v]) /\ Alones[v] = AloneOf(view[v])
         /\ Reels'[v] = ReelOf(e) /\ Alones'[v] = AloneOf(e)
         /\ e \in FrameDecoder /\ e.open = TRUE
<1>1. /\ view' = [view EXCEPT ![v] = e] /\ Showing(e) /\ e.grid = grid /\ e.frame = frame
      /\ Whole(e) => e.encoding = "None" \/ frame = 0 \/ Whole(view[v])
  BY DEF TurnsTo
<1>2. e \in FrameDecoder /\ e.open = TRUE /\ Attached(e)
  BY <1>1 DEF Showing, Playing, FrameDecoder
<1>3. view'[v] = e /\ \A u \in Views : u # v => view'[u] = view[u]
  BY <1>1 DEF IInv, ViewsShow
<1>4. \A d : ReelOf(d)' = ReelOf(d) /\ Whole(d)' = Whole(d)
  BY ReelsStay
<1>5. /\ Reels'[v] = ReelOf(e) /\ Alones'[v] = AloneOf(e) /\ Ats'[v] = frame
      /\ Screens'[v] = e.bitmap /\ Wholes'[v] = Whole(e)
  BY <1>1, <1>2, <1>3, <1>4 DEF Reels, Alones, Ats, Screens, Wholes, AloneOf, AtOf, ScreenOf
<1>6. \A u \in Views \ {v} :
        /\ Reels'[u] = Reels[u] /\ Alones'[u] = Alones[u] /\ Ats'[u] = Ats[u]
        /\ Screens'[u] = Screens[u] /\ Wholes'[u] = Wholes[u]
  BY <1>3, <1>4 DEF Reels, Alones, Ats, Screens, Wholes, AloneOf, AtOf, ScreenOf
<1>7. /\ Reels[v] = ReelOf(view[v]) /\ Alones[v] = AloneOf(view[v]) /\ Ats[v] = AtOf(view[v])
      /\ Wholes[v] = Whole(view[v])
  BY DEF Reels, Alones, Ats, Wholes
(* A picture that is relied on is that of the frame.                       *)
<1>8. ASSUME Whole(e) PROVE Likeness(e.bitmap, ReelOf(e)[frame])
  <2>1. e.intact /\ Playable(e.grid, e.frame) /\ e.grid \in Grids /\ e.frame \in Frames
    BY <1>2, <1>8 DEF Whole, Attached
  <2> DEFINE image == film[e.grid].images[e.frame]
  <2>2. image \in Images
    BY <2>1 DEF IInv, FilmIsCoded
  <2>3. Faithful(e.bitmap, e.encoding, image, e.frame)
    BY <1>1, <2>1 DEF Showing
  <2>4. Shows(e.bitmap, e.encoding, image, e.frame)
    BY <1>2, <2>2, <2>3, FaithfulShows DEF FrameDecoder
  <2>5. DOMAIN film[e.grid].images = Frames
    BY <2>1 DEF IInv, FilmType
  <2>6. ReelOf(e)[frame] = [image |-> image, frame |-> e.frame, encoding |-> e.encoding]
    BY <1>1, <1>2, <2>1, <2>5 DEF ReelOf, Reel
  <2> HIDE DEF image
  <2> QED BY <2>4, <2>6 DEF Likeness
<1>9. Projection!OnlyOf(v)
  BY <1>6 DEF Projection!OnlyOf, Reels, Alones, Ats, Screens, Wholes, ReelOf, AloneOf, AtOf, ScreenOf, Whole, Opens
<1>10. Projection!TurnTo(v, frame)
  <2>1. Ats'[v] = frame
    BY <1>5
  <2>2. Wholes'[v] => /\ Wholes[v] \/ Alones'[v] \/ frame = 0
                      /\ Likeness(Screens'[v], Reels'[v][frame])
    BY <1>1, <1>2, <1>5, <1>7, <1>8 DEF AloneOf
  <2> QED BY <1>9, <2>1, <2>2
     DEF Projection!TurnTo, Reels, Alones, Ats, Screens, Wholes, ReelOf, AloneOf, AtOf, ScreenOf, Whole, Opens
<1> QED BY <1>2, <1>5, <1>7, <1>10

(* The projectors' own definitions, in these terms.                        *)
LEMMA ProjectorsAre ==
  ASSUME NEW v
  PROVE  /\ Projection!Start(v) <=> Ats[v] = -1 /\ Projection!TurnTo(v, 0)
         /\ Projection!SameFilm(v) <=> Ats[v] # -1 /\ Reels'[v] = Reels[v] /\ Alones'[v] = Alones[v]
         /\ Projection!Restart(v) <=> Projection!SameFilm(v) /\ Projection!TurnTo(v, 0)
         /\ \A frame : frame = (IF Ats[v] + 1 \in DOMAIN Reels[v] THEN Ats[v] + 1 ELSE 0) =>
              (Projection!Advance(v) <=> Projection!SameFilm(v) /\ Projection!TurnTo(v, frame))
<1>1. Projection!Start(v) <=> Ats[v] = -1 /\ Projection!TurnTo(v, 0)
  BY DEF Projection!Start, Projection!Off, Ats, AtOf, Opens
<1>2. Projection!SameFilm(v) <=> Ats[v] # -1 /\ Reels'[v] = Reels[v] /\ Alones'[v] = Alones[v]
  BY DEF Projection!SameFilm, Projection!Off, Ats, Reels, Alones, AtOf, ReelOf, AloneOf, Opens
<1>3. Projection!Restart(v) <=> Projection!SameFilm(v) /\ Projection!TurnTo(v, 0)
  BY DEF Projection!Restart
<1>4. ASSUME NEW frame, frame = IF Ats[v] + 1 \in DOMAIN Reels[v] THEN Ats[v] + 1 ELSE 0
      PROVE  Projection!Advance(v) <=> Projection!SameFilm(v) /\ Projection!TurnTo(v, frame)
  <2>1. Ats = [w \in Views |-> IF Opens[w] THEN view[w].frame ELSE -1]
    BY DEF Ats, AtOf, Opens
  <2>2. Reels = [w \in Views |-> IF Opens[w] THEN Reel(view[w]) ELSE <<>>]
    BY DEF Reels, ReelOf, Opens
  <2> QED BY <1>4, <2>1, <2>2 DEF Projection!Advance, Projection!TurnTo
<1> QED BY <1>1, <1>2, <1>3, <1>4

LEMMA InitProjects ==
  Init => Projection!Init
<1> SUFFICES ASSUME Init PROVE Projection!Init
  OBVIOUS
<1>1. \A v \in Views : view[v].open = FALSE
  BY DEF Init, NoView
<1> QED BY <1>1 DEF Projection!Init, Projection!Dark, Projection!Off, Opens

(* Before a file is written there is nothing to see.                       *)
LEMMA DarkStays ==
  ASSUME IInv, file = NoFile, UNCHANGED view
  PROVE  UNCHANGED Projection!vars
<1>1. \A v \in Views : view[v].open = FALSE
  <2>1. ASSUME NEW v \in Views PROVE view[v].open \in BOOLEAN
    <3>1. view[v] \in {NoView} \union FrameDecoder
      BY DEF IInv, ViewsShow
    <3>2. CASE view[v] = NoView
      BY <3>2 DEF NoView
    <3>3. CASE view[v] \in FrameDecoder
      BY <3>3 DEF FrameDecoder
    <3> QED BY <3>1, <3>2, <3>3
  <2> QED BY <2>1, NothingPlays
<1>2. view' = view
  OBVIOUS
<1>3. /\ Reels' = Reels /\ Alones' = Alones /\ Ats' = Ats
      /\ Screens' = Screens /\ Wholes' = Wholes
  BY <1>1, <1>2 DEF Reels, Alones, Ats, Screens, Wholes, ReelOf, AloneOf, AtOf, ScreenOf, Whole
<1> QED BY <1>3, ProjectionIs

LEMMA PictureStays ==
  ASSUME UNCHANGED <<writer, film, view>>
  PROVE  UNCHANGED Projection!vars
<1>1. \A d : ReelOf(d)' = ReelOf(d) /\ Whole(d)' = Whole(d)
  BY ReelsStay
<1>2. view' = view
  OBVIOUS
<1>3. /\ Reels' = Reels /\ Alones' = Alones /\ Ats' = Ats
      /\ Screens' = Screens /\ Wholes' = Wholes
  BY <1>1, <1>2 DEF Reels, Alones, Ats, Screens, Wholes, AloneOf, AtOf, ScreenOf
<1> QED BY <1>3, ProjectionIs

(* A decoder that goes on keeps its film.                                  *)
LEMMA FilmStays ==
  ASSUME IInv, UNCHANGED <<writer, film>>, NEW v \in Views, view[v].open, NEW e, NEW frame,
         TurnsTo(v, e, view[v].grid, frame)
  PROVE  Projection!SameFilm(v) /\ Projection!TurnTo(v, frame) /\ Ats[v] = view[v].frame
         /\ DOMAIN Reels[v] = Frames
<1> DEFINE d == view[v]
<1>1. /\ Projection!TurnTo(v, frame)
      /\ Ats[v] = AtOf(d) /\ Reels[v] = ReelOf(d) /\ Alones[v] = AloneOf(d)
      /\ Reels'[v] = ReelOf(e) /\ Alones'[v] = AloneOf(e)
      /\ e \in FrameDecoder /\ e.open = TRUE
  BY TurnProjects
<1>2. d \in FrameDecoder /\ Attached(d) /\ d.open
  BY OpenFacts DEF Showing
<1>3. e.grid = d.grid /\ Attached(e)
  BY DEF TurnsTo, Showing
<1> HIDE DEF d
<1>4. e.encoding = d.encoding
  BY <1>2, <1>3 DEF Attached
<1>5. ReelOf(e) = ReelOf(d) /\ AloneOf(e) = AloneOf(d)
  BY <1>1, <1>2, <1>3, <1>4 DEF ReelOf, AloneOf, Reel
<1>6. AtOf(d) = d.frame /\ d.frame \in Nat
  BY <1>2 DEF AtOf, FrameDecoder
<1>7. DOMAIN ReelOf(d) = Frames
  <2>1. DOMAIN film[d.grid].images = Frames
    BY <1>2 DEF Attached, IInv, FilmType
  <2> QED BY <1>2, <2>1 DEF ReelOf, Reel
<1>8. Ats[v] # -1
  BY <1>1, <1>6
<1>9. Projection!SameFilm(v)
  BY <1>1, <1>5, <1>8, ProjectorsAre
<1> QED BY <1>1, <1>6, <1>7, <1>9 DEF d

(* Each step of the program is one of a projector, or is not seen.         *)
LEMMA StepProjects ==
  IInv /\ [Next]_vars => [Projection!Next]_(Projection!vars)
<1> SUFFICES ASSUME IInv, [Next]_vars PROVE Projection!Next \/ UNCHANGED Projection!vars
  OBVIOUS
<1>1. ASSUME NEW grid \in Grids, NEW frame \in 0 .. writer.frames - 1, NEW image \in Images,
             AddFrame(grid, frame, image)
      PROVE  UNCHANGED Projection!vars
  BY <1>1, DarkStays DEF AddFrame
<1>2. ASSUME NEW key \in Keys, NEW value \in Values, SetMetadata(key, value)
      PROVE  UNCHANGED Projection!vars
  BY <1>2, DarkStays DEF SetMetadata
<1>3. CASE WriteData
  BY <1>3, DarkStays DEF WriteData
<1>4. ASSUME NEW stream \in {NoFile, file}, SetStream(stream)
      PROVE  UNCHANGED Projection!vars
  BY <1>4, PictureStays DEF SetStream
<1>5. ASSUME NEW v \in Views, NEW grid \in Grids, OpenDecoder(v, grid)
      PROVE  Projection!Next
  <2>1. UNCHANGED <<writer, film>> /\ ~ view[v].open
    BY <1>5 DEF OpenDecoder
  <2>2. PICK e : TurnsTo(v, e, grid, 0)
    BY <1>5, OpenDecoderTurns
  <2>3. Projection!TurnTo(v, 0) /\ Ats[v] = AtOf(view[v])
    BY <2>1, <2>2, TurnProjects
  <2>4. Ats[v] = -1
    BY <2>1, <2>3 DEF AtOf
  <2>5. Projection!Start(v)
    BY <2>3, <2>4, ProjectorsAre
  <2> QED BY <2>5 DEF Projection!Next
<1>6. ASSUME NEW v \in Views, AdvanceFrame(v)
      PROVE  Projection!Next
  <2>1. UNCHANGED <<writer, film>> /\ view[v].open
    BY <1>6 DEF AdvanceFrame
  <2>2. PICK e, frame : frame = NextIndex(view[v]) /\ TurnsTo(v, e, view[v].grid, frame)
    BY <1>6, AdvanceTurns
  <2>3. view[v].frame \in Nat /\ writer.frames \in Nat \ {0}
    <3>1. writer.frames \in Nat \ {0}
      BY WriterFields DEF IInv, WriterType
    <3> QED BY <2>1, <3>1, OpenFacts DEF FrameDecoder
  <2>4. /\ Projection!SameFilm(v) /\ Projection!TurnTo(v, frame)
        /\ Ats[v] = view[v].frame /\ DOMAIN Reels[v] = Frames
    BY <2>1, <2>2, FilmStays
  (* The reader is there, or it is gone and the decoder starts again.      *)
  <2>5. CASE reader = NoReader
    <3>1. frame = 0
      BY <2>2, <2>3, <2>5 DEF NextIndex, NoReader
    <3>2. Projection!Restart(v)
      BY <2>4, <3>1, ProjectorsAre
    <3> QED BY <3>2 DEF Projection!Next
  <2>6. CASE Reading(reader, writer)
    <3>1. frame = IF view[v].frame + 1 \in Frames THEN view[v].frame + 1 ELSE 0
      BY <2>2, <2>3, <2>6 DEF NextIndex, Reading, Frames
    <3>2. frame = IF Ats[v] + 1 \in DOMAIN Reels[v] THEN Ats[v] + 1 ELSE 0
      BY <2>4, <3>1
    <3>3. Projection!Advance(v)
      BY <2>4, <3>2, ProjectorsAre
    <3> QED BY <3>3 DEF Projection!Next
  <2> QED BY <2>5, <2>6, ReaderFacts
<1>7. ASSUME NEW v \in Views, Restart(v)
      PROVE  Projection!Next
  <2>1. UNCHANGED <<writer, film>> /\ view[v].open
    BY <1>7 DEF Restart
  <2>2. PICK e : TurnsTo(v, e, view[v].grid, 0)
    BY <1>7, RestartTurns
  <2>3. Projection!SameFilm(v) /\ Projection!TurnTo(v, 0)
    BY <2>1, <2>2, FilmStays
  <2>4. Projection!Restart(v)
    BY <2>3, ProjectorsAre
  <2> QED BY <2>4 DEF Projection!Next
<1>8. CASE UNCHANGED vars
  BY <1>8, PictureStays DEF vars
<1> QED BY <1>1, <1>2, <1>3, <1>4, <1>5, <1>6, <1>7, <1>8 DEF Next

(* Decoders are projectors: whatever is written, cut off or not read, each *)
(* visits the frames in turn and around, is not disturbed by another, and  *)
(* what it shows once a read failed is not relied on before a frame that   *)
(* stands on its own.                                                      *)
THEOREM DecodersProject ==
  Spec => DecodersAreProjectors
<1>1. Init => Projection!Init
  BY InitProjects
<1>2. IInv /\ [Next]_vars => [Projection!Next]_(Projection!vars)
  BY StepProjects
<1>3. Spec => []IInv
  BY IInvHolds
<1> QED BY <1>1, <1>2, <1>3, PTL DEF Spec, DecodersAreProjectors, Projection!Spec
=============================================================================
