------------------------ MODULE BitmapLayout_proofs ------------------------
(***************************************************************************)
(* What the loops that compute sizes and addresses come to, for every      *)
(* number of passes.  Induction is stated over sets (SetInduction), so     *)
(* that every proof about a loop is an instance of it: first that the      *)
(* recursive function that models a loop exists and unfolds, then what the *)
(* halvings and sums of Recursion compute, and from these the sizes of     *)
(* bitmaps and the places of their levels.                                 *)
(*                                                                         *)
(* GetDataSize halves the sides of the chain pass by pass, GetMipRawData   *)
(* and GetMipSize shift them; for all sides, blocks, slices and elements   *)
(* the three give the same sizes.                                          *)
(***************************************************************************)
EXTENDS BitmapLayout, WellFoundedInduction, TLAPS

Less == {p \in Nat \X Nat : p[1] < p[2]}

(* Every non-empty set of numbers has a least element.                    *)
LEMMA LeastElement ==
  ASSUME NEW T, T \subseteq Nat, T # {}
  PROVE \E m \in T : \A k \in T : m <= k
<1>0. IsWellFoundedOn(Less, Nat)
  BY NatLessThanWellFounded DEF OpToRel, Less
<1>1. PICK m \in T : \A y \in T : ~ (<<y, m>> \in Less)
  BY <1>0, WFMin
<1>2. ASSUME NEW k \in T PROVE m <= k
  <2>1. m \in Nat /\ k \in Nat /\ <<k, m>> \notin Less
    BY <1>1
  <2>2. ~ (k < m)
    BY <2>1 DEF Less
  <2> QED BY <2>1, <2>2
<1> QED BY <1>2

(* A set that holds 0 and with every number the next one holds them all.  *)
LEMMA SetInduction ==
  ASSUME NEW P, 0 \in P, \A n \in Nat : n \in P => n + 1 \in P
  PROVE  Nat \subseteq P
<1> SUFFICES ASSUME Nat \ P # {} PROVE FALSE
  OBVIOUS
<1>1. PICK m \in Nat \ P : \A k \in Nat \ P : m <= k
  BY LeastElement
<1>2. m # 0 /\ m - 1 \in Nat /\ m - 1 \notin Nat \ P
  BY <1>1
<1>3. m - 1 \in P /\ (m - 1) + 1 = m
  BY <1>2, <1>1
<1> QED BY <1>3, <1>1, <1>2

(* g follows the recursion up to n.                                       *)
Approximates(g, n, f, x0) ==
  /\ g[0] = x0
  /\ \A k \in 0 .. n - 1 : g[k + 1] = f[<<k, g[k]>>]

(* The recursion can be followed to any n ...                             *)
LEMMA ApproximationExists ==
  ASSUME NEW f, NEW x0, NEW n \in Nat
  PROVE  \E g : Approximates(g, n, f, x0)
<1> DEFINE P == {m \in Nat : \E g : Approximates(g, m, f, x0)}
<1>1. 0 \in P
  <2> DEFINE g == [k \in 0 .. 0 |-> x0]
  <2>1. Approximates(g, 0, f, x0)
    BY DEF Approximates
  <2> QED BY <2>1
<1>2. ASSUME NEW m \in Nat, m \in P PROVE m + 1 \in P
  <2>1. PICK g : Approximates(g, m, f, x0)
    BY <1>2
  <2> DEFINE h == [k \in 0 .. m + 1 |-> IF k = m + 1 THEN f[<<m, g[m]>>] ELSE g[k]]
  <2>2. h[0] = x0 /\ h[m + 1] = f[<<m, h[m]>>]
    <3>1. 0 # m + 1 /\ m # m + 1 /\ {0, m, m + 1} \subseteq 0 .. m + 1
      OBVIOUS
    <3>2. h[0] = g[0] /\ h[m] = g[m] /\ h[m + 1] = f[<<m, g[m]>>]
      BY <3>1
    <3> QED BY <3>2, <2>1 DEF Approximates
  <2>3. ASSUME NEW k \in 0 .. (m + 1) - 1 PROVE h[k + 1] = f[<<k, h[k]>>]
    <3>1. CASE k = m BY <3>1, <2>2
    <3>2. CASE k # m
      <4>1. k \in 0 .. m - 1 /\ k + 1 \in 0 .. m /\ k \in 0 .. m + 1 /\ k + 1 \in 0 .. m + 1
            /\ k # m + 1 /\ k + 1 # m + 1
        BY <3>2
      <4> QED BY <4>1, <2>1 DEF Approximates
    <3> QED BY <3>1, <3>2
  <2>4. Approximates(h, m + 1, f, x0)
    BY <2>2, <2>3 DEF Approximates
  <2> HIDE DEF h
  <2> QED BY <2>4
<1> HIDE DEF P
<1>3. Nat \subseteq P
  BY <1>1, <1>2, SetInduction
<1> QED BY <1>3 DEF P

(* ... in only one way.                                                   *)
LEMMA ApproximationsAgree ==
  ASSUME NEW f, NEW x0, NEW n \in Nat, NEW g, NEW h,
         Approximates(g, n, f, x0), Approximates(h, n, f, x0)
  PROVE  \A k \in 0 .. n : g[k] = h[k]
<1> DEFINE P == {m \in Nat : m <= n => g[m] = h[m]}
<1>1. 0 \in P
  BY DEF Approximates
<1>2. ASSUME NEW m \in Nat, m \in P PROVE m + 1 \in P
  <2> SUFFICES ASSUME m + 1 <= n PROVE g[m + 1] = h[m + 1]
    OBVIOUS
  <2>1. m \in 0 .. n - 1 /\ g[m] = h[m]
    BY <1>2
  <2> QED BY <2>1 DEF Approximates
<1> HIDE DEF P
<1>3. Nat \subseteq P
  BY <1>1, <1>2, SetInduction
<1> QED BY <1>3 DEF P

(* r is the sequence of values that a loop carries.                      *)
Follows(r, f, x0) ==
  /\ r = [n \in Nat |-> r[n]]
  /\ r[0] = x0
  /\ \A n \in Nat : r[n + 1] = f[<<n, r[n]>>]

(* A loop that starts with x0 and applies f holds x0 before its first     *)
(* pass, and what f makes of the value of a pass after it: the recursive  *)
(* function that models a loop exists and satisfies its equation.         *)
LEMMA RecursionUnfolds ==
  ASSUME NEW f, NEW x0
  PROVE  Follows(Recursion(f, x0), f, x0)
<1> DEFINE G(n) == CHOOSE g : Approximates(g, n, f, x0)
           Step(r) == [n \in Nat |-> IF n = 0 THEN x0 ELSE f[<<n - 1, r[n - 1]>>]]
           r == [n \in Nat |-> G(n)[n]]
<1>1. ASSUME NEW n \in Nat
      PROVE  Approximates(G(n), n, f, x0)
  BY ApproximationExists
<1> HIDE DEF G
<1>2. r[0] = x0
  BY <1>1 DEF Approximates
<1>3. ASSUME NEW n \in Nat PROVE r[n + 1] = f[<<n, r[n]>>]
  <2>1. Approximates(G(n + 1), n + 1, f, x0) /\ Approximates(G(n), n, f, x0)
    BY <1>1
  <2>2. Approximates(G(n + 1), n, f, x0)
    <3>1. \A k \in 0 .. n - 1 : k \in 0 .. (n + 1) - 1
      OBVIOUS
    <3> QED BY <2>1, <3>1 DEF Approximates
  <2>3. G(n + 1)[n] = G(n)[n]
    BY <2>1, <2>2, ApproximationsAgree, n \in 0 .. n
  <2>4. n \in 0 .. (n + 1) - 1
    OBVIOUS
  <2> QED BY <2>1, <2>3, <2>4 DEF Approximates
<1>4. r = Step(r)
  <2>1. ASSUME NEW n \in Nat PROVE r[n] = Step(r)[n]
    <3>1. CASE n = 0 BY <3>1, <1>2
    <3>2. CASE n # 0
      <4>1. n - 1 \in Nat /\ (n - 1) + 1 = n
        BY <3>2
      <4>2. r[n] = f[<<n - 1, r[n - 1]>>]
        BY <4>1, <1>3
      <4> QED BY <4>2, <3>2
    <3> QED BY <3>1, <3>2
  <2> QED BY <2>1
<1> HIDE DEF r
<1> DEFINE it == Recursion(f, x0)
<1>5. it = Step(it)
  BY <1>4 DEF Recursion
<1> HIDE DEF it
<1>6. it[0] = x0 /\ \A n \in Nat : it[n + 1] = f[<<n, it[n]>>]
  <2>1. ASSUME NEW n \in Nat PROVE it[n + 1] = f[<<n, it[n]>>]
    <3>1. n + 1 \in Nat /\ n + 1 # 0 /\ (n + 1) - 1 = n
      OBVIOUS
    <3> QED BY <3>1, <1>5
  <2> QED BY <2>1, <1>5
<1> QED BY <1>5, <1>6 DEF it, Follows

(* It carries values from S.                                             *)
Unfolds(r, f, x0, S) ==
  /\ r \in [Nat -> S]
  /\ r[0] = x0
  /\ \A n \in Nat : r[n + 1] = f[<<n, r[n]>>]

(* A loop whose passes never leave S carries values from S.              *)
LEMMA RecursionStays ==
  ASSUME NEW S, NEW f, NEW x0 \in S,
         \A n \in Nat, x \in S : f[<<n, x>>] \in S
  PROVE  Unfolds(Recursion(f, x0), f, x0, S)
<1> DEFINE it == Recursion(f, x0)
<1>1. Follows(it, f, x0)
  BY RecursionUnfolds
<1> HIDE DEF it
<1> DEFINE P == {n \in Nat : it[n] \in S}
<1>2. 0 \in P /\ \A n \in Nat : n \in P => n + 1 \in P
  <2>1. ASSUME NEW n \in Nat, it[n] \in S PROVE it[n + 1] \in S
    BY <1>1, <2>1 DEF Follows
  <2> QED BY <2>1, <1>1 DEF Follows
<1> HIDE DEF P
<1>3. Nat \subseteq P
  BY <1>2, SetInduction
<1>4. \A n \in Nat : it[n] \in S
  BY <1>3 DEF P
<1>5. it \in [Nat -> S]
  BY <1>1, <1>4 DEF Follows
<1> QED BY <1>1, <1>5 DEF Unfolds, Follows, it

-----------------------------------------------------------------------------
(* Halvings and sums                                                       *)

Halving   == [p \in Nat \X Nat |-> p[2] \div 2]
Clamping  == [p \in Nat \X Nat |-> Larger(p[2] \div 2, 1)]
Adding(t) == [p \in Nat \X Nat |-> p[2] + t[p[1]]]

(* The loops below count: what they carry is a number.                   *)
LEMMA NatRecursionUnfolds ==
  ASSUME NEW f, f \in [Nat \X Nat -> Nat], NEW x0, x0 \in Nat
  PROVE  Unfolds(Recursion(f, x0), f, x0, Nat)
<1>1. \A n \in Nat, x \in Nat : f[<<n, x>>] \in Nat
  BY \A n \in Nat, x \in Nat : <<n, x>> \in Nat \X Nat
<1> QED BY <1>1, RecursionStays

(* x >> 0 is x, and one more place halves.                               *)
LEMMA ShrUnfolds ==
  ASSUME NEW x \in Nat
  PROVE  /\ Shr(x, 0) = x
         /\ \A n \in Nat : Shr(x, n) \in Nat /\ Shr(x, n + 1) = Shr(x, n) \div 2
<1>1. Halving \in [Nat \X Nat -> Nat]
  BY DEF Halving
<1>2. \A n \in Nat : Shr(x, n) = Recursion(Halving, x)[n]
  BY DEF Shr, Halving
<1>3. Unfolds(Recursion(Halving, x), Halving, x, Nat)
  BY <1>1, NatRecursionUnfolds
<1> DEFINE r == Recursion(Halving, x)
<1> HIDE DEF r
<1>4. ASSUME NEW n \in Nat PROVE r[n] \in Nat /\ r[n + 1] = r[n] \div 2
  BY <1>3 DEF Unfolds, Halving, r
<1>5. ASSUME NEW n \in Nat PROVE Shr(x, n) \in Nat /\ Shr(x, n + 1) = Shr(x, n) \div 2
  <2>1. Shr(x, n) = r[n] /\ Shr(x, n + 1) = r[n + 1]
    BY <1>2, n + 1 \in Nat DEF r
  <2> QED BY <2>1, <1>4
<1> QED BY <1>2, <1>3, <1>5 DEF Unfolds

(* A side is itself before the first halving and never less than one       *)
(* after it.                                                             *)
LEMMA HalvedUnfolds ==
  ASSUME NEW x \in Nat
  PROVE  /\ Halved(x, 0) = x
         /\ \A n \in Nat : Halved(x, n) \in Nat /\ Halved(x, n + 1) = Larger(Halved(x, n) \div 2, 1)
<1>1. Clamping \in [Nat \X Nat -> Nat]
  BY DEF Clamping, Larger
<1>2. \A n \in Nat : Halved(x, n) = Recursion(Clamping, x)[n]
  BY DEF Halved, Clamping
<1>3. Unfolds(Recursion(Clamping, x), Clamping, x, Nat)
  BY <1>1, NatRecursionUnfolds
<1> DEFINE r == Recursion(Clamping, x)
<1> HIDE DEF r
<1>4. ASSUME NEW n \in Nat PROVE r[n] \in Nat /\ r[n + 1] = Larger(r[n] \div 2, 1)
  BY <1>3 DEF Unfolds, Clamping, r
<1>5. ASSUME NEW n \in Nat PROVE Halved(x, n) \in Nat /\ Halved(x, n + 1) = Larger(Halved(x, n) \div 2, 1)
  <2>1. Halved(x, n) = r[n] /\ Halved(x, n + 1) = r[n + 1]
    BY <1>2, n + 1 \in Nat DEF r
  <2> QED BY <2>1, <1>4
<1> QED BY <1>2, <1>3, <1>5 DEF Unfolds

(* The sum of no terms is zero, and of one more term that much more.     *)
LEMMA TotalUnfolds ==
  ASSUME NEW t \in [Nat -> Nat]
  PROVE  /\ Total(t, 0) = 0
         /\ \A n \in Nat : Total(t, n) \in Nat /\ Total(t, n + 1) = Total(t, n) + t[n]
<1>1. Adding(t) \in [Nat \X Nat -> Nat]
  BY DEF Adding
<1>2. \A n \in Nat : Total(t, n) = Recursion(Adding(t), 0)[n]
  BY DEF Total, Adding
<1>3. Unfolds(Recursion(Adding(t), 0), Adding(t), 0, Nat)
  BY <1>1, NatRecursionUnfolds
<1> DEFINE r == Recursion(Adding(t), 0)
<1> HIDE DEF r
<1>4. ASSUME NEW n \in Nat PROVE r[n] \in Nat /\ r[n + 1] = r[n] + t[n]
  BY <1>3 DEF Unfolds, Adding, r
<1>5. ASSUME NEW n \in Nat PROVE Total(t, n) \in Nat /\ Total(t, n + 1) = Total(t, n) + t[n]
  <2>1. Total(t, n) = r[n] /\ Total(t, n + 1) = r[n + 1]
    BY <1>2, n + 1 \in Nat DEF r
  <2> QED BY <2>1, <1>4
<1> QED BY <1>2, <1>3, <1>5 DEF Unfolds

(* The sum of a single term.                                             *)
LEMMA TotalOfOne ==
  ASSUME NEW t \in [Nat -> Nat]
  PROVE  Total(t, 1) = t[0]
<1>1. Total(t, 0) = 0 /\ Total(t, 0 + 1) = Total(t, 0) + t[0]
  BY TotalUnfolds
<1> QED BY <1>1

(* A common factor can be taken out of a sum.                            *)
LEMMA TotalScales ==
  ASSUME NEW t \in [Nat -> Nat], NEW k \in Nat, NEW n \in Nat
  PROVE  Total([i \in Nat |-> t[i] * k], n) = Total(t, n) * k
<1> DEFINE u == [i \in Nat |-> t[i] * k]
           P == {m \in Nat : Total(u, m) = Total(t, m) * k}
<1>0. u \in [Nat -> Nat] /\ \A i \in Nat : u[i] = t[i] * k
  OBVIOUS
<1> HIDE DEF u
<1>1. 0 \in P
  BY <1>0, TotalUnfolds
<1>2. ASSUME NEW m \in Nat, m \in P PROVE m + 1 \in P
  <2>1. Total(u, m + 1) = Total(u, m) + u[m] /\ Total(t, m + 1) = Total(t, m) + t[m]
    BY <1>0, TotalUnfolds
  <2>2. Total(u, m) = Total(t, m) * k /\ u[m] = t[m] * k
    BY <1>0, <1>2
  <2>3. Total(t, m) \in Nat /\ t[m] \in Nat
    BY TotalUnfolds
  <2>4. Total(t, m) * k + t[m] * k = (Total(t, m) + t[m]) * k
    BY <2>3
  <2>5. Total(u, m + 1) = Total(t, m + 1) * k
    BY <2>1, <2>2, <2>4
  <2> QED BY <2>5
<1> HIDE DEF P
<1>3. Nat \subseteq P
  BY <1>1, <1>2, SetInduction
<1> QED BY <1>3 DEF P, u

(* One stays one.                                                        *)
LEMMA HalvedOne ==
  \A n \in Nat : Halved(1, n) = 1
<1> DEFINE P == {n \in Nat : Halved(1, n) = 1}
<1>1. 0 \in P
  BY HalvedUnfolds
<1>2. ASSUME NEW n \in Nat, n \in P PROVE n + 1 \in P
  <2>1. Halved(1, n + 1) = Larger(1 \div 2, 1)
    BY <1>2, HalvedUnfolds
  <2> QED BY <2>1 DEF Larger
<1> HIDE DEF P
<1>3. Nat \subseteq P
  BY <1>1, <1>2, SetInduction
<1> QED BY <1>3 DEF P

(* Halving x at least x times leaves nothing.                            *)
LEMMA ShrVanishes ==
  ASSUME NEW x \in Nat
  PROVE  Shr(x, x) = 0
<1> DEFINE P == {n \in Nat : Shr(x, n) = 0 \/ Shr(x, n) + n <= x}
<1>1. 0 \in P
  BY ShrUnfolds
<1>2. ASSUME NEW n \in Nat, n \in P PROVE n + 1 \in P
  <2>1. Shr(x, n) \in Nat /\ Shr(x, n + 1) = Shr(x, n) \div 2
    BY ShrUnfolds
  <2> DEFINE s == Shr(x, n)
  <2>2. s \in Nat /\ (s = 0 \/ s + n <= x)
    BY <2>1, <1>2
  <2> HIDE DEF s
  <2>3. s \div 2 = 0 \/ (s \div 2) + (n + 1) <= x
    BY <2>2
  <2> QED BY <2>1, <2>3 DEF s
<1> HIDE DEF P
<1>3. x \in P
  BY <1>1, <1>2, SetInduction
<1>4. Shr(x, x) \in Nat
  BY ShrUnfolds
<1> QED BY <1>3, <1>4 DEF P

(* Every number has a length in bits, and it is what the loop that counts  *)
(* halvings until nothing is left returns.                               *)
THEOREM BitLengthCounts ==
  ASSUME NEW x \in Nat
  PROVE  /\ BitLength(x) \in 0 .. x
         /\ Shr(x, BitLength(x)) = 0
         /\ \A m \in 0 .. BitLength(x) - 1 : Shr(x, m) # 0
<1> DEFINE Z == {n \in Nat : Shr(x, n) = 0}
<1>1. x \in Z
  BY ShrVanishes
<1>2. PICK n \in Z : \A k \in Z : n <= k
  BY <1>1, LeastElement
<1>3. n \in 0 .. x /\ Shr(x, n) = 0
  BY <1>1, <1>2
<1>4. \A m \in 0 .. n - 1 : Shr(x, m) # 0
  BY <1>2
<1> QED BY <1>3, <1>4 DEF BitLength

(* Shifting and clamping once is halving and clamping in every pass.       *)
LEMMA ShrClampedIsHalved ==
  ASSUME NEW x \in Nat \ {0}
  PROVE  \A n \in Nat : Larger(Shr(x, n), 1) = Halved(x, n)
<1> DEFINE P == {n \in Nat : Larger(Shr(x, n), 1) = Halved(x, n)}
<1>1. 0 \in P
  BY ShrUnfolds, HalvedUnfolds DEF Larger
<1>2. ASSUME NEW n \in Nat, n \in P PROVE n + 1 \in P
  <2>1. /\ Shr(x, n) \in Nat /\ Shr(x, n + 1) = Shr(x, n) \div 2
        /\ Halved(x, n) \in Nat /\ Halved(x, n + 1) = Larger(Halved(x, n) \div 2, 1)
    BY ShrUnfolds, HalvedUnfolds
  <2> DEFINE s == Shr(x, n)
             c == Halved(x, n)
  <2>2. s \in Nat /\ c = IF s >= 1 THEN s ELSE 1
    BY <2>1, <1>2 DEF Larger
  <2> HIDE DEF s, c
  <2>3. Larger(s \div 2, 1) = Larger(c \div 2, 1)
    BY <2>2 DEF Larger
  <2> QED BY <2>1, <2>3 DEF s, c
<1> HIDE DEF P
<1>3. Nat \subseteq P
  BY <1>1, <1>2, SetInduction
<1> QED BY <1>3 DEF P

-----------------------------------------------------------------------------
(* Sizes                                                                   *)

(* Sizes are multiplied, and stay numbers.                               *)
LEMMA ProductType == \A x, y \in Nat : x * y \in Nat
OBVIOUS

(* What the tables of pixel formats give.                                *)
LEMMA FormatFacts ==
  ASSUME NEW f \in PixelFormat
  PROVE  /\ GetBytesPerPixel(f) \in Nat
         /\ GetBlockByteSize(f) \in Nat
         /\ IsCompressedFormat(f) => GetBlockByteSize(f) \in {8, 16}
         /\ f \in EightBitFormats => ~ IsCompressedFormat(f)
<1> USE DEF PixelFormat, PIXEL_FORMAT_SENTINEL
<1>1. GetBytesPerPixel(f) \in Nat
  BY DEF GetBytesPerPixel
<1>2. GetBlockByteSize(f) \in Nat /\ (IsCompressedFormat(f) => GetBlockByteSize(f) \in {8, 16})
  BY DEF GetBlockByteSize, IsCompressedFormat, IsDds10Format
<1>3. f \in EightBitFormats => ~ IsCompressedFormat(f)
  BY DEF EightBitFormats, IsCompressedFormat, IsDds10Format
<1> QED BY <1>1, <1>2, <1>3

(* A bitmap is its eight fields.                                         *)
LEMMA SameFields ==
  ASSUME NEW b \in Bitmap, NEW c \in Bitmap,
         b.type = c.type, b.format = c.format, b.width = c.width, b.height = c.height,
         b.volumeDepth = c.volumeDepth, b.mipCount = c.mipCount, b.arraySize = c.arraySize,
         b.data = c.data
  PROVE  b = c
BY DEF Bitmap

(* A mip count is a number, also the one computed for a full chain.      *)
LEMMA MipCountType ==
  ASSUME NEW b \in Bitmap
  PROVE  GetTrueMipCount(b) \in Nat
<1>1. Larger(b.width, b.height) \in Nat /\ b.mipCount \in Nat
  BY DEF Bitmap, Larger
<1>2. BitLength(Larger(b.width, b.height)) \in Nat
  BY <1>1, BitLengthCounts
<1> QED BY <1>1, <1>2 DEF GetTrueMipCount

(* A bitmap that is not empty has at least its top level.                *)
LEMMA SomeLevel ==
  ASSUME NEW b \in Bitmap, b.width # 0 \/ b.height # 0
  PROVE  GetTrueMipCount(b) >= 1
<1> DEFINE x == Larger(b.width, b.height)
<1>1. x \in Nat /\ x # 0 /\ b.mipCount \in Nat
  BY DEF Bitmap, Larger
<1> HIDE DEF x
<1>2. BitLength(x) \in Nat /\ Shr(x, BitLength(x)) = 0 /\ Shr(x, 0) = x
  <2>1. BitLength(x) \in 0 .. x /\ Shr(x, BitLength(x)) = 0
    BY <1>1, BitLengthCounts
  <2>2. Shr(x, 0) = x
    BY <1>1, ShrUnfolds
  <2> QED BY <2>1, <2>2
<1>3. BitLength(x) # 0
  BY <1>1, <1>2
<1> QED BY <1>1, <1>2, <1>3 DEF GetTrueMipCount, x

(* The slices of a bitmap.                                               *)
Slices(b) == IF b.type = "3D" THEN b.volumeDepth ELSE 1

(* The pixels of a level, of all levels and elements.                    *)
Texels(b, level) == Halved(b.width, level) * Halved(b.height, level) * Halved(Slices(b), level)
Pixels(b) == Total([i \in Nat |-> Texels(b, i)], GetTrueMipCount(b)) * b.arraySize

LEMMA TexelsType ==
  ASSUME NEW b \in Bitmap, NEW i \in Nat
  PROVE  Texels(b, i) \in Nat
<1>1. b.width \in Nat /\ b.height \in Nat /\ Slices(b) \in Nat
  BY DEF Bitmap, Slices
<1>2. Halved(b.width, i) \in Nat /\ Halved(b.height, i) \in Nat /\ Halved(Slices(b), i) \in Nat
  BY <1>1, HalvedUnfolds
<1> QED BY <1>2, ProductType DEF Texels

(* A level has a number of bytes.                                        *)
LEMMA LevelBytesType ==
  ASSUME NEW b \in Bitmap, NEW i \in Nat
  PROVE  LevelBytes(b, i) \in Nat
<1>1. b.width \in Nat /\ b.height \in Nat /\ Slices(b) \in Nat /\ b.format \in PixelFormat
  BY DEF Bitmap, Slices
<1> DEFINE w == Halved(b.width, i)
           h == Halved(b.height, i)
           d == Halved(Slices(b), i)
<1>2. w \in Nat /\ h \in Nat /\ d \in Nat
  BY <1>1, HalvedUnfolds
<1>3. GetBytesPerPixel(b.format) \in Nat /\ GetBlockByteSize(b.format) \in Nat
  BY <1>1, FormatFacts
<1>4. LevelBytes(b, i) =
        IF IsCompressed(b)
        THEN (Larger(AlignUp4(w), 4) * Larger(AlignUp4(h), 4) * d * GetBlockByteSize(b.format)) \div 16
        ELSE w * h * d * GetBytesPerPixel(b.format)
  BY DEF LevelBytes, Slices
<1> HIDE DEF w, h, d
<1>5. w * h * d * GetBytesPerPixel(b.format) \in Nat
  BY <1>2, <1>3, ProductType
<1> DEFINE x == Larger(AlignUp4(w), 4)
           y == Larger(AlignUp4(h), 4)
<1>6. x \in Nat /\ y \in Nat
  BY <1>2 DEF Larger, AlignUp4
<1> HIDE DEF x, y
<1>7. x * y * d * GetBlockByteSize(b.format) \in Nat
  BY <1>2, <1>3, <1>6, ProductType
<1>8. (x * y * d * GetBlockByteSize(b.format)) \div 16 \in Nat
  BY <1>7
<1> QED BY <1>4, <1>5, <1>8 DEF x, y

(* What GetDataSize returns is a number.                                 *)
LEMMA DataSizeType ==
  ASSUME NEW b \in Bitmap
  PROVE  GetDataSize(b) \in Nat
<1> DEFINE t == [i \in Nat |-> LevelBytes(b, i)]
<1>1. t \in [Nat -> Nat]
  BY LevelBytesType
<1> HIDE DEF t
<1>2. Total(t, GetTrueMipCount(b)) \in Nat
  BY <1>1, TotalUnfolds, MipCountType
<1>3. b.arraySize \in Nat
  BY DEF Bitmap
<1>4. GetDataSize(b) = Total(t, GetTrueMipCount(b)) * b.arraySize
  BY DEF GetDataSize, t
<1> QED BY <1>2, <1>3, <1>4, ProductType

(* The size the dimensions call for does not depend on the buffer.       *)
LEMMA SizeOfDimensions ==
  ASSUME NEW b, NEW c,
         b.type = c.type, b.format = c.format, b.width = c.width, b.height = c.height,
         b.volumeDepth = c.volumeDepth, b.mipCount = c.mipCount, b.arraySize = c.arraySize
  PROVE  GetDataSize(c) = GetDataSize(b)
<1>1. \A i \in Nat : LevelBytes(c, i) = LevelBytes(b, i)
  BY DEF LevelBytes, IsCompressed
<1>2. GetTrueMipCount(c) = GetTrueMipCount(b)
  BY DEF GetTrueMipCount
<1>3. [i \in Nat |-> LevelBytes(c, i)] = [i \in Nat |-> LevelBytes(b, i)]
  BY <1>1
<1> QED BY <1>2, <1>3 DEF GetDataSize

LEMMA DataSizeIgnoresData ==
  ASSUME NEW b \in Bitmap, NEW n
  PROVE  GetDataSize([b EXCEPT !.data = n]) = GetDataSize(b)
<1> DEFINE c == [b EXCEPT !.data = n]
<1>1. /\ c.type = b.type /\ c.format = b.format /\ c.width = b.width /\ c.height = b.height
      /\ c.volumeDepth = b.volumeDepth /\ c.mipCount = b.mipCount /\ c.arraySize = b.arraySize
  BY DEF Bitmap
<1> HIDE DEF c
<1>2. GetDataSize(c) = GetDataSize(b)
  BY <1>1, SizeOfDimensions
<1> QED BY <1>2 DEF c

(* An uncompressed bitmap has so many bytes for each of its pixels.      *)
LEMMA PixelsTimesBytes ==
  ASSUME NEW b \in Bitmap, ~ IsCompressed(b)
  PROVE  /\ Pixels(b) \in Nat
         /\ GetDataSize(b) = Pixels(b) * Bpp(b)
<1> DEFINE t == [i \in Nat |-> Texels(b, i)]
           n == GetTrueMipCount(b)
           a == b.arraySize
<1>1. t \in [Nat -> Nat] /\ n \in Nat /\ Bpp(b) \in Nat /\ a \in Nat
  BY TexelsType, MipCountType, FormatFacts DEF Bitmap, Bpp
<1>2. [i \in Nat |-> LevelBytes(b, i)] = [i \in Nat |-> t[i] * Bpp(b)]
  BY DEF LevelBytes, Texels, Slices, Bpp
<1>3. GetDataSize(b) = Total([i \in Nat |-> t[i] * Bpp(b)], n) * a
  BY <1>2 DEF GetDataSize
<1>4. Pixels(b) = Total(t, n) * a
  BY DEF Pixels
<1> HIDE DEF t, n, a
<1>5. Total([i \in Nat |-> t[i] * Bpp(b)], n) = Total(t, n) * Bpp(b)
  BY <1>1, TotalScales
<1>6. Total(t, n) \in Nat
  BY <1>1, TotalUnfolds
<1>7. \A x, y, z \in Nat : (x * y) * z = (x * z) * y /\ x * z \in Nat
  OBVIOUS
<1> QED BY <1>1, <1>3, <1>4, <1>5, <1>6, <1>7

(* The pixels do not depend on the format or the buffer.                   *)
LEMMA PixelsOfDimensions ==
  ASSUME NEW b, NEW c,
         b.type = c.type, b.width = c.width, b.height = c.height,
         b.volumeDepth = c.volumeDepth, b.mipCount = c.mipCount, b.arraySize = c.arraySize
  PROVE  Pixels(c) = Pixels(b)
<1>1. \A i \in Nat : Texels(c, i) = Texels(b, i)
  BY DEF Texels, Slices
<1>2. GetTrueMipCount(c) = GetTrueMipCount(b)
  BY DEF GetTrueMipCount
<1>3. [i \in Nat |-> Texels(c, i)] = [i \in Nat |-> Texels(b, i)]
  BY <1>1
<1> QED BY <1>2, <1>3 DEF Pixels

LEMMA PixelsIgnoreFormat ==
  ASSUME NEW b \in Bitmap, NEW n, NEW f
  PROVE  Pixels([b EXCEPT !.data = n, !.format = f]) = Pixels(b)
<1> DEFINE c == [b EXCEPT !.data = n, !.format = f]
<1>1. /\ c.type = b.type /\ c.width = b.width /\ c.height = b.height
      /\ c.volumeDepth = b.volumeDepth /\ c.mipCount = b.mipCount /\ c.arraySize = b.arraySize
  BY DEF Bitmap
<1> HIDE DEF c
<1>2. Pixels(c) = Pixels(b)
  BY <1>1, PixelsOfDimensions
<1> QED BY <1>2 DEF c

(* A bitmap of one level is as large as that level.                      *)
LEMMA OneLevel ==
  ASSUME NEW b \in Bitmap, b.mipCount = 1
  PROVE  GetDataSize(b) = LevelBytes(b, 0) * b.arraySize
<1> DEFINE t == [i \in Nat |-> LevelBytes(b, i)]
<1>1. t \in [Nat -> Nat] /\ t[0] = LevelBytes(b, 0)
  BY LevelBytesType
<1>2. GetDataSize(b) = Total(t, 1) * b.arraySize
  BY DEF GetDataSize, GetTrueMipCount
<1> HIDE DEF t
<1>3. Total(t, 1) = t[0]
  BY <1>1, TotalOfOne
<1> QED BY <1>1, <1>2, <1>3

(* The size of the top level.                                            *)
LEMMA TopLevel ==
  ASSUME NEW b \in Bitmap
  PROVE  LevelBytes(b, 0) =
           IF IsCompressed(b)
           THEN (Larger(AlignUp4(b.width), 4) * Larger(AlignUp4(b.height), 4) * Slices(b)
                   * GetBlockByteSize(b.format)) \div 16
           ELSE b.width * b.height * Slices(b) * Bpp(b)
<1>1. b.width \in Nat /\ b.height \in Nat /\ Slices(b) \in Nat
  BY DEF Bitmap, Slices
<1>2. Halved(b.width, 0) = b.width /\ Halved(b.height, 0) = b.height /\ Halved(Slices(b), 0) = Slices(b)
  BY <1>1, HalvedUnfolds
<1> QED BY <1>2 DEF LevelBytes, Slices, Bpp

(* The chains Downsample2x2 and GenerateMipMaps lay out are those that the *)
(* dimensions call for: one slice stays one slice.                       *)
LEMMA FlatChain ==
  ASSUME NEW b \in Bitmap, ~ IsCompressed(b), b.type # "3D", NEW n \in Nat
  PROVE  /\ FlatChainSize(b, n) = Total([i \in Nat |-> LevelBytes(b, i)], n)
         /\ FlatChainSize(b, n) \in Nat
<1> DEFINE t == [i \in Nat |-> LevelBytes(b, i)]
<1>1. t \in [Nat -> Nat]
  BY LevelBytesType
<1>2. \A i \in Nat : LevelBytes(b, i) = Halved(b.width, i) * Halved(b.height, i) * GetBytesPerPixel(b.format)
  <2>1. TAKE i \in Nat
  <2>2. b.width \in Nat /\ b.height \in Nat /\ GetBytesPerPixel(b.format) \in Nat
    BY FormatFacts DEF Bitmap
  <2>3. Halved(b.width, i) \in Nat /\ Halved(b.height, i) \in Nat /\ Halved(1, i) = 1
    BY <2>2, HalvedUnfolds, HalvedOne
  <2>4. \A x, y \in Nat : x * y * 1 = x * y
    OBVIOUS
  <2>5. Halved(b.width, i) * Halved(b.height, i) * 1 = Halved(b.width, i) * Halved(b.height, i)
    BY <2>3, <2>4
  <2> QED BY <2>3, <2>5 DEF LevelBytes
<1>3. t = [i \in Nat |-> Halved(b.width, i) * Halved(b.height, i) * GetBytesPerPixel(b.format)]
  BY <1>2
<1>4. FlatChainSize(b, n) = Total(t, n)
  BY <1>3 DEF FlatChainSize
<1> HIDE DEF t
<1>5. Total(t, n) \in Nat
  BY <1>1, TotalUnfolds
<1> QED BY <1>4, <1>5 DEF t

(* A bitmap whose n levels were laid out in this way is the right size.  *)
LEMMA FlatChainFits ==
  ASSUME NEW b \in Bitmap, NEW c \in Bitmap, ~ IsCompressed(b), b.type # "3D",
         c.type = b.type, c.format = b.format, c.width = b.width, c.height = b.height,
         c.mipCount \in Nat \ {0}
  PROVE  GetDataSize(c) = FlatChainSize(b, c.mipCount) * c.arraySize
<1>1. ~ IsCompressed(c)
  BY DEF IsCompressed
<1>2. FlatChainSize(c, c.mipCount) = Total([i \in Nat |-> LevelBytes(c, i)], c.mipCount)
  BY <1>1, FlatChain
<1>3. GetTrueMipCount(c) = c.mipCount
  BY DEF GetTrueMipCount
<1>4. FlatChainSize(c, c.mipCount) = FlatChainSize(b, c.mipCount)
  BY DEF FlatChainSize
<1> QED BY <1>2, <1>3, <1>4 DEF GetDataSize

(* Dividing a pitch by the width gives the bytes of a pixel back.        *)
LEMMA DivideOut == \A x \in Nat \ {0}, k \in Nat : (x * k) \div x = k
OBVIOUS

(* How far the address of the next level is from that of level i.          *)
Stride(b, i) ==
  GetMipNumRows(b, i) * GetMipPitch(b, i) * Larger(Shr(b.volumeDepth, i), 1)

LEMMA StrideType ==
  ASSUME NEW b \in Bitmap, NEW i \in Nat
  PROVE  Stride(b, i) \in Nat
<1>1. /\ b.width \in Nat /\ b.height \in Nat /\ b.volumeDepth \in Nat
      /\ GetBlockByteSize(b.format) \in Nat /\ GetBytesPerPixel(b.format) \in Nat
  BY FormatFacts DEF Bitmap
<1>2. Shr(b.width, i) \in Nat /\ Shr(b.height, i) \in Nat /\ Shr(b.volumeDepth, i) \in Nat
  BY <1>1, ShrUnfolds
<1>3. GetMipWidth(b, i) \in Nat /\ GetMipHeight(b, i) \in Nat
  BY <1>2, MipCountType DEF GetMipWidth, GetMipHeight, LevelSide, Larger, AlignUp4
<1>4. GetMipWidth(b, i) \div 4 \in Nat /\ GetMipHeight(b, i) \div 4 \in Nat
  BY <1>3
<1>5. GetMipNumRows(b, i) \in Nat /\ GetMipPitch(b, i) \in Nat
  BY <1>1, <1>3, <1>4, ProductType DEF GetMipNumRows, GetMipPitch
<1>6. Larger(Shr(b.volumeDepth, i), 1) \in Nat
  BY <1>2 DEF Larger
<1> QED BY <1>5, <1>6, ProductType DEF Stride

(* The second level of the first element is one stride into the buffer, if *)
(* there is one.                                                           *)
LEMMA SecondLevelAddress ==
  ASSUME NEW b \in Bitmap
  PROVE  \/ GetMipRawData(b, 1, 0) = NullPointer
         \/ GetMipRawData(b, 1, 0) = Stride(b, 0) /\ GetTrueMipCount(b) > 1
<1> DEFINE t == [i \in Nat |-> Stride(b, i)]
<1>1. t \in [Nat -> Nat] /\ t[0] = Stride(b, 0)
  BY StrideType
<1>2. GetTrueMipCount(b) \in Nat
  BY MipCountType
<1>3. \/ GetMipRawData(b, 1, 0) = NullPointer
      \/ GetMipRawData(b, 1, 0) = Total(t, 1) + 0 /\ ~ (1 >= GetTrueMipCount(b))
  BY DEF GetMipRawData, Stride
<1> HIDE DEF t
<1>4. Total(t, 1) = Stride(b, 0) /\ Stride(b, 0) \in Nat
  BY <1>1, TotalOfOne, StrideType
<1> QED BY <1>2, <1>3, <1>4

-----------------------------------------------------------------------------
(* One level                                                               *)

(* Two loops that add the same terms come to the same sum.                 *)
LEMMA TotalsAgree ==
  ASSUME NEW t \in [Nat -> Nat], NEW u \in [Nat -> Nat], NEW n \in Nat,
         \A i \in Nat : i < n => t[i] = u[i]
  PROVE  Total(t, n) = Total(u, n)
<1> DEFINE P == {m \in Nat : m <= n => Total(t, m) = Total(u, m)}
<1>1. 0 \in P
  BY TotalUnfolds
<1>2. ASSUME NEW m \in Nat, m \in P PROVE m + 1 \in P
  <2> SUFFICES ASSUME m + 1 <= n PROVE Total(t, m + 1) = Total(u, m + 1)
    OBVIOUS
  <2>1. Total(t, m) = Total(u, m) /\ t[m] = u[m]
    BY <1>2
  <2>2. Total(t, m + 1) = Total(t, m) + t[m] /\ Total(u, m + 1) = Total(u, m) + u[m]
    BY TotalUnfolds
  <2> QED BY <2>1, <2>2
<1> HIDE DEF P
<1>3. n \in P
  BY <1>1, <1>2, SetInduction
<1> QED BY <1>3 DEF P

(* Nothing, shifted, is nothing ...                                        *)
LEMMA ShrOfNothing ==
  \A n \in Nat : Shr(0, n) = 0
<1> DEFINE P == {n \in Nat : Shr(0, n) = 0}
<1>1. 0 \in P
  BY ShrUnfolds
<1>2. ASSUME NEW n \in Nat, n \in P PROVE n + 1 \in P
  BY <1>2, ShrUnfolds
<1> HIDE DEF P
<1>3. Nat \subseteq P
  BY <1>1, <1>2, SetInduction
<1> QED BY <1>3 DEF P

(* ... and, halved and clamped, at most one.                               *)
LEMMA HalvedNothing ==
  \A n \in Nat : Halved(0, n) = 0 \/ Halved(0, n) = 1
<1> DEFINE P == {n \in Nat : Halved(0, n) = 0 \/ Halved(0, n) = 1}
<1>1. 0 \in P
  BY HalvedUnfolds
<1>2. ASSUME NEW n \in Nat, n \in P PROVE n + 1 \in P
  <2>1. Halved(0, n + 1) = Larger(Halved(0, n) \div 2, 1)
    BY HalvedUnfolds
  <2>2. Larger(0 \div 2, 1) = 1 /\ Larger(1 \div 2, 1) = 1
    BY DEF Larger
  <2>3. Halved(0, n) = 0 \/ Halved(0, n) = 1
    BY <1>2
  <2>4. Halved(0, n + 1) = 1
    BY <2>1, <2>2, <2>3
  <2> QED BY <2>4
<1> HIDE DEF P
<1>3. Nat \subseteq P
  BY <1>1, <1>2, SetInduction
<1> QED BY <1>3 DEF P

(* Shifting twice shifts by the sum.                                       *)
LEMMA ShrAdds ==
  ASSUME NEW x \in Nat, NEW k \in Nat
  PROVE  \A n \in Nat : Shr(Shr(x, k), n) = Shr(x, k + n)
<1> DEFINE P == {n \in Nat : Shr(Shr(x, k), n) = Shr(x, k + n)}
<1>0. Shr(x, k) \in Nat
  BY ShrUnfolds
<1>1. 0 \in P
  BY <1>0, ShrUnfolds
<1>2. ASSUME NEW n \in Nat, n \in P PROVE n + 1 \in P
  <2>1. Shr(Shr(x, k), n + 1) = Shr(Shr(x, k), n) \div 2
    BY <1>0, ShrUnfolds
  <2>2. k + n \in Nat /\ (k + n) + 1 = k + (n + 1)
    OBVIOUS
  <2>3. Shr(x, k + (n + 1)) = Shr(x, k + n) \div 2
    BY <2>2, ShrUnfolds
  <2> QED BY <1>2, <2>1, <2>3
<1> HIDE DEF P
<1>3. Nat \subseteq P
  BY <1>1, <1>2, SetInduction
<1> QED BY <1>3 DEF P

(* A sum is that of its first terms and that of the rest.                  *)
LEMMA TotalSplits ==
  ASSUME NEW t \in [Nat -> Nat], NEW k \in Nat
  PROVE  \A n \in Nat : Total(t, k + n) = Total(t, k) + Total([i \in Nat |-> t[k + i]], n)
<1> DEFINE u == [i \in Nat |-> t[k + i]]
           P == {n \in Nat : Total(t, k + n) = Total(t, k) + Total(u, n)}
<1>0. u \in [Nat -> Nat] /\ \A i \in Nat : u[i] = t[k + i]
  OBVIOUS
<1> HIDE DEF u
<1>1. 0 \in P
  <2>1. Total(u, 0) = 0 /\ Total(t, k) \in Nat
    BY <1>0, TotalUnfolds
  <2> QED BY <2>1
<1>2. ASSUME NEW n \in Nat, n \in P PROVE n + 1 \in P
  <2>1. Total(u, n + 1) = Total(u, n) + u[n] /\ Total(u, n) \in Nat /\ u[n] \in Nat
    BY <1>0, TotalUnfolds
  <2>2. k + n \in Nat /\ (k + n) + 1 = k + (n + 1)
    OBVIOUS
  <2>3. Total(t, k + (n + 1)) = Total(t, k + n) + t[k + n] /\ Total(t, k) \in Nat
    BY <2>2, TotalUnfolds
  <2>4. u[n] = t[k + n] /\ Total(t, k + n) = Total(t, k) + Total(u, n)
    BY <1>0, <1>2
  <2>5. Total(t, k + (n + 1)) = Total(t, k) + Total(u, n + 1)
    BY <2>1, <2>3, <2>4
  <2> QED BY <2>5
<1> HIDE DEF P
<1>3. Nat \subseteq P
  BY <1>1, <1>2, SetInduction
<1> QED BY <1>3 DEF P, u

(* A sum grows with the number of its terms.                               *)
LEMMA TotalGrows ==
  ASSUME NEW t \in [Nat -> Nat], NEW m \in Nat, NEW n \in Nat, m <= n
  PROVE  Total(t, m) <= Total(t, n)
<1> DEFINE u == [i \in Nat |-> t[m + i]]
<1>1. n - m \in Nat /\ m + (n - m) = n
  OBVIOUS
<1>2. Total(t, m + (n - m)) = Total(t, m) + Total(u, n - m)
  BY <1>1, TotalSplits
<1>3. u \in [Nat -> Nat]
  OBVIOUS
<1> HIDE DEF u
<1>4. Total(u, n - m) \in Nat /\ Total(t, m) \in Nat
  BY <1>1, <1>3, TotalUnfolds
<1>5. Total(t, n) = Total(t, m) + Total(u, n - m)
  BY <1>1, <1>2
<1> QED BY <1>4, <1>5

(* A side that was shifted to nothing takes as many blocks as one that     *)
(* stopped at one pixel.                                                   *)
LEMMA BlocksAgree ==
  ASSUME NEW x \in Nat, NEW i \in Nat
  PROVE  \E k \in Nat : /\ Larger(AlignUp4(Shr(x, i)), 4) = 4 * k
                        /\ Larger(AlignUp4(Halved(x, i)), 4) = 4 * k
<1> DEFINE s == Shr(x, i)
           c == Halved(x, i)
<1>1. s \in Nat /\ (c = Larger(s, 1) \/ (s = 0 /\ c = 0))
  <2>1. CASE x # 0
    BY <2>1, ShrUnfolds, ShrClampedIsHalved
  <2>2. CASE x = 0
    <3>1. s = 0 /\ (c = 0 \/ c = 1)
      BY <2>2, ShrOfNothing, HalvedNothing
    <3> QED BY <3>1 DEF Larger
  <2> QED BY <2>1, <2>2
<1> HIDE DEF s, c
<1>2. AlignUp4(Larger(s, 1)) = (IF s = 0 THEN 4 ELSE AlignUp4(s)) /\ AlignUp4(0) = 0
  BY <1>1 DEF AlignUp4, Larger
<1>3. Larger(AlignUp4(s), 4) = Larger(AlignUp4(Larger(s, 1)), 4)
  BY <1>2 DEF Larger
<1>4. \E k \in Nat : Larger(AlignUp4(s), 4) = 4 * k
  <2> DEFINE q == (s + 3) \div 4
  <2>1. q \in Nat /\ AlignUp4(s) = q * 4
    BY <1>1 DEF AlignUp4
  <2> HIDE DEF q
  <2>2. Larger(AlignUp4(s), 4) = 4 * Larger(q, 1) /\ Larger(q, 1) \in Nat
    BY <2>1 DEF Larger
  <2> QED BY <2>2
<1>5. Larger(AlignUp4(c), 4) = Larger(AlignUp4(s), 4)
  BY <1>1, <1>2, <1>3 DEF Larger
<1> QED BY <1>4, <1>5 DEF s, c

(* A bitmap with something in every direction, as deep as its type says;   *)
(* no rows at all still make a row of blocks.                              *)
Solid(b) ==
  /\ b \in Bitmap
  /\ b.width # 0 /\ (b.height # 0 \/ IsCompressed(b)) /\ b.volumeDepth # 0
  /\ b.type # "3D" => b.volumeDepth = 1

(* The slices of a level, counted in three ways.                           *)
LEMMA DepthsAgree ==
  ASSUME NEW b, Solid(b), NEW i \in Nat, i < GetTrueMipCount(b)
  PROVE  \E d \in Nat : /\ Larger(Shr(b.volumeDepth, i), 1) = d
                        /\ GetMipDepth(b, i) = d
                        /\ Halved(Slices(b), i) = d
<1>1. b.volumeDepth \in Nat \ {0} /\ b \in Bitmap /\ (b.type # "3D" => b.volumeDepth = 1)
  BY DEF Solid, Bitmap
<1>2. Larger(Shr(b.volumeDepth, i), 1) = Halved(b.volumeDepth, i) /\ Halved(b.volumeDepth, i) \in Nat
  BY <1>1, ShrClampedIsHalved, HalvedUnfolds
<1>3. Slices(b) = b.volumeDepth
  BY <1>1 DEF Slices
<1>4. ~ (i >= GetTrueMipCount(b))
  BY <1>1, MipCountType
<1>5. GetMipDepth(b, i) = Halved(b.volumeDepth, i)
  <2>1. CASE b.type = "3D"
    BY <1>2, <1>4, <2>1 DEF GetMipDepth
  <2>2. CASE b.type # "3D"
    BY <1>1, <2>2, HalvedOne DEF GetMipDepth
  <2> QED BY <2>1, <2>2
<1> QED BY <1>2, <1>3, <1>5

(* The size of a level: as GetDataSize adds it, as GetMipRawData steps     *)
(* over it, as GetMipSize tells it, and as pitch, rows and slices.         *)
LEMMA LevelSizesAgree ==
  ASSUME NEW b, Solid(b), NEW i \in Nat, i < GetTrueMipCount(b)
  PROVE  /\ Stride(b, i) = LevelBytes(b, i)
         /\ GetMipSize(b, i) = LevelBytes(b, i)
         /\ GetMipSize(b, i) = GetMipPitch(b, i) * GetMipNumRows(b, i) * GetMipDepth(b, i)
<1> DEFINE block == GetBlockByteSize(b.format)
<1>1. b.width \in Nat \ {0} /\ b.height \in Nat /\ b \in Bitmap
  BY DEF Solid, Bitmap
<1>2. ~ (i >= GetTrueMipCount(b))
  BY <1>1, MipCountType
<1>3. PICK d \in Nat : /\ Larger(Shr(b.volumeDepth, i), 1) = d
                       /\ GetMipDepth(b, i) = d
                       /\ Halved(Slices(b), i) = d
  BY DepthsAgree
<1>4. block \in Nat /\ Bpp(b) \in Nat
  BY <1>1, FormatFacts DEF Bitmap, Bpp
<1>5. CASE IsCompressed(b)
  <2>1. PICK x \in Nat : /\ Larger(AlignUp4(Shr(b.width, i)), 4) = 4 * x
                         /\ Larger(AlignUp4(Halved(b.width, i)), 4) = 4 * x
    BY <1>1, BlocksAgree
  <2>2. PICK y \in Nat : /\ Larger(AlignUp4(Shr(b.height, i)), 4) = 4 * y
                         /\ Larger(AlignUp4(Halved(b.height, i)), 4) = 4 * y
    BY <1>1, BlocksAgree
  <2>3. GetMipWidth(b, i) = 4 * x /\ GetMipHeight(b, i) = 4 * y
    BY <1>2, <1>5, <2>1, <2>2 DEF GetMipWidth, GetMipHeight, LevelSide
  <2>4. GetMipPitch(b, i) = x * block /\ GetMipNumRows(b, i) = y
    BY <1>5, <2>3 DEF GetMipPitch, GetMipNumRows
  <2>5. GetMipSize(b, i) = (((4 * x) * (4 * y) * d) \div 16) * block
    BY <1>3, <1>5, <2>3 DEF GetMipSize
  <2>6. LevelBytes(b, i) = ((4 * x) * (4 * y) * d * block) \div 16
    BY <1>3, <1>5, <2>1, <2>2 DEF LevelBytes, Slices
  <2>7. Stride(b, i) = y * (x * block) * d
    BY <1>3, <2>4 DEF Stride
  <2> HIDE DEF block
  <2>8. x * y * d \in Nat /\ x * y * d * block \in Nat
    BY <1>4, ProductType
  <2>9. (4 * x) * (4 * y) * d = 16 * (x * y * d) /\ (4 * x) * (4 * y) * d * block = 16 * (x * y * d * block)
    BY <1>4
  <2>10. GetMipSize(b, i) = x * y * d * block /\ LevelBytes(b, i) = x * y * d * block
    BY <2>5, <2>6, <2>8, <2>9
  <2>11. y * (x * block) * d = x * y * d * block /\ x * block * y * d = x * y * d * block
    BY <1>4
  <2> QED BY <1>3, <2>4, <2>7, <2>10, <2>11
<1>6. CASE ~ IsCompressed(b)
  <2> DEFINE x == Halved(b.width, i)
             y == Halved(b.height, i)
  <2>1. x \in Nat /\ y \in Nat /\ Larger(Shr(b.width, i), 1) = x /\ Larger(Shr(b.height, i), 1) = y
    <3>1. b.height # 0
      BY <1>6 DEF Solid
    <3> QED BY <1>1, <3>1, HalvedUnfolds, ShrClampedIsHalved
  <2>2. LevelBytes(b, i) = x * y * d * Bpp(b)
    BY <1>3, <1>6 DEF LevelBytes, Slices, Bpp
  <2> HIDE DEF x, y
  <2>3. GetMipWidth(b, i) = x /\ GetMipHeight(b, i) = y
    BY <1>2, <1>6, <2>1 DEF GetMipWidth, GetMipHeight, LevelSide
  <2>4. GetMipPitch(b, i) = x * Bpp(b) /\ GetMipNumRows(b, i) = y
    BY <1>6, <2>3 DEF GetMipPitch, GetMipNumRows, Bpp
  <2>5. GetMipSize(b, i) = x * y * d * Bpp(b)
    BY <1>3, <1>6, <2>3 DEF GetMipSize, Bpp
  <2>6. Stride(b, i) = y * (x * Bpp(b)) * d
    BY <1>3, <2>4 DEF Stride
  <2>7. y * (x * Bpp(b)) * d = x * y * d * Bpp(b) /\ x * Bpp(b) * y * d = x * y * d * Bpp(b)
    BY <1>4, <2>1
  <2> QED BY <1>3, <2>2, <2>4, <2>5, <2>6, <2>7
<1> QED BY <1>5, <1>6

-----------------------------------------------------------------------------
(* All levels of all elements                                              *)

(* A buffer of the size the dimensions call for is divided evenly among    *)
(* the elements of the array, and the steps of GetMipRawData fill one.     *)
LEMMA ElementIsItsLevels ==
  ASSUME NEW b, Solid(b), Exact(b), b.arraySize >= 1
  PROVE  /\ b.arraySize * GetArrayElementSize(b) = b.data
         /\ GetArrayElementSize(b) = Total([k \in Nat |-> Stride(b, k)], GetTrueMipCount(b))
<1> DEFINE s == [k \in Nat |-> Stride(b, k)]
           t == [k \in Nat |-> LevelBytes(b, k)]
           n == GetTrueMipCount(b)
           a == b.arraySize
<1>1. b \in Bitmap
  BY DEF Solid
<1>2. s \in [Nat -> Nat] /\ t \in [Nat -> Nat] /\ n \in Nat /\ a \in Nat \ {0}
  BY <1>1, StrideType, LevelBytesType, MipCountType DEF Bitmap
<1>3. \A k \in Nat : k < n => s[k] = t[k]
  BY LevelSizesAgree
<1>4. b.data = Total(t, n) * a
  BY DEF Exact, GetDataSize
<1>5. GetArrayElementSize(b) = b.data \div a
  BY DEF GetArrayElementSize
<1> HIDE DEF s, t, n, a
<1>6. Total(s, n) = Total(t, n) /\ Total(t, n) \in Nat
  BY <1>2, <1>3, TotalsAgree, TotalUnfolds
<1>7. \A x \in Nat : x * a = a * x
  BY <1>2
<1>8. GetArrayElementSize(b) = Total(t, n)
  BY <1>2, <1>4, <1>5, <1>6, <1>7, DivideOut
<1> QED BY <1>4, <1>6, <1>7, <1>8 DEF s, n, a

(* The address of a level is what the levels and elements before it take.  *)
LEMMA LevelAddress ==
  ASSUME NEW b, b \in Bitmap, IsValid(b), GetArrayElementSize(b) \in Nat,
         NEW level \in Nat, level < GetTrueMipCount(b), NEW i \in Nat, i < b.arraySize
  PROVE  GetMipRawData(b, level, i)
           = Total([k \in Nat |-> Stride(b, k)], level) + GetArrayElementSize(b) * i
<1> DEFINE e == GetArrayElementSize(b)
           t == Total([k \in Nat |-> Stride(b, k)], level)
<1>1. ~ (level >= GetTrueMipCount(b)) /\ ~ (i >= b.arraySize)
  BY MipCountType DEF Bitmap
<1>2. GetMipRawData(b, level, i) = t + (IF i > 0 THEN e * i ELSE 0)
  BY <1>1 DEF GetMipRawData, Stride
<1>3. (IF i > 0 THEN e * i ELSE 0) = e * i
  <2> HIDE DEF e
  <2>1. e \in Nat
    BY DEF e
  <2>2. e * 0 = 0
    BY <2>1
  <2> QED BY <2>2
<1> QED BY <1>2, <1>3

-----------------------------------------------------------------------------
(* Sums and sides that are compared, for the loops over the levels         *)

(* Products grow with their factors.                                       *)
LEMMA ProductGrows ==
  ASSUME NEW x \in Nat, NEW y \in Nat, NEW k \in Nat, x <= y
  PROVE  x * k \in Nat /\ x * k <= y * k
<1>1. y - x \in Nat /\ y = x + (y - x)
  OBVIOUS
<1>2. PICK z \in Nat : y = x + z
  BY <1>1
<1>3. z * k \in Nat /\ x * k \in Nat
  BY ProductType
<1>4. (x + z) * k = x * k + z * k
  OBVIOUS
<1> QED BY <1>2, <1>3, <1>4

(* Sums of terms that are not larger are not larger.                       *)
LEMMA TotalsCompare ==
  ASSUME NEW t \in [Nat -> Nat], NEW u \in [Nat -> Nat], \A i \in Nat : t[i] <= u[i]
  PROVE  \A n \in Nat : Total(t, n) <= Total(u, n)
<1> DEFINE P == {n \in Nat : Total(t, n) <= Total(u, n)}
<1>1. 0 \in P
  BY TotalUnfolds
<1>2. ASSUME NEW n \in Nat, n \in P PROVE n + 1 \in P
  <2>1. Total(t, n) \in Nat /\ Total(t, n + 1) = Total(t, n) + t[n]
    BY TotalUnfolds
  <2>2. Total(u, n) \in Nat /\ Total(u, n + 1) = Total(u, n) + u[n]
    BY TotalUnfolds
  <2>3. t[n] \in Nat /\ u[n] \in Nat /\ t[n] <= u[n] /\ Total(t, n) <= Total(u, n)
    BY <1>2
  <2> QED BY <2>1, <2>2, <2>3
<1> HIDE DEF P
<1>3. Nat \subseteq P
  BY <1>1, <1>2, SetInduction
<1> QED BY <1>3 DEF P

(* A sum does not grow where there is nothing to add.                      *)
LEMMA TotalStays ==
  ASSUME NEW t \in [Nat -> Nat], NEW m \in Nat, \A i \in Nat : i >= m => t[i] = 0
  PROVE  \A n \in Nat : Total(t, n) <= Total(t, m)
<1> DEFINE P == {n \in Nat : Total(t, n) <= Total(t, m)}
<1>0. Total(t, m) \in Nat
  BY TotalUnfolds
<1>1. 0 \in P
  BY <1>0, TotalUnfolds
<1>2. ASSUME NEW n \in Nat, n \in P PROVE n + 1 \in P
  <2>1. Total(t, n) \in Nat /\ Total(t, n + 1) = Total(t, n) + t[n] /\ Total(t, n + 1) \in Nat
    BY TotalUnfolds
  <2>2. CASE n >= m
    BY <1>2, <2>1, <2>2
  <2>3. CASE n + 1 <= m
    BY <2>3, TotalGrows
  <2> QED BY <2>2, <2>3
<1> HIDE DEF P
<1>3. Nat \subseteq P
  BY <1>1, <1>2, SetInduction
<1> QED BY <1>3 DEF P

(* A side that was shifted to nothing stays nothing.                       *)
LEMMA ShrStaysNothing ==
  ASSUME NEW x \in Nat, NEW m \in Nat, Shr(x, m) = 0
  PROVE  \A n \in Nat : n >= m => Shr(x, n) = 0
<1> SUFFICES ASSUME NEW n \in Nat, n >= m PROVE Shr(x, n) = 0
  OBVIOUS
<1>1. n - m \in Nat /\ m + (n - m) = n
  OBVIOUS
<1>2. \A k \in Nat : Shr(Shr(x, m), k) = Shr(x, m + k)
  BY ShrAdds
<1>3. Shr(0, n - m) = Shr(x, m + (n - m))
  BY <1>1, <1>2
<1> QED BY <1>1, <1>3, ShrOfNothing

(* The multiples of a number that is not larger lie lower.                 *)
LEMMA MultiplesLieLower ==
  ASSUME NEW x \in Nat, NEW y \in Nat, NEW i \in Nat, NEW j \in Nat, x <= y, i < j
  PROVE  x * i \in Nat /\ y * j \in Nat /\ x * i + x <= y * j
<1>1. x * i \in Nat /\ y * j \in Nat /\ x * j \in Nat
  BY ProductType
<1>2. (i + 1) * x <= j * x
  BY ProductGrows
<1>3. (i + 1) * x = x * i + x /\ j * x = x * j
  OBVIOUS
<1>4. x * j <= y * j
  BY ProductGrows
<1> QED BY <1>1, <1>2, <1>3, <1>4

(* A side that halves evenly does not vanish.                              *)
LEMMA EvenSidesStay ==
  ASSUME NEW x \in Nat \ {0}
  PROVE  \A n \in Nat : (\A k \in Nat : k < n => Shr(x, k) % 2 = 0) => Shr(x, n) # 0
<1> DEFINE P == {n \in Nat : (\A k \in Nat : k < n => Shr(x, k) % 2 = 0) => Shr(x, n) # 0}
<1>1. 0 \in P
  BY ShrUnfolds
<1>2. ASSUME NEW n \in Nat, n \in P PROVE n + 1 \in P
  <2> SUFFICES ASSUME \A k \in Nat : k < n + 1 => Shr(x, k) % 2 = 0 PROVE Shr(x, n + 1) # 0
    OBVIOUS
  <2>1. Shr(x, n) # 0 /\ Shr(x, n) % 2 = 0
    BY <1>2
  <2>2. Shr(x, n) \in Nat /\ Shr(x, n + 1) = Shr(x, n) \div 2
    BY ShrUnfolds
  <2> QED BY <2>1, <2>2
<1> HIDE DEF P
<1>3. Nat \subseteq P
  BY <1>1, <1>2, SetInduction
<1> QED BY <1>3 DEF P

(* Half of a side that does not vanish, at a level: the side of the half.  *)
LEMMA HalfOfShifted ==
  ASSUME NEW x \in Nat, NEW k \in Nat, Shr(x, k + 1) # 0
  PROVE  Shr(x, k) \div 2 = Halved(x \div 2, k) /\ Halved(x \div 2, k) \in Nat
<1>1. Shr(x, k) \in Nat /\ Shr(x, k + 1) = Shr(x, k) \div 2 /\ Shr(x, 0) = x
  BY ShrUnfolds
<1>2. Shr(x, 1) = x \div 2
  <2>1. Shr(x, 0 + 1) = Shr(x, 0) \div 2
    BY ShrUnfolds
  <2> QED BY <1>1, <2>1
<1>3. Shr(Shr(x, 1), k) = Shr(x, 1 + k)
  BY ShrAdds
<1>4. Shr(x \div 2, k) = Shr(x, k + 1)
  BY <1>2, <1>3
<1>5. x \div 2 # 0 /\ x \div 2 \in Nat
  <2>1. x \div 2 = 0 => Shr(x, k + 1) = 0
    BY <1>4, ShrOfNothing
  <2> QED BY <2>1
<1>6. Larger(Shr(x \div 2, k), 1) = Halved(x \div 2, k) /\ Shr(x \div 2, k) \in Nat
  BY <1>5, ShrClampedIsHalved, ShrUnfolds
<1> QED BY <1>1, <1>4, <1>6 DEF Larger
=============================================================================
