---------------------------- MODULE Recursion ----------------------------
(***************************************************************************)
(* Loops that carry a value from one pass to the next.  The functions here *)
(* are the shape of every counting loop of the modelled code; what they    *)
(* compute for every input is proved in BitmapLayout_proofs.                *)
(***************************************************************************)
EXTENDS Integers

(* The value a loop holds before its n-th pass: x0 before the first one,   *)
(* and pass n turns the value v into f[<<n, v>>].                          *)
Recursion(f, x0) ==
  LET r[n \in Nat] == IF n = 0 THEN x0 ELSE f[<<n - 1, r[n - 1]>>]
  IN  r

Larger(a, b)  == IF a >= b THEN a ELSE b
Smaller(a, b) == IF a <= b THEN a ELSE b

(* x >> n : n times halved, rounding down.                                 *)
Shr(x, n) == Recursion([p \in Nat \X Nat |-> p[2] \div 2], x)[n]

(* side = std::max(side / 2, 1), n times.                                  *)
Halved(side, n) == Recursion([p \in Nat \X Nat |-> Larger(p[2] \div 2, 1)], side)[n]

(* The sum of term[0], ..., term[n - 1].                                   *)
Total(term, n) == Recursion([p \in Nat \X Nat |-> p[2] + term[p[1]]], 0)[n]

(* The number of halvings that take x to zero: its length in bits.         *)
BitLength(x) ==
  CHOOSE n \in 0 .. x : Shr(x, n) = 0 /\ \A m \in 0 .. n - 1 : Shr(x, m) # 0
=============================================================================
