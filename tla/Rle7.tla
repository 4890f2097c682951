------------------------------- MODULE Rle7 -------------------------------
(***************************************************************************)
(* EncodeRle7 and DecodeRle7 (VtaHandler.cpp): the run-length code of a    *)
(* volume animation.  Values have lost their low bits, so that the lowest  *)
(* one can say whether a length follows; a frame that is not the first is  *)
(* coded as the difference from the one before it.                         *)
(***************************************************************************)
EXTENDS Recursion, Sequences

CONSTANT LengthMax   \* the largest length of a length byte: 255 in the code

ASSUME LengthMaxAssumption == LengthMax \in 1 .. 255

Byte == 0 .. 255

(* uint8_t arithmetic.                                                     *)
Plus(a, b)  == (a + b) % 256
Minus(a, b) == (a - b + 256) % 256

-----------------------------------------------------------------------------
(* Encoding                                                                *)

(* The bits of a value that are dropped count less than this.              *)
Grain(bits) == Larger(2^(8 - bits), 2)

(* value & mask                                                            *)
Masked(value, bits) == value - (value % Grain(bits))

(* What the encoder has written, the value of the run it is in, and how    *)
(* often that value has come again.                                        *)
Run == [out : Seq(Byte), current : Byte, len : 0 .. LengthMax]

(* Mutant: a length is written for a value that came only once.            *)
Flushed_AlwaysLength(run) == run.out \o <<run.current + 1, run.len>>

(* The run goes out: an odd byte announces its length.                     *)
Flushed(run) ==
  run.out \o IF run.len = 0 THEN <<run.current>> ELSE <<run.current + 1, run.len>>

(* Mutant: the length is not kept below what a byte holds.                 *)
Extended_Unlimited(run, next) ==
  IF next # run.current
  THEN [out |-> Flushed(run), current |-> next, len |-> 0]
  ELSE [run EXCEPT !.len = IF @ = LengthMax THEN 0 ELSE @ + 1]

(* One pass of the loop.                                                   *)
Extended(run, next) ==
  IF next # run.current \/ run.len = LengthMax
  THEN [out |-> Flushed(run), current |-> next, len |-> 0]
  ELSE [run EXCEPT !.len = @ + 1]

Encoded(values) ==
  IF values = <<>> THEN <<>>
  ELSE Flushed(Recursion(
         [p \in Nat \X Run |->
            IF p[1] + 2 <= Len(values) THEN Extended(p[2], values[p[1] + 2]) ELSE p[2]],
         [out |-> <<>>, current |-> values[1], len |-> 0])[Len(values) - 1])

EncodeRle7(bits, src) == Encoded([i \in DOMAIN src |-> Masked(src[i], bits)])

EncodeRle7Delta(bits, src, base) ==
  Encoded([i \in DOMAIN src |-> Minus(Masked(src[i], bits), Masked(base[i], bits))])

-----------------------------------------------------------------------------
(* Decoding                                                                *)

(* Where the decoder is in the code, and what it has written.              *)
Cursor == [at : Nat, dest : Seq(Byte)]

Repeated(value, n) == [j \in 1 .. n |-> value]

(* Mutant: a length of n stands for n values.                              *)
Decoded_OneLess(rle, cursor) ==
  LET next == rle[cursor.at]
  IN  IF next % 2 = 1
      THEN [at   |-> cursor.at + 2,
            dest |-> cursor.dest \o Repeated(next - 1, rle[cursor.at + 1])]
      ELSE [at   |-> cursor.at + 1, dest |-> Append(cursor.dest, next)]

(* One pass of the loop: a length of n stands for n + 1 values.            *)
Decoded(rle, cursor) ==
  LET next == rle[cursor.at]
  IN  IF next % 2 = 1
      THEN [at   |-> cursor.at + 2,
            dest |-> cursor.dest \o Repeated(next - 1, rle[cursor.at + 1] + 1)]
      ELSE [at   |-> cursor.at + 1, dest |-> Append(cursor.dest, next)]

(* The loop ends when size values are written: at most size passes.        *)
DecodeRle7(size, rle) ==
  Recursion([p \in Nat \X Cursor |-> IF Len(p[2].dest) >= size THEN p[2] ELSE Decoded(rle, p[2])],
            [at |-> 1, dest |-> <<>>])[size].dest

DecodeRle7Delta(size, rle, base) ==
  LET differences == DecodeRle7(size, rle)
  IN  [i \in DOMAIN differences |-> Plus(differences[i], base[i])]
=============================================================================
