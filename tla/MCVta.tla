------------------------------- MODULE MCVta -------------------------------
(***************************************************************************)
(* A small instance of Vta for TLC.                                        *)
(***************************************************************************)
EXTENDS Vta

(* A coded grid whose frames alternate in the file with those of one that  *)
(* is not coded, and grids alone.                                          *)
MCGridLists == {<<"Rle7_5", "None">>, <<"Rle6">>, <<"Rle7">>}

(* Two pixels: a run, and values that lose bits at every encoding.         *)
MCImages == {<<0, 0>>, <<3, 255>>}
=============================================================================
