------------------------ MODULE ImageFilesClaims ------------------------
(***************************************************************************)
(* What the comments and the tests of the image handlers say of them and   *)
(* the code does not keep.  Every property here is violated.               *)
(***************************************************************************)
EXTENDS ImageFiles

(* Tr2TgaHandler.cpp:395-397, "Return Value: true If the image was         *)
(* suscessfully read, false If there was an error loading the image": a    *)
(* read returns, whatever the file.                                        *)
EveryReadReturns == Running ~> ~ Running

(* tests/TestHelpers.cpp:59-65, AssertReadTruncatedImageFails: a picture   *)
(* whose last pixels are lost cannot be read.  For files that end with     *)
(* their pixels.                                                           *)
TruncatedReadFails ==
  [][ Running /\ ~ Running' /\ call'.op \in ReadOp /\ file.cut => call'.result # "OK" ]_allVars
=============================================================================
