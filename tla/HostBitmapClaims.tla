------------------------- MODULE HostBitmapClaims -------------------------
(***************************************************************************)
(* What a log message of HostBitmap says of it and the code does not keep. *)
(* The property is violated: the trace TLC finds is a sequence of public   *)
(* calls.                                                                  *)
(***************************************************************************)
EXTENDS HostBitmapAccess

(* HostBitmap.cpp:649, "Downsample2x2 only works with valid, even sized    *)
(* bitmaps": on those it writes every level of the smaller bitmap.         *)
DownsampleWorksOnEvenSizes ==
  \A h \in Handles :
    LET b == bitmap[h]
    IN  CanDownsample(b) /\ ~ Degenerate(b) /\ Exact(b) =>
          DestinationAdvance(b) = FlatChainSize(Downsampled(b), DownsampledMipCount(b))
=============================================================================
