---------------------------- MODULE Rle7Stream ----------------------------
(***************************************************************************)
(* One grid of a volume animation as it is coded and decoded frame by      *)
(* frame (FileWriter::AddFrame, VtaHandler.cpp:325): the writer decodes    *)
(* what it has coded and takes the differences of the next frame from      *)
(* that, not from the frame it was given, so that what is lost in one      *)
(* frame is not lost again in the next.                                    *)
(***************************************************************************)
EXTENDS Rle7

CONSTANTS
  GridFrames,   \* what a frame may be: sequences of bytes
  GridBits      \* the bits that are kept of a value

ASSUME GridFramesAssumption == GridFrames \subseteq Seq(Byte)
ASSUME GridBitsAssumption   == GridBits \subseteq 1 .. 8

VARIABLES
  lastFrame,  \* the frame last coded
  lastBits,   \* the bits kept of it
  lastCode,   \* its code
  lastShown   \* what the code and the frame before it decode to

streamVars == <<lastFrame, lastBits, lastCode, lastShown>>

FirstFrame ==
  /\ lastFrame \in GridFrames \ {<<>>} /\ lastBits \in GridBits
  /\ lastCode = EncodeRle7(lastBits, lastFrame)
  /\ lastShown = DecodeRle7(Len(lastFrame), lastCode)

(* Mutant: the differences are taken from the frame the writer was given.  *)
NextFrame_FromSource ==
  /\ lastFrame' \in {frame \in GridFrames : Len(frame) = Len(lastFrame)}
  /\ lastBits' \in GridBits
  /\ lastCode' = EncodeRle7Delta(lastBits', lastFrame', lastFrame)
  /\ lastShown' = DecodeRle7Delta(Len(lastFrame'), lastCode', lastShown)

(* Mutant: the writer adds its differences to the frame it was given.      *)
NextFrame_OntoSource ==
  /\ lastFrame' \in {frame \in GridFrames : Len(frame) = Len(lastFrame)}
  /\ lastBits' \in GridBits
  /\ lastCode' = EncodeRle7Delta(lastBits', lastFrame', lastShown)
  /\ lastShown' = DecodeRle7Delta(Len(lastFrame'), lastCode', lastFrame)

(* The frames of a grid are all of one size.                               *)
NextFrame ==
  /\ lastFrame' \in {frame \in GridFrames : Len(frame) = Len(lastFrame)}
  /\ lastBits' \in GridBits
  /\ lastCode' = EncodeRle7Delta(lastBits', lastFrame', lastShown)
  /\ lastShown' = DecodeRle7Delta(Len(lastFrame'), lastCode', lastShown)

StreamSpec == FirstFrame /\ [][NextFrame]_streamVars

-----------------------------------------------------------------------------
(* Properties                                                              *)

Apart(a, b) == Larger(a - b, b - a)

(* However many frames were coded as differences, and whatever each of     *)
(* them lost, the values decoded from the last one are closer to the frame *)
(* the writer was given than what masking drops: nothing adds up.          *)
NothingDrifts ==
  /\ DOMAIN lastShown = DOMAIN lastFrame
  /\ \A i \in DOMAIN lastFrame : Apart(lastShown[i], lastFrame[i]) < Grain(lastBits)

(* The decoder's buffer is as large as a frame (VtaHandler.cpp:435): the   *)
(* code of a frame must never be larger than the frame, whatever its runs. *)
CodeFitsFrame == lastCode \in Seq(Byte) /\ Len(lastCode) <= Len(lastFrame)

(* A frame that has not changed in the bits that are kept stays what it    *)
(* was decoded to: a still image does not flicker between two codings.     *)
StillImageStands ==
  [][lastFrame' = lastFrame /\ lastBits' = lastBits => lastShown' = lastShown]_streamVars
=============================================================================
