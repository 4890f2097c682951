--------------------------- MODULE MCRle7Stream ---------------------------
(***************************************************************************)
(* Small instances of Rle7Stream for TLC.                                  *)
(***************************************************************************)
EXTENDS Rle7Stream

(* Values on both sides of the grains 2, 4 and 8, and both ends of a byte. *)
MCValues == {0, 7, 8, 253, 255}
MCPairs == [1 .. 2 -> MCValues]

(* Frames long enough for a run to go past the largest length twice.       *)
MCRuns == [1 .. 5 -> {8, 248}]

MCFrames == MCPairs \union MCRuns
=============================================================================
