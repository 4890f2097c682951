---------------------------- MODULE Projectors ----------------------------
(***************************************************************************)
(* What FrameDecoders (VtaHandler.h:104) promise to who plays animations:  *)
(* each is made showing the first frame and then goes from frame to frame, *)
(* around the film, or back to the start; none disturbs another.  Files,   *)
(* codes and differences are not seen from here.  When something could not *)
(* be read the picture is spoilt, until a frame that stands on its own is  *)
(* shown.                                                                  *)
(***************************************************************************)
EXTENDS Integers

CONSTANTS
  Projector,       \* who shows a film
  Likeness(_, _)   \* whether a picture shows a still of a film

VARIABLES
  reel,       \* [Projector -> the stills of its film: [0 .. n - 1 -> still]]
  alone,      \* [Projector -> whether every still stands on its own]
  at,         \* [Projector -> the frame shown, or Off]
  screen,     \* [Projector -> the picture shown]
  whole       \* [Projector -> whether the picture can be relied on]

vars == <<reel, alone, at, screen, whole>>

Off == -1

Dark == [p \in Projector |-> Off]

Init == at = Dark /\ whole = [p \in Projector |-> FALSE]

(* All that changes belongs to p.                                          *)
OnlyOf(p) ==
  \A q \in Projector \ {p} :
    /\ reel'[q] = reel[q] /\ alone'[q] = alone[q] /\ at'[q] = at[q]
    /\ screen'[q] = screen[q] /\ whole'[q] = whole[q]

TurnTo(p, frame) ==
  /\ OnlyOf(p)
  /\ at'[p] = frame
  /\ whole'[p] => /\ whole[p] \/ alone'[p] \/ frame = 0
                  /\ Likeness(screen'[p], reel'[p][frame])

(* A film is put in and its first frame is shown.                          *)
Start(p) == at[p] = Off /\ TurnTo(p, 0)

SameFilm(p) == at[p] # Off /\ reel'[p] = reel[p] /\ alone'[p] = alone[p]

Advance(p) ==
  SameFilm(p) /\ TurnTo(p, IF at[p] + 1 \in DOMAIN reel[p] THEN at[p] + 1 ELSE 0)

Restart(p) == SameFilm(p) /\ TurnTo(p, 0)

Next == \E p \in Projector : Start(p) \/ Advance(p) \/ Restart(p)

Spec == Init /\ [][Next]_vars
=============================================================================
