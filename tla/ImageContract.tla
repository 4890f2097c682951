--------------------------- MODULE ImageContract ---------------------------
(***************************************************************************)
(* What a caller of the image handlers may rely on, whatever the codec: a  *)
(* call begins, and takes effect in one step, when it returns.             *)
(*                                                                         *)
(*   - A read that succeeds shows the picture of the file; one that fails  *)
(*     leaves the bitmap as it was, or empty; one of a whole file fails    *)
(*     only on a fault: the stream or memory failed, or a library refused  *)
(*     to go on.                                                           *)
(*   - A save that succeeds makes a whole file of the picture the bitmap   *)
(*     shows; one that is turned away changes nothing; one that fails      *)
(*     leaves a file that is not whole.                                    *)
(*                                                                         *)
(* Three sets name the codecs that keep less than that.                    *)
(***************************************************************************)

CONSTANTS
  Nothing,           \* what an empty bitmap shows
  Codecs,            \* kinds of files
  Stored(_, _),      \* what a file of a codec stands for that a picture was saved to
  CarelessReaders,   \* codecs whose reader may not notice that the stream failed
  CarelessWriters,   \* codecs whose writer may not
  Fragile            \* codecs whose calls may end the program

VARIABLES
  shown,        \* what the caller's bitmap shows
  stored,       \* [codec, picture]: the file
  whole,        \* whether the file is whole
  understood,   \* whether it is one that the reader takes for what it is
  turn          \* [op, running, ok, faults]: the call that is going on, or the last one

vars == <<shown, stored, whole, understood, turn>>

Turn(op, running, ok, faults) == [op |-> op, running |-> running, ok |-> ok, faults |-> faults]

Init == ~ turn.running

Begins(op)  == ~ turn.running /\ turn' = Turn(op, TRUE, FALSE, FALSE)
Running(op) == turn.running /\ turn.op = op
Returns(op, ok, faults) == turn' = Turn(op, FALSE, ok, faults)

(* The file becomes one of what the bitmap shows.                          *)
FileIsStored ==
  \E picture \in {shown} :
    /\ stored'.codec \in Codecs
    /\ stored' = [codec |-> stored'.codec, picture |-> Stored(stored'.codec, picture)]

ReadBegins ==
  /\ Begins("Read")
  /\ UNCHANGED <<shown, stored, whole, understood>>

ReadSucceeds ==
  /\ Running("Read")
  /\ \E faults \in BOOLEAN :
       /\ Returns("Read", TRUE, faults)
       /\ understood /\ (faults => stored.codec \notin CarelessReaders) => shown' = stored.picture
  /\ UNCHANGED <<stored, whole, understood>>

ReadFails ==
  /\ Running("Read")
  /\ \E faults \in BOOLEAN :
       /\ Returns("Read", FALSE, faults)
       /\ whole /\ understood => faults
  /\ shown' \in {shown, Nothing}
  /\ UNCHANGED <<stored, whole, understood>>

SaveIsTurnedAway ==
  /\ ~ turn.running
  /\ \E faults \in BOOLEAN : Returns("Save", FALSE, faults)
  /\ UNCHANGED <<shown, stored, whole, understood>>

SaveBegins ==
  /\ Begins("Save") /\ shown # Nothing
  /\ FileIsStored
  /\ ~ whole'
  /\ understood' \in BOOLEAN
  /\ UNCHANGED shown

SaveSucceeds ==
  /\ Running("Save")
  /\ \E faults \in BOOLEAN :
       /\ Returns("Save", TRUE, faults)
       /\ whole' = ~ faults
       /\ faults => stored.codec \in CarelessWriters
  /\ UNCHANGED <<shown, stored, understood>>

SaveFails ==
  /\ Running("Save")
  /\ Returns("Save", FALSE, TRUE)
  /\ UNCHANGED <<shown, stored, whole, understood>>

ProgramEnds ==
  /\ turn.running /\ stored.codec \in Fragile
  /\ \E faults \in BOOLEAN : Returns(turn.op, FALSE, faults)
  /\ shown' = Nothing
  /\ UNCHANGED <<stored, whole, understood>>

(* The end of the file is lost.                                            *)
FileIsCut ==
  /\ ~ turn.running
  /\ ~ whole'
  /\ understood' \in BOOLEAN
  /\ UNCHANGED <<shown, stored, turn>>

Next ==
  \/ ReadBegins \/ ReadSucceeds \/ ReadFails
  \/ SaveIsTurnedAway \/ SaveBegins \/ SaveSucceeds \/ SaveFails
  \/ ProgramEnds \/ FileIsCut

Spec == Init /\ [][Next]_vars
=============================================================================
