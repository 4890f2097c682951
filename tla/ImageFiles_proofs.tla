------------------------- MODULE ImageFiles_proofs -------------------------
(***************************************************************************)
(* ImageFiles: whatever the file, wherever it was cut and whichever access *)
(* to the stream or to memory fails, a read leaves the caller's bitmap as  *)
(* it was, or empty, unless it succeeds.                                   *)
(*                                                                         *)
(* This speaks of the step with which a call ends, the bitmap it began     *)
(* with was seen many steps before.  Its invariant, IInv, keeps the two    *)
(* together: up to the step that creates the new bitmap, the caller's is   *)
(* untouched; behind it, no step ends the call with an error and a buffer. *)
(*                                                                         *)
(* Then, for the other properties (ImageFilesSafety_proofs), an invariant  *)
(* that knows of each step of each handler what it has read so far: which  *)
(* header, which bitmap was created from it, where the next packet begins, *)
(* what the file that is being written holds already.  Inv is the          *)
(* conjunction of one such part for each call.  It says as well that the   *)
(* file is one a read can begin with: a save that ends, early or not,      *)
(* leaves a file that the next read may open.  Here are what all handlers  *)
(* share, and the steps of BMP, JPEG and PSD, which keep it.               *)
(***************************************************************************)
EXTENDS ImageFiles, BitmapLayout_proofs

-----------------------------------------------------------------------------
(* No half picture                                                         *)

(* What the proof asks of the two records.                                 *)
IsCall(c)   == {"op", "step", "before"} \subseteq DOMAIN c
IsBitmap(b) == "data" \in DOMAIN b

(* The steps in front of the new bitmap.                                   *)
IsEarly(c) ==
  \/ c.op = "ReadTga"  /\ c.step \in {"Header", "Create"}
  \/ c.op = "ReadBmp"  /\ c.step \in {"Header", "Dib", "Create"}
  \/ c.op = "ReadPsd"  /\ c.step \in {"Header", "Blocks", "Compression", "Create"}
  \/ c.op = "ReadPng"  /\ c.step \in {"Signature", "Info", "Create"}
  \/ c.op = "ReadJpeg" /\ c.step \in {"Data", "Header"}

Untouched == bitmap = call.before.bitmap /\ pixels = call.before.pixels

IInv == IsCall(call) /\ IsBitmap(bitmap) /\ (IsEarly(call) => Untouched)

WholeOrNothing ==
  Running /\ ~ Running' /\ call'.op \in ReadOp /\ call'.result # "OK" =>
    \/ bitmap' = call.before.bitmap /\ pixels' = call.before.pixels
    \/ ~ IsValid(bitmap')

-----------------------------------------------------------------------------
(* What a step may be: the beginning of a call, a step in its middle, or   *)
(* its end.                                                                *)

Begins ==
  /\ ~ Running
  /\ IsCall(call') /\ call'.before = [bitmap |-> bitmap, pixels |-> pixels, metadata |-> metadata]
  /\ UNCHANGED <<bitmap, pixels>>

GoesOn ==
  /\ IsCall(call') /\ IsBitmap(bitmap')
  /\ call'.before = call.before /\ call'.step # "Done"
  /\ IsEarly(call') => IsEarly(call) /\ UNCHANGED <<bitmap, pixels>>

Ends ==
  /\ IsCall(call') /\ IsBitmap(bitmap')
  /\ call'.step = "Done"
  /\ \/ ~ Running
     \/ call'.op \notin ReadOp
     \/ call'.result = "OK"
     \/ ~ IsValid(bitmap')
     \/ IsEarly(call) /\ UNCHANGED <<bitmap, pixels>>

Outcome == Begins \/ GoesOn \/ Ends

(* When a call may end with a result.                                      *)
MayEndWith(result) ==
  /\ IsBitmap(bitmap')
  /\ \/ call.op \notin ReadOp
     \/ result = "OK"
     \/ ~ IsValid(bitmap')
     \/ IsEarly(call) /\ UNCHANGED <<bitmap, pixels>>

(* Each of the three keeps the invariant, and what the property asks.      *)
LEMMA Outcomes == ASSUME IInv, Outcome PROVE IInv' /\ WholeOrNothing
<1>1. CASE Begins
  BY <1>1 DEF IInv, WholeOrNothing, Begins, Running, Untouched
<1>2. CASE GoesOn
  BY <1>2 DEF IInv, WholeOrNothing, GoesOn, Running, Untouched
<1>3. CASE Ends
  BY <1>3 DEF IInv, WholeOrNothing, Ends, Running, Untouched, IsEarly
<1> QED BY <1>1, <1>2, <1>3 DEF Outcome

-----------------------------------------------------------------------------
(* Tga                                                                     *)

(* How the handler's calls end.                                            *)
LEMMA TgaEnds ==
  ASSUME IInv
  PROVE  \A result :
           /\ Tga!Fail(result) \/ Tga!FailOnFault(result) => Outcome
           /\ Tga!Return(result) \/ Tga!ReturnFault(result) =>
                (MayEndWith(result) => Outcome)
<1> SUFFICES ASSUME NEW result
             PROVE  /\ Tga!Fail(result) \/ Tga!FailOnFault(result) => Outcome
                    /\ Tga!Return(result) \/ Tga!ReturnFault(result) =>
                         (MayEndWith(result) => Outcome)
  OBVIOUS
<1>1. IsCall(call) /\ IsBitmap(bitmap)
  BY DEF IInv
<1>2. ASSUME Tga!Return(result) \/ Tga!ReturnFault(result)
      PROVE  /\ IsCall(call')
             /\ call'.step = "Done" /\ call'.op = call.op /\ call'.result = result
  BY <1>2 DEF Tga!Return, Tga!ReturnFault, Tga!Finished, Tga!Called, IsCall
<1>3. ASSUME Tga!Fail(result) \/ Tga!FailOnFault(result)
      PROVE  Outcome
  <2>1. Tga!Return(result) \/ Tga!ReturnFault(result)
    BY <1>3 DEF Tga!Fail, Tga!FailOnFault
  <2>2. IsBitmap(bitmap') /\ ~ IsValid(bitmap')
    BY <1>1, <1>3
    DEF Tga!Fail, Tga!FailOnFault, Tga!Destroy, Tga!Destroyed, IsBitmap,
        IsValid
  <2> QED BY <1>2, <2>1, <2>2 DEF Outcome, Ends
<1>4. ASSUME Tga!Return(result) \/ Tga!ReturnFault(result), MayEndWith(result)
      PROVE  Outcome
  BY <1>2, <1>4 DEF MayEndWith, Outcome, Ends
<1> QED BY <1>3, <1>4

(* A new bitmap takes the place of the old one, or the call ends.          *)
LEMMA TgaCreated ==
  ASSUME IInv, Tga!CreateBitmap
  PROVE  Outcome
<1>1. IsCall(call) /\ IsBitmap(bitmap)
  BY DEF IInv
<1>2. IsEarly(call) /\ call.op = "ReadTga"
  BY DEF Tga!CreateBitmap, Tga!At, IsEarly
<1>3. PICK format, width, height :
        Tga!CreateFromBitmapDimensions(format, width, height, "Pixels")
  BY DEF Tga!CreateBitmap
<1> DEFINE b == Tga!Sized("2D", format, width, height, 1, 1, 1)
<1>4. CASE Tga!Return("ERROR_CREATING_BITMAP") /\ UNCHANGED <<bitmap, pixels>>
  BY <1>1, <1>2, <1>4, TgaEnds DEF MayEndWith
<1>5. CASE /\ bitmap' = b
           /\ Tga!Return("ERROR_CREATING_BITMAP") \/ Tga!ReturnFault("ERROR_CREATING_BITMAP")
  <2>1. IsBitmap(bitmap') /\ ~ IsValid(bitmap')
    BY <1>5 DEF Tga!Sized, IsBitmap, IsValid
  <2> QED BY <1>5, <2>1, TgaEnds DEF MayEndWith
<1>6. CASE Tga!Resize(b) /\ call' = Tga!Goto("Pixels")
  <2>1. IsBitmap(bitmap')
    BY <1>6 DEF Tga!Resize, Tga!Sized, IsBitmap
  <2>2. /\ IsCall(call') /\ call'.op = call.op
        /\ call'.step = "Pixels" /\ call'.before = call.before
    BY <1>1, <1>6 DEF Tga!Goto, IsCall
  <2> QED BY <1>2, <2>1, <2>2 DEF Outcome, GoesOn, IsEarly
<1> QED BY <1>3, <1>4, <1>5, <1>6 DEF Tga!CreateFromBitmapDimensions

(* A read begins, and a save begins or is turned away.                     *)
LEMMA TgaStarts ==
  ASSUME IInv, ~ Running, Tga!Start
  PROVE  Outcome
<1>1. IsCall(call) /\ IsBitmap(bitmap)
  BY DEF IInv
<1>2. PICK wants \in BOOLEAN : Tga!ReadImage(wants) \/ Tga!Save(wants)
  BY DEF Tga!Start
<1>3. ASSUME NEW op, NEW step, Tga!Begin(op, step, wants), UNCHANGED <<bitmap, pixels>>
      PROVE  Outcome
  <2>1. IsCall(call')
    BY <1>3 DEF Tga!Begin, Tga!Called, IsCall
  <2>2. call'.before = [bitmap |-> bitmap, pixels |-> pixels, metadata |-> metadata]
    BY <1>3 DEF Tga!Begin, Tga!Called
  <2> QED BY <1>3, <2>1, <2>2 DEF Outcome, Begins
<1>4. ASSUME NEW op, NEW result, Tga!Refuse(op, result, wants)
      PROVE  Outcome
  <2>1. IsCall(call') /\ call'.step = "Done" /\ bitmap' = bitmap
    BY <1>4 DEF Tga!Refuse, Tga!Called, IsCall
  <2> QED BY <1>1, <2>1 DEF Outcome, Ends
<1>5. CASE Tga!ReadImage(wants)
  BY <1>3, <1>5 DEF Tga!ReadImage
<1>6. CASE Tga!Save(wants)
  BY <1>3, <1>4, <1>6 DEF Tga!Save
<1> QED BY <1>2, <1>5, <1>6

(* Every step of its calls.                                                *)
LEMMA TgaSteps ==
  ASSUME IInv, Tga!Step
  PROVE  Outcome
<1>1. IsCall(call) /\ IsBitmap(bitmap)
  BY DEF IInv
<1>2. CASE Tga!DoReadHeader
  BY <1>1, <1>2, TgaEnds
  DEF Tga!DoReadHeader, Tga!At, Tga!ReadFails, Tga!Goto, MayEndWith, IsEarly,
      Outcome, GoesOn, IsCall
<1>3. CASE Tga!CreateBitmap
  BY <1>3, TgaCreated
<1>4. CASE Tga!BeginPixels
  BY <1>1, <1>4, TgaEnds
  DEF Tga!BeginPixels, Tga!At, Tga!Goto, MayEndWith, IsEarly, Outcome, GoesOn,
      IsCall
<1>5. CASE Tga!ReadPalette
  BY <1>1, <1>5, TgaEnds
  DEF Tga!ReadPalette, Tga!NoMemory, Tga!At, Tga!PixelsFallShort, Tga!Goto,
      MayEndWith, IsEarly, Outcome, GoesOn, IsCall
<1>6. CASE Tga!ReadIndexes
  BY <1>1, <1>6, TgaEnds
  DEF Tga!ReadIndexes, Tga!NoMemory, Tga!At, Tga!PixelsFallShort, Tga!Goto,
      MayEndWith, IsEarly, Outcome, GoesOn, IsCall
<1>7. CASE Tga!ReadRow
  BY <1>1, <1>7, TgaEnds
  DEF Tga!ReadRow, Tga!At, Tga!PixelsFallShort, Tga!Goto, MayEndWith, IsEarly,
      Outcome, GoesOn, IsCall
<1>8. CASE Tga!ReadCompressed
  BY <1>1, <1>8, TgaEnds
  DEF Tga!ReadCompressed, Tga!NoMemory, Tga!At, Tga!PixelsFallShort, Tga!Goto,
      MayEndWith, IsEarly, Outcome, GoesOn, IsCall
<1>9. CASE Tga!DecodePacket
  <2>1. CASE Tga!PacketFallsShort("INVALID_DATA")
    <3>1. IsCall(call') /\ call'.step = "Done"
      BY <2>1 DEF Tga!PacketFallsShort, Tga!Finished, Tga!Called, IsCall
    <3>2. IsBitmap(bitmap') /\ ~ IsValid(bitmap')
      BY <1>1, <2>1
      DEF Tga!PacketFallsShort, Tga!Destroy, Tga!Destroyed, IsBitmap, IsValid
    <3> QED BY <3>1, <3>2 DEF Outcome, Ends
  <2>2. CASE ~ Tga!PacketFallsShort("INVALID_DATA")
    BY <1>1, <1>9, <2>2, TgaEnds
    DEF Tga!DecodePacket, Tga!At, Tga!Goto, MayEndWith, IsEarly, Outcome,
        GoesOn, IsCall
  <2> QED BY <2>1, <2>2
<1>10. CASE Tga!PacketsAreDecoded
  BY <1>1, <1>10, TgaEnds
  DEF Tga!PacketsAreDecoded, Tga!At, Tga!Goto, MayEndWith, IsEarly, Outcome,
      GoesOn, IsCall
<1>11. CASE Tga!MirrorRow
  BY <1>1, <1>11, TgaEnds
  DEF Tga!MirrorRow, Tga!At, Tga!Goto, MayEndWith, IsEarly, Outcome, GoesOn,
      IsCall
<1>12. CASE Tga!RowsAreMirrored
  BY <1>1, <1>12, TgaEnds
  DEF Tga!RowsAreMirrored, Tga!At, Tga!Goto, MayEndWith, IsEarly, Outcome,
      GoesOn, IsCall
<1>13. CASE Tga!ReadFooter
  BY <1>1, <1>13, TgaEnds
  DEF Tga!ReadFooter, Tga!At, Tga!MetadataIsRead, Tga!MetadataFails, Tga!Goto,
      MayEndWith, IsEarly, Outcome, GoesOn, IsCall
<1>14. CASE Tga!ReadDirectory
  BY <1>1, <1>14, TgaEnds
  DEF Tga!ReadDirectory, Tga!At, Tga!MetadataIsRead, Tga!MetadataFails,
      Tga!Goto, MayEndWith, IsEarly, Outcome, GoesOn, IsCall
<1>15. CASE Tga!ReadEntry
  BY <1>1, <1>15, TgaEnds
  DEF Tga!ReadEntry, Tga!At, Tga!MetadataIsRead, Tga!LoadMetadata, Tga!Goto,
      MayEndWith, IsEarly, Outcome, GoesOn,
      IsCall
<1>16. CASE Tga!SaveHeader
  BY <1>1, <1>16, TgaEnds
  DEF Tga!SaveHeader, Tga!At, Tga!WriteFails, Tga!Goto, MayEndWith, IsEarly,
      Outcome, GoesOn, IsCall, ReadOp
<1>17. CASE Tga!SaveRow
  BY <1>1, <1>17, TgaEnds
  DEF Tga!SaveRow, Tga!At, Tga!WriteFails, Tga!Goto, MayEndWith, IsEarly,
      Outcome, GoesOn, IsCall, ReadOp
<1>18. CASE Tga!SaveMetadata
  BY <1>1, <1>18, TgaEnds
  DEF Tga!SaveMetadata, Tga!At, Tga!WriteFails, Tga!Goto, MayEndWith, IsEarly,
      Outcome, GoesOn, IsCall, ReadOp
<1>19. CASE Tga!Close("SaveTga")
  BY <1>1, <1>19, TgaEnds
  DEF Tga!Close, Tga!At, Tga!Goto, MayEndWith, IsEarly, Outcome, GoesOn,
      IsCall
<1> QED
  BY <1>2, <1>3, <1>4, <1>5, <1>6, <1>7, <1>8, <1>9, <1>10, <1>11, <1>12,
     <1>13, <1>14, <1>15, <1>16, <1>17, <1>18, <1>19
  DEF Tga!Step

-----------------------------------------------------------------------------
(* Bmp                                                                     *)

(* How the handler's calls end.                                            *)
LEMMA BmpEnds ==
  ASSUME IInv
  PROVE  \A result :
           /\ Bmp!Fail(result) \/ Bmp!FailOnFault(result) => Outcome
           /\ Bmp!Return(result) \/ Bmp!ReturnFault(result) =>
                (MayEndWith(result) => Outcome)
<1> SUFFICES ASSUME NEW result
             PROVE  /\ Bmp!Fail(result) \/ Bmp!FailOnFault(result) => Outcome
                    /\ Bmp!Return(result) \/ Bmp!ReturnFault(result) =>
                         (MayEndWith(result) => Outcome)
  OBVIOUS
<1>1. IsCall(call) /\ IsBitmap(bitmap)
  BY DEF IInv
<1>2. ASSUME Bmp!Return(result) \/ Bmp!ReturnFault(result)
      PROVE  /\ IsCall(call')
             /\ call'.step = "Done" /\ call'.op = call.op /\ call'.result = result
  BY <1>2 DEF Bmp!Return, Bmp!ReturnFault, Bmp!Finished, Bmp!Called, IsCall
<1>3. ASSUME Bmp!Fail(result) \/ Bmp!FailOnFault(result)
      PROVE  Outcome
  <2>1. Bmp!Return(result) \/ Bmp!ReturnFault(result)
    BY <1>3 DEF Bmp!Fail, Bmp!FailOnFault
  <2>2. IsBitmap(bitmap') /\ ~ IsValid(bitmap')
    BY <1>1, <1>3
    DEF Bmp!Fail, Bmp!FailOnFault, Bmp!Destroy, Bmp!Destroyed, IsBitmap,
        IsValid
  <2> QED BY <1>2, <2>1, <2>2 DEF Outcome, Ends
<1>4. ASSUME Bmp!Return(result) \/ Bmp!ReturnFault(result), MayEndWith(result)
      PROVE  Outcome
  BY <1>2, <1>4 DEF MayEndWith, Outcome, Ends
<1> QED BY <1>3, <1>4

(* A new bitmap takes the place of the old one, or the call ends.          *)
LEMMA BmpCreated ==
  ASSUME IInv, Bmp!CreateBitmap
  PROVE  Outcome
<1>1. IsCall(call) /\ IsBitmap(bitmap)
  BY DEF IInv
<1>2. IsEarly(call) /\ call.op = "ReadBmp"
  BY DEF Bmp!CreateBitmap, Bmp!At, IsEarly
<1>3. PICK format, width, height :
        Bmp!CreateFromBitmapDimensions(format, width, height, "Rows")
  BY DEF Bmp!CreateBitmap
<1> DEFINE b == Bmp!Sized("2D", format, width, height, 1, 1, 1)
<1>4. CASE Bmp!Return("ERROR_CREATING_BITMAP") /\ UNCHANGED <<bitmap, pixels>>
  BY <1>1, <1>2, <1>4, BmpEnds DEF MayEndWith
<1>5. CASE /\ bitmap' = b
           /\ Bmp!Return("ERROR_CREATING_BITMAP") \/ Bmp!ReturnFault("ERROR_CREATING_BITMAP")
  <2>1. IsBitmap(bitmap') /\ ~ IsValid(bitmap')
    BY <1>5 DEF Bmp!Sized, IsBitmap, IsValid
  <2> QED BY <1>5, <2>1, BmpEnds DEF MayEndWith
<1>6. CASE Bmp!Resize(b) /\ call' = Bmp!Goto("Rows")
  <2>1. IsBitmap(bitmap')
    BY <1>6 DEF Bmp!Resize, Bmp!Sized, IsBitmap
  <2>2. /\ IsCall(call') /\ call'.op = call.op
        /\ call'.step = "Rows" /\ call'.before = call.before
    BY <1>1, <1>6 DEF Bmp!Goto, IsCall
  <2> QED BY <1>2, <2>1, <2>2 DEF Outcome, GoesOn, IsEarly
<1> QED BY <1>3, <1>4, <1>5, <1>6 DEF Bmp!CreateFromBitmapDimensions

(* A read begins, and a save begins or is turned away.                     *)
LEMMA BmpStarts ==
  ASSUME IInv, ~ Running, Bmp!Start
  PROVE  Outcome
<1>1. IsCall(call) /\ IsBitmap(bitmap)
  BY DEF IInv
<1>2. PICK wants \in BOOLEAN : Bmp!ReadImage(wants) \/ Bmp!Save(wants)
  BY DEF Bmp!Start
<1>3. ASSUME NEW op, NEW step, Bmp!Begin(op, step, wants), UNCHANGED <<bitmap, pixels>>
      PROVE  Outcome
  <2>1. IsCall(call')
    BY <1>3 DEF Bmp!Begin, Bmp!Called, IsCall
  <2>2. call'.before = [bitmap |-> bitmap, pixels |-> pixels, metadata |-> metadata]
    BY <1>3 DEF Bmp!Begin, Bmp!Called
  <2> QED BY <1>3, <2>1, <2>2 DEF Outcome, Begins
<1>4. ASSUME NEW op, NEW result, Bmp!Refuse(op, result, wants)
      PROVE  Outcome
  <2>1. IsCall(call') /\ call'.step = "Done" /\ bitmap' = bitmap
    BY <1>4 DEF Bmp!Refuse, Bmp!Called, IsCall
  <2> QED BY <1>1, <2>1 DEF Outcome, Ends
<1>5. CASE Bmp!ReadImage(wants)
  BY <1>3, <1>5 DEF Bmp!ReadImage
<1>6. CASE Bmp!Save(wants)
  BY <1>3, <1>4, <1>6 DEF Bmp!Save
<1> QED BY <1>2, <1>5, <1>6

(* Every step of its calls.                                                *)
LEMMA BmpSteps ==
  ASSUME IInv, Bmp!Step
  PROVE  Outcome
<1>1. IsCall(call) /\ IsBitmap(bitmap)
  BY DEF IInv
<1>2. CASE Bmp!ReadBmpHeader
  BY <1>1, <1>2, BmpEnds
  DEF Bmp!ReadBmpHeader, Bmp!At, Bmp!ReadFails, Bmp!Goto, MayEndWith, IsEarly,
      Outcome, GoesOn, IsCall
<1>3. CASE Bmp!ReadDibHeader
  BY <1>1, <1>3, BmpEnds
  DEF Bmp!ReadDibHeader, Bmp!SeekPixels, Bmp!At, Bmp!ReadFails, Bmp!Goto,
      MayEndWith, IsEarly, Outcome, GoesOn, IsCall
<1>4. CASE Bmp!CreateBitmap
  BY <1>4, BmpCreated
<1>5. CASE Bmp!ReadRow
  <2>1. ASSUME NEW stride, NEW beyond
        PROVE  /\ IsCall(Bmp!RowDone(stride, beyond))
               /\ Bmp!RowDone(stride, beyond).op = call.op
               /\ Bmp!RowDone(stride, beyond).step = call.step
               /\ Bmp!RowDone(stride, beyond).before = call.before
    BY <1>1 DEF Bmp!RowDone, IsCall
  <2>2. ASSUME NEW c, NEW faults
        PROVE  /\ IsCall(Bmp!Finished(c, "OK", faults))
               /\ Bmp!Finished(c, "OK", faults).step = "Done"
               /\ Bmp!Finished(c, "OK", faults).result = "OK"
    BY DEF Bmp!Finished, Bmp!Called, IsCall
  <2>3. CASE \E stride, beyond : call' = Bmp!RowDone(stride, beyond) /\ UNCHANGED bitmap
    BY <1>1, <1>5, <2>1, <2>3 DEF Bmp!ReadRow, Bmp!At, Outcome, GoesOn, IsEarly
  <2>4. CASE \E c, faults : call' = Bmp!Finished(c, "OK", faults) /\ UNCHANGED bitmap
    BY <1>1, <2>2, <2>4 DEF Outcome, Ends
  <2> QED
    BY <1>5, <2>3, <2>4, BmpEnds
    DEF Bmp!ReadRow, Bmp!PixelsFallShort
<1>6. CASE Bmp!SaveHeader
  BY <1>1, <1>6, BmpEnds
  DEF Bmp!SaveHeader, Bmp!At, Bmp!WriteFails, Bmp!Goto, MayEndWith, IsEarly,
      Outcome, GoesOn, IsCall, ReadOp
<1>7. CASE Bmp!SaveRow
  BY <1>1, <1>7, BmpEnds
  DEF Bmp!SaveRow, Bmp!At, Bmp!WriteFails, Bmp!Goto, MayEndWith, IsEarly,
      Outcome, GoesOn, IsCall, ReadOp
<1>8. CASE Bmp!Close("SaveBmp")
  BY <1>1, <1>8, BmpEnds
  DEF Bmp!Close, Bmp!At, Bmp!Goto, MayEndWith, IsEarly, Outcome, GoesOn,
      IsCall
<1> QED BY <1>2, <1>3, <1>4, <1>5, <1>6, <1>7, <1>8 DEF Bmp!Step

-----------------------------------------------------------------------------
(* Psd                                                                     *)

(* How the handler's calls end.                                            *)
LEMMA PsdEnds ==
  ASSUME IInv
  PROVE  \A result :
           /\ Psd!Fail(result) \/ Psd!FailOnFault(result) => Outcome
           /\ Psd!Return(result) \/ Psd!ReturnFault(result) =>
                (MayEndWith(result) => Outcome)
<1> SUFFICES ASSUME NEW result
             PROVE  /\ Psd!Fail(result) \/ Psd!FailOnFault(result) => Outcome
                    /\ Psd!Return(result) \/ Psd!ReturnFault(result) =>
                         (MayEndWith(result) => Outcome)
  OBVIOUS
<1>1. IsCall(call) /\ IsBitmap(bitmap)
  BY DEF IInv
<1>2. ASSUME Psd!Return(result) \/ Psd!ReturnFault(result)
      PROVE  /\ IsCall(call')
             /\ call'.step = "Done" /\ call'.op = call.op /\ call'.result = result
  BY <1>2 DEF Psd!Return, Psd!ReturnFault, Psd!Finished, Psd!Called, IsCall
<1>3. ASSUME Psd!Fail(result) \/ Psd!FailOnFault(result)
      PROVE  Outcome
  <2>1. Psd!Return(result) \/ Psd!ReturnFault(result)
    BY <1>3 DEF Psd!Fail, Psd!FailOnFault
  <2>2. IsBitmap(bitmap') /\ ~ IsValid(bitmap')
    BY <1>1, <1>3
    DEF Psd!Fail, Psd!FailOnFault, Psd!Destroy, Psd!Destroyed, IsBitmap,
        IsValid
  <2> QED BY <1>2, <2>1, <2>2 DEF Outcome, Ends
<1>4. ASSUME Psd!Return(result) \/ Psd!ReturnFault(result), MayEndWith(result)
      PROVE  Outcome
  BY <1>2, <1>4 DEF MayEndWith, Outcome, Ends
<1> QED BY <1>3, <1>4

(* A new bitmap takes the place of the old one, which is destroyed first.  *)
LEMMA PsdCreated ==
  ASSUME IInv, Psd!CreateBitmap
  PROVE  Outcome
<1>1. IsCall(call) /\ IsBitmap(bitmap)
  BY DEF IInv
<1>2. call.op = "ReadPsd"
  BY DEF Psd!CreateBitmap, Psd!At
<1>3. PICK format, width, height, step :
        /\ step = "Counts" \/ step = "Channels"
        /\ Psd!Create(format, width, height, step)
  BY DEF Psd!CreateBitmap
<1> DEFINE b == Psd!Sized("2D", format, width, height, 1, 1, 1)
<1>4. CASE Psd!Fail("ERROR_CREATING_BITMAP")
  BY <1>4, PsdEnds
<1>5. CASE bitmap' = Psd!Destroyed(b) /\ Psd!ReturnFault("ERROR_CREATING_BITMAP")
  <2>1. IsBitmap(b)
    BY DEF Psd!Sized, IsBitmap
  <2>2. IsBitmap(bitmap') /\ ~ IsValid(bitmap')
    BY <1>5, <2>1 DEF Psd!Destroyed, IsBitmap, IsValid
  <2> QED BY <1>5, <2>2, PsdEnds DEF MayEndWith
<1>6. CASE Psd!Resize(b) /\ call' = Psd!Goto(step)
  <2>1. IsBitmap(bitmap')
    BY <1>6 DEF Psd!Resize, Psd!Sized, IsBitmap
  <2>2. /\ IsCall(call') /\ call'.op = call.op
        /\ call'.step = step /\ call'.before = call.before
    BY <1>1, <1>6 DEF Psd!Goto, IsCall
  <2> QED BY <1>2, <1>3, <2>1, <2>2 DEF Outcome, GoesOn, IsEarly
<1> QED BY <1>3, <1>4, <1>5, <1>6 DEF Psd!Create

(* A read begins, and a save begins or is turned away.                     *)
LEMMA PsdStarts ==
  ASSUME IInv, ~ Running, Psd!Start
  PROVE  Outcome
<1>1. IsCall(call) /\ IsBitmap(bitmap)
  BY DEF IInv
<1>2. PICK wants \in BOOLEAN : Psd!ReadImage(wants) \/ Psd!Save(wants)
  BY DEF Psd!Start
<1>3. ASSUME NEW op, NEW step, Psd!Begin(op, step, wants), UNCHANGED <<bitmap, pixels>>
      PROVE  Outcome
  <2>1. IsCall(call')
    BY <1>3 DEF Psd!Begin, Psd!Called, IsCall
  <2>2. call'.before = [bitmap |-> bitmap, pixels |-> pixels, metadata |-> metadata]
    BY <1>3 DEF Psd!Begin, Psd!Called
  <2> QED BY <1>3, <2>1, <2>2 DEF Outcome, Begins
<1>4. ASSUME NEW op, NEW result, Psd!Refuse(op, result, wants)
      PROVE  Outcome
  <2>1. IsCall(call') /\ call'.step = "Done" /\ bitmap' = bitmap
    BY <1>4 DEF Psd!Refuse, Psd!Called, IsCall
  <2> QED BY <1>1, <2>1 DEF Outcome, Ends
<1>5. CASE Psd!ReadImage(wants)
  BY <1>3, <1>5 DEF Psd!ReadImage
<1>6. CASE Psd!Save(wants)
  BY <1>3, <1>4, <1>6 DEF Psd!Save
<1> QED BY <1>2, <1>5, <1>6

(* Every step of its calls.                                                *)
LEMMA PsdSteps ==
  ASSUME IInv, Psd!Step
  PROVE  Outcome
<1>1. IsCall(call) /\ IsBitmap(bitmap)
  BY DEF IInv
<1>2. CASE Psd!DoReadHeader
  BY <1>1, <1>2, PsdEnds
  DEF Psd!DoReadHeader, Psd!At, Psd!ReadFails, Psd!Goto, MayEndWith, IsEarly,
      Outcome, GoesOn, IsCall
<1>3. CASE Psd!SkipBlock
  BY <1>1, <1>3, PsdEnds
  DEF Psd!SkipBlock, Psd!At, Psd!Goto, MayEndWith, IsEarly, Outcome, GoesOn,
      IsCall
<1>4. CASE Psd!ReadCompression
  BY <1>1, <1>4, PsdEnds
  DEF Psd!ReadCompression, Psd!At, Psd!ReadFails, Psd!Goto, MayEndWith,
      IsEarly, Outcome, GoesOn, IsCall
<1>5. CASE Psd!CreateBitmap
  BY <1>5, PsdCreated
<1>6. CASE Psd!ReadChannel
  <2>1. IsBitmap(Psd!NoBitmap) /\ ~ IsValid(Psd!NoBitmap)
    BY DEF Psd!NoBitmap, Psd!Sized, IsBitmap, IsValid
  <2> QED
    BY <1>1, <1>6, <2>1, PsdEnds
    DEF Psd!ReadChannel, Psd!NoBuffer, Psd!Crash, Psd!At, Psd!NextChannel,
        Psd!PixelsFallShort, Psd!Goto, MayEndWith, IsEarly, Outcome, GoesOn,
        IsCall
<1>7. CASE Psd!SkipCounts
  <2>0. call.op = "ReadPsd"
    BY <1>7 DEF Psd!SkipCounts, Psd!At
  <2>1. CASE Psd!FailOnFault("READ_FAILURE") \/ Psd!FailOnFault("INVALID_DATA")
    BY <2>1, PsdEnds
  <2> DEFINE next   == [call EXCEPT !.step = "Packets"]
             moved  == [next EXCEPT !.position =
                          Psd!Clamped(file, @ + Psd!h.height * Psd!h.channelCount * 2)]
             failed == [next EXCEPT !.faults = TRUE]
  <2>2. /\ IsCall(moved) /\ moved.op = call.op
        /\ moved.step = "Packets" /\ moved.before = call.before
    BY <1>1 DEF IsCall
  <2>3. /\ IsCall(failed) /\ failed.op = call.op
        /\ failed.step = "Packets" /\ failed.before = call.before
    BY <1>1 DEF IsCall
  <2>4. UNCHANGED <<bitmap, pixels>> /\ (call' = moved \/ call' = failed) => Outcome
    <3> HIDE DEF moved, failed
    <3> QED BY <1>1, <2>0, <2>2, <2>3 DEF IsEarly, Outcome, GoesOn
  <2> QED BY <1>7, <2>1, <2>4, Zenon DEF Psd!SkipCounts
<1>8. CASE Psd!DecodePacket
  BY <1>1, <1>8, PsdEnds
  DEF Psd!DecodePacket, Psd!At, Psd!NextChannel, Psd!Goto, MayEndWith,
      IsEarly, Outcome, GoesOn, IsCall
<1>9. CASE Psd!FillAlpha
  BY <1>1, <1>9, PsdEnds
  DEF Psd!FillAlpha, Psd!At, Psd!Goto, MayEndWith, IsEarly, Outcome, GoesOn,
      IsCall
<1>10. CASE Psd!SavePreamble
  BY <1>1, <1>10, PsdEnds
  DEF Psd!SavePreamble, Psd!At, Psd!WriteFails, Psd!Goto, MayEndWith, IsEarly,
      Outcome, GoesOn, IsCall, ReadOp
<1>11. CASE Psd!SaveChannel
  <2>1. IsBitmap(Psd!NoBitmap) /\ ~ IsValid(Psd!NoBitmap)
    BY DEF Psd!NoBitmap, Psd!Sized, IsBitmap, IsValid
  <2> QED
    BY <1>1, <1>11, <2>1, PsdEnds
    DEF Psd!SaveChannel, Psd!NoBuffer, Psd!Crash, Psd!At, Psd!WriteFails,
        Psd!Goto, MayEndWith, IsEarly, Outcome, GoesOn, IsCall, ReadOp
<1>12. CASE Psd!Close("SavePsd")
  BY <1>1, <1>12, PsdEnds
  DEF Psd!Close, Psd!At, Psd!Goto, MayEndWith, IsEarly, Outcome, GoesOn,
      IsCall
<1> QED
  BY <1>2, <1>3, <1>4, <1>5, <1>6, <1>7, <1>8, <1>9, <1>10, <1>11, <1>12
  DEF Psd!Step

-----------------------------------------------------------------------------
(* Png                                                                     *)

(* How the handler's calls end.                                            *)
LEMMA PngEnds ==
  ASSUME IInv
  PROVE  \A result :
           /\ Png!Fail(result) \/ Png!FailOnFault(result) => Outcome
           /\ Png!Return(result) \/ Png!ReturnFault(result) =>
                (MayEndWith(result) => Outcome)
<1> SUFFICES ASSUME NEW result
             PROVE  /\ Png!Fail(result) \/ Png!FailOnFault(result) => Outcome
                    /\ Png!Return(result) \/ Png!ReturnFault(result) =>
                         (MayEndWith(result) => Outcome)
  OBVIOUS
<1>1. IsCall(call) /\ IsBitmap(bitmap)
  BY DEF IInv
<1>2. ASSUME Png!Return(result) \/ Png!ReturnFault(result)
      PROVE  /\ IsCall(call')
             /\ call'.step = "Done" /\ call'.op = call.op /\ call'.result = result
  BY <1>2 DEF Png!Return, Png!ReturnFault, Png!Finished, Png!Called, IsCall
<1>3. ASSUME Png!Fail(result) \/ Png!FailOnFault(result)
      PROVE  Outcome
  <2>1. Png!Return(result) \/ Png!ReturnFault(result)
    BY <1>3 DEF Png!Fail, Png!FailOnFault
  <2>2. IsBitmap(bitmap') /\ ~ IsValid(bitmap')
    BY <1>1, <1>3
    DEF Png!Fail, Png!FailOnFault, Png!Destroy, Png!Destroyed, IsBitmap,
        IsValid
  <2> QED BY <1>2, <2>1, <2>2 DEF Outcome, Ends
<1>4. ASSUME Png!Return(result) \/ Png!ReturnFault(result), MayEndWith(result)
      PROVE  Outcome
  BY <1>2, <1>4 DEF MayEndWith, Outcome, Ends
<1> QED BY <1>3, <1>4

(* A new bitmap takes the place of the old one, or the call ends.          *)
LEMMA PngCreated ==
  ASSUME IInv, Png!CreateBitmap
  PROVE  Outcome
<1>1. IsCall(call) /\ IsBitmap(bitmap)
  BY DEF IInv
<1>2. IsEarly(call) /\ call.op = "ReadPng"
  BY DEF Png!CreateBitmap, Png!At, IsEarly
<1>3. PICK format, width, height :
        Png!CreateFromBitmapDimensions(format, width, height, "Rows")
  BY DEF Png!CreateBitmap
<1> DEFINE b == Png!Sized("2D", format, width, height, 1, 1, 1)
<1>4. CASE Png!Return("ERROR_CREATING_BITMAP") /\ UNCHANGED <<bitmap, pixels>>
  BY <1>1, <1>2, <1>4, PngEnds DEF MayEndWith
<1>5. CASE /\ bitmap' = b
           /\ Png!Return("ERROR_CREATING_BITMAP") \/ Png!ReturnFault("ERROR_CREATING_BITMAP")
  <2>1. IsBitmap(bitmap') /\ ~ IsValid(bitmap')
    BY <1>5 DEF Png!Sized, IsBitmap, IsValid
  <2> QED BY <1>5, <2>1, PngEnds DEF MayEndWith
<1>6. CASE Png!Resize(b) /\ call' = Png!Goto("Rows")
  <2>1. IsBitmap(bitmap')
    BY <1>6 DEF Png!Resize, Png!Sized, IsBitmap
  <2>2. /\ IsCall(call') /\ call'.op = call.op
        /\ call'.step = "Rows" /\ call'.before = call.before
    BY <1>1, <1>6 DEF Png!Goto, IsCall
  <2> QED BY <1>2, <2>1, <2>2 DEF Outcome, GoesOn, IsEarly
<1> QED BY <1>3, <1>4, <1>5, <1>6 DEF Png!CreateFromBitmapDimensions

(* A read begins, and a save begins or is turned away.                     *)
LEMMA PngStarts ==
  ASSUME IInv, ~ Running, Png!Start
  PROVE  Outcome
<1>1. IsCall(call) /\ IsBitmap(bitmap)
  BY DEF IInv
<1>2. PICK wants \in BOOLEAN : Png!ReadImage(wants) \/ Png!Save(wants)
  BY DEF Png!Start
<1>3. ASSUME NEW op, NEW step, Png!Begin(op, step, wants), UNCHANGED <<bitmap, pixels>>
      PROVE  Outcome
  <2>1. IsCall(call')
    BY <1>3 DEF Png!Begin, Png!Called, IsCall
  <2>2. call'.before = [bitmap |-> bitmap, pixels |-> pixels, metadata |-> metadata]
    BY <1>3 DEF Png!Begin, Png!Called
  <2> QED BY <1>3, <2>1, <2>2 DEF Outcome, Begins
<1>4. ASSUME NEW op, NEW result, Png!Refuse(op, result, wants)
      PROVE  Outcome
  <2>1. IsCall(call') /\ call'.step = "Done" /\ bitmap' = bitmap
    BY <1>4 DEF Png!Refuse, Png!Called, IsCall
  <2> QED BY <1>1, <2>1 DEF Outcome, Ends
<1>5. CASE Png!ReadImage(wants)
  BY <1>3, <1>5 DEF Png!ReadImage
<1>6. CASE Png!Save(wants)
  BY <1>3, <1>4, <1>6 DEF Png!Save
<1> QED BY <1>2, <1>5, <1>6

(* Every step of its calls.                                                *)
LEMMA PngSteps ==
  ASSUME IInv, Png!Step
  PROVE  Outcome
<1>1. IsCall(call) /\ IsBitmap(bitmap)
  BY DEF IInv
<1>2. CASE Png!ReadSignature
  BY <1>1, <1>2, PngEnds
  DEF Png!ReadSignature, Png!At, Png!Goto, MayEndWith, IsEarly, Outcome,
      GoesOn, IsCall
<1>3. CASE Png!ReadInfo
  BY <1>1, <1>3, PngEnds
  DEF Png!ReadInfo, Png!At, Png!Goto, MayEndWith, IsEarly, Outcome, GoesOn,
      IsCall
<1>4. CASE Png!CreateBitmap
  BY <1>4, PngCreated
<1>5. CASE Png!ReadRow
  <2>1. ASSUME NEW stride, NEW beyond
        PROVE  /\ IsCall(Png!RowDone(stride, beyond))
               /\ Png!RowDone(stride, beyond).op = call.op
               /\ Png!RowDone(stride, beyond).step = call.step
               /\ Png!RowDone(stride, beyond).before = call.before
    BY <1>1 DEF Png!RowDone, IsCall
  <2>2. ASSUME NEW c, NEW faults
        PROVE  /\ IsCall(Png!Finished(c, "OK", faults))
               /\ Png!Finished(c, "OK", faults).step = "Done"
               /\ Png!Finished(c, "OK", faults).result = "OK"
    BY DEF Png!Finished, Png!Called, IsCall
  <2>3. CASE \E stride, beyond : call' = Png!RowDone(stride, beyond) /\ UNCHANGED bitmap
    BY <1>1, <1>5, <2>1, <2>3 DEF Png!ReadRow, Png!At, Outcome, GoesOn, IsEarly
  <2>4. CASE \E c, faults : call' = Png!Finished(c, "OK", faults) /\ UNCHANGED bitmap
    BY <1>1, <2>2, <2>4 DEF Outcome, Ends
  <2>5. CASE Png!NoPointers
    <3>1. IsBitmap(Png!NoBitmap) /\ ~ IsValid(Png!NoBitmap)
      BY DEF Png!NoBitmap, Png!Sized, IsBitmap, IsValid
    <3> QED
      BY <2>5, <3>1, PngEnds DEF Png!NoPointers, Png!Crash, MayEndWith
  <2> QED
    BY <1>5, <2>3, <2>4, <2>5, PngEnds DEF Png!ReadRow
<1>6. CASE Png!SaveCrashes
  <2>1. IsBitmap(Png!NoBitmap) /\ ~ IsValid(Png!NoBitmap)
    BY DEF Png!NoBitmap, Png!Sized, IsBitmap, IsValid
  <2> QED
    BY <1>6, <2>1, PngEnds
    DEF Png!SaveCrashes, Png!NoPointers, Png!Crash, MayEndWith
<1>7. CASE Png!SaveFails
  BY <1>1, <1>7, PngEnds DEF Png!SaveFails, Png!At, MayEndWith, ReadOp
<1>8. CASE Png!SavePiece
  BY <1>1, <1>8, PngEnds
  DEF Png!SavePiece, Png!SavePieces, Png!At, Png!Goto, MayEndWith, IsEarly, Outcome, GoesOn,
      IsCall
<1>9. CASE Png!Close("SavePng")
  BY <1>1, <1>9, PngEnds
  DEF Png!Close, Png!At, Png!Goto, MayEndWith, IsEarly, Outcome, GoesOn,
      IsCall
<1> QED BY <1>2, <1>3, <1>4, <1>5, <1>6, <1>7, <1>8, <1>9 DEF Png!Step

-----------------------------------------------------------------------------
(* Jpeg                                                                    *)

(* How the handler's calls end.                                            *)
LEMMA JpegEnds ==
  ASSUME IInv
  PROVE  \A result :
           /\ Jpeg!Fail(result) \/ Jpeg!FailOnFault(result) => Outcome
           /\ Jpeg!Return(result) \/ Jpeg!ReturnFault(result) =>
                (MayEndWith(result) => Outcome)
<1> SUFFICES ASSUME NEW result
             PROVE  /\ Jpeg!Fail(result) \/ Jpeg!FailOnFault(result) => Outcome
                    /\ Jpeg!Return(result) \/ Jpeg!ReturnFault(result) =>
                         (MayEndWith(result) => Outcome)
  OBVIOUS
<1>1. IsCall(call) /\ IsBitmap(bitmap)
  BY DEF IInv
<1>2. ASSUME Jpeg!Return(result) \/ Jpeg!ReturnFault(result)
      PROVE  /\ IsCall(call')
             /\ call'.step = "Done" /\ call'.op = call.op /\ call'.result = result
  BY <1>2 DEF Jpeg!Return, Jpeg!ReturnFault, Jpeg!Finished, Jpeg!Called, IsCall
<1>3. ASSUME Jpeg!Fail(result) \/ Jpeg!FailOnFault(result)
      PROVE  Outcome
  <2>1. Jpeg!Return(result) \/ Jpeg!ReturnFault(result)
    BY <1>3 DEF Jpeg!Fail, Jpeg!FailOnFault
  <2>2. IsBitmap(bitmap') /\ ~ IsValid(bitmap')
    BY <1>1, <1>3
    DEF Jpeg!Fail, Jpeg!FailOnFault, Jpeg!Destroy, Jpeg!Destroyed, IsBitmap,
        IsValid
  <2> QED BY <1>2, <2>1, <2>2 DEF Outcome, Ends
<1>4. ASSUME Jpeg!Return(result) \/ Jpeg!ReturnFault(result), MayEndWith(result)
      PROVE  Outcome
  BY <1>2, <1>4 DEF MayEndWith, Outcome, Ends
<1> QED BY <1>3, <1>4

(* A read begins, and a save begins or is turned away.                     *)
LEMMA JpegStarts ==
  ASSUME IInv, ~ Running, Jpeg!Start
  PROVE  Outcome
<1>1. IsCall(call) /\ IsBitmap(bitmap)
  BY DEF IInv
<1>2. PICK wants \in BOOLEAN : Jpeg!ReadImage(wants) \/ Jpeg!Save(wants)
  BY DEF Jpeg!Start
<1>3. ASSUME NEW op, NEW step, Jpeg!Begin(op, step, wants), UNCHANGED <<bitmap, pixels>>
      PROVE  Outcome
  <2>1. IsCall(call')
    BY <1>3 DEF Jpeg!Begin, Jpeg!Called, IsCall
  <2>2. call'.before = [bitmap |-> bitmap, pixels |-> pixels, metadata |-> metadata]
    BY <1>3 DEF Jpeg!Begin, Jpeg!Called
  <2> QED BY <1>3, <2>1, <2>2 DEF Outcome, Begins
<1>4. ASSUME NEW op, NEW result, Jpeg!Refuse(op, result, wants)
      PROVE  Outcome
  <2>1. IsCall(call') /\ call'.step = "Done" /\ bitmap' = bitmap
    BY <1>4 DEF Jpeg!Refuse, Jpeg!Called, IsCall
  <2> QED BY <1>1, <2>1 DEF Outcome, Ends
<1>5. CASE Jpeg!ReadImage(wants)
  BY <1>3, <1>5 DEF Jpeg!ReadImage
<1>6. CASE Jpeg!Save(wants)
  BY <1>3, <1>4, <1>6 DEF Jpeg!Save
<1> QED BY <1>2, <1>5, <1>6

(* Every step of its calls.                                                *)
LEMMA JpegSteps ==
  ASSUME IInv, Jpeg!Step
  PROVE  Outcome
<1>1. IsCall(call) /\ IsBitmap(bitmap)
  BY DEF IInv
<1>2. CASE Jpeg!ReadData
  BY <1>1, <1>2, JpegEnds
  DEF Jpeg!ReadData, Jpeg!At, Jpeg!Goto, MayEndWith, IsEarly, Outcome, GoesOn,
      IsCall
<1>3. CASE Jpeg!ReadHeader
  <2>1. call.op = "ReadJpeg" /\ call.step = "Header"
    BY <1>3 DEF Jpeg!ReadHeader, Jpeg!At
  <2>2. CASE /\ Jpeg!Return("INVALID_HEADER") \/ Jpeg!ReturnFault("INVALID_HEADER")
             /\ UNCHANGED <<bitmap, pixels, metadata>>
    BY <1>1, <2>1, <2>2, JpegEnds DEF MayEndWith, IsEarly
  <2> DEFINE header == file.at[0].value
             b      == Jpeg!Sized("2D", Jpeg!PIXEL_FORMAT_B8G8R8A8_UNORM,
                                  header.width, header.height, 1, 1, 1)
             next   == [call EXCEPT !.step = "Clear", !.header = header,
                                    !.position = Jpeg!JPEG_HEADER_SIZE]
  <2>3. /\ IsCall(next) /\ next.op = call.op
        /\ next.step = "Clear" /\ next.before = call.before
    BY <1>1 DEF IsCall
  <2>4. IsBitmap(b)
    BY DEF Jpeg!Sized, IsBitmap
  <2> HIDE DEF next, b
  <2>5. CASE Jpeg!Resize(b) /\ call' = next
    <3>1. IsBitmap(bitmap')
      BY <2>4, <2>5 DEF Jpeg!Resize, IsBitmap
    <3> QED BY <2>1, <2>3, <2>5, <3>1 DEF IsEarly, Outcome, GoesOn
  <2>6. CASE bitmap' = Jpeg!Destroyed(b) /\ call' = [next EXCEPT !.faults = TRUE]
    <3>1. IsBitmap(bitmap')
      BY <2>4, <2>6 DEF Jpeg!Destroyed, IsBitmap
    <3>2. /\ IsCall(call') /\ call'.op = next.op
          /\ call'.step = next.step /\ call'.before = next.before
      BY <2>3, <2>6 DEF IsCall
    <3> QED BY <2>1, <2>3, <3>1, <3>2 DEF IsEarly, Outcome, GoesOn
  <2> USE DEF next, b
  <2> QED BY <1>3, <2>2, <2>5, <2>6 DEF Jpeg!ReadHeader
<1>4. CASE Jpeg!ClearPixels
  <2>1. IsBitmap(Jpeg!NoBitmap) /\ ~ IsValid(Jpeg!NoBitmap)
    BY DEF Jpeg!NoBitmap, Jpeg!Sized, IsBitmap, IsValid
  <2> QED
    BY <1>1, <1>4, <2>1, JpegEnds
    DEF Jpeg!ClearPixels, Jpeg!At, Jpeg!Crash, Jpeg!Goto, MayEndWith, IsEarly,
        Outcome, GoesOn, IsCall
<1>5. CASE Jpeg!ReadRow
  <2>1. ASSUME NEW stride, NEW beyond
        PROVE  /\ IsCall(Jpeg!RowDone(stride, beyond))
               /\ Jpeg!RowDone(stride, beyond).op = call.op
               /\ Jpeg!RowDone(stride, beyond).step = call.step
               /\ Jpeg!RowDone(stride, beyond).before = call.before
    BY <1>1 DEF Jpeg!RowDone, IsCall
  <2>2. CASE \E stride, beyond : call' = Jpeg!RowDone(stride, beyond) /\ UNCHANGED bitmap
    BY <1>1, <1>5, <2>1, <2>2 DEF Jpeg!ReadRow, Jpeg!At, Outcome, GoesOn, IsEarly
  <2> QED BY <1>5, <2>2, JpegEnds DEF Jpeg!ReadRow
<1>6. CASE Jpeg!Finish
  BY <1>1, <1>6, JpegEnds
  DEF Jpeg!Finish, Jpeg!At, Jpeg!Goto, MayEndWith, IsEarly, Outcome, GoesOn,
      IsCall
<1>7. CASE Jpeg!SaveCrashes
  <2>1. IsBitmap(Jpeg!NoBitmap) /\ ~ IsValid(Jpeg!NoBitmap)
    BY DEF Jpeg!NoBitmap, Jpeg!Sized, IsBitmap, IsValid
  <2> QED
    BY <1>1, <1>7, <2>1, JpegEnds
    DEF Jpeg!SaveCrashes, Jpeg!At, Jpeg!Crash, Jpeg!Goto, MayEndWith, IsEarly,
        Outcome, GoesOn, IsCall
<1>8. CASE Jpeg!SavePieces("SaveJpeg", Jpeg!Pieces)
  BY <1>1, <1>8, JpegEnds
  DEF Jpeg!SavePieces, Jpeg!At, Jpeg!Goto, MayEndWith, IsEarly, Outcome,
      GoesOn, IsCall
<1>9. CASE Jpeg!Close("SaveJpeg")
  BY <1>1, <1>9, JpegEnds
  DEF Jpeg!Close, Jpeg!At, Jpeg!Goto, MayEndWith, IsEarly, Outcome, GoesOn,
      IsCall
<1> QED BY <1>2, <1>3, <1>4, <1>5, <1>6, <1>7, <1>8, <1>9 DEF Jpeg!Step

-----------------------------------------------------------------------------
(* The invariant, and the property                                         *)

(* Every step of the system is one of the three.                           *)
LEMMA NextOutcome ==
  ASSUME IInv, [Next]_allVars
  PROVE  IInv' /\ WholeOrNothing
<1>1. CASE Call
  BY <1>1, TgaStarts, BmpStarts, PsdStarts, PngStarts, JpegStarts, Outcomes
  DEF Call
<1>2. CASE Step
  BY <1>2, TgaSteps, BmpSteps, PsdSteps, PngSteps, JpegSteps, Outcomes DEF Step
<1>3. CASE \E n \in LostBytes : CutOff(n)
  BY <1>3 DEF CutOff, IInv, Untouched, WholeOrNothing, Running
<1>4. CASE UNCHANGED allVars
  BY <1>4 DEF allVars, vars, IInv, Untouched, WholeOrNothing, Running
<1> QED BY <1>1, <1>2, <1>3, <1>4 DEF Next

(* The call of the first states is over, and its bitmap is one.            *)
LEMMA InitialInvariant == Init => IInv
<1> SUFFICES ASSUME Init PROVE IInv
  OBVIOUS
<1>1. call = Called("None", "Done", "OK", FALSE)
  BY DEF Init
<1>2. IsCall(call) /\ ~ IsEarly(call)
  BY <1>1 DEF Called, IsCall, IsEarly
<1>3. IsBitmap(bitmap)
  BY ScenesAssumption DEF Init, IsImage, Bitmap, IsBitmap
<1> QED BY <1>2, <1>3 DEF IInv

(* The bitmap of a call is untouched until its new one is created: for     *)
(* every set of files, bitmaps and losses.                                 *)
THEOREM BitmapIsUntouched == Spec => []IInv
<1>1. IInv /\ [Next]_allVars => IInv'
  BY NextOutcome
<1> QED BY InitialInvariant, <1>1, PTL DEF Spec

(* A read that fails leaves the caller's bitmap as it was, or empty: never *)
(* pixels half read.                                                       *)
THEOREM FailedReadsLeaveNothing == Spec => NoHalfPicture
<1>1. IInv /\ [Next]_allVars => [WholeOrNothing]_allVars
  BY NextOutcome
<1>2. [][WholeOrNothing]_allVars => NoHalfPicture
  BY DEF WholeOrNothing, NoHalfPicture
<1> QED BY BitmapIsUntouched, <1>1, <1>2, PTL DEF Spec

-----------------------------------------------------------------------------
(* What the caller holds between two steps                                 *)

MetadataType == [cutout : {"default", "set"}, strings : Seq(Strings \X Strings)]

IsTyped(c) ==
  /\ DOMAIN c = {"op", "step", "result", "wants", "position", "index", "row", "header",
                 "palette", "faults", "beyond", "before"}
  /\ c.op \in ReadOp \union SaveOp \union {"None"}
  /\ c.result \in Result
  /\ c.wants \in BOOLEAN /\ c.faults \in BOOLEAN /\ c.beyond \in BOOLEAN
  /\ c.position \in Nat /\ c.index \in Nat /\ c.row \in Nat

Common ==
  /\ IsFile(file)
  /\ IsImage(bitmap, pixels)
  /\ metadata \in MetadataType
  /\ IsTyped(call)
  /\ PixelsStayInside

(* What the reads know of the file and of the new bitmap                   *)

HeaderOf(kind, position) ==
  IsAt(file, position, kind) /\ call.header = file.at[position].value

Fresh(b, format, width, height) ==
  /\ b = [Sized("2D", format, width, height, 1, 1, 1)
            EXCEPT !.data = width * height * GetBytesPerPixel(format)]
  /\ IsValid(b)

(* TGA: the packets that are decoded begin where a packet of the picture   *)
(* does, and the entries that have been passed lead to no chunk.           *)
TgaPixels   == {"Pixels", "Palette", "Indexes", "Rows", "Compressed", "Packets", "Mirror"}
TgaMetadata == {"Footer", "Directory", "Entries"}

InStep(before) ==
  \/ call.index = 4 * (call.header.width * call.header.height)
  \/ /\ call.position \in DOMAIN file.at /\ call.position >= Tga!FirstPacket(call.header)
     /\ call.index = 4 * before[call.position]

StaysInStep ==
  Tga!FirstPacket(call.header) \in DOMAIN file.at
    /\ Tga!GetFormat(call.header) # PIXEL_FORMAT_R8_UNORM =>
    \A before \in [DOMAIN file.at -> 0 .. call.header.width * call.header.height] :
      Tga!ArePixelsBefore(before, call.header) => InStep(before)

TgaReads ==
  /\ file.codec = "tga"
  /\ call.step \in {"Header", "Create"} \union TgaPixels \union TgaMetadata
  /\ call.wants => metadata.strings = <<>>
  /\ \A i \in DOMAIN call.palette : call.palette[i] \in Byte \X Byte \X Byte
  /\ call.step \in {"Header", "Create", "Pixels", "Palette", "Compressed"} =>
       call.index = 0 /\ call.row = 0
  /\ call.step \in {"Create"} \union TgaPixels =>
       HeaderOf("tgaHeader", 0)
  /\ call.step \in TgaPixels =>
       Fresh(bitmap, Tga!GetFormat(call.header), call.header.width, call.header.height)
  /\ call.step \in {"Create", "Pixels", "Palette"} => call.position = 18
  /\ call.step = "Palette" => Tga!IsIndexed(call.header)
  /\ call.step = "Indexes" => call.header.imageType = Tga!RAW_INDEXED
  /\ call.step = "Rows" => call.header.imageType \in Tga!RAW_PIXELS /\ call.row < bitmap.height
  /\ call.step \in {"Compressed", "Packets"} =>
       call.header.imageType \in Tga!RLE_PIXELS \union {Tga!RLE_INDEXED}
  /\ call.step = "Compressed" => call.position = Tga!FirstPacket(call.header)
  /\ call.step = "Packets" => StaysInStep
  /\ call.step \in TgaMetadata => call.wants
  /\ call.step = "Directory" =>
       /\ IsAt(file, FooterOf(file), "footer") /\ file.at[FooterOf(file)].value # 0
       /\ call.position = DirectoryOf(file)
  /\ call.step = "Entries" =>
       /\ HasDirectory(file) /\ call.header = file.at[DirectoryOf(file)].value
       /\ call.index \in Nat \ {0}
       /\ \A i \in EntriesOf(file) : i < call.index => IsNoChunk(file, LeadsTo(file, i))

BmpReads ==
  /\ file.codec = "bmp"
  /\ call.step \in {"Header", "Dib", "Create", "Rows"}
  /\ call.step = "Dib" => IsAt(file, 0, "bmpHeader")
  /\ call.step \in {"Create", "Rows"} => HeaderOf("dibHeader", 14) /\ call.header.bitCount \in {24, 32}
  /\ call.step # "Rows" => call.row = 0
  /\ call.step = "Rows" =>
       /\ Fresh(bitmap, Bmp!GetFormat(call.header), call.header.width, call.header.height)
       /\ call.row < bitmap.height

PsdReads ==
  /\ file.codec = "psd"
  /\ call.step \in {"Header", "Blocks", "Compression", "Create", "Counts", "Channels", "Packets"}
  /\ call.step # "Header" => HeaderOf("psdHeader", 0) /\ call.header.channelCount <= 4
  /\ call.step \in {"Create", "Counts"} => call.row = 0
  /\ call.step \in {"Counts", "Channels", "Packets"} =>
       /\ Fresh(bitmap, Psd!GetFormat(call.header), call.header.width, call.header.height)
       /\ call.row <= call.header.channelCount

(* PNG: the texts of the file, or with a fault all but one of them.        *)
PngFound ==
  \E texts \in {file.strings, Png!SavedTexts(file.strings)} :
    \/ metadata.strings = texts
    \/ call.faults /\ \E lost \in DOMAIN texts : metadata.strings = Png!Without(texts, lost)

PngReads ==
  /\ file.codec = "png"
  /\ call.step \in {"Signature", "Info", "Create", "Rows"}
  /\ call.step = "Info" => call.position = 8
  /\ call.step \in {"Create", "Rows"} => HeaderOf("info", 8) /\ (call.wants => PngFound)
  /\ call.step # "Rows" => call.row = 0
  /\ call.step = "Rows" =>
       /\ Fresh(bitmap, Png!GetFormat(call.header.channels, call.header.bitsPerPixel),
                call.header.width, call.header.height)
       /\ call.row < bitmap.height

JpegReads ==
  /\ file.codec = "jpg"
  /\ call.step \in {"Data", "Header", "Clear", "Rows"}
  /\ call.step \in {"Data", "Header"} => call.position = 0
  /\ call.step # "Rows" => call.row = 0
  /\ call.step \in {"Clear", "Rows"} => HeaderOf("jpegHeader", 0)
  /\ call.step \in {"Clear", "Rows"} /\ IsValid(bitmap) =>
       Fresh(bitmap, PIXEL_FORMAT_B8G8R8A8_UNORM, call.header.width, call.header.height)
  /\ call.step = "Rows" => IsValid(bitmap) /\ call.row <= bitmap.height

(* What the saves know of the file they are writing                        *)

Kinds(f, kinds) == \A o \in DOMAIN f.at : f.at[o].kind \in kinds

AtPiece(f, offset, piece) == offset \in DOMAIN f.at /\ f.at[offset] = piece

SavesTo(codec) == file.codec = codec /\ file.cut /\ IsValid(bitmap)

(* TGA: of n - 1 of the five pieces of the metadata of a file, where they  *)
(* are and where the file ends.                                            *)
ChunkIsAt(f, c, n) ==
  LET pieces    == Chunk(f.strings)
      entries   == c + HEADER_SIZE
      text      == entries + ENTRY_SIZE * Len(f.strings)
      directory == entries + ChunkSize(f.strings)
      footer    == directory + 12
  IN  /\ n > 1 => AtPiece(f, c, pieces[1])
      /\ n > 2 => AtPiece(f, entries, pieces[2])
      /\ n > 3 => AtPiece(f, text, pieces[3])
      /\ n > 4 => AtPiece(f, directory, Tga!Directory(<<Tga!Entry("CP", c)>>))
      /\ f.size = CASE n = 1 -> c [] n = 2 -> entries [] n = 3 -> text
                    [] n = 4 -> directory [] n = 5 -> footer

TgaSaves ==
  /\ call.step \in {"Header", "Rows", "Metadata", "Close"}
  /\ SavesTo("tga") /\ Tga!CanSave
  /\ file.strings \in {<<>>, metadata.strings}
  /\ call.step = "Header" => file.at = <<>> /\ file.size = 0 /\ call.row = 0
  /\ call.step \in {"Rows", "Metadata"} => file.size >= 18
  /\ call.step = "Rows" => Kinds(file, {"tgaHeader", "bytes"}) /\ call.row < bitmap.height
  /\ call.step = "Metadata" =>
       /\ file.strings # <<>> /\ call.index \in 1 .. 5
       /\ Kinds(file, {"tgaHeader", "bytes", "metadataHeader", "metadataEntries",
                       "metadataStrings", "directory"})
       /\ \A o \in DOMAIN file.at : file.at[o].kind = "metadataHeader" => o = call.position
       /\ call.position > 0
       /\ ChunkIsAt(file, call.position, call.index)
  /\ call.step = "Close" /\ file.strings # <<>> => LeadsToChunk(file)

BmpSaves ==
  /\ call.step \in {"Header", "Rows", "Close"}
  /\ SavesTo("bmp") /\ Bmp!CanSave /\ file.strings = <<>>
  /\ Kinds(file, {"bmpHeader", "dibHeader", "bytes"})
  /\ call.step = "Header" => file.at = <<>> /\ file.size = 0 /\ call.row = 0
  /\ call.step = "Rows" => file.size >= 54 /\ call.row < bitmap.height

PsdSaves ==
  /\ call.step \in {"Header", "Channels", "Close"}
  /\ SavesTo("psd") /\ Psd!CanSave /\ file.strings = <<>>
  /\ Kinds(file, {"psdHeader", "bytes"})
  /\ call.step = "Header" => call.index <= 4 /\ call.row = 0
  /\ call.step = "Header" /\ call.index = 0 => file.at = <<>> /\ file.size = 0
  /\ call.step = "Header" /\ call.index # 0 => file.size >= 26
  /\ call.step = "Channels" => file.size >= 26 /\ call.row < Psd!SavedChannels

PngSaves ==
  /\ call.step \in {"Pieces", "Close"}
  /\ SavesTo("png") /\ Png!CanSave
  /\ Kinds(file, {"signature", "info", "row", "end", "part"})
  /\ file.strings = IF call.wants THEN metadata.strings ELSE <<>>
  /\ call.step = "Pieces" => call.index < bitmap.height + 3
  /\ \A o \in DOMAIN file.at : file.at[o].kind = "info" => file.at[o].value = Png!SavedInfo
  /\ \A o \in DOMAIN file.at : file.at[o].kind = "row" => Png!IsRowOf(Png!SavedInfo, file.at[o].value)

JpegSaved == Jpeg!Header(bitmap.width, bitmap.height, Jpeg!SavedChannels)

JpegSaves ==
  /\ call.step \in {"Pieces", "Close"}
  /\ SavesTo("jpg") /\ Jpeg!CanSave /\ file.strings = <<>>
  /\ Kinds(file, {"jpegHeader", "scanline", "endOfImage", "part"})
  /\ call.step = "Pieces" => call.index < bitmap.height + 2
  /\ \A o \in DOMAIN file.at : file.at[o].kind = "jpegHeader" => file.at[o].value = JpegSaved
  /\ \A o \in DOMAIN file.at : file.at[o].kind = "scanline" => Jpeg!IsRowOf(JpegSaved, file.at[o].value)

(* The inductive invariant: one part for each call that may be running.    *)
During(op) == call.op = op /\ Running

Inv ==
  /\ Common
  /\ MetadataComeFromTheFile
  /\ During("ReadTga")  => TgaReads
  /\ During("ReadBmp")  => BmpReads
  /\ During("ReadPsd")  => PsdReads
  /\ During("ReadPng")  => PngReads
  /\ During("ReadJpeg") => JpegReads
  /\ During("SaveTga")  => TgaSaves
  /\ During("SaveBmp")  => BmpSaves
  /\ During("SavePsd")  => PsdSaves
  /\ During("SavePng")  => PngSaves
  /\ During("SaveJpeg") => JpegSaves
  /\ call.op = "None" => ~ Running

-----------------------------------------------------------------------------
(* Bytes, buffers and bitmaps                                              *)

(* A byte of a file is a byte, wherever it is looked for.                  *)
LEMMA ByteType ==
  ASSUME NEW f, IsFile(f), NEW p \in Int
  PROVE  ByteWritten(f, p) \in Byte /\ ByteAt(f, p) \in Byte
<1>1. Unknown \in Byte
  BY DEF Unknown, Byte
<1>2. ASSUME NEW o \in StartsBefore(f, p), f.at[o].kind = "bytes"
      PROVE  f.at[o].value[p - o + 1] \in Byte
  <2>1. o \in Nat /\ o <= p /\ p < o + f.at[o].size /\ IsPiece(f.at[o])
    BY DEF StartsBefore, IsFile
  <2>2. f.at[o].value \in Seq(Byte) /\ f.at[o].size = Len(f.at[o].value)
    BY <1>2, <2>1 DEF IsPiece
  <2>3. p - o + 1 \in 1 .. Len(f.at[o].value)
    BY <2>1, <2>2
  <2> QED BY <2>2, <2>3
<1>3. ByteWritten(f, p) \in Byte
  BY <1>1, <1>2 DEF ByteWritten
<1> QED BY <1>1, <1>3 DEF ByteAt

(* Any number of bytes read at any position are bytes.                     *)
LEMMA BytesType ==
  ASSUME NEW f, IsFile(f), NEW p \in Nat, NEW n \in Nat
  PROVE  BytesAt(f, p, n) \in [1 .. n -> Byte]
<1>1. \A i \in 1 .. n : ByteAt(f, p + i - 1) \in Byte
  BY ByteType
<1> QED BY <1>1 DEF BytesAt

(* A buffer stays one when bytes are put to it.                            *)
LEMMA PutType ==
  ASSUME NEW n, NEW data \in [1 .. n -> Byte], NEW i \in Int, NEW values,
         \A k \in DOMAIN values : values[k] \in Byte
  PROVE  Put(data, i, values) \in [1 .. n -> Byte]
BY DEF Put

(* No bytes are bytes.                                                     *)
LEMMA NoBytes == <<>> \in [1 .. 0 -> Byte]
<1>1. 1 .. 0 = {}
  OBVIOUS
<1> QED BY <1>1

(* A row ends where the next begins.                                       *)
LEMMA RowsFit ==
  ASSUME NEW rows \in Nat, NEW row \in Nat, row < rows, NEW size \in Nat
  PROVE  /\ row * size \in Nat /\ rows * size \in Nat
         /\ row * size + size <= rows * size
         /\ (rows - 1 - row) * size \in Nat
         /\ (rows - 1 - row) * size + size <= rows * size
<1>1. rows - 1 - row \in Nat /\ (rows - 1 - row) + 1 <= rows /\ row + 1 <= rows
  OBVIOUS
<1>2. \A x \in Nat : (x + 1) * size = x * size + size /\ x * size \in Nat
  OBVIOUS
<1>3. \A x \in Nat : x <= rows => x * size <= rows * size
  BY ProductGrows
<1>4. (row + 1) * size <= rows * size /\ ((rows - 1 - row) + 1) * size <= rows * size
  BY <1>1, <1>3
<1>5. /\ (row + 1) * size = row * size + size
      /\ ((rows - 1 - row) + 1) * size = (rows - 1 - row) * size + size
  BY <1>1, <1>2
<1>6. row * size \in Nat /\ (rows - 1 - row) * size \in Nat /\ rows * size \in Nat
  BY <1>1, <1>2
<1>7. row * size + size <= rows * size
  BY <1>4, <1>5
<1>8. (rows - 1 - row) * size + size <= rows * size
  BY <1>4, <1>5
<1> QED BY <1>6, <1>7, <1>8

(* Where a byte of some rows is: its row, and its place in it.             *)
LEMMA Cells ==
  ASSUME NEW rows \in Nat, NEW size \in Nat \ {0}, NEW i \in 1 .. rows * size
  PROVE  /\ (i - 1) \div size \in 0 .. rows - 1
         /\ (i - 1) % size \in 0 .. size - 1
         /\ i = ((i - 1) \div size) * size + ((i - 1) % size) + 1
<1>1. i - 1 \in Nat /\ rows * size \in Nat /\ i - 1 < rows * size
  BY ProductType
<1> DEFINE q == (i - 1) \div size
           r == (i - 1) % size
<1>2. q \in Nat /\ r \in 0 .. size - 1 /\ i - 1 = q * size + r
  BY <1>1
<1> HIDE DEF q, r
<1>3. q < rows
  <2> SUFFICES ASSUME rows <= q PROVE FALSE
    BY <1>2
  <2>1. rows * size <= q * size /\ q * size \in Nat
    BY <1>2, ProductGrows, ProductType
  <2> QED BY <1>1, <1>2, <2>1
<1> QED BY <1>2, <1>3 DEF q, r

(* The formats the handlers read and save.                                 *)
LEMMA Formats ==
  /\ GetBytesPerPixel(PIXEL_FORMAT_R8_UNORM) = 1
  /\ GetBytesPerPixel(PIXEL_FORMAT_A8_UNORM) = 1
  /\ GetBytesPerPixel(PIXEL_FORMAT_R8G8_UNORM) = 2
  /\ GetBytesPerPixel(PIXEL_FORMAT_R16_UNORM) = 2
  /\ GetBytesPerPixel(PIXEL_FORMAT_R16G16_UNORM) = 4
  /\ GetBytesPerPixel(PIXEL_FORMAT_B8G8R8X8_UNORM) = 4
  /\ GetBytesPerPixel(PIXEL_FORMAT_B8G8R8A8_UNORM) = 4
  /\ GetBytesPerPixel(PIXEL_FORMAT_R10G10B10A2_UNORM) = 4
  /\ GetBytesPerPixel(PIXEL_FORMAT_R10G10B10A2_TYPELESS) = 4
  /\ GetBytesPerPixel(PIXEL_FORMAT_R16G16B16A16_UNORM) = 8
BY DEF GetBytesPerPixel, PIXEL_FORMAT_R8_UNORM, PIXEL_FORMAT_A8_UNORM, PIXEL_FORMAT_R8G8_UNORM,
       PIXEL_FORMAT_R16_UNORM, PIXEL_FORMAT_R16G16_UNORM, PIXEL_FORMAT_B8G8R8X8_UNORM,
       PIXEL_FORMAT_B8G8R8A8_UNORM, PIXEL_FORMAT_R10G10B10A2_UNORM,
       PIXEL_FORMAT_R10G10B10A2_TYPELESS, PIXEL_FORMAT_R16G16B16A16_UNORM

HandledFormats ==
  {PIXEL_FORMAT_R8_UNORM, PIXEL_FORMAT_A8_UNORM, PIXEL_FORMAT_R8G8_UNORM, PIXEL_FORMAT_R16_UNORM,
   PIXEL_FORMAT_R16G16_UNORM, PIXEL_FORMAT_B8G8R8X8_UNORM, PIXEL_FORMAT_B8G8R8A8_UNORM,
   PIXEL_FORMAT_R10G10B10A2_UNORM, PIXEL_FORMAT_R10G10B10A2_TYPELESS,
   PIXEL_FORMAT_R16G16B16A16_UNORM}

(* The formats that the image handlers read and write are not compressed,  *)
(* and their pixels have one, two, four or eight bytes.                    *)
LEMMA HandledFormatsAreFlat ==
  ASSUME NEW f \in HandledFormats
  PROVE  /\ f \in PixelFormat /\ ~ IsCompressedFormat(f)
         /\ GetBytesPerPixel(f) \in {1, 2, 4, 8}
<1>1. f \in PixelFormat /\ ~ IsCompressedFormat(f)
  BY DEF HandledFormats, PixelFormat, PIXEL_FORMAT_SENTINEL, IsCompressedFormat, IsDds10Format,
       PIXEL_FORMAT_R8_UNORM, PIXEL_FORMAT_A8_UNORM, PIXEL_FORMAT_R8G8_UNORM,
       PIXEL_FORMAT_R16_UNORM, PIXEL_FORMAT_R16G16_UNORM, PIXEL_FORMAT_B8G8R8X8_UNORM,
       PIXEL_FORMAT_B8G8R8A8_UNORM, PIXEL_FORMAT_R10G10B10A2_UNORM,
       PIXEL_FORMAT_R10G10B10A2_TYPELESS, PIXEL_FORMAT_R16G16B16A16_UNORM
<1>2. GetBytesPerPixel(f) \in {1, 2, 4, 8}
  BY Formats DEF HandledFormats
<1> QED BY <1>1, <1>2

(* A texture of one level needs this many bytes.                           *)
LEMMA FlatSize ==
  ASSUME NEW f \in HandledFormats, NEW w \in Nat, NEW h \in Nat, NEW n \in Nat
  PROVE  LET b == [Sized("2D", f, w, h, 1, 1, 1) EXCEPT !.data = n]
         IN  /\ b \in Bitmap /\ Sized("2D", f, w, h, 1, 1, 1) \in Bitmap
             /\ GetDataSize(b) = w * h * GetBytesPerPixel(f)
             /\ GetDataSize(Sized("2D", f, w, h, 1, 1, 1)) = w * h * GetBytesPerPixel(f)
<1> DEFINE b == [Sized("2D", f, w, h, 1, 1, 1) EXCEPT !.data = n]
           a == Sized("2D", f, w, h, 1, 1, 1)
<1>1. f \in PixelFormat /\ ~ IsCompressedFormat(f) /\ GetBytesPerPixel(f) \in Nat
  BY HandledFormatsAreFlat
<1>2. /\ a \in Bitmap /\ b \in Bitmap
      /\ a.type = "2D" /\ a.format = f /\ a.width = w /\ a.height = h /\ a.mipCount = 1
      /\ a.arraySize = 1
  BY <1>1 DEF Bitmap, Sized, TextureType
<1>3. GetDataSize(b) = GetDataSize(a)
  BY <1>2, DataSizeIgnoresData
<1> HIDE DEF a
<1>4. GetDataSize(a) = LevelBytes(a, 0) * 1
  BY <1>2, OneLevel
<1>5. LevelBytes(a, 0) = w * h * 1 * GetBytesPerPixel(f)
  BY <1>1, <1>2, TopLevel DEF IsCompressed, Slices, Bpp
<1>6. w * h \in Nat
  BY ProductType
<1>7. \A x \in Nat : x * 1 = x
  OBVIOUS
<1>8. w * h * GetBytesPerPixel(f) \in Nat
  BY <1>1, <1>6, ProductType
<1> QED BY <1>2, <1>3, <1>4, <1>5, <1>6, <1>7, <1>8 DEF a

(* What a new bitmap is.                                                   *)
IsNew(b, f, w, h) ==
  /\ b \in Bitmap /\ b.format = f /\ b.width = w /\ b.height = h
  /\ w # 0 /\ h # 0
  /\ b.data = w * h * GetBytesPerPixel(f)
  /\ b.data = h * (w * GetBytesPerPixel(f))
  /\ GetPitch(b) = w * GetBytesPerPixel(f)
  /\ GetMipSize(b, 0) = b.data
  /\ Exact(b) /\ IsValid(b)

(* A bitmap that a read has created has a buffer of as many bytes as its   *)
(* rows need.                                                              *)
LEMMA FreshIsNew ==
  ASSUME NEW f \in HandledFormats, NEW w \in Nat, NEW h \in Nat, NEW b, Fresh(b, f, w, h)
  PROVE  IsNew(b, f, w, h)
<1> DEFINE bpp == GetBytesPerPixel(f)
<1>1. f \in PixelFormat /\ ~ IsCompressedFormat(f) /\ bpp \in Nat
  BY HandledFormatsAreFlat
<1>2. w * h * bpp \in Nat
  BY <1>1, ProductType
<1>3. b \in Bitmap /\ GetDataSize(b) = w * h * bpp
  BY <1>2, FlatSize DEF Fresh
<1>4. /\ b.type = "2D" /\ b.format = f /\ b.width = w /\ b.height = h /\ b.mipCount = 1
      /\ b.data = w * h * bpp /\ IsValid(b)
  BY DEF Fresh, Sized
<1> HIDE DEF bpp
<1>5. w # 0 /\ h # 0
  BY <1>1, <1>4 DEF IsValid
<1>6. w * h * bpp = h * (w * bpp)
  BY <1>1
<1>7. GetPitch(b) = w * bpp
  BY <1>1, <1>4 DEF GetPitch, IsCompressed, bpp
<1>8. GetMipWidth(b, 0) = w /\ GetMipHeight(b, 0) = h /\ GetMipDepth(b, 0) = 1
  <2>1. Shr(w, 0) = w /\ Shr(h, 0) = h /\ w >= 1 /\ h >= 1
    BY <1>5, ShrUnfolds
  <2>2. ~ (0 >= GetTrueMipCount(b)) /\ ~ IsCompressed(b)
    BY <1>1, <1>4 DEF GetTrueMipCount, IsCompressed
  <2>3. GetMipDepth(b, 0) = 1
    BY <1>4 DEF GetMipDepth
  <2>4. \A x \in Nat : x >= 1 => Larger(x, 1) = x
    BY DEF Larger
  <2> QED BY <1>4, <2>1, <2>2, <2>3, <2>4 DEF GetMipWidth, GetMipHeight, LevelSide
<1>9. w * h * 1 = w * h
  BY ProductType
<1>10. GetMipSize(b, 0) = w * h * bpp
  BY <1>1, <1>4, <1>8, <1>9 DEF GetMipSize, IsCompressed, bpp
<1> QED BY <1>3, <1>4, <1>5, <1>6, <1>7, <1>10 DEF IsNew, Exact, bpp

(* A valid bitmap of one element holds its top level.                      *)
LEMMA TopLevelFits ==
  ASSUME NEW b, NEW data, IsImage(b, data), IsValid(b), b.format \in HandledFormats,
         b.type \in {"1D", "2D"}, b.arraySize = 1
  PROVE  /\ b.width \in Nat \ {0} /\ b.height \in Nat \ {0} /\ b.data \in Nat
         /\ GetPitch(b) = b.width * GetBytesPerPixel(b.format)
         /\ b.height * (b.width * GetBytesPerPixel(b.format)) <= b.data
<1> DEFINE t == [i \in Nat |-> LevelBytes(b, i)]
           bpp == GetBytesPerPixel(b.format)
<1>1. /\ b \in Bitmap /\ b.width \in Nat \ {0} /\ b.height \in Nat \ {0} /\ b.data \in Nat
      /\ b.data = GetDataSize(b)
  BY DEF IsImage, Bitmap, Exact
<1>2. ~ IsCompressed(b) /\ bpp \in Nat
  BY HandledFormatsAreFlat DEF IsCompressed
<1>3. GetPitch(b) = b.width * bpp
  BY <1>2 DEF GetPitch
<1>4. GetTrueMipCount(b) >= 1 /\ GetTrueMipCount(b) \in Nat
  BY <1>1, SomeLevel, MipCountType
<1>5. t \in [Nat -> Nat] /\ t[0] = LevelBytes(b, 0)
  BY <1>1, LevelBytesType
<1>6. LevelBytes(b, 0) = b.width * b.height * 1 * bpp
  BY <1>1, <1>2, TopLevel DEF Slices, Bpp
<1>7. GetDataSize(b) = Total(t, GetTrueMipCount(b)) * 1
  BY DEF GetDataSize
<1> HIDE DEF t, bpp
<1>8. Total(t, GetTrueMipCount(b)) \in Nat
  BY <1>4, <1>5, TotalUnfolds
<1>9. Total(t, 1) <= Total(t, GetTrueMipCount(b)) /\ Total(t, 1) = t[0]
  BY <1>4, <1>5, TotalGrows, TotalOfOne
<1>10. b.width * b.height * 1 * bpp = b.height * (b.width * bpp)
  BY <1>1, <1>2
<1>11. b.height * (b.width * bpp) <= b.data
  BY <1>1, <1>5, <1>6, <1>7, <1>8, <1>9, <1>10
<1> QED BY <1>1, <1>3, <1>11 DEF bpp

-----------------------------------------------------------------------------
(* How a step goes on, and how a call ends                                 *)

(* What may be written beyond the buffer is a matter of the pieces only.   *)
LEMMA MayGoBeyondStays ==
  ASSUME file'.at = file.at, MayGoBeyond
  PROVE  MayGoBeyond'
<1>1. \A p : Tga!ByteWritten(file', p) = Tga!ByteWritten(file, p)
  BY DEF Tga!ByteWritten, Tga!StartsBefore
<1>2. ASSUME NEW before, NEW header
      PROVE  Tga!ArePixelsBefore(before, header)' <=> Tga!ArePixelsBefore(before, header)
  BY <1>1 DEF Tga!ArePixelsBefore
<1>3. ASSUME NEW header
      PROVE  Tga!PacketsFit(header)' <=> Tga!PacketsFit(header)
  BY <1>2 DEF Tga!PacketsFit
<1>4. ASSUME NEW kind
      PROVE  Header(kind)' = Header(kind)
  BY DEF Header, IsAt
<1>5. PngInfo' = PngInfo
  BY DEF PngInfo, IsAt
<1>6. CASE \E i \in PngInfo : i.keyed
  BY <1>5, <1>6 DEF MayGoBeyond
<1>7. CASE \E h \in Header("psdHeader") : IF h.gray THEN h.channelCount > 1 ELSE h.channelCount < 3
  BY <1>4, <1>7 DEF MayGoBeyond
<1>8. CASE \E h \in Header("tgaHeader") :
             \/ h.imageType \in Tga!RLE_PIXELS /\ h.bpp = 8
             \/ h.imageType \in Tga!RLE_PIXELS \union {Tga!RLE_INDEXED} /\ ~ Tga!PacketsFit(h)
             \/ h.imageType \in Tga!RAW_PIXELS /\ IF h.mapped THEN h.bpp = 8 ELSE h.bpp >= 40
  BY <1>3, <1>4, <1>8 DEF MayGoBeyond
<1> QED BY <1>6, <1>7, <1>8 DEF MayGoBeyond

(* A call that is over knows nothing.                                      *)
LEMMA Over ==
  ASSUME Common', MetadataComeFromTheFile', call'.step = "Done"
  PROVE  Inv'
BY DEF Inv, During, Running

(* A call that goes on has only its own part of the invariant to keep.     *)
LEMMA GoesOnReading ==
  ASSUME Common', call'.step # "Done"
  PROVE  /\ call'.op = "ReadTga"  /\ TgaReads' => Inv'
         /\ call'.op = "ReadBmp"  /\ BmpReads' => Inv'
         /\ call'.op = "ReadPsd"  /\ PsdReads' => Inv'
         /\ call'.op = "ReadPng"  /\ PngReads' => Inv'
         /\ call'.op = "ReadJpeg" /\ JpegReads' => Inv'
         /\ call'.op = "SaveTga"  /\ TgaSaves' => Inv'
         /\ call'.op = "SaveBmp"  /\ BmpSaves' => Inv'
         /\ call'.op = "SavePsd"  /\ PsdSaves' => Inv'
         /\ call'.op = "SavePng"  /\ PngSaves' => Inv'
         /\ call'.op = "SaveJpeg" /\ JpegSaves' => Inv'
<1>1. MetadataComeFromTheFile'
  BY DEF MetadataComeFromTheFile, Running
<1> QED BY <1>1 DEF Inv, During, Running

(* What the reads and the writes do not touch.                             *)
LEMMA CommonStays ==
  ASSUME Common, IsTyped(call'), UNCHANGED <<file, bitmap, pixels>>, metadata' \in MetadataType,
         call'.beyond => call.beyond /\ call.op = call'.op
  PROVE  Common'
<1>1. PixelsStayInside'
  BY MayGoBeyondStays DEF Common, PixelsStayInside
<1> QED BY <1>1 DEF Common, IsTyped

(* Return keeps of the call what it went through.                          *)
LEMMA Returned ==
  ASSUME IsTyped(call), NEW result \in Result, Return(result) \/ ReturnFault(result)
  PROVE  /\ IsTyped(call')
         /\ call'.op = call.op /\ call'.step = "Done" /\ call'.result = result
         /\ call'.wants = call.wants /\ call'.beyond = call.beyond
         /\ \/ Return(result) /\ call'.faults = call.faults
            \/ ReturnFault(result) /\ call'.faults
<1>1. CASE Return(result)
  BY <1>1 DEF Return, Finished, Called, IsTyped
<1>2. CASE ReturnFault(result)
  BY <1>2 DEF ReturnFault, Finished, Called, IsTyped
<1> QED BY <1>1, <1>2

(* A read that ends with an error, or needs nothing of the metadata.       *)
LEMMA ReturnKeeps ==
  ASSUME Inv, NEW result \in Result, Return(result) \/ ReturnFault(result),
         UNCHANGED <<file, bitmap, pixels>>, metadata' \in MetadataType,
         result = "OK" => call.op \notin {"ReadTga", "ReadPng"} \/ ~ call.wants
  PROVE  Inv'
<1>1. Common /\ IsTyped(call)
  BY DEF Inv, Common
<1>2. /\ IsTyped(call') /\ call'.op = call.op /\ call'.step = "Done"
      /\ call'.result = result /\ call'.beyond = call.beyond /\ call'.wants = call.wants
  BY <1>1, Returned
<1>3. Common'
  BY <1>1, <1>2, CommonStays
<1>4. MetadataComeFromTheFile'
  BY <1>2 DEF MetadataComeFromTheFile
<1> QED BY <1>2, <1>3, <1>4, Over

(* A destroyed bitmap is one, and has no buffer.                           *)
LEMMA DestroyedType ==
  ASSUME NEW b \in Bitmap
  PROVE  Destroyed(b) \in Bitmap /\ Destroyed(b).data = 0
<1>1. "INVALID" \in TextureType /\ PIXEL_FORMAT_UNKNOWN \in PixelFormat
  BY DEF TextureType, PixelFormat, PIXEL_FORMAT_UNKNOWN, PIXEL_FORMAT_SENTINEL
<1>2. 0 \in Nat
  OBVIOUS
<1> QED BY <1>1, <1>2 DEF Destroyed, Bitmap

(* The bitmap is destroyed.                                                *)
LEMMA FailKeeps ==
  ASSUME Inv, NEW result \in Result, Fail(result) \/ FailOnFault(result),
         UNCHANGED <<file, metadata>>, result # "OK"
  PROVE  Inv'
<1>1. Common /\ IsTyped(call) /\ bitmap \in Bitmap
  BY DEF Inv, Common, IsImage
<1>2. Return(result) \/ ReturnFault(result)
  BY DEF Fail, FailOnFault
<1>3. /\ IsTyped(call') /\ call'.op = call.op /\ call'.step = "Done"
      /\ call'.result = result /\ call'.beyond = call.beyond
  BY <1>1, <1>2, Returned
<1>4. IsImage(bitmap', pixels')
  <2>1. bitmap' = Destroyed(bitmap) /\ pixels' = <<>>
    BY DEF Fail, FailOnFault, Destroy
  <2>2. bitmap' \in Bitmap /\ bitmap'.data = 0
    BY <1>1, <2>1, DestroyedType
  <2> QED BY <2>1, <2>2, NoBytes DEF IsImage, IsValid
<1>5. PixelsStayInside'
  BY <1>1, <1>3, MayGoBeyondStays DEF Common, PixelsStayInside
<1>6. Common'
  BY <1>1, <1>3, <1>4, <1>5 DEF Common
<1>7. MetadataComeFromTheFile'
  BY <1>3 DEF MetadataComeFromTheFile
<1> QED BY <1>3, <1>6, <1>7, Over

(* A read of a header that fails.                                          *)
LEMMA ReadFailsKeeps ==
  ASSUME Inv, NEW n, NEW result \in Result \ {"OK"}, ReadFails(n, result),
         UNCHANGED <<file, bitmap, pixels, metadata>>
  PROVE  Inv'
<1>1. metadata' \in MetadataType
  BY DEF Inv, Common
<1>2. Return(result) \/ ReturnFault(result)
  BY DEF ReadFails
<1> QED BY <1>1, <1>2, ReturnKeeps

(* A read of pixels that falls short.                                      *)
LEMMA PixelsFallShortKeeps ==
  ASSUME Inv, NEW n, PixelsFallShort(n), UNCHANGED <<file, metadata>>
  PROVE  Inv'
<1>1. "READ_FAILURE" \in Result /\ "READ_FAILURE" # "OK"
  BY DEF Result
<1> QED BY <1>1, FailKeeps DEF PixelsFallShort

(* A pass of a loop over the pixels.                                       *)
LEMMA PixelsPut ==
  ASSUME Common, pixels' \in [1 .. bitmap.data -> Byte], UNCHANGED <<file, bitmap, metadata>>,
         IsTyped(call'), call'.op = call.op, call'.beyond => call.beyond \/ MayGoBeyond
  PROVE  Common'
<1>1. IsImage(bitmap, pixels)'
  BY DEF Common, IsImage
<1>2. PixelsStayInside'
  BY MayGoBeyondStays DEF Common, PixelsStayInside
<1> QED BY <1>1, <1>2 DEF Common, IsTyped

(* The buffer is the one the new bitmap calls for, and the bytes in it are *)
(* nobody's.                                                               *)
LEMMA Resized ==
  ASSUME NEW f \in HandledFormats, NEW w \in Nat, NEW h \in Nat,
         Resize(Sized("2D", f, w, h, 1, 1, 1))
  PROVE  /\ pixels' \in [1 .. bitmap'.data -> Byte]
         /\ bitmap' = [Sized("2D", f, w, h, 1, 1, 1) EXCEPT !.data = w * h * GetBytesPerPixel(f)]
<1> DEFINE n == w * h * GetBytesPerPixel(f)
           b == Sized("2D", f, w, h, 1, 1, 1)
<1>1. n \in Nat
  BY HandledFormatsAreFlat, ProductType
<1>2. GetDataSize(b) = n
  BY <1>1, FlatSize
<1>3. bitmap' = [b EXCEPT !.data = n] /\ pixels' = [i \in 1 .. n |-> Unknown]
  BY <1>2 DEF Resize
<1>4. bitmap'.data = n
  BY <1>3 DEF Sized
<1>5. Unknown \in Byte
  BY DEF Unknown, Byte
<1> HIDE DEF n, b
<1>6. pixels' \in [1 .. n -> Byte]
  BY <1>3, <1>5
<1> QED BY <1>3, <1>4, <1>6 DEF n, b

Creates(f, w, h, step) ==
  /\ Common' /\ Fresh(bitmap', f, w, h)
  /\ call' = Goto(step) /\ UNCHANGED <<file, metadata>>

(* The new bitmap of a read is the caller's as soon as its buffer is       *)
(* there, and the call goes on.                                            *)
LEMMA Created ==
  ASSUME Inv, NEW f \in HandledFormats, NEW w \in Nat, NEW h \in Nat, NEW step,
         Resize(Sized("2D", f, w, h, 1, 1, 1)), w * h * GetBytesPerPixel(f) # 0,
         call' = Goto(step), UNCHANGED <<file, metadata>>
  PROVE  Creates(f, w, h, step)
<1>1. Common /\ IsTyped(call)
  BY DEF Inv, Common
<1>2. pixels' \in [1 .. bitmap'.data -> Byte]
  BY Resized
<1>3. Fresh(bitmap', f, w, h)
  <2>1. bitmap' = [Sized("2D", f, w, h, 1, 1, 1) EXCEPT !.data = w * h * GetBytesPerPixel(f)]
    BY Resized
  <2> QED BY <2>1 DEF Fresh, IsValid, Sized
<1>4. IsImage(bitmap', pixels')
  BY <1>2, <1>3, FreshIsNew DEF IsImage, IsNew
<1>5. IsTyped(call') /\ call'.op = call.op /\ call'.beyond = call.beyond
  BY <1>1 DEF Goto, IsTyped
<1>6. PixelsStayInside'
  BY <1>1, <1>5, MayGoBeyondStays DEF Common, PixelsStayInside
<1> QED BY <1>1, <1>3, <1>4, <1>5, <1>6 DEF Creates, Common

(* A new bitmap that nobody has memory for is no image.                    *)
LEMMA NotCreated ==
  ASSUME Inv, NEW b \in Bitmap, b.data = 0, bitmap' = b, pixels' = <<>>,
         UNCHANGED file, metadata' \in MetadataType, NEW result \in Result \ {"OK"},
         Return(result) \/ ReturnFault(result)
  PROVE  Inv'
<1>1. Common /\ IsTyped(call)
  BY DEF Inv, Common
<1>2. /\ IsTyped(call') /\ call'.op = call.op /\ call'.step = "Done"
      /\ call'.result = result /\ call'.beyond = call.beyond
  BY <1>1, Returned
<1>3. IsImage(bitmap', pixels')
  BY NoBytes DEF IsImage, IsValid
<1>4. PixelsStayInside'
  BY <1>1, <1>2, MayGoBeyondStays DEF Common, PixelsStayInside
<1>5. Common'
  BY <1>1, <1>2, <1>3, <1>4 DEF Common
<1>6. MetadataComeFromTheFile'
  BY <1>2 DEF MetadataComeFromTheFile
<1> QED BY <1>2, <1>5, <1>6, Over

(* The program is stopped: no bitmap is left.                              *)
LEMMA CrashKeeps ==
  ASSUME Inv, Crash, UNCHANGED file
  PROVE  Inv'
<1>1. Return("CRASHED") /\ bitmap' = NoBitmap /\ pixels' = <<>> /\ metadata' = NoMetadata
  BY DEF Crash
<1>2. "CRASHED" \in Result \ {"OK"}
  BY DEF Result
<1>3. NoBitmap \in Bitmap /\ NoBitmap.data = 0
  <2>1. "INVALID" \in TextureType /\ PIXEL_FORMAT_UNKNOWN \in PixelFormat /\ 0 \in Nat /\ 1 \in Nat
    BY DEF TextureType, PixelFormat, PIXEL_FORMAT_UNKNOWN, PIXEL_FORMAT_SENTINEL
  <2> QED BY <2>1 DEF NoBitmap, Sized, Bitmap
<1>4. metadata' \in MetadataType
  BY <1>1 DEF NoMetadata, MetadataType
<1> QED BY <1>1, <1>2, <1>3, <1>4, NotCreated

(* CreateFromBitmapDimensions either ends the call with the invariant, or  *)
(* leaves a bitmap of the dimensions it was asked for.                     *)
LEMMA CreateFromBitmapDimensionsKeeps ==
  ASSUME Inv, NEW f \in HandledFormats, NEW w \in Nat, NEW h \in Nat, NEW step,
         CreateFromBitmapDimensions(f, w, h, step), UNCHANGED <<file, metadata>>
  PROVE  Inv' \/ Creates(f, w, h, step)
<1> DEFINE b == Sized("2D", f, w, h, 1, 1, 1)
<1>1. "ERROR_CREATING_BITMAP" \in Result \ {"OK"} /\ metadata' \in MetadataType
  BY DEF Result, Inv, Common
<1>2. b \in Bitmap /\ b.data = 0 /\ GetDataSize(b) = w * h * GetBytesPerPixel(f)
  <2>1. 0 \in Nat
    OBVIOUS
  <2> QED BY <2>1, FlatSize DEF Sized
<1>3. CASE Return("ERROR_CREATING_BITMAP") /\ UNCHANGED <<bitmap, pixels>>
  BY <1>1, <1>3, ReturnKeeps
<1>4. CASE /\ bitmap' = b /\ pixels' = <<>>
           /\ \/ Return("ERROR_CREATING_BITMAP")
              \/ ReturnFault("ERROR_CREATING_BITMAP")
  BY <1>1, <1>2, <1>4, NotCreated
<1>5. CASE GetDataSize(b) # 0 /\ Resize(b) /\ call' = Goto(step)
  BY <1>2, <1>5, Created
<1> QED BY <1>3, <1>4, <1>5 DEF CreateFromBitmapDimensions

(* Create either ends the call with the invariant, or leaves a bitmap of   *)
(* the dimensions it was asked for.                                        *)
LEMMA CreateKeeps ==
  ASSUME Inv, NEW f \in HandledFormats, NEW w \in Nat, NEW h \in Nat, NEW step,
         Create(f, w, h, step), UNCHANGED <<file, metadata>>
  PROVE  Inv' \/ Creates(f, w, h, step)
<1> DEFINE b == Sized("2D", f, w, h, 1, 1, 1)
<1>1. "ERROR_CREATING_BITMAP" \in Result \ {"OK"} /\ metadata' \in MetadataType
  BY DEF Result, Inv, Common
<1>2. b \in Bitmap
  <2>1. 0 \in Nat
    OBVIOUS
  <2> QED BY <2>1, FlatSize
<1>3. CASE Fail("ERROR_CREATING_BITMAP")
  BY <1>1, <1>3, FailKeeps
<1>4. CASE bitmap' = Destroyed(b) /\ pixels' = <<>> /\ ReturnFault("ERROR_CREATING_BITMAP")
  <2>1. Destroyed(b) \in Bitmap /\ Destroyed(b).data = 0
    BY <1>2, DestroyedType
  <2> QED BY <1>1, <1>4, <2>1, NotCreated
<1>5. CASE w # 0 /\ h # 0 /\ Resize(b) /\ call' = Goto(step)
  <2>1. GetBytesPerPixel(f) \in Nat \ {0}
    BY HandledFormatsAreFlat
  <2>2. w * h # 0 /\ w * h \in Nat
    BY <1>5
  <2>3. w * h * GetBytesPerPixel(f) # 0
    BY <2>1, <2>2
  <2> QED BY <1>5, <2>3, Created
<1> QED BY <1>3, <1>4, <1>5 DEF Create

(* A call begins: nothing is known but what the caller has.                *)
LEMMA Begun ==
  ASSUME Inv, NEW op \in ReadOp, NEW step, NEW wants \in BOOLEAN, Begin(op, step, wants),
         UNCHANGED <<file, bitmap, pixels>>, metadata' \in MetadataType
  PROVE  /\ Common'
         /\ call'.op = op /\ call'.step = step /\ call'.wants = wants
         /\ call'.position = 0 /\ call'.index = 0 /\ call'.row = 0
         /\ call'.palette = <<>>
<1>1. /\ IsTyped(call') /\ ~ call'.beyond
      /\ call'.op = op /\ call'.step = step /\ call'.wants = wants
      /\ call'.position = 0 /\ call'.index = 0 /\ call'.row = 0 /\ call'.palette = <<>>
  BY DEF Begin, Called, IsTyped, Result
<1>2. Common
  BY DEF Inv
<1> QED BY <1>1, <1>2, CommonStays

(* A save that is refused before it opens its file keeps the invariant.    *)
LEMMA RefuseKeeps ==
  ASSUME Inv, NEW op \in SaveOp, NEW result \in Result, NEW wants \in BOOLEAN,
         Refuse(op, result, wants)
  PROVE  Inv'
<1>1. /\ IsTyped(call') /\ ~ call'.beyond
      /\ call'.op = op /\ call'.step = "Done"
  BY DEF Refuse, Called, IsTyped
<1>2. Common /\ metadata' \in MetadataType /\ UNCHANGED <<file, bitmap, pixels>>
  BY DEF Inv, Common, Refuse
<1>3. Common'
  BY <1>1, <1>2, CommonStays
<1>4. MetadataComeFromTheFile'
  BY <1>1 DEF MetadataComeFromTheFile, SaveOp
<1> QED BY <1>1, <1>3, <1>4, Over

-----------------------------------------------------------------------------
(* How a save goes on                                                      *)

(* What a write to the end makes of a file.                                *)
LEMMA AppendFields ==
  ASSUME NEW f, IsFile(f), NEW p
  PROVE  LET g == Appended(f, p)
         IN  /\ DOMAIN g = {"codec", "at", "size", "picture", "strings", "cut"}
             /\ g.codec = f.codec /\ g.picture = f.picture /\ g.strings = f.strings
             /\ g.cut = f.cut /\ g.size = f.size + p.size
             /\ DOMAIN g.at = DOMAIN f.at \union {f.size} /\ g.at[f.size] = p
             /\ \A o \in DOMAIN f.at : o # f.size => g.at[o] = f.at[o]
<1> DEFINE g == Appended(f, p)
<1>1. g = [f EXCEPT !.at = Placed(f.at, f.size, p), !.size = f.size + p.size]
  BY DEF Appended, IsFile
<1>2. DOMAIN f = {"codec", "at", "size", "picture", "strings", "cut"}
  BY DEF IsFile
<1>3. /\ DOMAIN g = DOMAIN f
      /\ g.codec = f.codec /\ g.picture = f.picture /\ g.strings = f.strings
      /\ g.cut = f.cut /\ g.size = f.size + p.size /\ g.at = Placed(f.at, f.size, p)
  BY <1>1, <1>2
<1> HIDE DEF g
<1>4. /\ DOMAIN g.at = DOMAIN f.at \union {f.size} /\ g.at[f.size] = p
      /\ \A o \in DOMAIN f.at : o # f.size => g.at[o] = f.at[o]
  BY <1>3 DEF Placed
<1> QED BY <1>2, <1>3, <1>4 DEF g

(* A file that nobody has finished stays one, if its headers and rows do.  *)
LEMMA FileGrows ==
  ASSUME NEW f, IsFile(f), f.cut, NEW p, IsPiece(p),
         HasHeaders(Appended(f, p)), HasRows(Appended(f, p)),
         \A o \in DOMAIN f.at : f.at[o].kind # "footer", p.kind # "footer",
         p.kind = "info" => p.value.texts \in {f.strings, Png!SavedTexts(f.strings)}
  PROVE  IsFile(Appended(f, p))
<1> DEFINE g == Appended(f, p)
<1>1. /\ DOMAIN g = {"codec", "at", "size", "picture", "strings", "cut"}
      /\ g.codec = f.codec /\ g.strings = f.strings /\ g.cut = f.cut /\ g.size = f.size + p.size
      /\ DOMAIN g.at = DOMAIN f.at \union {f.size} /\ g.at[f.size] = p
      /\ \A o \in DOMAIN f.at : o # f.size => g.at[o] = f.at[o]
  <2>1. /\ DOMAIN g = {"codec", "at", "size", "picture", "strings", "cut"}
        /\ g.codec = f.codec /\ g.strings = f.strings /\ g.size = f.size + p.size
    BY AppendFields
  <2>2. /\ DOMAIN g.at = DOMAIN f.at \union {f.size} /\ g.at[f.size] = p
        /\ \A o \in DOMAIN f.at : o # f.size => g.at[o] = f.at[o]
    BY AppendFields
  <2>3. g.cut = f.cut
    BY AppendFields, Zenon
  <2> QED BY <2>1, <2>2, <2>3, Zenon
<1>2. f.size \in Nat /\ p.size \in Nat
  BY DEF IsFile, IsPiece
<1> HIDE DEF g
<1>3. \A o \in DOMAIN g.at : g.at[o] = p \/ (o \in DOMAIN f.at /\ g.at[o] = f.at[o])
  BY <1>1
<1>4. \A o \in DOMAIN g.at : IsPiece(g.at[o]) /\ g.at[o].kind # "footer"
  BY <1>3 DEF IsFile
<1>5. DOMAIN g.at \subseteq Nat
  BY <1>1, <1>2 DEF IsFile
<1>6. \A o \in DOMAIN g.at : g.at[o].kind = "info" =>
        g.at[o].value.texts \in {f.strings, Png!SavedTexts(f.strings)}
  BY <1>3 DEF IsFile, HasMetadata
<1>7. HasMetadata(g)
  BY <1>1, <1>4, <1>6 DEF HasMetadata, IsFile
<1>8. g.codec \in Codec /\ g.size \in Nat /\ g.cut \in BOOLEAN
  BY <1>1, <1>2 DEF IsFile
<1> QED BY <1>1, <1>4, <1>5, <1>7, <1>8 DEF IsFile, g

(* The headers are written, or of PNG and JPEG the library's affair.       *)
HasBegun(f) ==
  /\ f.codec = "tga" => f.size >= 18
  /\ f.codec = "bmp" => f.size >= 54
  /\ f.codec = "psd" => f.size >= 26

(* The headers of a file that has begun stay when a piece is appended.     *)
LEMMA HeadersStay ==
  ASSUME NEW f, IsFile(f), HasBegun(f), NEW p
  PROVE  HasHeaders(Appended(f, p))
<1> DEFINE g == Appended(f, p)
<1>1. /\ g.codec = f.codec /\ DOMAIN g.at = DOMAIN f.at \union {f.size}
      /\ \A o \in DOMAIN f.at : o # f.size => g.at[o] = f.at[o]
  BY AppendFields
<1> HIDE DEF g
<1>2. ASSUME NEW kind, NEW o, o # f.size, IsAt(f, o, kind)
      PROVE  IsAt(g, o, kind)
  BY <1>1, <1>2 DEF IsAt
<1>3. f.size \in Nat
  BY DEF IsFile
<1>4. /\ f.codec = "tga" => IsAt(f, 0, "tgaHeader") /\ f.size # 0
      /\ f.codec = "bmp" => /\ IsAt(f, 0, "bmpHeader") /\ f.size # 0
                            /\ IsAt(f, 14, "dibHeader") /\ f.size # 14
      /\ f.codec = "psd" => IsAt(f, 0, "psdHeader") /\ f.size # 0
  BY <1>3 DEF IsFile, HasHeaders, HasBegun, Holds, Tga!TGA_HEADER_SIZE, Bmp!BMP_HEADER_SIZE,
       Bmp!MIN_DIB_HEADER_SIZE, Psd!PSD_HEADER_SIZE
<1>5. Bmp!BMP_HEADER_SIZE = 14
  BY DEF Bmp!BMP_HEADER_SIZE
<1> QED BY <1>1, <1>2, <1>4, <1>5 DEF HasHeaders, g

(* A file of a few bytes has no headers that could be read.                *)
LEMMA NoHeaders ==
  ASSUME NEW f, f.size \in Nat,
         f.codec = "tga" => f.size < 18,
         f.codec = "bmp" => f.size < 14,
         f.codec = "psd" => f.size < 26
  PROVE  HasHeaders(f)
BY DEF HasHeaders, Holds, Tga!TGA_HEADER_SIZE, Bmp!BMP_HEADER_SIZE, Bmp!MIN_DIB_HEADER_SIZE,
   Psd!PSD_HEADER_SIZE

(* Part of a piece is a piece of no use.                                   *)
LEMMA PartIsPiece ==
  ASSUME NEW n \in Nat
  PROVE  IsPiece(Piece("part", n, <<>>)) /\ Piece("part", n, <<>>).kind = "part"
         /\ Piece("part", n, <<>>).size = n
BY DEF Piece, IsPiece

(* Kinds of pieces for which no rows and no metadata have to fit.          *)
Simple(kinds) == "footer" \notin kinds /\ "info" \notin kinds /\ "jpegHeader" \notin kinds

(* A file of pieces of some kinds is one when another piece of these kinds *)
(* is appended.                                                            *)
LEMMA KindsGrow ==
  ASSUME NEW f, IsFile(f), NEW kinds, Kinds(f, kinds), NEW p, p.kind \in kinds
  PROVE  Kinds(Appended(f, p), kinds)
BY AppendFields DEF Kinds

(* A file of pieces that speak of no other piece is a file when another of *)
(* them is appended.                                                       *)
LEMMA SimpleFileGrows ==
  ASSUME NEW f, IsFile(f), f.cut, NEW kinds, Simple(kinds), Kinds(f, kinds),
         NEW p, IsPiece(p), p.kind \in kinds, HasHeaders(Appended(f, p))
  PROVE  IsFile(Appended(f, p)) /\ Kinds(Appended(f, p), kinds)
<1>1. Kinds(Appended(f, p), kinds)
  BY KindsGrow
<1>2. HasRows(Appended(f, p))
  BY <1>1 DEF HasRows, Kinds, Simple
<1>3. \A o \in DOMAIN f.at : f.at[o].kind # "footer"
  BY DEF Kinds, Simple
<1> QED BY <1>1, <1>2, <1>3, FileGrows DEF Simple

(* What is left behind by a write that falls short.                        *)
LEMMA SimplePart ==
  ASSUME NEW f, IsFile(f), f.cut, NEW kinds, Simple(kinds), Kinds(f, kinds), NEW n \in Nat,
         n # 0 => HasHeaders(Appended(f, Piece("part", n, <<>>)))
  PROVE  IsFile(AppendedPart(f, n))
<1>1. CASE n = 0
  BY <1>1 DEF AppendedPart
<1>2. CASE n # 0
  <2>1. Simple(kinds \union {"part"}) /\ Kinds(f, kinds \union {"part"})
    BY DEF Simple, Kinds
  <2>2. IsFile(Appended(f, Piece("part", n, <<>>)))
    BY <1>2, <2>1, PartIsPiece, SimpleFileGrows
  <2> QED BY <1>2, <2>2 DEF AppendedPart
<1> QED BY <1>1, <1>2

(* A write behind the headers.                                             *)
LEMMA SimpleWrite ==
  ASSUME NEW f, IsFile(f), f.cut, HasBegun(f), NEW kinds, Simple(kinds), Kinds(f, kinds),
         NEW p, IsPiece(p), p.kind \in kinds, p.size # 0
  PROVE  /\ IsFile(Appended(f, p)) /\ Kinds(Appended(f, p), kinds)
         /\ \A n \in {0, p.size - 1} : IsFile(AppendedPart(f, n))
         /\ HasBegun(Appended(f, p))
<1>1. p.size \in Nat /\ f.size \in Nat
  BY DEF IsPiece, IsFile
<1>2. \A n \in {0, p.size - 1} : n \in Nat
  BY <1>1
<1>3. HasBegun(Appended(f, p))
  BY <1>1, AppendFields DEF HasBegun
<1> QED BY <1>2, <1>3, HeadersStay, SimpleFileGrows, SimplePart

(* The first write, of a header.                                           *)
LEMMA FirstWrite ==
  ASSUME NEW f, IsFile(f), f.cut, f.at = <<>>, f.size = 0, NEW p, IsPiece(p),
         NEW kinds, Simple(kinds), p.kind \in kinds,
         \/ f.codec = "tga" /\ p.kind = "tgaHeader" /\ p.size = 18
         \/ f.codec = "bmp" /\ p.kind = "bmpHeader" /\ p.size = 14
         \/ f.codec = "psd" /\ p.kind = "psdHeader" /\ p.size = 26
  PROVE  /\ IsFile(Appended(f, p)) /\ Kinds(Appended(f, p), kinds)
         /\ \A n \in {0, p.size - 1} : IsFile(AppendedPart(f, n))
<1> DEFINE g == Appended(f, p)
<1>1. /\ g.codec = f.codec /\ g.size = p.size /\ 0 \in DOMAIN g.at /\ g.at[0] = p
  BY AppendFields
<1>2. HasHeaders(g)
  <2> HIDE DEF g
  <2> QED BY <1>1 DEF HasHeaders, IsAt, Holds, Bmp!BMP_HEADER_SIZE, Bmp!MIN_DIB_HEADER_SIZE,
            Tga!TGA_HEADER_SIZE, Psd!PSD_HEADER_SIZE
<1>3. Kinds(f, kinds)
  BY DEF Kinds
<1>4. IsFile(g) /\ Kinds(g, kinds)
  BY <1>2, <1>3, SimpleFileGrows
<1>5. ASSUME NEW n \in {0, p.size - 1}
      PROVE  IsFile(AppendedPart(f, n))
  <2>1. n \in Nat /\ n < p.size
    OBVIOUS
  <2> DEFINE part == Appended(f, Piece("part", n, <<>>))
  <2>2. part.codec = f.codec /\ part.size = n
    BY <2>1, AppendFields, PartIsPiece
  <2> HIDE DEF part
  <2>3. HasHeaders(part)
    BY <2>1, <2>2, NoHeaders
  <2> QED BY <1>3, <2>1, <2>3, SimplePart DEF part
<1> QED BY <1>4, <1>5

(* What a save does not touch.                                             *)
LEMMA CommonIsSaved ==
  ASSUME Common, IsFile(file'), UNCHANGED <<bitmap, pixels, metadata>>, IsTyped(call'),
         call'.op \in SaveOp
  PROVE  Common'
<1>1. call'.op \notin ReadOp
  BY DEF SaveOp, ReadOp
<1> QED BY <1>1 DEF Common, IsTyped, PixelsStayInside

(* A save is over.                                                         *)
LEMMA SaveReturns ==
  ASSUME Common, IsFile(file'), UNCHANGED <<bitmap, pixels, metadata>>, call.op \in SaveOp,
         NEW result \in Result, Return(result) \/ ReturnFault(result)
  PROVE  Inv'
<1>1. IsTyped(call') /\ call'.op = call.op /\ call'.step = "Done"
  BY Returned DEF Common
<1>2. Common'
  BY <1>1, CommonIsSaved
<1>3. MetadataComeFromTheFile'
  BY <1>1 DEF MetadataComeFromTheFile, SaveOp
<1> QED BY <1>1, <1>2, <1>3, Over

(* A save that ends because a write failed keeps the invariant, if the     *)
(* file is one without the piece and with all but its last byte.           *)
LEMMA WriteFailsKeeps ==
  ASSUME Common, NEW piece, NEW result \in Result, WriteFails(piece, result),
         UNCHANGED <<bitmap, pixels, metadata>>, call.op \in SaveOp,
         \A n \in {0, piece.size - 1} : IsFile(AppendedPart(file, n))
  PROVE  Inv'
<1>1. IsFile(file') /\ ReturnFault(result)
  BY DEF WriteFails
<1> QED BY <1>1, SaveReturns

(* A file does not have to be whole.                                       *)
LEMMA LeadingStays ==
  ASSUME NEW f, NEW g, g.at = f.at, g.size = f.size, LeadsToChunk(f)
  PROVE  LeadsToChunk(g)
<1>1. \A n : Clamped(g, n) = Clamped(f, n)
  BY DEF Clamped
<1>2. \A o, kind : IsAt(g, o, kind) <=> IsAt(f, o, kind)
  BY DEF IsAt
<1>3. \A o, n : Holds(g, o, n) <=> Holds(f, o, n)
  BY DEF Holds
<1>4. \A o : ChunkIsWhole(f, o) => ChunkIsWhole(g, o)
  BY <1>2, <1>3 DEF ChunkIsWhole, HeaderCanBeRead, HeaderIsValid, ChunkCanBeRead
<1>5. FooterOf(g) = FooterOf(f) /\ DirectoryOf(g) = DirectoryOf(f)
  BY <1>1 DEF FooterOf, DirectoryOf
<1>6. HasDirectory(g) /\ EntriesOf(g) = EntriesOf(f)
  BY <1>2, <1>3, <1>5 DEF LeadsToChunk, HasDirectory, EntriesOf
<1>7. \A i : LeadsTo(g, i) = LeadsTo(f, i)
  BY <1>1, <1>5 DEF LeadsTo
<1> QED BY <1>4, <1>6, <1>7 DEF LeadsToChunk

(* A save that closes its file keeps the invariant; a TGA file with        *)
(* metadata must lead to them by then.                                     *)
LEMMA CloseKeeps ==
  ASSUME Inv, NEW op \in SaveOp, Close(op),
         file.codec = "tga" /\ file.strings # <<>> => LeadsToChunk(file)
  PROVE  Inv'
<1>1. Common /\ IsFile(file) /\ call.op = op /\ call.faults \in BOOLEAN /\ "OK" \in Result
  BY DEF Inv, Common, Close, At, IsTyped, Result
<1>2. /\ DOMAIN file' = DOMAIN file
      /\ file'.at = file.at /\ file'.size = file.size /\ file'.codec = file.codec
      /\ file'.strings = file.strings /\ file'.cut = call.faults
  BY <1>1 DEF Close, IsFile
<1>3. HasHeaders(file') /\ HasRows(file')
  BY <1>1, <1>2 DEF IsFile, HasHeaders, HasRows, Holds, IsAt
<1>4. file'.codec = "tga" /\ file'.strings # <<>> => LeadsToChunk(file')
  BY <1>2, LeadingStays
<1>5. \A o : HeaderIsValid(file', o) <=> HeaderIsValid(file, o)
  BY <1>2 DEF HeaderIsValid, IsAt
<1>6. \A o : ChunkStrings(file', o) = ChunkStrings(file, o)
  BY <1>2 DEF ChunkStrings
<1>7. HasMetadata(file')
  BY <1>1, <1>2, <1>4, <1>5, <1>6 DEF IsFile, HasMetadata
<1>8. IsFile(file')
  BY <1>1, <1>2, <1>3, <1>7 DEF IsFile
<1> QED BY <1>1, <1>8, SaveReturns DEF Close

(* A save begins with an empty file.                                       *)
SaveHasBegun(op, step, wants, codec, strings) ==
  /\ Common'
  /\ call'.op = op /\ call'.step = step /\ call'.wants = wants
  /\ call'.position = 0 /\ call'.index = 0 /\ call'.row = 0 /\ ~ call'.faults
  /\ file'.codec = codec /\ file'.at = <<>> /\ file'.size = 0
  /\ file'.strings = strings /\ file'.cut

(* A save that begins leaves a new file, and the caller's bitmap and       *)
(* metadata alone.                                                         *)
LEMMA SaveBegun ==
  ASSUME Inv, NEW op \in SaveOp, NEW step, NEW wants \in BOOLEAN, Begin(op, step, wants),
         NEW codec \in Codec, NEW picture, NEW strings \in Seq(Strings \X Strings),
         file' = NewFile(codec, picture, strings), UNCHANGED <<bitmap, pixels, metadata>>
  PROVE  SaveHasBegun(op, step, wants, codec, strings)
<1>1. /\ IsTyped(call')
      /\ call'.op = op /\ call'.step = step /\ call'.wants = wants
      /\ call'.position = 0 /\ call'.index = 0 /\ call'.row = 0 /\ ~ call'.faults
  BY DEF Begin, Called, IsTyped, Result
<1>2. /\ DOMAIN file' = {"codec", "at", "size", "picture", "strings", "cut"}
      /\ file'.codec = codec /\ file'.at = <<>> /\ file'.size = 0
      /\ file'.strings = strings /\ file'.cut = TRUE
  BY DEF NewFile, File, NoContents
<1>3. HasHeaders(file')
  BY <1>2, NoHeaders
<1>4. DOMAIN file'.at = {}
  BY <1>2
<1>5. HasRows(file') /\ HasMetadata(file')
  BY <1>2, <1>4 DEF HasRows, HasMetadata
<1>6. IsFile(file')
  <2>1. file'.size \in Nat /\ file'.codec \in Codec
    BY <1>2
  <2>2. DOMAIN file'.at \subseteq Nat /\ \A o \in DOMAIN file'.at : IsPiece(file'.at[o])
    BY <1>4
  <2>3. file'.cut \in BOOLEAN
    BY <1>2, Zenon
  <2> QED BY <1>2, <1>3, <1>5, <2>1, <2>2, <2>3 DEF IsFile
<1>7. Common'
  BY <1>1, <1>6, CommonIsSaved DEF Inv
<1> QED BY <1>1, <1>2, <1>7 DEF SaveHasBegun

(* The end of the file is lost.                                            *)
LEMMA CutOffKeeps ==
  ASSUME Inv, NEW n \in Nat, CutOff(n)
  PROVE  Inv'
<1>1. /\ Common /\ IsFile(file) /\ ~ file.cut /\ ~ Running
      /\ UNCHANGED <<bitmap, pixels, metadata, call>>
  BY DEF Inv, Common, CutOff
<1>2. /\ DOMAIN file' = DOMAIN file
      /\ file'.at = file.at /\ file'.size = Clamped(file, file.size - n)
      /\ file'.codec = file.codec /\ file'.strings = file.strings /\ file'.cut
      /\ file'.cut \in BOOLEAN
  BY <1>1 DEF CutOff, IsFile
<1>3. file'.size \in Nat /\ file'.size <= file.size
  BY <1>1, <1>2 DEF Clamped, IsFile
<1>4. ASSUME NEW m \in Nat, NEW p \in Nat, Holds(file', p, m)
      PROVE  Holds(file, p, m)
  BY <1>1, <1>3, <1>4 DEF Holds, IsFile
<1>5. HasHeaders(file')
  BY <1>1, <1>2, <1>4 DEF IsFile, HasHeaders, IsAt, Tga!TGA_HEADER_SIZE, Bmp!BMP_HEADER_SIZE,
       Bmp!MIN_DIB_HEADER_SIZE, Psd!PSD_HEADER_SIZE
<1>6. HasRows(file')
  BY <1>1, <1>2 DEF IsFile, HasRows
<1>7. \A o : HeaderIsValid(file', o) <=> HeaderIsValid(file, o)
  BY <1>2 DEF HeaderIsValid, IsAt
<1>8. \A o : ChunkStrings(file', o) = ChunkStrings(file, o)
  BY <1>2 DEF ChunkStrings
<1>9. HasMetadata(file')
  BY <1>1, <1>2, <1>7, <1>8 DEF IsFile, HasMetadata
<1>10. IsFile(file')
  BY <1>1, <1>2, <1>3, <1>5, <1>6, <1>9 DEF IsFile
<1>11. PixelsStayInside'
  BY <1>1, <1>2, MayGoBeyondStays DEF Common, PixelsStayInside
<1>12. Common'
  BY <1>1, <1>10, <1>11 DEF Common, IsTyped
<1>13. MetadataComeFromTheFile'
  BY <1>1, <1>2 DEF Inv, MetadataComeFromTheFile, Running
<1>14. call'.step = "Done"
  BY <1>1 DEF Running
<1> QED BY <1>12, <1>13, <1>14, Over

(* What the rows of the caller's bitmap are written from: bytes of its     *)
(* buffer.                                                                 *)
LEMMA RowLies ==
  ASSUME NEW b, NEW data, IsImage(b, data), IsValid(b), b.format \in HandledFormats,
         b.type \in {"1D", "2D"}, b.arraySize = 1, NEW row \in 0 .. b.height - 1
  PROVE  /\ GetPitch(b) = b.width * GetBytesPerPixel(b.format)
         /\ GetPitch(b) \in Nat \ {0} /\ b.width \in Nat \ {0} /\ b.height \in Nat \ {0}
         /\ row * GetPitch(b) \in Nat
         /\ \A k \in 1 .. GetPitch(b) :
              /\ row * GetPitch(b) + k \in 1 .. b.data
              /\ data[row * GetPitch(b) + k] \in Byte
         /\ Len(data) = b.data /\ data \in Seq(Byte)
         /\ row * GetPitch(b) + GetPitch(b) <= b.data
<1> DEFINE pitch == GetPitch(b)
<1>1. /\ b.width \in Nat \ {0} /\ b.height \in Nat \ {0} /\ b.data \in Nat
      /\ pitch = b.width * GetBytesPerPixel(b.format)
      /\ b.height * (b.width * GetBytesPerPixel(b.format)) <= b.data
  BY TopLevelFits
<1>2. GetBytesPerPixel(b.format) \in Nat \ {0}
  BY HandledFormatsAreFlat
<1>3. pitch \in Nat \ {0} /\ b.height * pitch <= b.data
  BY <1>1, <1>2
<1> HIDE DEF pitch
<1>4. row \in Nat /\ row < b.height
  BY <1>1
<1>5. row * pitch \in Nat /\ row * pitch + pitch <= b.height * pitch /\ b.height * pitch \in Nat
  BY <1>1, <1>3, <1>4, RowsFit
<1>6. row * pitch + pitch <= b.data
  BY <1>1, <1>3, <1>5
<1>7. data \in [1 .. b.data -> Byte]
  BY DEF IsImage
<1>8. \A k \in 1 .. pitch : row * pitch + k \in 1 .. b.data
  BY <1>1, <1>3, <1>5, <1>6
<1>9. \A k \in 1 .. pitch : data[row * pitch + k] \in Byte
  BY <1>7, <1>8
<1>10. Len(data) = b.data /\ data \in Seq(Byte)
  BY <1>1, <1>7
<1> QED BY <1>1, <1>3, <1>5, <1>6, <1>8, <1>9, <1>10 DEF pitch

(* A part of a sequence of bytes.                                          *)
LEMMA PartOfBytes ==
  ASSUME NEW data \in Seq(Byte), NEW m \in Nat, NEW n \in Nat, m + n <= Len(data)
  PROVE  SubSeq(data, m + 1, m + n) \in Seq(Byte) /\ Len(SubSeq(data, m + 1, m + n)) = n
OBVIOUS

(* The bytes that a row of the caller's bitmap is packed to are bytes, and *)
(* there is one at least.                                                  *)
LEMMA PackedRowType ==
  ASSUME IsImage(bitmap, pixels), IsValid(bitmap), bitmap.format \in HandledFormats,
         bitmap.type \in {"1D", "2D"}, bitmap.arraySize = 1,
         NEW row \in 0 .. bitmap.height - 1
  PROVE  PackedRow(row) \in Seq(Byte) /\ Len(PackedRow(row)) \in Nat \ {0}
<1> DEFINE pitch == GetPitch(bitmap)
           w     == bitmap.width
           start == row * pitch
<1>1. /\ pitch = w * GetBytesPerPixel(bitmap.format) /\ pitch \in Nat \ {0} /\ w \in Nat \ {0}
      /\ start \in Nat
      /\ \A k \in 1 .. pitch : pixels[start + k] \in Byte
      /\ Len(pixels) = bitmap.data /\ pixels \in Seq(Byte) /\ start + pitch <= bitmap.data
  BY RowLies
<1> HIDE DEF pitch, w, start
<1>2. pitch \in Nat \ {0} /\ w \in Nat \ {0} /\ start \in Nat
  BY <1>1
<1>3. CASE bitmap.format = PIXEL_FORMAT_B8G8R8X8_UNORM
  <2>1. pitch = 4 * w
    BY <1>1, <1>3, Formats
  <2>2. PackedRow(row) = [i \in 1 .. 3 * w |->
                            pixels[start + ((i - 1) \div 3) * 4 + ((i - 1) % 3) + 1]]
    BY <1>3 DEF PackedRow, pitch, w, start
  <2>3. ASSUME NEW i \in 1 .. 3 * w
        PROVE  pixels[start + ((i - 1) \div 3) * 4 + ((i - 1) % 3) + 1] \in Byte
    <3>1. ((i - 1) \div 3) * 4 + ((i - 1) % 3) + 1 \in 1 .. pitch
      BY <1>2, <2>1
    <3>2. start + (((i - 1) \div 3) * 4 + ((i - 1) % 3) + 1)
            = start + ((i - 1) \div 3) * 4 + ((i - 1) % 3) + 1
      BY <1>2
    <3> QED BY <1>1, <3>1, <3>2
  <2>4. 3 * w \in Nat \ {0}
    BY <1>2
  <2>5. PackedRow(row) \in [1 .. 3 * w -> Byte]
    BY <2>2, <2>3
  <2> QED BY <2>4, <2>5
<1>4. CASE bitmap.format # PIXEL_FORMAT_B8G8R8X8_UNORM
  <2>1. PackedRow(row) = SubSeq(pixels, start + 1, start + pitch)
    BY <1>4 DEF PackedRow, pitch, start
  <2>2. start + pitch <= Len(pixels) /\ pixels \in Seq(Byte)
    BY <1>1
  <2>3. /\ SubSeq(pixels, start + 1, start + pitch) \in Seq(Byte)
        /\ Len(SubSeq(pixels, start + 1, start + pitch)) = pitch
    BY <1>2, <2>2, PartOfBytes
  <2> QED BY <1>2, <2>1, <2>3
<1> QED BY <1>3, <1>4

(* Bytes that are written.                                                 *)
LEMMA BytesArePiece ==
  ASSUME NEW values \in Seq(Byte), Len(values) # 0
  PROVE  /\ IsPiece(Bytes(values)) /\ Bytes(values).kind = "bytes"
         /\ Bytes(values).size = Len(values) /\ Bytes(values).size # 0
BY DEF IsPiece, Bytes, Piece

(* The bytes of one pixel of the buffer.                                   *)
LEMMA PixelBytes ==
  ASSUME IsImage(bitmap, pixels), IsValid(bitmap), bitmap.format \in HandledFormats,
         bitmap.type \in {"1D", "2D"}, bitmap.arraySize = 1,
         NEW row \in 0 .. bitmap.height - 1, NEW i \in 0 .. bitmap.width - 1
  PROVE  \A k \in 1 .. GetBytesPerPixel(bitmap.format) :
           PixelOf(pixels, bitmap.format, row * bitmap.width + i)[k] \in Byte
<1> DEFINE pitch == GetPitch(bitmap)
           w     == bitmap.width
           bpp   == GetBytesPerPixel(bitmap.format)
           start == row * pitch
           cell  == row * w + i
<1>1. /\ pitch = w * bpp /\ pitch \in Nat \ {0} /\ w \in Nat \ {0} /\ bitmap.height \in Nat \ {0}
      /\ start \in Nat
      /\ \A k \in 1 .. pitch : pixels[start + k] \in Byte
      /\ Len(pixels) = bitmap.data /\ pixels \in Seq(Byte) /\ start + pitch <= bitmap.data
  BY RowLies
<1>2. bpp \in Nat \ {0}
  BY HandledFormatsAreFlat
<1>3. PixelOf(pixels, bitmap.format, cell) = SubSeq(pixels, cell * bpp + 1, (cell + 1) * bpp)
  BY DEF PixelOf
<1>4. row \in Nat /\ i \in Nat /\ i < w
  BY <1>1
<1>5. row * w \in Nat
  BY <1>1, <1>4, ProductType
<1>6. cell \in Nat
  BY <1>4, <1>5
<1>7. cell * bpp = start + i * bpp /\ (cell + 1) * bpp = cell * bpp + bpp
  <2>1. row * (w * bpp) = (row * w) * bpp
    BY <1>1, <1>2, <1>4
  <2>2. (row * w + i) * bpp = (row * w) * bpp + i * bpp
    BY <1>2, <1>4, <1>5
  <2>3. (cell + 1) * bpp = cell * bpp + bpp
    BY <1>2, <1>6
  <2> QED BY <1>1, <2>1, <2>2, <2>3
<1> HIDE DEF pitch, w, bpp, start, cell
<1>8. i * bpp \in Nat /\ i * bpp + bpp <= pitch
  <2>1. w \in Nat
    BY <1>1
  <2>2. bpp \in Nat
    BY <1>2
  <2>3. i * bpp \in Nat /\ i * bpp + bpp <= w * bpp
    BY <1>4, <2>1, <2>2, RowsFit
  <2> QED BY <1>1, <2>3
<1> DEFINE m == i * bpp
<1> HIDE DEF m
<1>9. m \in Nat /\ m + bpp <= pitch /\ cell * bpp = start + m
  BY <1>7, <1>8 DEF m
<1>10. ASSUME NEW k \in 1 .. bpp
       PROVE  PixelOf(pixels, bitmap.format, cell)[k] \in Byte
  <2>1. PixelOf(pixels, bitmap.format, cell) = SubSeq(pixels, start + m + 1, start + m + bpp)
    BY <1>3, <1>7, <1>9
  <2>2. start + m + bpp <= Len(pixels) /\ start + m \in Nat
    BY <1>1, <1>2, <1>9
  <2>3. SubSeq(pixels, start + m + 1, start + m + bpp) \in Seq(Byte)
        /\ Len(SubSeq(pixels, start + m + 1, start + m + bpp)) = bpp
    BY <1>1, <1>2, <2>2, PartOfBytes
  <2> DEFINE part == SubSeq(pixels, start + m + 1, start + m + bpp)
  <2> HIDE DEF part
  <2>4. part \in Seq(Byte) /\ Len(part) = bpp
    BY <2>3 DEF part
  <2>5. part[k] \in Byte
    BY <1>2, <2>4
  <2> QED BY <2>1, <2>5 DEF part
<1> QED BY <1>10 DEF cell, w, bpp

(* Eight bits of ten are a byte.                                           *)
LEMMA TenBits ==
  ASSUME NEW p, p[1] \in Byte, p[2] \in Byte, p[3] \in Byte, p[4] \in Byte
  PROVE  Red10(p) \in Byte /\ Green10(p) \in Byte /\ Blue10(p) \in Byte
<1>1. \A x \in Int : (x % 1024) \div 4 \in Byte
  BY DEF Byte, Unknown
<1>2. \A x \in Byte : x \in Int
  BY DEF Byte, Unknown
<1>3. p[1] \in Int /\ p[2] \in Int /\ p[3] \in Int /\ p[4] \in Int
  BY <1>2
<1>4. \A x, y \in Int : /\ x + 256 * y \in Int
                        /\ (x + 256 * y) \div 4 \in Int
                        /\ (x + 256 * y) \div 16 \in Int
  OBVIOUS
<1>5. /\ p[1] + 256 * p[2] \in Int
      /\ (p[2] + 256 * p[3]) \div 4 \in Int
      /\ (p[3] + 256 * p[4]) \div 16 \in Int
  BY <1>3, <1>4
<1> QED BY <1>1, <1>5 DEF Red10, Green10, Blue10

(* A function of the numbers up to one is a sequence of its values.        *)
LEMMA IsSequence ==
  ASSUME NEW n \in Nat, NEW s, s = [i \in 1 .. n |-> s[i]]
  PROVE  Len(s) = n /\ s \in Seq({s[i] : i \in 1 .. n})
<1> DEFINE S == {s[i] : i \in 1 .. n}
<1>1. \A i \in 1 .. n : s[i] \in S
  OBVIOUS
<1> HIDE DEF S
<1>2. s \in [1 .. n -> S]
  BY <1>1
<1> QED BY <1>2 DEF S

-----------------------------------------------------------------------------
(* BMP: the operators of the instance                                      *)

(* BMP: the operators on streams and buffers are the ones of this module.  *)
LEMMA BmpStream ==
  /\ \A s, p, n : Bmp!Holds(s, p, n) <=> Holds(s, p, n)
  /\ \A s, p, kind : Bmp!IsAt(s, p, kind) <=> IsAt(s, p, kind)
  /\ \A s, p : Bmp!Clamped(s, p) = Clamped(s, p)
  /\ \A s, p : Bmp!ByteAt(s, p) = ByteAt(s, p)
  /\ \A s, p, n : Bmp!BytesAt(s, p, n) = BytesAt(s, p, n)
  /\ \A data, i, values : Bmp!Put(data, i, values) = Put(data, i, values)
  /\ \A data, i, values : Bmp!GoesBeyond(data, i, values) = GoesBeyond(data, i, values)
  /\ \A f : Bmp!GetBytesPerPixel(f) = GetBytesPerPixel(f)
  /\ \A b : Bmp!GetPitch(b) = GetPitch(b)
<1>1. \A s, p, n : Bmp!Holds(s, p, n) <=> Holds(s, p, n)
  BY DEF Bmp!Holds, Holds
<1>2. \A s, p, kind : Bmp!IsAt(s, p, kind) <=> IsAt(s, p, kind)
  BY DEF Bmp!IsAt, IsAt
<1>3. \A s, p : Bmp!Clamped(s, p) = Clamped(s, p)
  BY DEF Bmp!Clamped, Clamped
<1>4. \A s, p : Bmp!ByteAt(s, p) = ByteAt(s, p)
  BY DEF Bmp!ByteAt, ByteAt, Bmp!ByteWritten, ByteWritten, Bmp!StartsBefore, StartsBefore,
         Bmp!Unknown, Unknown
<1>5. \A s, p, n : Bmp!BytesAt(s, p, n) = BytesAt(s, p, n)
  BY DEF Bmp!BytesAt, BytesAt, Bmp!ByteAt, ByteAt, Bmp!ByteWritten, ByteWritten,
         Bmp!StartsBefore, StartsBefore, Bmp!Unknown, Unknown
<1>6. \A data, i, values : Bmp!Put(data, i, values) = Put(data, i, values)
  BY DEF Bmp!Put, Put
<1>7. \A data, i, values : Bmp!GoesBeyond(data, i, values) = GoesBeyond(data, i, values)
  BY DEF Bmp!GoesBeyond, GoesBeyond
<1>8. \A f : Bmp!GetBytesPerPixel(f) = GetBytesPerPixel(f)
  BY DEF Bmp!GetBytesPerPixel, GetBytesPerPixel
<1>9. \A b : Bmp!GetPitch(b) = GetPitch(b)
  BY DEF Bmp!GetPitch, GetPitch, Bmp!IsValid, IsValid, Bmp!IsCompressed, IsCompressed,
         Bmp!IsCompressedFormat, IsCompressedFormat, Bmp!IsDds10Format, IsDds10Format,
         Bmp!GetBlockByteSize, GetBlockByteSize, Bmp!GetBytesPerPixel, GetBytesPerPixel
<1> QED BY <1>1, <1>2, <1>3, <1>4, <1>5, <1>6, <1>7, <1>8, <1>9

(* BMP: the beginnings and ends of a call are the ones of this module.     *)
LEMMA BmpCalls ==
  /\ \A op, step : Bmp!At(op, step) <=> At(op, step)
  /\ \A step : Bmp!Goto(step) = Goto(step)
  /\ \A stride, beyond : Bmp!RowDone(stride, beyond) = RowDone(stride, beyond)
  /\ \A c, result, faults : Bmp!Finished(c, result, faults) = Finished(c, result, faults)
  /\ \A result : Bmp!Return(result) <=> Return(result)
  /\ \A result : Bmp!ReturnFault(result) <=> ReturnFault(result)
  /\ \A result : Bmp!Fail(result) <=> Fail(result)
  /\ \A result : Bmp!FailOnFault(result) <=> FailOnFault(result)
  /\ \A n, result : Bmp!ReadFails(n, result) <=> ReadFails(n, result)
  /\ \A n : Bmp!PixelsFallShort(n) <=> PixelsFallShort(n)
  /\ \A op, step, wants : Bmp!Begin(op, step, wants) <=> Begin(op, step, wants)
  /\ \A op, result, wants : Bmp!Refuse(op, result, wants) <=> Refuse(op, result, wants)
<1>1. \A op, step : Bmp!At(op, step) <=> At(op, step)
  BY DEF Bmp!At, At
<1>2. \A step : Bmp!Goto(step) = Goto(step)
  BY DEF Bmp!Goto, Goto
<1>3. \A stride, beyond : Bmp!RowDone(stride, beyond) = RowDone(stride, beyond)
  BY DEF Bmp!RowDone, RowDone
<1>4. \A c, result, faults : Bmp!Finished(c, result, faults) = Finished(c, result, faults)
  BY DEF Bmp!Finished, Finished, Bmp!Called, Called
<1>5. \A result : Bmp!Return(result) <=> Return(result)
  BY DEF Bmp!Return, Return, Bmp!Finished, Finished, Bmp!Called, Called
<1>6. \A result : Bmp!ReturnFault(result) <=> ReturnFault(result)
  BY DEF Bmp!ReturnFault, ReturnFault, Bmp!Finished, Finished, Bmp!Called, Called
<1>7. \A result : Bmp!Fail(result) <=> Fail(result)
  BY DEF Bmp!Fail, Fail, Bmp!Return, Return, Bmp!Finished, Finished, Bmp!Called, Called,
         Bmp!Destroy, Destroy, Bmp!Destroyed, Destroyed, Bmp!PIXEL_FORMAT_UNKNOWN,
         PIXEL_FORMAT_UNKNOWN
<1>8. \A result : Bmp!FailOnFault(result) <=> FailOnFault(result)
  BY DEF Bmp!FailOnFault, FailOnFault, Bmp!ReturnFault, ReturnFault, Bmp!Finished, Finished,
         Bmp!Called, Called, Bmp!Destroy, Destroy, Bmp!Destroyed, Destroyed,
         Bmp!PIXEL_FORMAT_UNKNOWN, PIXEL_FORMAT_UNKNOWN
<1>9. \A n, result : Bmp!ReadFails(n, result) <=> ReadFails(n, result)
  BY DEF Bmp!ReadFails, ReadFails, Bmp!Holds, Holds, Bmp!Return, Return, Bmp!ReturnFault,
         ReturnFault, Bmp!Finished, Finished, Bmp!Called, Called
<1>10. \A n : Bmp!PixelsFallShort(n) <=> PixelsFallShort(n)
  BY DEF Bmp!PixelsFallShort, PixelsFallShort, Bmp!Holds, Holds, Bmp!Fail, Fail,
         Bmp!FailOnFault, FailOnFault, Bmp!Return, Return, Bmp!ReturnFault, ReturnFault,
         Bmp!Finished, Finished, Bmp!Called, Called, Bmp!Destroy, Destroy, Bmp!Destroyed,
         Destroyed, Bmp!PIXEL_FORMAT_UNKNOWN, PIXEL_FORMAT_UNKNOWN
<1>11. \A op, step, wants : Bmp!Begin(op, step, wants) <=> Begin(op, step, wants)
  BY DEF Bmp!Begin, Begin, Bmp!Called, Called
<1>12. \A op, result, wants : Bmp!Refuse(op, result, wants) <=> Refuse(op, result, wants)
  BY DEF Bmp!Refuse, Refuse, Bmp!Called, Called
<1> QED BY <1>1, <1>2, <1>3, <1>4, <1>5, <1>6, <1>7, <1>8, <1>9, <1>10, <1>11, <1>12

(* BMP: the writes of a file are the ones of this module.                  *)
LEMMA BmpWrites ==
  /\ \A kind, n, value : Bmp!Piece(kind, n, value) = Piece(kind, n, value)
  /\ \A values : Bmp!Bytes(values) = Bytes(values)
  /\ \A s, piece : Bmp!Appended(s, piece) = Appended(s, piece)
  /\ \A s, n : Bmp!AppendedPart(s, n) = AppendedPart(s, n)
  /\ \A piece, result : Bmp!WriteFails(piece, result) <=> WriteFails(piece, result)
  /\ \A op, pieces : Bmp!SavePieces(op, pieces) <=> SavePieces(op, pieces)
  /\ \A codec, picture, strings : Bmp!NewFile(codec, picture, strings) = NewFile(codec, picture, strings)
  /\ \A op : Bmp!Close(op) <=> Close(op)
  /\ \A row : Bmp!PackedRow(row) = PackedRow(row)
  /\ \A data, f, i : Bmp!PixelOf(data, f, i) = PixelOf(data, f, i)
  /\ \A p : Bmp!Red10(p) = Red10(p)
  /\ \A p : Bmp!Green10(p) = Green10(p)
  /\ \A p : Bmp!Blue10(p) = Blue10(p)
<1>1. \A kind, n, value : Bmp!Piece(kind, n, value) = Piece(kind, n, value)
  BY DEF Bmp!Piece, Piece
<1>2. \A values : Bmp!Bytes(values) = Bytes(values)
  BY DEF Bmp!Bytes, Bytes, Bmp!Piece, Piece
<1>3. \A s, piece : Bmp!Appended(s, piece) = Appended(s, piece)
  BY DEF Bmp!Appended, Appended, Bmp!Placed, Placed
<1>4. \A s, n : Bmp!AppendedPart(s, n) = AppendedPart(s, n)
  BY DEF Bmp!AppendedPart, AppendedPart, Bmp!Placed, Placed, Bmp!Appended, Appended, Bmp!Piece,
         Piece
<1>5. \A piece, result : Bmp!WriteFails(piece, result) <=> WriteFails(piece, result)
  BY DEF Bmp!WriteFails, WriteFails, Bmp!AppendedPart, AppendedPart, Bmp!Appended, Appended,
         Bmp!Placed, Placed, Bmp!Piece, Piece, Bmp!ReturnFault, ReturnFault, Bmp!Finished,
         Finished, Bmp!Called, Called
<1>6. \A op, pieces : Bmp!SavePieces(op, pieces) <=> SavePieces(op, pieces)
  BY DEF Bmp!SavePieces, SavePieces, Bmp!At, At, Bmp!AppendedPart, AppendedPart, Bmp!Appended,
         Appended, Bmp!Placed, Placed, Bmp!Piece, Piece
<1>7. \A codec, picture, strings : Bmp!NewFile(codec, picture, strings) = NewFile(codec, picture, strings)
  BY DEF Bmp!NewFile, NewFile, Bmp!File, File, Bmp!NoContents, NoContents
<1>8. \A op : Bmp!Close(op) <=> Close(op)
  BY DEF Bmp!Close, Close, Bmp!At, At, Bmp!Return, Return, Bmp!Finished, Finished, Bmp!Called,
         Called
<1>9. \A row : Bmp!PackedRow(row) = PackedRow(row)
  BY DEF Bmp!PackedRow, PackedRow, Bmp!GetPitch, GetPitch, Bmp!PIXEL_FORMAT_B8G8R8X8_UNORM,
         PIXEL_FORMAT_B8G8R8X8_UNORM, Bmp!IsValid, IsValid, Bmp!IsCompressed, IsCompressed,
         Bmp!IsCompressedFormat, IsCompressedFormat, Bmp!IsDds10Format, IsDds10Format,
         Bmp!GetBlockByteSize, GetBlockByteSize, Bmp!GetBytesPerPixel, GetBytesPerPixel
<1>10. \A data, f, i : Bmp!PixelOf(data, f, i) = PixelOf(data, f, i)
  BY DEF Bmp!PixelOf, PixelOf, Bmp!GetBytesPerPixel, GetBytesPerPixel
<1>11. \A p : Bmp!Red10(p) = Red10(p)
  BY DEF Bmp!Red10, Red10
<1>12. \A p : Bmp!Green10(p) = Green10(p)
  BY DEF Bmp!Green10, Green10
<1>13. \A p : Bmp!Blue10(p) = Blue10(p)
  BY DEF Bmp!Blue10, Blue10
<1> QED BY <1>1, <1>2, <1>3, <1>4, <1>5, <1>6, <1>7, <1>8, <1>9, <1>10, <1>11, <1>12, <1>13

(* BMP: the bitmaps and the metadata are the ones of this module.          *)
LEMMA BmpOthers ==
  /\ \A b, n : Bmp!GetMipSize(b, n) = GetMipSize(b, n)
  /\ \A b : Bmp!Resize(b) <=> Resize(b)
  /\ \A f, w, h, step : Bmp!Create(f, w, h, step) <=> Create(f, w, h, step)
  /\ \A f, w, h, step : Bmp!CreateFromBitmapDimensions(f, w, h, step) <=> CreateFromBitmapDimensions(f, w, h, step)
  /\ \A b : Bmp!Destroyed(b) = Destroyed(b)
  /\ Bmp!NoBitmap = NoBitmap
  /\ \A kind : Bmp!IsWhole(kind) <=> IsWhole(kind)
  /\ \A s, p : Bmp!HeaderIsValid(s, p) <=> HeaderIsValid(s, p)
  /\ \A s, p : Bmp!ChunkStrings(s, p) = ChunkStrings(s, p)
  /\ \A m : Bmp!Chunk(m) = Chunk(m)
  /\ \A m : Bmp!ChunkSize(m) = ChunkSize(m)
  /\ \A f, x : Bmp!Recursion(f, x) = Recursion(f, x)
  /\ \A x, y : Bmp!Larger(x, y) = Larger(x, y)
  /\ \A t, f, w, h, d, m, a : Bmp!Sized(t, f, w, h, d, m, a) = Sized(t, f, w, h, d, m, a)
  /\ \A s, p : Bmp!ByteWritten(s, p) = ByteWritten(s, p)
<1>1. \A b, n : Bmp!GetMipSize(b, n) = GetMipSize(b, n)
  BY DEF Bmp!GetMipSize, GetMipSize, Bmp!LevelBytes, LevelBytes, Bmp!GetTrueMipCount,
         GetTrueMipCount, Bmp!BitLength, BitLength, Bmp!Shr, Shr, Bmp!Recursion, Recursion,
         Bmp!Halved, Halved, Bmp!Larger, Larger, Bmp!Total, Total, Bmp!IsCompressed,
         IsCompressed, Bmp!IsCompressedFormat, IsCompressedFormat, Bmp!IsDds10Format,
         IsDds10Format, Bmp!AlignUp4, AlignUp4, Bmp!GetBlockByteSize, GetBlockByteSize,
         Bmp!GetBytesPerPixel, GetBytesPerPixel, Bmp!GetMipWidth, GetMipWidth, Bmp!GetMipHeight,
         GetMipHeight, Bmp!GetMipDepth, GetMipDepth, Bmp!LevelSide, LevelSide
<1>2. \A b : Bmp!Resize(b) <=> Resize(b)
  BY DEF Bmp!Resize, Resize, Bmp!GetDataSize, GetDataSize, Bmp!Unknown, Unknown, Bmp!LevelBytes,
         LevelBytes, Bmp!GetTrueMipCount, GetTrueMipCount, Bmp!BitLength, BitLength, Bmp!Shr,
         Shr, Bmp!Recursion, Recursion, Bmp!Halved, Halved, Bmp!Larger, Larger, Bmp!Total,
         Total, Bmp!IsCompressed, IsCompressed, Bmp!IsCompressedFormat, IsCompressedFormat,
         Bmp!IsDds10Format, IsDds10Format, Bmp!AlignUp4, AlignUp4, Bmp!GetBlockByteSize,
         GetBlockByteSize, Bmp!GetBytesPerPixel, GetBytesPerPixel
<1>3. \A f, w, h, step : Bmp!Create(f, w, h, step) <=> Create(f, w, h, step)
  BY DEF Bmp!Create, Create, Bmp!Sized, Sized, Bmp!GetDataSize, GetDataSize, Bmp!Resize, Resize,
         Bmp!Unknown, Unknown, Bmp!Goto, Goto, Bmp!Fail, Fail, Bmp!Return, Return,
         Bmp!ReturnFault, ReturnFault, Bmp!Finished, Finished, Bmp!Called, Called, Bmp!Destroy,
         Destroy, Bmp!Destroyed, Destroyed, Bmp!PIXEL_FORMAT_UNKNOWN, PIXEL_FORMAT_UNKNOWN,
         Bmp!LevelBytes, LevelBytes, Bmp!GetTrueMipCount, GetTrueMipCount, Bmp!BitLength,
         BitLength, Bmp!Shr, Shr, Bmp!Recursion, Recursion, Bmp!Halved, Halved, Bmp!Larger,
         Larger, Bmp!Total, Total, Bmp!IsCompressed, IsCompressed, Bmp!IsCompressedFormat,
         IsCompressedFormat, Bmp!IsDds10Format, IsDds10Format, Bmp!AlignUp4, AlignUp4,
         Bmp!GetBlockByteSize, GetBlockByteSize, Bmp!GetBytesPerPixel, GetBytesPerPixel
<1>4. \A f, w, h, step : Bmp!CreateFromBitmapDimensions(f, w, h, step) <=> CreateFromBitmapDimensions(f, w, h, step)
  BY DEF Bmp!CreateFromBitmapDimensions, CreateFromBitmapDimensions, Bmp!Sized, Sized,
         Bmp!GetDataSize, GetDataSize, Bmp!Resize, Resize, Bmp!Unknown, Unknown, Bmp!Goto, Goto,
         Bmp!Return, Return, Bmp!ReturnFault, ReturnFault, Bmp!Finished, Finished, Bmp!Called,
         Called, Bmp!LevelBytes, LevelBytes, Bmp!GetTrueMipCount, GetTrueMipCount,
         Bmp!BitLength, BitLength, Bmp!Shr, Shr, Bmp!Recursion, Recursion, Bmp!Halved, Halved,
         Bmp!Larger, Larger, Bmp!Total, Total, Bmp!IsCompressed, IsCompressed,
         Bmp!IsCompressedFormat, IsCompressedFormat, Bmp!IsDds10Format, IsDds10Format,
         Bmp!AlignUp4, AlignUp4, Bmp!GetBlockByteSize, GetBlockByteSize, Bmp!GetBytesPerPixel,
         GetBytesPerPixel
<1>5. \A b : Bmp!Destroyed(b) = Destroyed(b)
  BY DEF Bmp!Destroyed, Destroyed, Bmp!PIXEL_FORMAT_UNKNOWN, PIXEL_FORMAT_UNKNOWN
<1>6. Bmp!NoBitmap = NoBitmap
  BY DEF Bmp!NoBitmap, NoBitmap, Bmp!Sized, Sized, Bmp!PIXEL_FORMAT_UNKNOWN,
         PIXEL_FORMAT_UNKNOWN
<1>7. \A kind : Bmp!IsWhole(kind) <=> IsWhole(kind)
  BY DEF Bmp!IsWhole, IsWhole, Bmp!IsAt, IsAt, Bmp!Holds, Holds
<1>8. \A s, p : Bmp!HeaderIsValid(s, p) <=> HeaderIsValid(s, p)
  BY DEF Bmp!HeaderIsValid, HeaderIsValid, Bmp!IsAt, IsAt
<1>9. \A s, p : Bmp!ChunkStrings(s, p) = ChunkStrings(s, p)
  BY DEF Bmp!ChunkStrings, ChunkStrings, Bmp!HEADER_SIZE, HEADER_SIZE, Bmp!ENTRY_SIZE,
         ENTRY_SIZE
<1>10. \A m : Bmp!Chunk(m) = Chunk(m)
  BY DEF Bmp!Chunk, Chunk, Bmp!Piece, Piece, Bmp!ChunkSize, ChunkSize, Bmp!Entries, Entries,
         Bmp!Characters, Characters, Bmp!TextOffset, TextOffset, Bmp!TextSize, TextSize,
         Bmp!Text, Text, Bmp!Total, Total, Bmp!Recursion, Recursion, Bmp!HEADER_SIZE,
         HEADER_SIZE, Bmp!ENTRY_SIZE, ENTRY_SIZE
<1>11. \A m : Bmp!ChunkSize(m) = ChunkSize(m)
  BY DEF Bmp!ChunkSize, ChunkSize, Bmp!TextOffset, TextOffset, Bmp!TextSize, TextSize, Bmp!Text,
         Text, Bmp!Total, Total, Bmp!Recursion, Recursion, Bmp!ENTRY_SIZE, ENTRY_SIZE
<1>12. \A f, x : Bmp!Recursion(f, x) = Recursion(f, x)
  BY DEF Bmp!Recursion, Recursion
<1>13. \A x, y : Bmp!Larger(x, y) = Larger(x, y)
  BY DEF Bmp!Larger, Larger
<1>14. \A t, f, w, h, d, m, a : Bmp!Sized(t, f, w, h, d, m, a) = Sized(t, f, w, h, d, m, a)
  BY DEF Bmp!Sized, Sized
<1>15. \A s, p : Bmp!ByteWritten(s, p) = ByteWritten(s, p)
  BY DEF Bmp!ByteWritten, ByteWritten, Bmp!StartsBefore, StartsBefore, Bmp!Unknown, Unknown
<1> QED BY <1>1, <1>2, <1>3, <1>4, <1>5, <1>6, <1>7, <1>8, <1>9, <1>10, <1>11, <1>12, <1>13,
           <1>14, <1>15

(* BMP: a bitmap is valid in the same cases.                               *)
LEMMA BmpValid ==
  /\ \A b : Bmp!IsValid(b) <=> IsValid(b)
<1>1. \A b : Bmp!IsValid(b) <=> IsValid(b)
  BY DEF Bmp!IsValid, IsValid
<1> QED BY <1>1

-----------------------------------------------------------------------------
(* BMP: the reads                                                          *)

(* BMP: the read of the file header keeps the invariant.                   *)
LEMMA BmpHeaderIsRead ==
  ASSUME Inv, Bmp!ReadBmpHeader
  PROVE  Inv'
<1>1. At("ReadBmp", "Header") /\ UNCHANGED <<file, bitmap, pixels, metadata>>
  BY BmpCalls DEF Bmp!ReadBmpHeader
<1>2. /\ Common /\ BmpReads /\ IsTyped(call) /\ IsFile(file)
      /\ call.op = "ReadBmp" /\ metadata' \in MetadataType
  BY <1>1 DEF Inv, Common, During, Running, At
<1>3. "READ_FAILURE" \in Result \ {"OK"} /\ "INVALID_HEADER" \in Result \ {"OK"}
  BY DEF Result
<1>4. CASE ReadFails(14, "READ_FAILURE")
  BY <1>1, <1>3, <1>4, ReadFailsKeeps
<1>5. CASE Return("INVALID_HEADER")
  BY <1>1, <1>2, <1>3, <1>5, ReturnKeeps
<1>6. CASE Holds(file, 0, 14) /\ call' = [call EXCEPT !.step = "Dib", !.position = 14]
  <2>1. IsTyped(call') /\ call'.beyond = call.beyond /\ call'.op = "ReadBmp" /\ call'.step = "Dib"
        /\ call'.row = call.row
    BY <1>2, <1>6 DEF IsTyped
  <2>2. Common'
    BY <1>1, <1>2, <2>1, CommonStays
  <2>3. IsAt(file', 0, "bmpHeader")
    BY <1>1, <1>2, <1>6, BmpStream DEF IsFile, HasHeaders, BmpReads, Bmp!BMP_HEADER_SIZE
  <2>4. BmpReads'
    BY <1>1, <1>2, <2>1, <2>3, <1>6 DEF BmpReads, At
  <2> QED BY <2>1, <2>2, <2>4, GoesOnReading
<1> QED BY <1>4, <1>5, <1>6, BmpStream, BmpCalls DEF Bmp!ReadBmpHeader, Bmp!BMP_HEADER_SIZE

(* BMP: the read of the information header keeps the invariant.            *)
LEMMA BmpDibHeaderIsRead ==
  ASSUME Inv, Bmp!ReadDibHeader
  PROVE  Inv'
<1> DEFINE header == file.at[14].value
<1>1. At("ReadBmp", "Dib") /\ UNCHANGED <<file, bitmap, pixels>>
  BY BmpCalls DEF Bmp!ReadDibHeader
<1>2. /\ Common /\ BmpReads /\ IsTyped(call) /\ IsFile(file)
      /\ call.op = "ReadBmp" /\ metadata \in MetadataType
  BY <1>1 DEF Inv, Common, During, Running, At
<1>3. "READ_FAILURE" \in Result \ {"OK"} /\ "HEADER_NOT_SUPPORTED" \in Result \ {"OK"}
  BY DEF Result
<1>4. CASE UNCHANGED metadata /\ \E n : ReadFails(n, "READ_FAILURE")
  BY <1>1, <1>3, <1>4, ReadFailsKeeps
<1>5. CASE Return("HEADER_NOT_SUPPORTED") /\ UNCHANGED metadata
  BY <1>1, <1>2, <1>3, <1>5, ReturnKeeps
<1>6. CASE /\ Holds(file, 14, 16) /\ header.bitCount \in {24, 32}
           /\ Bmp!SeekPixels(header)
           /\ metadata' = IF call.wants THEN [metadata EXCEPT !.cutout = "default"]
                          ELSE metadata
  <2>1. IsAt(file, 14, "dibHeader") /\ IsAt(file, 0, "bmpHeader")
    BY <1>1, <1>2, <1>6, BmpStream
    DEF IsFile, HasHeaders, BmpReads, Bmp!BMP_HEADER_SIZE, Bmp!MIN_DIB_HEADER_SIZE, At
  <2>2. header \in Bmp!DibHeaders /\ file.at[0].value \in Bmp!BmpHeaders
    BY <1>2, <2>1 DEF IsFile, IsPiece, IsAt
  <2>3. Bmp!HeaderRead(header) \in Nat
    BY DEF Bmp!HeaderRead, Bmp!DIB_HEADER_SIZE, Bmp!MIN_DIB_HEADER_SIZE
  <2>4. ASSUME NEW x \in Int PROVE Clamped(file, x) \in Nat
    BY <1>2, <2>4 DEF Clamped, IsFile
  <2>5. Bmp!PixelOffset(call.position + Bmp!HeaderRead(header), file.at[0].value.offBits) \in Nat
    BY <1>2, <2>2, <2>3, <2>4, BmpStream
    DEF Bmp!PixelOffset, IsTyped, Bmp!BmpHeaders, Bmp!BMP_HEADER_SIZE, Bmp!DIB_HEADER_SIZE
  <2>6. /\ IsTyped(call') /\ call'.beyond = call.beyond /\ call'.op = "ReadBmp"
        /\ call'.step = "Create" /\ call'.row = call.row /\ call'.header = header
    <3> DEFINE behind  == call.position + Bmp!HeaderRead(header)
               offset  == Bmp!PixelOffset(behind, file.at[0].value.offBits)
               sought  == [call EXCEPT !.step = "Create", !.header = header,
                                       !.position = offset]
               missed  == [call EXCEPT !.step = "Create", !.header = header,
                                       !.position = behind, !.faults = TRUE]
               Goes(c) == /\ IsTyped(c) /\ c.beyond = call.beyond /\ c.op = "ReadBmp"
                          /\ c.step = "Create" /\ c.row = call.row /\ c.header = header
    <3>1. offset \in Nat /\ behind \in Nat
      BY <1>2, <2>3, <2>5 DEF IsTyped
    <3>2. Goes(sought)
      <4> HIDE DEF offset
      <4> QED BY <1>2, <3>1 DEF IsTyped
    <3>3. Goes(missed)
      <4> HIDE DEF behind
      <4> QED BY <1>2, <3>1 DEF IsTyped
    <3>4. call' = sought \/ call' = missed
      BY <1>6, Zenon DEF Bmp!SeekPixels
    <3> HIDE DEF sought, missed
    <3> QED BY <3>2, <3>3, <3>4
  <2>7. metadata' \in MetadataType
    BY <1>2, <1>6 DEF MetadataType
  <2>8. Common'
    BY <1>1, <1>2, <2>6, <2>7, CommonStays
  <2>9. BmpReads'
    BY <1>1, <1>2, <1>6, <2>1, <2>6 DEF BmpReads, At, HeaderOf, IsAt
  <2> QED BY <2>6, <2>8, <2>9, GoesOnReading
<1> QED BY <1>4, <1>5, <1>6, BmpStream, BmpCalls
        DEF Bmp!ReadDibHeader, Bmp!SeekPixels, Bmp!BMP_HEADER_SIZE, Bmp!MIN_DIB_HEADER_SIZE

(* BMP: the formats that are read have four bytes a pixel.                 *)
LEMMA BmpFormats ==
  ASSUME NEW dib
  PROVE  /\ Bmp!GetFormat(dib) \in HandledFormats
         /\ GetBytesPerPixel(Bmp!GetFormat(dib)) = 4
<1>1. Bmp!GetFormat(dib) \in {PIXEL_FORMAT_B8G8R8X8_UNORM, PIXEL_FORMAT_B8G8R8A8_UNORM}
  BY DEF Bmp!GetFormat, Bmp!PIXEL_FORMAT_B8G8R8X8_UNORM, Bmp!PIXEL_FORMAT_B8G8R8A8_UNORM,
         PIXEL_FORMAT_B8G8R8X8_UNORM, PIXEL_FORMAT_B8G8R8A8_UNORM
<1> QED BY <1>1, Formats DEF HandledFormats

(* The header that was read is one.                                        *)
LEMMA BmpHeaders ==
  ASSUME Common, HeaderOf("dibHeader", 14)
  PROVE  call.header \in Bmp!DibHeaders
BY DEF Common, HeaderOf, IsFile, IsPiece, IsAt

(* BMP: the creation of the bitmap keeps the invariant.                    *)
LEMMA BmpIsCreated ==
  ASSUME Inv, Bmp!CreateBitmap
  PROVE  Inv'
<1> DEFINE f == Bmp!GetFormat(call.header)
           w == call.header.width
           h == call.header.height
<1>1. At("ReadBmp", "Create") /\ UNCHANGED <<file, metadata>>
      /\ CreateFromBitmapDimensions(f, w, h, "Rows")
  BY BmpCalls, BmpOthers DEF Bmp!CreateBitmap, Bmp!dib
<1>2. /\ Common /\ BmpReads /\ IsTyped(call) /\ call.op = "ReadBmp"
  BY <1>1 DEF Inv, Common, During, Running, At
<1>3. HeaderOf("dibHeader", 14) /\ call.header.bitCount \in {24, 32} /\ call.row = 0
  BY <1>1, <1>2 DEF BmpReads, At
<1>4. w \in Nat /\ h \in Nat
  BY <1>2, <1>3, BmpHeaders DEF Bmp!DibHeaders
<1>5. f \in HandledFormats
  BY BmpFormats
<1>6. CASE Creates(f, w, h, "Rows")
  <2>1. Common' /\ Fresh(bitmap', f, w, h) /\ call' = [call EXCEPT !.step = "Rows"]
    BY <1>6 DEF Creates, Goto
  <2>2. call'.op = "ReadBmp" /\ call'.step = "Rows" /\ call'.row = 0 /\ call'.header = call.header
    BY <1>2, <1>3, <2>1 DEF IsTyped
  <2>3. IsNew(bitmap', f, w, h)
    BY <1>4, <1>5, <2>1, FreshIsNew
  <2>4. 0 < bitmap'.height
    BY <1>4, <2>3 DEF IsNew
  <2>5. HeaderOf("dibHeader", 14)'
    BY <1>1, <1>3, <2>2 DEF HeaderOf, IsAt
  <2>6. BmpReads'
    BY <1>1, <1>2, <1>3, <2>1, <2>2, <2>4, <2>5 DEF BmpReads
  <2> QED BY <2>1, <2>2, <2>6, GoesOnReading
<1> QED BY <1>1, <1>4, <1>5, <1>6, CreateFromBitmapDimensionsKeeps

(* The bytes of a row of 24 bits lie in the row of the file.               *)
LEMMA BmpStride ==
  ASSUME NEW w \in Nat
  PROVE  /\ Bmp!Stride(32, w) = 4 * w
         /\ Bmp!Stride(24, w) \in Nat /\ 3 * w <= Bmp!Stride(24, w)
BY DEF Bmp!Stride

(* BMP: the read of a row keeps the invariant.                             *)
LEMMA BmpRowIsRead ==
  ASSUME Inv, Bmp!ReadRow
  PROVE  Inv'
<1> DEFINE f      == Bmp!GetFormat(call.header)
           w      == call.header.width
           h      == call.header.height
           stride == Bmp!Stride(call.header.bitCount, bitmap.width)
           row    == Bmp!BytesAt(file, call.position, stride)
           start  == (bitmap.height - 1 - call.row) * bitmap.width * 4
           values == IF call.header.bitCount = 32 THEN row
                     ELSE [i \in 1 .. 4 * bitmap.width |->
                             IF i % 4 = 0 THEN 255
                             ELSE row[((i - 1) \div 4) * 3 + ((i - 1) % 4) + 1]]
           next   == RowDone(stride, GoesBeyond(pixels, start, values))
<1>1. At("ReadBmp", "Rows") /\ UNCHANGED <<file, metadata>>
  BY BmpCalls DEF Bmp!ReadRow
<1>2. /\ Common /\ BmpReads /\ IsTyped(call) /\ IsFile(file) /\ IsImage(bitmap, pixels)
      /\ call.op = "ReadBmp"
  BY <1>1 DEF Inv, Common, During, Running, At
<1>3. HeaderOf("dibHeader", 14) /\ call.header.bitCount \in {24, 32}
      /\ Fresh(bitmap, f, w, h) /\ call.row < bitmap.height
  BY <1>1, <1>2 DEF BmpReads, At
<1>4. w \in Nat /\ h \in Nat
  BY <1>2, <1>3, BmpHeaders DEF Bmp!DibHeaders
<1>5. IsNew(bitmap, f, w, h) /\ GetBytesPerPixel(f) = 4
  BY <1>3, <1>4, FreshIsNew, BmpFormats
<1>6. bitmap.width = w /\ bitmap.height = h /\ bitmap.data = h * (w * 4) /\ w * 4 \in Nat
  BY <1>4, <1>5 DEF IsNew
<1>7. stride \in Nat /\ (call.header.bitCount = 32 => stride = 4 * w)
      /\ (call.header.bitCount = 24 => 3 * w <= stride)
  BY <1>3, <1>4, <1>6, BmpStride
<1>8. call.row \in Nat /\ call.position \in Nat
  BY <1>2 DEF IsTyped
<1>9. row \in [1 .. stride -> Byte]
  BY <1>2, <1>7, <1>8, BytesType, BmpStream
<1> HIDE DEF row, stride
<1>10. values \in [1 .. 4 * w -> Byte]
  <2>1. CASE call.header.bitCount = 32
    BY <1>7, <1>9, <2>1
  <2>2. CASE call.header.bitCount = 24
    <3>1. 255 \in Byte
      BY DEF Byte, Unknown
    <3>2. ASSUME NEW i \in 1 .. 4 * w, i % 4 # 0
          PROVE  ((i - 1) \div 4) * 3 + ((i - 1) % 4) + 1 \in 1 .. stride
      BY <1>4, <1>7, <2>2, <3>2
    <3>3. \A i \in 1 .. 4 * w : i % 4 # 0 =>
            row[((i - 1) \div 4) * 3 + ((i - 1) % 4) + 1] \in Byte
      BY <1>9, <3>2
    <3> QED BY <1>6, <2>2, <3>1, <3>3
  <2> QED BY <1>3, <2>1, <2>2
<1>11. start \in Nat /\ start + 4 * w <= bitmap.data
  <2>1. (h - 1 - call.row) * (w * 4) \in Nat
        /\ (h - 1 - call.row) * (w * 4) + w * 4 <= h * (w * 4)
    BY <1>3, <1>4, <1>6, <1>8, RowsFit
  <2>2. start = (h - 1 - call.row) * (w * 4)
    BY <1>4, <1>6, <1>8
  <2> QED BY <1>4, <1>6, <2>1, <2>2
<1>12. pixels \in [1 .. bitmap.data -> Byte] /\ bitmap.data \in Nat
  BY <1>2, <1>5 DEF IsImage, IsNew, Bitmap
<1> HIDE DEF values, start
<1>13. ~ GoesBeyond(pixels, start, values)
  <2>1. Len(values) = 4 * w /\ Len(pixels) = bitmap.data
    BY <1>4, <1>10, <1>12
  <2> QED BY <1>11, <2>1 DEF GoesBeyond
<1>14. CASE PixelsFallShort(stride)
  BY <1>1, <1>14, PixelsFallShortKeeps
<1>15. CASE /\ pixels' = Put(pixels, start, values) /\ UNCHANGED bitmap
            /\ call' = IF next.row = bitmap.height THEN Finished(next, "OK", call.faults) ELSE next
  <2>1. pixels' \in [1 .. bitmap.data -> Byte]
    <3>1. \A k \in DOMAIN values : values[k] \in Byte
      BY <1>10
    <3> QED BY <1>11, <1>12, <1>15, <3>1, PutType
  <2>2. /\ IsTyped(next) /\ next.op = "ReadBmp" /\ next.beyond = call.beyond
        /\ next.step = "Rows" /\ next.row = call.row + 1 /\ next.header = call.header
    BY <1>1, <1>2, <1>7, <1>8, <1>13 DEF RowDone, IsTyped, At
  <2> HIDE DEF next
  <2>3. CASE next.row = bitmap.height
    <3>1. /\ IsTyped(call') /\ call'.op = "ReadBmp" /\ call'.beyond = call.beyond
          /\ call'.step = "Done"
      BY <1>2, <1>15, <2>2, <2>3 DEF Finished, Called, IsTyped, Result
    <3>2. Common'
      BY <1>1, <1>2, <1>15, <2>1, <3>1, PixelsPut
    <3>3. MetadataComeFromTheFile'
      BY <3>1 DEF MetadataComeFromTheFile
    <3> QED BY <3>1, <3>2, <3>3, Over
  <2>4. CASE next.row # bitmap.height
    <3>1. call' = next
      BY <1>15, <2>4
    <3>2. Common'
      BY <1>1, <1>2, <1>15, <2>1, <2>2, <3>1, PixelsPut
    <3>3. HeaderOf("dibHeader", 14)'
      BY <1>1, <1>3, <2>2, <3>1 DEF HeaderOf, IsAt
    <3>4. call'.row < bitmap'.height
      BY <1>3, <1>4, <1>6, <1>8, <1>15, <2>2, <2>4, <3>1
    <3>5. BmpReads'
      BY <1>1, <1>2, <1>3, <1>15, <2>2, <3>1, <3>3, <3>4 DEF BmpReads
    <3> QED BY <2>2, <3>1, <3>2, <3>5, GoesOnReading
  <2> QED BY <2>3, <2>4
<1>16. \/ Bmp!PixelsFallShort(stride)
       \/ LET done == Bmp!RowDone(stride, Bmp!GoesBeyond(pixels, start, values))
          IN  /\ pixels' = Bmp!Put(pixels, start, values) /\ UNCHANGED bitmap
              /\ call' = IF done.row = bitmap.height THEN Bmp!Finished(done, "OK", call.faults)
                         ELSE done
  BY DEF Bmp!ReadRow, Bmp!dib, row, stride, values, start
<1> QED BY <1>14, <1>15, <1>16, BmpStream, BmpCalls

-----------------------------------------------------------------------------
(* BMP: the saves                                                          *)

BmpKinds == {"bmpHeader", "dibHeader", "bytes"}

(* BMP: no piece of the file speaks of another.                            *)
LEMMA BmpKindsAreSimple == Simple(BmpKinds)
BY DEF Simple, BmpKinds

(* BMP: what is saved is a plain picture in a format that is handled.      *)
LEMMA BmpCanBeSaved ==
  ASSUME Bmp!CanSave
  PROVE  bitmap.format \in HandledFormats /\ bitmap.type = "2D" /\ bitmap.arraySize = 1
BY DEF Bmp!CanSave, HandledFormats, Bmp!PIXEL_FORMAT_B8G8R8X8_UNORM,
   Bmp!PIXEL_FORMAT_B8G8R8A8_UNORM, PIXEL_FORMAT_B8G8R8X8_UNORM, PIXEL_FORMAT_B8G8R8A8_UNORM

(* BMP: the two headers of a save are pieces of a file, of 14 and 40       *)
(* bytes.                                                                  *)
LEMMA BmpHeadersArePieces ==
  ASSUME bitmap \in Bitmap
  PROVE  /\ IsPiece(Bmp!SavedBmpHeader) /\ Bmp!SavedBmpHeader.kind = "bmpHeader"
         /\ Bmp!SavedBmpHeader.size = 14
         /\ IsPiece(Bmp!SavedDibHeader) /\ Bmp!SavedDibHeader.kind = "dibHeader"
         /\ Bmp!SavedDibHeader.size = 40
<1>1. Bmp!SavedBitCount \in Nat
  BY DEF Bmp!SavedBitCount
<1>2. bitmap.width \in Nat /\ bitmap.height \in Nat
  BY DEF Bitmap
<1> QED BY <1>1, <1>2
        DEF IsPiece, Bmp!SavedBmpHeader, Bmp!SavedDibHeader, Bmp!Piece, Bmp!BmpHeader,
            Bmp!DibHeader, Bmp!BmpHeaders, Bmp!DibHeaders, Bmp!BMP_HEADER_SIZE,
            Bmp!DIB_HEADER_SIZE

(* Whatever a save of BMP writes, it goes on from there.                   *)
LEMMA BmpSaveGoesOn ==
  ASSUME Inv, call.op = "SaveBmp", call.step # "Done", BmpSaves, IsFile(file'),
         Kinds(file', BmpKinds),
         file'.codec = "bmp", file'.cut, file'.strings = <<>>, file'.size >= 54,
         UNCHANGED <<bitmap, pixels, metadata>>, IsTyped(call'), call'.op = "SaveBmp",
         call'.step \in {"Rows", "Close"}, call'.step = "Rows" => call'.row < bitmap.height
  PROVE  Inv'
<1>1. Common'
  BY CommonIsSaved DEF Inv, SaveOp
<1>2. Bmp!CanSave' /\ IsValid(bitmap)'
  BY DEF BmpSaves, SavesTo, Bmp!CanSave, IsValid
<1>3. SavesTo("bmp")'
  BY <1>2 DEF SavesTo
<1>4. Kinds(file, BmpKinds)'
  BY DEF Kinds
<1>5. BmpSaves'
  BY <1>2, <1>3, <1>4 DEF BmpSaves, BmpKinds
<1> QED BY <1>1, <1>5, GoesOnReading

(* BMP: the write of the headers keeps the invariant.                      *)
LEMMA BmpHeaderIsSaved ==
  ASSUME Inv, Bmp!SaveHeader
  PROVE  Inv'
<1> DEFINE p == Bmp!SavedBmpHeader
           q == Bmp!SavedDibHeader
           g == Appended(file, p)
           k == Appended(g, q)
<1>1. At("SaveBmp", "Header") /\ UNCHANGED <<bitmap, pixels, metadata>>
  BY BmpCalls DEF Bmp!SaveHeader
<1>2. /\ Common /\ BmpSaves /\ IsTyped(call) /\ IsFile(file) /\ call.op = "SaveBmp"
      /\ call.op \in SaveOp /\ bitmap \in Bitmap /\ IsImage(bitmap, pixels)
  BY <1>1 DEF Inv, Common, During, Running, At, SaveOp, IsImage
<1>3. /\ file.codec = "bmp" /\ file.cut /\ file.at = <<>> /\ file.size = 0
      /\ Kinds(file, BmpKinds) /\ file.strings = <<>> /\ call.row = 0 /\ IsValid(bitmap)
  BY <1>1, <1>2 DEF BmpSaves, SavesTo, At, BmpKinds
<1>4. /\ IsPiece(p) /\ p.kind = "bmpHeader" /\ p.size = 14
      /\ IsPiece(q) /\ q.kind = "dibHeader" /\ q.size = 40
  BY <1>2, BmpHeadersArePieces
<1>5. "bmpHeader" \in BmpKinds /\ "dibHeader" \in BmpKinds
  BY DEF BmpKinds
<1>6. "WRITE_FAILURE" \in Result
  BY DEF Result
<1> HIDE DEF p, q
<1>7. /\ IsFile(g) /\ Kinds(g, BmpKinds)
      /\ \A n \in {0, p.size - 1} : IsFile(AppendedPart(file, n))
  BY <1>2, <1>3, <1>4, <1>5, BmpKindsAreSimple, FirstWrite
<1>8. /\ g.codec = "bmp" /\ g.strings = <<>> /\ g.size = 14
      /\ 0 \in DOMAIN g.at /\ g.at[0] = p
  BY <1>2, <1>3, <1>4, AppendFields
<1>9. g.cut
  BY <1>2, <1>3, AppendFields, Zenon
<1> HIDE DEF g
<1>10. /\ k.codec = "bmp" /\ k.strings = <<>> /\ k.size = 54
       /\ IsAt(k, 0, "bmpHeader") /\ IsAt(k, 14, "dibHeader")
  BY <1>4, <1>7, <1>8, AppendFields DEF IsAt
<1>11. k.cut
  BY <1>7, <1>9, AppendFields, Zenon
<1>12. HasHeaders(k)
  BY <1>10 DEF HasHeaders, Bmp!BMP_HEADER_SIZE
<1>13. IsFile(k) /\ Kinds(k, BmpKinds)
  BY <1>4, <1>5, <1>7, <1>9, <1>12, BmpKindsAreSimple, SimpleFileGrows
<1> HIDE DEF k
<1>14. CASE WriteFails(p, "WRITE_FAILURE")
  BY <1>1, <1>2, <1>6, <1>7, <1>14, WriteFailsKeeps
<1>15. CASE file' = g /\ ReturnFault("WRITE_FAILURE")
  BY <1>1, <1>2, <1>6, <1>7, <1>15, SaveReturns
<1>16. CASE file' = k /\ call' = Goto("Rows")
  <2>1. IsTyped(call') /\ call'.op = "SaveBmp" /\ call'.step = "Rows" /\ call'.row = 0
    BY <1>2, <1>3, <1>16 DEF Goto, IsTyped
  <2>2. 0 < bitmap.height
    BY <1>2, <1>3 DEF IsImage, Bitmap
  <2> QED BY <1>1, <1>2, <1>10, <1>11, <1>13, <1>16, <2>1, <2>2, BmpSaveGoesOn DEF At
<1> QED BY <1>14, <1>15, <1>16, BmpCalls, BmpWrites DEF Bmp!SaveHeader, p, q, g, k

(* BMP: a row that is saved is a piece of bytes, and not an empty one.     *)
LEMMA BmpRowIsBytes ==
  ASSUME Common, IsValid(bitmap), Bmp!CanSave, NEW row \in Nat, row < bitmap.height
  PROVE  /\ IsPiece(Bmp!SavedRow(row)) /\ Bmp!SavedRow(row).kind = "bytes"
         /\ Bmp!SavedRow(row).size \in Nat \ {0}
<1> DEFINE packed  == PackedRow(bitmap.height - 1 - row)
           padding == Bmp!Padding(Len(packed))
<1>1. bitmap.height \in Nat
  BY DEF Common, IsImage, Bitmap
<1>2. bitmap.height - 1 - row \in 0 .. bitmap.height - 1
  BY <1>1
<1>3. packed \in Seq(Byte) /\ Len(packed) \in Nat \ {0}
  BY <1>2, BmpCanBeSaved, PackedRowType DEF Common
<1> HIDE DEF packed
<1>4. padding \in Seq(Byte)
  <2>1. (4 - (Len(packed) % 4)) % 4 \in Nat /\ 0 \in Byte
    BY <1>3 DEF Byte, Unknown
  <2> QED BY <2>1 DEF Bmp!Padding
<1> HIDE DEF padding
<1>5. packed \o padding \in Seq(Byte) /\ Len(packed \o padding) # 0
  BY <1>3, <1>4
<1>6. Bmp!SavedRow(row) = Bytes(packed \o padding)
  BY BmpWrites DEF Bmp!SavedRow, packed, padding
<1>7. Len(packed \o padding) \in Nat
  BY <1>5
<1> QED BY <1>5, <1>6, <1>7, BytesArePiece

(* BMP: the write of a row keeps the invariant.                            *)
LEMMA BmpRowIsSaved ==
  ASSUME Inv, Bmp!SaveRow
  PROVE  Inv'
<1> DEFINE p == Bmp!SavedRow(call.row)
           g == Appended(file, p)
<1>1. At("SaveBmp", "Rows") /\ UNCHANGED <<bitmap, pixels, metadata>>
  BY BmpCalls DEF Bmp!SaveRow
<1>2. /\ Common /\ BmpSaves /\ IsTyped(call) /\ IsFile(file) /\ call.op = "SaveBmp"
      /\ call.op \in SaveOp /\ bitmap.height \in Nat
  BY <1>1 DEF Inv, Common, During, Running, At, SaveOp, IsImage, Bitmap
<1>3. /\ file.codec = "bmp" /\ file.cut /\ IsValid(bitmap) /\ Bmp!CanSave
      /\ Kinds(file, BmpKinds) /\ file.strings = <<>> /\ file.size >= 54
      /\ call.row < bitmap.height /\ call.row \in Nat
  BY <1>1, <1>2 DEF BmpSaves, SavesTo, At, BmpKinds, IsTyped
<1>4. IsPiece(p) /\ p.kind \in BmpKinds /\ p.size \in Nat \ {0}
  BY <1>2, <1>3, BmpRowIsBytes DEF BmpKinds
<1>5. HasBegun(file) /\ "WRITE_FAILURE" \in Result
  BY <1>3 DEF HasBegun, Result
<1> HIDE DEF p
<1>6. /\ IsFile(g) /\ Kinds(g, BmpKinds) /\ HasBegun(g)
      /\ \A n \in {0, p.size - 1} : IsFile(AppendedPart(file, n))
  BY <1>2, <1>3, <1>4, <1>5, BmpKindsAreSimple, SimpleWrite
<1>7. g.codec = "bmp" /\ g.strings = <<>>
  BY <1>2, <1>3, AppendFields
<1>8. g.cut
  BY <1>2, <1>3, AppendFields, Zenon
<1>9. g.size >= 54
  BY <1>6, <1>7 DEF HasBegun
<1> HIDE DEF g
<1>10. CASE WriteFails(p, "WRITE_FAILURE")
  BY <1>1, <1>2, <1>5, <1>6, <1>10, WriteFailsKeeps
<1>11. CASE /\ file' = g
            /\ call' = [call EXCEPT
                 !.step = IF call.row + 1 = bitmap.height THEN "Close" ELSE "Rows", !.row = @ + 1]
  <2>1. /\ IsTyped(call') /\ call'.op = "SaveBmp" /\ call'.step \in {"Rows", "Close"}
        /\ call'.step = "Rows" => call'.row < bitmap.height
    BY <1>2, <1>3, <1>11 DEF IsTyped
  <2> QED BY <1>1, <1>2, <1>6, <1>7, <1>8, <1>9, <1>11, <2>1, BmpSaveGoesOn DEF At
<1> QED BY <1>10, <1>11, BmpCalls, BmpWrites DEF Bmp!SaveRow, p, g

(* BMP: the end of a save keeps the invariant.                             *)
LEMMA BmpIsClosed ==
  ASSUME Inv, Bmp!Close("SaveBmp")
  PROVE  Inv'
<1>1. Close("SaveBmp") /\ At("SaveBmp", "Close")
  BY BmpWrites DEF Close
<1>2. file.codec = "bmp"
  BY <1>1 DEF Inv, During, Running, At, BmpSaves, SavesTo
<1> QED BY <1>1, <1>2, CloseKeeps DEF SaveOp

(* BMP: a call that begins keeps the invariant.                            *)
LEMMA BmpBegins ==
  ASSUME Inv, Bmp!Start
  PROVE  Inv'
<1>1. ASSUME NEW wants \in BOOLEAN, Bmp!ReadImage(wants)
      PROVE  Inv'
  <2>1. Begin("ReadBmp", "Header", wants) /\ UNCHANGED <<file, bitmap, pixels, metadata>>
        /\ file.codec = "bmp"
    BY <1>1, BmpCalls DEF Bmp!ReadImage
  <2>2. metadata' \in MetadataType /\ "ReadBmp" \in ReadOp
    BY <2>1 DEF Inv, Common, ReadOp
  <2>3. Common' /\ call'.op = "ReadBmp" /\ call'.step = "Header" /\ call'.row = 0
    BY <2>1, <2>2, Begun
  <2>4. BmpReads'
    BY <2>1, <2>3 DEF BmpReads
  <2> QED BY <2>3, <2>4, GoesOnReading
<1>2. ASSUME NEW wants \in BOOLEAN, Bmp!Save(wants)
      PROVE  Inv'
  <2>1. CASE Refuse("SaveBmp", "INVALID_BITMAP", wants) \/ Refuse("SaveBmp", "SAVE_NOT_SUPPORTED", wants)
    BY <2>1, RefuseKeeps DEF SaveOp, Result
  <2>2. CASE /\ IsValid(bitmap) /\ Bmp!CanSave /\ Begin("SaveBmp", "Header", wants)
             /\ file' = NewFile("bmp", Bmp!Opaque(Bmp!Shown), <<>>)
             /\ UNCHANGED <<bitmap, pixels, metadata>>
    <3>1. "SaveBmp" \in SaveOp /\ "bmp" \in Codec /\ <<>> \in Seq(Strings \X Strings)
      BY DEF SaveOp, Codec
    <3>2. SaveHasBegun("SaveBmp", "Header", wants, "bmp", <<>>)
      BY <2>2, <3>1, SaveBegun
    <3>3. Bmp!CanSave' /\ IsValid(bitmap)'
      BY <2>2 DEF Bmp!CanSave, IsValid
    <3>4. Kinds(file, {"bmpHeader", "dibHeader", "bytes"})'
      BY <3>2 DEF SaveHasBegun, Kinds
    <3>5. BmpSaves'
      BY <3>2, <3>3, <3>4 DEF SaveHasBegun, BmpSaves, SavesTo
    <3> QED BY <3>2, <3>5, GoesOnReading DEF SaveHasBegun
  <2> QED BY <1>2, <2>1, <2>2, BmpCalls, BmpWrites, BmpValid DEF Bmp!Save
<1> QED BY <1>1, <1>2 DEF Bmp!Start

(* BMP: a step of a call keeps the invariant.                              *)
LEMMA BmpGoes ==
  ASSUME Inv, Bmp!Step
  PROVE  Inv'
BY BmpHeaderIsRead, BmpDibHeaderIsRead, BmpIsCreated, BmpRowIsRead, BmpHeaderIsSaved,
   BmpRowIsSaved, BmpIsClosed DEF Bmp!Step

-----------------------------------------------------------------------------
(* JPEG: the operators of the instance                                     *)

(* JPEG: the operators on streams and buffers are the ones of this module. *)
LEMMA JpegStream ==
  /\ \A s, p, n : Jpeg!Holds(s, p, n) <=> Holds(s, p, n)
  /\ \A s, p, kind : Jpeg!IsAt(s, p, kind) <=> IsAt(s, p, kind)
  /\ \A s, p : Jpeg!Clamped(s, p) = Clamped(s, p)
  /\ \A s, p : Jpeg!ByteAt(s, p) = ByteAt(s, p)
  /\ \A s, p, n : Jpeg!BytesAt(s, p, n) = BytesAt(s, p, n)
  /\ \A data, i, values : Jpeg!Put(data, i, values) = Put(data, i, values)
  /\ \A data, i, values : Jpeg!GoesBeyond(data, i, values) = GoesBeyond(data, i, values)
  /\ \A f : Jpeg!GetBytesPerPixel(f) = GetBytesPerPixel(f)
  /\ \A b : Jpeg!GetPitch(b) = GetPitch(b)
<1>1. \A s, p, n : Jpeg!Holds(s, p, n) <=> Holds(s, p, n)
  BY DEF Jpeg!Holds, Holds
<1>2. \A s, p, kind : Jpeg!IsAt(s, p, kind) <=> IsAt(s, p, kind)
  BY DEF Jpeg!IsAt, IsAt
<1>3. \A s, p : Jpeg!Clamped(s, p) = Clamped(s, p)
  BY DEF Jpeg!Clamped, Clamped
<1>4. \A s, p : Jpeg!ByteAt(s, p) = ByteAt(s, p)
  BY DEF Jpeg!ByteAt, ByteAt, Jpeg!ByteWritten, ByteWritten, Jpeg!StartsBefore, StartsBefore,
         Jpeg!Unknown, Unknown
<1>5. \A s, p, n : Jpeg!BytesAt(s, p, n) = BytesAt(s, p, n)
  BY DEF Jpeg!BytesAt, BytesAt, Jpeg!ByteAt, ByteAt, Jpeg!ByteWritten, ByteWritten,
         Jpeg!StartsBefore, StartsBefore, Jpeg!Unknown, Unknown
<1>6. \A data, i, values : Jpeg!Put(data, i, values) = Put(data, i, values)
  BY DEF Jpeg!Put, Put
<1>7. \A data, i, values : Jpeg!GoesBeyond(data, i, values) = GoesBeyond(data, i, values)
  BY DEF Jpeg!GoesBeyond, GoesBeyond
<1>8. \A f : Jpeg!GetBytesPerPixel(f) = GetBytesPerPixel(f)
  BY DEF Jpeg!GetBytesPerPixel, GetBytesPerPixel
<1>9. \A b : Jpeg!GetPitch(b) = GetPitch(b)
  BY DEF Jpeg!GetPitch, GetPitch, Jpeg!IsValid, IsValid, Jpeg!IsCompressed, IsCompressed,
         Jpeg!IsCompressedFormat, IsCompressedFormat, Jpeg!IsDds10Format, IsDds10Format,
         Jpeg!GetBlockByteSize, GetBlockByteSize, Jpeg!GetBytesPerPixel, GetBytesPerPixel
<1> QED BY <1>1, <1>2, <1>3, <1>4, <1>5, <1>6, <1>7, <1>8, <1>9

(* JPEG: the beginnings and ends of a call are the ones of this module.    *)
LEMMA JpegCalls ==
  /\ \A op, step : Jpeg!At(op, step) <=> At(op, step)
  /\ \A step : Jpeg!Goto(step) = Goto(step)
  /\ \A stride, beyond : Jpeg!RowDone(stride, beyond) = RowDone(stride, beyond)
  /\ \A c, result, faults : Jpeg!Finished(c, result, faults) = Finished(c, result, faults)
  /\ \A result : Jpeg!Return(result) <=> Return(result)
  /\ \A result : Jpeg!ReturnFault(result) <=> ReturnFault(result)
  /\ \A result : Jpeg!Fail(result) <=> Fail(result)
  /\ \A result : Jpeg!FailOnFault(result) <=> FailOnFault(result)
  /\ \A n, result : Jpeg!ReadFails(n, result) <=> ReadFails(n, result)
  /\ \A n : Jpeg!PixelsFallShort(n) <=> PixelsFallShort(n)
  /\ \A op, step, wants : Jpeg!Begin(op, step, wants) <=> Begin(op, step, wants)
  /\ \A op, result, wants : Jpeg!Refuse(op, result, wants) <=> Refuse(op, result, wants)
<1>1. \A op, step : Jpeg!At(op, step) <=> At(op, step)
  BY DEF Jpeg!At, At
<1>2. \A step : Jpeg!Goto(step) = Goto(step)
  BY DEF Jpeg!Goto, Goto
<1>3. \A stride, beyond : Jpeg!RowDone(stride, beyond) = RowDone(stride, beyond)
  BY DEF Jpeg!RowDone, RowDone
<1>4. \A c, result, faults : Jpeg!Finished(c, result, faults) = Finished(c, result, faults)
  BY DEF Jpeg!Finished, Finished, Jpeg!Called, Called
<1>5. \A result : Jpeg!Return(result) <=> Return(result)
  BY DEF Jpeg!Return, Return, Jpeg!Finished, Finished, Jpeg!Called, Called
<1>6. \A result : Jpeg!ReturnFault(result) <=> ReturnFault(result)
  BY DEF Jpeg!ReturnFault, ReturnFault, Jpeg!Finished, Finished, Jpeg!Called, Called
<1>7. \A result : Jpeg!Fail(result) <=> Fail(result)
  BY DEF Jpeg!Fail, Fail, Jpeg!Return, Return, Jpeg!Finished, Finished, Jpeg!Called, Called,
         Jpeg!Destroy, Destroy, Jpeg!Destroyed, Destroyed, Jpeg!PIXEL_FORMAT_UNKNOWN,
         PIXEL_FORMAT_UNKNOWN
<1>8. \A result : Jpeg!FailOnFault(result) <=> FailOnFault(result)
  BY DEF Jpeg!FailOnFault, FailOnFault, Jpeg!ReturnFault, ReturnFault, Jpeg!Finished, Finished,
         Jpeg!Called, Called, Jpeg!Destroy, Destroy, Jpeg!Destroyed, Destroyed,
         Jpeg!PIXEL_FORMAT_UNKNOWN, PIXEL_FORMAT_UNKNOWN
<1>9. \A n, result : Jpeg!ReadFails(n, result) <=> ReadFails(n, result)
  BY DEF Jpeg!ReadFails, ReadFails, Jpeg!Holds, Holds, Jpeg!Return, Return, Jpeg!ReturnFault,
         ReturnFault, Jpeg!Finished, Finished, Jpeg!Called, Called
<1>10. \A n : Jpeg!PixelsFallShort(n) <=> PixelsFallShort(n)
  BY DEF Jpeg!PixelsFallShort, PixelsFallShort, Jpeg!Holds, Holds, Jpeg!Fail, Fail,
         Jpeg!FailOnFault, FailOnFault, Jpeg!Return, Return, Jpeg!ReturnFault, ReturnFault,
         Jpeg!Finished, Finished, Jpeg!Called, Called, Jpeg!Destroy, Destroy, Jpeg!Destroyed,
         Destroyed, Jpeg!PIXEL_FORMAT_UNKNOWN, PIXEL_FORMAT_UNKNOWN
<1>11. \A op, step, wants : Jpeg!Begin(op, step, wants) <=> Begin(op, step, wants)
  BY DEF Jpeg!Begin, Begin, Jpeg!Called, Called
<1>12. \A op, result, wants : Jpeg!Refuse(op, result, wants) <=> Refuse(op, result, wants)
  BY DEF Jpeg!Refuse, Refuse, Jpeg!Called, Called
<1> QED BY <1>1, <1>2, <1>3, <1>4, <1>5, <1>6, <1>7, <1>8, <1>9, <1>10, <1>11, <1>12

(* JPEG: the writes of a file are the ones of this module.                 *)
LEMMA JpegWrites ==
  /\ \A kind, n, value : Jpeg!Piece(kind, n, value) = Piece(kind, n, value)
  /\ \A values : Jpeg!Bytes(values) = Bytes(values)
  /\ \A s, piece : Jpeg!Appended(s, piece) = Appended(s, piece)
  /\ \A s, n : Jpeg!AppendedPart(s, n) = AppendedPart(s, n)
  /\ \A piece, result : Jpeg!WriteFails(piece, result) <=> WriteFails(piece, result)
  /\ \A op, pieces : Jpeg!SavePieces(op, pieces) <=> SavePieces(op, pieces)
  /\ \A codec, picture, strings : Jpeg!NewFile(codec, picture, strings) = NewFile(codec, picture, strings)
  /\ \A op : Jpeg!Close(op) <=> Close(op)
  /\ \A row : Jpeg!PackedRow(row) = PackedRow(row)
  /\ \A data, f, i : Jpeg!PixelOf(data, f, i) = PixelOf(data, f, i)
  /\ \A p : Jpeg!Red10(p) = Red10(p)
  /\ \A p : Jpeg!Green10(p) = Green10(p)
  /\ \A p : Jpeg!Blue10(p) = Blue10(p)
<1>1. \A kind, n, value : Jpeg!Piece(kind, n, value) = Piece(kind, n, value)
  BY DEF Jpeg!Piece, Piece
<1>2. \A values : Jpeg!Bytes(values) = Bytes(values)
  BY DEF Jpeg!Bytes, Bytes, Jpeg!Piece, Piece
<1>3. \A s, piece : Jpeg!Appended(s, piece) = Appended(s, piece)
  BY DEF Jpeg!Appended, Appended, Jpeg!Placed, Placed
<1>4. \A s, n : Jpeg!AppendedPart(s, n) = AppendedPart(s, n)
  BY DEF Jpeg!AppendedPart, AppendedPart, Jpeg!Placed, Placed, Jpeg!Appended, Appended,
         Jpeg!Piece, Piece
<1>5. \A piece, result : Jpeg!WriteFails(piece, result) <=> WriteFails(piece, result)
  BY DEF Jpeg!WriteFails, WriteFails, Jpeg!AppendedPart, AppendedPart, Jpeg!Appended, Appended,
         Jpeg!Placed, Placed, Jpeg!Piece, Piece, Jpeg!ReturnFault, ReturnFault, Jpeg!Finished,
         Finished, Jpeg!Called, Called
<1>6. \A op, pieces : Jpeg!SavePieces(op, pieces) <=> SavePieces(op, pieces)
  BY DEF Jpeg!SavePieces, SavePieces, Jpeg!At, At, Jpeg!AppendedPart, AppendedPart,
         Jpeg!Appended, Appended, Jpeg!Placed, Placed, Jpeg!Piece, Piece
<1>7. \A codec, picture, strings : Jpeg!NewFile(codec, picture, strings) = NewFile(codec, picture, strings)
  BY DEF Jpeg!NewFile, NewFile, Jpeg!File, File, Jpeg!NoContents, NoContents
<1>8. \A op : Jpeg!Close(op) <=> Close(op)
  BY DEF Jpeg!Close, Close, Jpeg!At, At, Jpeg!Return, Return, Jpeg!Finished, Finished,
         Jpeg!Called, Called
<1>9. \A row : Jpeg!PackedRow(row) = PackedRow(row)
  BY DEF Jpeg!PackedRow, PackedRow, Jpeg!GetPitch, GetPitch, Jpeg!PIXEL_FORMAT_B8G8R8X8_UNORM,
         PIXEL_FORMAT_B8G8R8X8_UNORM, Jpeg!IsValid, IsValid, Jpeg!IsCompressed, IsCompressed,
         Jpeg!IsCompressedFormat, IsCompressedFormat, Jpeg!IsDds10Format, IsDds10Format,
         Jpeg!GetBlockByteSize, GetBlockByteSize, Jpeg!GetBytesPerPixel, GetBytesPerPixel
<1>10. \A data, f, i : Jpeg!PixelOf(data, f, i) = PixelOf(data, f, i)
  BY DEF Jpeg!PixelOf, PixelOf, Jpeg!GetBytesPerPixel, GetBytesPerPixel
<1>11. \A p : Jpeg!Red10(p) = Red10(p)
  BY DEF Jpeg!Red10, Red10
<1>12. \A p : Jpeg!Green10(p) = Green10(p)
  BY DEF Jpeg!Green10, Green10
<1>13. \A p : Jpeg!Blue10(p) = Blue10(p)
  BY DEF Jpeg!Blue10, Blue10
<1> QED BY <1>1, <1>2, <1>3, <1>4, <1>5, <1>6, <1>7, <1>8, <1>9, <1>10, <1>11, <1>12, <1>13

(* JPEG: the bitmaps and the metadata are the ones of this module.         *)
LEMMA JpegOthers ==
  /\ \A b, n : Jpeg!GetMipSize(b, n) = GetMipSize(b, n)
  /\ \A b : Jpeg!Resize(b) <=> Resize(b)
  /\ \A f, w, h, step : Jpeg!Create(f, w, h, step) <=> Create(f, w, h, step)
  /\ \A f, w, h, step : Jpeg!CreateFromBitmapDimensions(f, w, h, step) <=> CreateFromBitmapDimensions(f, w, h, step)
  /\ \A b : Jpeg!Destroyed(b) = Destroyed(b)
  /\ Jpeg!NoBitmap = NoBitmap
  /\ \A kind : Jpeg!IsWhole(kind) <=> IsWhole(kind)
  /\ \A s, p : Jpeg!HeaderIsValid(s, p) <=> HeaderIsValid(s, p)
  /\ \A s, p : Jpeg!ChunkStrings(s, p) = ChunkStrings(s, p)
  /\ \A m : Jpeg!Chunk(m) = Chunk(m)
  /\ \A m : Jpeg!ChunkSize(m) = ChunkSize(m)
  /\ \A f, x : Jpeg!Recursion(f, x) = Recursion(f, x)
  /\ \A x, y : Jpeg!Larger(x, y) = Larger(x, y)
  /\ \A t, f, w, h, d, m, a : Jpeg!Sized(t, f, w, h, d, m, a) = Sized(t, f, w, h, d, m, a)
  /\ \A s, p : Jpeg!ByteWritten(s, p) = ByteWritten(s, p)
<1>1. \A b, n : Jpeg!GetMipSize(b, n) = GetMipSize(b, n)
  BY DEF Jpeg!GetMipSize, GetMipSize, Jpeg!LevelBytes, LevelBytes, Jpeg!GetTrueMipCount,
         GetTrueMipCount, Jpeg!BitLength, BitLength, Jpeg!Shr, Shr, Jpeg!Recursion, Recursion,
         Jpeg!Halved, Halved, Jpeg!Larger, Larger, Jpeg!Total, Total, Jpeg!IsCompressed,
         IsCompressed, Jpeg!IsCompressedFormat, IsCompressedFormat, Jpeg!IsDds10Format,
         IsDds10Format, Jpeg!AlignUp4, AlignUp4, Jpeg!GetBlockByteSize, GetBlockByteSize,
         Jpeg!GetBytesPerPixel, GetBytesPerPixel, Jpeg!GetMipWidth, GetMipWidth,
         Jpeg!GetMipHeight, GetMipHeight, Jpeg!GetMipDepth, GetMipDepth, Jpeg!LevelSide,
         LevelSide
<1>2. \A b : Jpeg!Resize(b) <=> Resize(b)
  BY DEF Jpeg!Resize, Resize, Jpeg!GetDataSize, GetDataSize, Jpeg!Unknown, Unknown,
         Jpeg!LevelBytes, LevelBytes, Jpeg!GetTrueMipCount, GetTrueMipCount, Jpeg!BitLength,
         BitLength, Jpeg!Shr, Shr, Jpeg!Recursion, Recursion, Jpeg!Halved, Halved, Jpeg!Larger,
         Larger, Jpeg!Total, Total, Jpeg!IsCompressed, IsCompressed, Jpeg!IsCompressedFormat,
         IsCompressedFormat, Jpeg!IsDds10Format, IsDds10Format, Jpeg!AlignUp4, AlignUp4,
         Jpeg!GetBlockByteSize, GetBlockByteSize, Jpeg!GetBytesPerPixel, GetBytesPerPixel
<1>3. \A f, w, h, step : Jpeg!Create(f, w, h, step) <=> Create(f, w, h, step)
  BY DEF Jpeg!Create, Create, Jpeg!Sized, Sized, Jpeg!GetDataSize, GetDataSize, Jpeg!Resize,
         Resize, Jpeg!Unknown, Unknown, Jpeg!Goto, Goto, Jpeg!Fail, Fail, Jpeg!Return, Return,
         Jpeg!ReturnFault, ReturnFault, Jpeg!Finished, Finished, Jpeg!Called, Called,
         Jpeg!Destroy, Destroy, Jpeg!Destroyed, Destroyed, Jpeg!PIXEL_FORMAT_UNKNOWN,
         PIXEL_FORMAT_UNKNOWN, Jpeg!LevelBytes, LevelBytes, Jpeg!GetTrueMipCount,
         GetTrueMipCount, Jpeg!BitLength, BitLength, Jpeg!Shr, Shr, Jpeg!Recursion, Recursion,
         Jpeg!Halved, Halved, Jpeg!Larger, Larger, Jpeg!Total, Total, Jpeg!IsCompressed,
         IsCompressed, Jpeg!IsCompressedFormat, IsCompressedFormat, Jpeg!IsDds10Format,
         IsDds10Format, Jpeg!AlignUp4, AlignUp4, Jpeg!GetBlockByteSize, GetBlockByteSize,
         Jpeg!GetBytesPerPixel, GetBytesPerPixel
<1>4. \A f, w, h, step : Jpeg!CreateFromBitmapDimensions(f, w, h, step) <=> CreateFromBitmapDimensions(f, w, h, step)
  BY DEF Jpeg!CreateFromBitmapDimensions, CreateFromBitmapDimensions, Jpeg!Sized, Sized,
         Jpeg!GetDataSize, GetDataSize, Jpeg!Resize, Resize, Jpeg!Unknown, Unknown, Jpeg!Goto,
         Goto, Jpeg!Return, Return, Jpeg!ReturnFault, ReturnFault, Jpeg!Finished, Finished,
         Jpeg!Called, Called, Jpeg!LevelBytes, LevelBytes, Jpeg!GetTrueMipCount,
         GetTrueMipCount, Jpeg!BitLength, BitLength, Jpeg!Shr, Shr, Jpeg!Recursion, Recursion,
         Jpeg!Halved, Halved, Jpeg!Larger, Larger, Jpeg!Total, Total, Jpeg!IsCompressed,
         IsCompressed, Jpeg!IsCompressedFormat, IsCompressedFormat, Jpeg!IsDds10Format,
         IsDds10Format, Jpeg!AlignUp4, AlignUp4, Jpeg!GetBlockByteSize, GetBlockByteSize,
         Jpeg!GetBytesPerPixel, GetBytesPerPixel
<1>5. \A b : Jpeg!Destroyed(b) = Destroyed(b)
  BY DEF Jpeg!Destroyed, Destroyed, Jpeg!PIXEL_FORMAT_UNKNOWN, PIXEL_FORMAT_UNKNOWN
<1>6. Jpeg!NoBitmap = NoBitmap
  BY DEF Jpeg!NoBitmap, NoBitmap, Jpeg!Sized, Sized, Jpeg!PIXEL_FORMAT_UNKNOWN,
         PIXEL_FORMAT_UNKNOWN
<1>7. \A kind : Jpeg!IsWhole(kind) <=> IsWhole(kind)
  BY DEF Jpeg!IsWhole, IsWhole, Jpeg!IsAt, IsAt, Jpeg!Holds, Holds
<1>8. \A s, p : Jpeg!HeaderIsValid(s, p) <=> HeaderIsValid(s, p)
  BY DEF Jpeg!HeaderIsValid, HeaderIsValid, Jpeg!IsAt, IsAt
<1>9. \A s, p : Jpeg!ChunkStrings(s, p) = ChunkStrings(s, p)
  BY DEF Jpeg!ChunkStrings, ChunkStrings, Jpeg!HEADER_SIZE, HEADER_SIZE, Jpeg!ENTRY_SIZE,
         ENTRY_SIZE
<1>10. \A m : Jpeg!Chunk(m) = Chunk(m)
  BY DEF Jpeg!Chunk, Chunk, Jpeg!Piece, Piece, Jpeg!ChunkSize, ChunkSize, Jpeg!Entries, Entries,
         Jpeg!Characters, Characters, Jpeg!TextOffset, TextOffset, Jpeg!TextSize, TextSize,
         Jpeg!Text, Text, Jpeg!Total, Total, Jpeg!Recursion, Recursion, Jpeg!HEADER_SIZE,
         HEADER_SIZE, Jpeg!ENTRY_SIZE, ENTRY_SIZE
<1>11. \A m : Jpeg!ChunkSize(m) = ChunkSize(m)
  BY DEF Jpeg!ChunkSize, ChunkSize, Jpeg!TextOffset, TextOffset, Jpeg!TextSize, TextSize,
         Jpeg!Text, Text, Jpeg!Total, Total, Jpeg!Recursion, Recursion, Jpeg!ENTRY_SIZE,
         ENTRY_SIZE
<1>12. \A f, x : Jpeg!Recursion(f, x) = Recursion(f, x)
  BY DEF Jpeg!Recursion, Recursion
<1>13. \A x, y : Jpeg!Larger(x, y) = Larger(x, y)
  BY DEF Jpeg!Larger, Larger
<1>14. \A t, f, w, h, d, m, a : Jpeg!Sized(t, f, w, h, d, m, a) = Sized(t, f, w, h, d, m, a)
  BY DEF Jpeg!Sized, Sized
<1>15. \A s, p : Jpeg!ByteWritten(s, p) = ByteWritten(s, p)
  BY DEF Jpeg!ByteWritten, ByteWritten, Jpeg!StartsBefore, StartsBefore, Jpeg!Unknown, Unknown
<1> QED BY <1>1, <1>2, <1>3, <1>4, <1>5, <1>6, <1>7, <1>8, <1>9, <1>10, <1>11, <1>12, <1>13,
           <1>14, <1>15

(* JPEG: a bitmap is valid in the same cases.                              *)
LEMMA JpegValid ==
  /\ \A b : Jpeg!IsValid(b) <=> IsValid(b)
<1>1. \A b : Jpeg!IsValid(b) <=> IsValid(b)
  BY DEF Jpeg!IsValid, IsValid
<1> QED BY <1>1

(* JPEG: the program is stopped in the same way.                         *)
LEMMA JpegCrash == Jpeg!Crash <=> Crash
BY DEF Jpeg!Crash, Crash, Jpeg!Return, Return, Jpeg!Finished, Finished, Jpeg!Called, Called,
       Jpeg!NoBitmap, NoBitmap, Jpeg!Sized, Sized, Jpeg!PIXEL_FORMAT_UNKNOWN, PIXEL_FORMAT_UNKNOWN,
       Jpeg!NoMetadata, NoMetadata

-----------------------------------------------------------------------------
(* JPEG: the reads                                                         *)

(* JPEG: the format that is read is handled, and has four bytes a pixel.   *)
LEMMA JpegFormat ==
  /\ Jpeg!PIXEL_FORMAT_B8G8R8A8_UNORM = PIXEL_FORMAT_B8G8R8A8_UNORM
  /\ PIXEL_FORMAT_B8G8R8A8_UNORM \in HandledFormats
  /\ GetBytesPerPixel(PIXEL_FORMAT_B8G8R8A8_UNORM) = 4
<1>1. Jpeg!PIXEL_FORMAT_B8G8R8A8_UNORM = PIXEL_FORMAT_B8G8R8A8_UNORM
  BY DEF Jpeg!PIXEL_FORMAT_B8G8R8A8_UNORM, PIXEL_FORMAT_B8G8R8A8_UNORM
<1> QED BY <1>1, Formats DEF HandledFormats

(* JPEG: the read of the whole file keeps the invariant.                   *)
LEMMA JpegDataAreRead ==
  ASSUME Inv, Jpeg!ReadData
  PROVE  Inv'
<1>1. At("ReadJpeg", "Data") /\ UNCHANGED <<file, bitmap, pixels, metadata>>
  BY JpegCalls DEF Jpeg!ReadData
<1>2. /\ Common /\ JpegReads /\ IsTyped(call) /\ IsFile(file)
      /\ call.op = "ReadJpeg" /\ metadata' \in MetadataType
  BY <1>1 DEF Inv, Common, During, Running, At
<1>3. CASE \E result \in {"READ_FAILURE", "OUT_OF_MEMORY", "ERROR_INITIALIZING_EXTERNAL_LIBRARY"} :
             Return(result) \/ ReturnFault(result)
  <2>1. PICK result \in {"READ_FAILURE", "OUT_OF_MEMORY", "ERROR_INITIALIZING_EXTERNAL_LIBRARY"} :
             Return(result) \/ ReturnFault(result)
    BY <1>3
  <2>2. result \in Result /\ result # "OK"
    BY DEF Result
  <2> QED BY <1>1, <1>2, <2>1, <2>2, ReturnKeeps
<1>4. ASSUME NEW n \in Nat, NEW faults \in BOOLEAN,
             call' = [call EXCEPT !.step = "Header", !.index = n, !.faults = faults]
      PROVE  Inv'
  <2>1. /\ IsTyped(call') /\ call'.beyond = call.beyond /\ call'.op = "ReadJpeg"
        /\ call'.step = "Header" /\ call'.row = call.row /\ call'.position = call.position
    BY <1>2, <1>4 DEF IsTyped
  <2>2. Common'
    BY <1>1, <1>2, <2>1, CommonStays
  <2>3. JpegReads'
    BY <1>1, <1>2, <2>1 DEF JpegReads, At
  <2> QED BY <2>1, <2>2, <2>3, GoesOnReading
<1>5. CASE call' = [call EXCEPT !.step = "Header", !.index = file.size]
  <2>1. file.size \in Nat /\ call.faults \in BOOLEAN
    BY <1>2 DEF IsFile, IsTyped
  <2>2. call' = [call EXCEPT !.step = "Header", !.index = file.size, !.faults = call.faults]
    BY <1>2, <1>5 DEF IsTyped
  <2> QED BY <1>4, <2>1, <2>2
<1>6. CASE \E n \in DOMAIN file.at :
             call' = [call EXCEPT !.step = "Header", !.index = n, !.faults = TRUE]
  BY <1>2, <1>4, <1>6 DEF IsFile
<1> QED BY <1>3, <1>5, <1>6, JpegCalls DEF Jpeg!ReadData

(* JPEG: the header that was read holds numbers.                           *)
LEMMA JpegHeaders ==
  ASSUME Common, HeaderOf("jpegHeader", 0)
  PROVE  call.header.width \in Nat /\ call.header.height \in Nat /\ call.header.channels \in Nat
BY DEF Common, HeaderOf, IsFile, IsPiece, IsAt, Jpeg!Headers

(* JPEG: the read of the header, which creates the bitmap, keeps the       *)
(* invariant.                                                              *)
LEMMA JpegHeaderIsRead ==
  ASSUME Inv, Jpeg!ReadHeader
  PROVE  Inv'
<1> DEFINE header == file.at[0].value
           f      == PIXEL_FORMAT_B8G8R8A8_UNORM
           b      == Sized("2D", f, header.width, header.height, 1, 1, 1)
<1>1. At("ReadJpeg", "Header") /\ UNCHANGED file
  BY JpegCalls DEF Jpeg!ReadHeader
<1>2. /\ Common /\ JpegReads /\ IsTyped(call) /\ IsFile(file)
      /\ call.op = "ReadJpeg" /\ metadata \in MetadataType /\ call.position = 0 /\ call.row = 0
  BY <1>1 DEF Inv, Common, During, Running, At, JpegReads
<1>3. CASE /\ Return("INVALID_HEADER") \/ ReturnFault("INVALID_HEADER")
           /\ UNCHANGED <<bitmap, pixels, metadata>>
  <2>1. "INVALID_HEADER" \in Result /\ "INVALID_HEADER" # "OK"
    BY DEF Result
  <2> QED BY <1>1, <1>2, <1>3, <2>1, ReturnKeeps
<1>4. ASSUME NEW faults \in BOOLEAN, IsAt(file, 0, "jpegHeader"),
             call' = [call EXCEPT !.step = "Clear", !.header = header, !.position = 20,
                                  !.faults = faults],
             \/ Resize(b)
             \/ bitmap' = Destroyed(b) /\ pixels' = <<>>,
             metadata' = IF call.wants THEN [metadata EXCEPT !.cutout = "default"] ELSE metadata
      PROVE  Inv'
  <2>1. header.width \in Nat /\ header.height \in Nat
    BY <1>2, <1>4 DEF IsFile, IsPiece, IsAt, Jpeg!Headers
  <2>2. /\ IsTyped(call') /\ call'.beyond = call.beyond /\ call'.op = "ReadJpeg"
        /\ call'.step = "Clear" /\ call'.row = 0 /\ call'.header = header
    BY <1>2, <1>4 DEF IsTyped
  <2>3. metadata' \in MetadataType
    BY <1>2, <1>4 DEF MetadataType
  <2>4. IsImage(bitmap', pixels') /\ (IsValid(bitmap') => Fresh(bitmap', f, header.width, header.height))
    <3>1. CASE Resize(b)
      <4>1. pixels' \in [1 .. bitmap'.data -> Byte]
            /\ bitmap' = [b EXCEPT !.data = header.width * header.height * GetBytesPerPixel(f)]
        BY <2>1, <3>1, JpegFormat, Resized
      <4>2. IsValid(bitmap') => Fresh(bitmap', f, header.width, header.height)
        BY <4>1 DEF Fresh
      <4>3. bitmap' \in Bitmap
        <5>1. header.width * header.height * GetBytesPerPixel(f) \in Nat
          BY <2>1, JpegFormat, ProductType
        <5> QED BY <2>1, <4>1, <5>1, JpegFormat, FlatSize
      <4>4. IsValid(bitmap') => IsNew(bitmap', f, header.width, header.height)
        BY <2>1, <4>2, JpegFormat, FreshIsNew
      <4> QED BY <4>1, <4>2, <4>3, <4>4 DEF IsImage, IsNew
    <3>2. CASE bitmap' = Destroyed(b) /\ pixels' = <<>>
      <4>1. b \in Bitmap
        <5>1. 0 \in Nat
          OBVIOUS
        <5> QED BY <2>1, <5>1, JpegFormat, FlatSize
      <4> HIDE DEF b
      <4>2. bitmap' \in Bitmap /\ bitmap'.data = 0
        BY <3>2, <4>1, DestroyedType
      <4> QED BY <3>2, <4>2, NoBytes DEF IsImage, IsValid
    <3> QED BY <1>4, <3>1, <3>2
  <2>5. PixelsStayInside'
    BY <1>1, <1>2, <2>2, MayGoBeyondStays DEF Common, PixelsStayInside
  <2>6. Common'
    BY <1>1, <1>2, <2>2, <2>3, <2>4, <2>5 DEF Common
  <2>7. HeaderOf("jpegHeader", 0)'
    BY <1>1, <1>4, <2>2 DEF HeaderOf, IsAt
  <2>8. JpegReads'
    BY <1>1, <1>2, <2>2, <2>4, <2>7 DEF JpegReads
  <2> QED BY <2>2, <2>6, <2>8, GoesOnReading
<1>5. ASSUME Jpeg!Came("jpegHeader")
      PROVE  IsAt(file, 0, "jpegHeader")
  BY <1>2, <1>5, JpegOthers DEF Jpeg!Came, IsWhole
<1>6. CASE /\ Jpeg!Came("jpegHeader")
           /\ Resize(b)
           /\ call' = [call EXCEPT !.step = "Clear", !.header = header, !.position = 20]
           /\ metadata' = IF call.wants THEN [metadata EXCEPT !.cutout = "default"] ELSE metadata
  <2>1. call.faults \in BOOLEAN
        /\ call' = [call EXCEPT !.step = "Clear", !.header = header, !.position = 20,
                                !.faults = call.faults]
    BY <1>2, <1>6 DEF IsTyped
  <2> QED BY <1>4, <1>5, <1>6, <2>1
<1>7. CASE /\ Jpeg!Came("jpegHeader")
           /\ bitmap' = Destroyed(b) /\ pixels' = <<>>
           /\ call' = [call EXCEPT !.step = "Clear", !.header = header, !.position = 20,
                                   !.faults = TRUE]
           /\ metadata' = IF call.wants THEN [metadata EXCEPT !.cutout = "default"] ELSE metadata
  BY <1>4, <1>5, <1>7
<1>8. Jpeg!PIXEL_FORMAT_B8G8R8A8_UNORM = f
  BY JpegFormat
<1> QED BY <1>3, <1>6, <1>7, <1>8, JpegCalls, JpegOthers DEF Jpeg!ReadHeader, Jpeg!JPEG_HEADER_SIZE

(* JPEG: the clearing of the new bitmap keeps the invariant.               *)
LEMMA JpegPixelsAreCleared ==
  ASSUME Inv, Jpeg!ClearPixels
  PROVE  Inv'
<1>1. At("ReadJpeg", "Clear") /\ UNCHANGED file
  BY JpegCalls DEF Jpeg!ClearPixels
<1>2. /\ Common /\ JpegReads /\ IsTyped(call) /\ call.op = "ReadJpeg" /\ IsImage(bitmap, pixels)
  BY <1>1 DEF Inv, Common, During, Running, At
<1>3. CASE /\ FailOnFault("OUT_OF_MEMORY") \/ FailOnFault("INVALID_DATA")
           /\ UNCHANGED metadata
  <2>1. {"OUT_OF_MEMORY", "INVALID_DATA"} \subseteq Result \ {"OK"}
    BY DEF Result
  <2> QED BY <1>1, <1>3, <2>1, FailKeeps
<1>4. CASE /\ IsValid(bitmap) /\ pixels' = [i \in DOMAIN pixels |-> 0] /\ call' = Goto("Rows")
           /\ UNCHANGED <<bitmap, metadata>>
  <2>1. /\ IsTyped(call') /\ call'.beyond = call.beyond /\ call'.op = "ReadJpeg"
        /\ call'.step = "Rows" /\ call'.row = call.row /\ call'.header = call.header
    BY <1>2, <1>4 DEF IsTyped, Goto
  <2>2. pixels' \in [1 .. bitmap.data -> Byte]
    BY <1>2, <1>4 DEF IsImage, Byte, Unknown
  <2>3. Common'
    BY <1>1, <1>2, <1>4, <2>1, <2>2, PixelsPut
  <2>4. HeaderOf("jpegHeader", 0)'
    BY <1>1, <1>2, <2>1 DEF JpegReads, HeaderOf, IsAt, At
  <2>5. call'.row = 0 /\ 0 <= bitmap.height
    BY <1>1, <1>2, <2>1 DEF JpegReads, At, IsImage, Bitmap
  <2>6. JpegReads'
    BY <1>1, <1>2, <1>4, <2>1, <2>4, <2>5 DEF JpegReads, At, IsValid
  <2> QED BY <2>1, <2>3, <2>6, GoesOnReading
<1> QED BY <1>1, <1>3, <1>4, CrashKeeps, JpegCrash, JpegCalls, JpegValid DEF Jpeg!ClearPixels

(* JPEG: a row of gray or coloured pixels is expanded to four bytes a      *)
(* pixel.                                                                  *)
LEMMA JpegRowType ==
  ASSUME NEW row \in Seq(Byte), NEW w \in Nat, bitmap.width = w, call.header.channels \in {1, 3},
         Len(row) = w * call.header.channels
  PROVE  Jpeg!Expanded(row) \in [1 .. 4 * w -> Byte]
<1> DEFINE c == call.header.channels
<1>1. 255 \in Byte
  BY DEF Byte, Unknown
<1>2. ASSUME NEW i \in 1 .. 4 * w, i % 4 # 0
      PROVE  row[((i - 1) \div 4) * c + IF c = 1 THEN 1 ELSE 4 - (i % 4)] \in Byte
  <2>1. CASE c = 1
    <3>1. ((i - 1) \div 4) * 1 + 1 \in 1 .. Len(row)
      BY <2>1
    <3> QED BY <2>1, <3>1
  <2>2. CASE c = 3
    <3>1. ((i - 1) \div 4) * 3 + (4 - (i % 4)) \in 1 .. Len(row)
      BY <1>2, <2>2
    <3> QED BY <2>2, <3>1
  <2> QED BY <2>1, <2>2
<1>3. 4 * w \in Nat
  OBVIOUS
<1> QED BY <1>1, <1>2 DEF Jpeg!Expanded, Jpeg!h

(* JPEG: the read of a row keeps the invariant.                            *)
LEMMA JpegRowIsRead ==
  ASSUME Inv, Jpeg!ReadRow
  PROVE  Inv'
<1> DEFINE f     == PIXEL_FORMAT_B8G8R8A8_UNORM
           w     == call.header.width
           h     == call.header.height
           c     == call.header.channels
           next  == [call EXCEPT !.row = @ + 1, !.position = @ + bitmap.width * c,
                       !.beyond = @ \/ (Jpeg!IsTaken /\ Jpeg!RowStart + 4 * bitmap.width > Len(pixels))]
<1>1. At("ReadJpeg", "Rows") /\ UNCHANGED <<file, metadata>> /\ call.row < bitmap.height
  BY JpegCalls DEF Jpeg!ReadRow
<1>2. /\ Common /\ JpegReads /\ IsTyped(call) /\ IsFile(file) /\ IsImage(bitmap, pixels)
      /\ call.op = "ReadJpeg"
  BY <1>1 DEF Inv, Common, During, Running, At
<1>3. HeaderOf("jpegHeader", 0) /\ IsValid(bitmap) /\ Fresh(bitmap, f, w, h)
  BY <1>1, <1>2 DEF JpegReads, At
<1>4. w \in Nat /\ h \in Nat /\ c \in Nat
  BY <1>2, <1>3, JpegHeaders
<1>5. IsNew(bitmap, f, w, h)
  BY <1>3, <1>4, FreshIsNew, JpegFormat
<1>6. bitmap.width = w /\ bitmap.height = h /\ bitmap.data = h * (w * 4) /\ w * 4 \in Nat
  BY <1>4, <1>5, JpegFormat DEF IsNew
<1>7. call.row \in Nat /\ call.position \in Nat
  BY <1>2 DEF IsTyped
<1>8. pixels \in [1 .. bitmap.data -> Byte] /\ bitmap.data \in Nat
  BY <1>2, <1>5 DEF IsImage, IsNew, Bitmap
<1>9. Jpeg!RowStart \in Nat /\ Jpeg!RowStart + 4 * bitmap.width <= Len(pixels)
  <2>1. call.row * (w * 4) \in Nat /\ call.row * (w * 4) + w * 4 <= h * (w * 4)
    BY <1>1, <1>4, <1>6, <1>7, RowsFit
  <2>2. Jpeg!RowStart = call.row * (w * 4)
    BY <1>4, <1>6, <1>7 DEF Jpeg!RowStart
  <2>3. Len(pixels) = h * (w * 4)
    BY <1>6, <1>8
  <2> QED BY <1>4, <1>6, <2>1, <2>2, <2>3
<1>10. next = [call EXCEPT !.row = @ + 1, !.position = @ + bitmap.width * c]
  <2>1. ~ (Jpeg!RowStart + 4 * bitmap.width > Len(pixels))
    BY <1>4, <1>6, <1>8, <1>9
  <2>2. (call.beyond \/ (Jpeg!IsTaken /\ Jpeg!RowStart + 4 * bitmap.width > Len(pixels))) = call.beyond
    BY <1>2, <2>1 DEF IsTyped
  <2>3. [call EXCEPT !.row = @ + 1, !.position = @ + bitmap.width * c, !.beyond = call.beyond]
           = [call EXCEPT !.row = @ + 1, !.position = @ + bitmap.width * c]
    BY <1>2 DEF IsTyped
  <2> QED BY <2>2, <2>3
<1> HIDE DEF next
<1>11. ASSUME NEW row \in Seq(Byte), Len(row) = w * c,
              pixels' = Jpeg!RowTaken(row, pixels), call' = next, UNCHANGED bitmap
       PROVE  Inv'
  <2>1. pixels' \in [1 .. bitmap.data -> Byte]
    <3>1. CASE Jpeg!IsTaken
      <4>1. pixels' = Put(pixels, Jpeg!RowStart, Jpeg!Expanded(row))
        BY <1>11, <3>1, JpegStream DEF Jpeg!RowTaken
      <4>2. Jpeg!Expanded(row) \in [1 .. 4 * w -> Byte]
        BY <1>4, <1>6, <1>11, <3>1, JpegRowType DEF Jpeg!IsTaken, Jpeg!h
      <4>3. \A k \in DOMAIN Jpeg!Expanded(row) : Jpeg!Expanded(row)[k] \in Byte
        BY <4>2
      <4>4. Jpeg!RowStart \in Int
        BY <1>9
      <4> QED BY <1>8, <4>1, <4>3, <4>4, PutType
    <3>2. CASE ~ Jpeg!IsTaken
      BY <1>8, <1>11, <3>2 DEF Jpeg!RowTaken
    <3> QED BY <3>1, <3>2
  <2>2. bitmap.width * c \in Nat
    BY <1>4, <1>6, ProductType
  <2>3. /\ IsTyped(call') /\ call'.beyond = call.beyond /\ call'.op = "ReadJpeg"
        /\ call'.step = "Rows" /\ call'.row = call.row + 1 /\ call'.header = call.header
    BY <1>1, <1>2, <1>7, <1>10, <1>11, <2>2 DEF IsTyped, At
  <2>4. Common'
    BY <1>1, <1>2, <1>11, <2>1, <2>3, PixelsPut
  <2>5. HeaderOf("jpegHeader", 0)'
    BY <1>1, <1>3, <2>3 DEF HeaderOf, IsAt
  <2>6. call'.row <= bitmap'.height
    BY <1>1, <1>4, <1>6, <1>7, <1>11, <2>3
  <2>7. JpegReads'
    BY <1>1, <1>2, <1>3, <1>11, <2>3, <2>5, <2>6 DEF JpegReads, IsValid
  <2> QED BY <2>3, <2>4, <2>7, GoesOnReading
<1>12. CASE Fail("INVALID_DATA") \/ FailOnFault("INVALID_DATA")
  <2>1. "INVALID_DATA" \in Result /\ "INVALID_DATA" # "OK"
    BY DEF Result
  <2> QED BY <1>1, <1>12, <2>1, FailKeeps
<1>13. CASE /\ Jpeg!Came("scanline") /\ call' = next /\ UNCHANGED bitmap
            /\ pixels' = Jpeg!RowTaken(file.at[call.position].value, pixels)
  <2>1. IsAt(file, call.position, "scanline")
    BY <1>13, JpegOthers DEF Jpeg!Came, IsWhole
  <2>2. Jpeg!IsRowOf(call.header, file.at[call.position].value)
    BY <1>2, <1>3, <2>1 DEF IsFile, HasRows, HeaderOf, IsAt
  <2> DEFINE row == file.at[call.position].value
  <2>3. row \in Seq(Byte) /\ Len(row) = w * c
    BY <2>2 DEF Jpeg!IsRowOf, Jpeg!Byte, Jpeg!Unknown, Byte, Unknown
  <2> HIDE DEF row
  <2>4. pixels' = Jpeg!RowTaken(row, pixels) /\ call' = next /\ UNCHANGED bitmap
    BY <1>13 DEF row
  <2> QED BY <1>11, <2>3, <2>4
<1>14. CASE /\ pixels' = Jpeg!RowTaken([i \in 1 .. bitmap.width * c |-> Jpeg!Unknown], pixels)
            /\ call' = next /\ UNCHANGED bitmap
  <2> DEFINE n == bitmap.width * c
             row == [i \in 1 .. n |-> Jpeg!Unknown]
  <2>1. n \in Nat /\ n = w * c /\ Jpeg!Unknown \in Byte
    BY <1>4, <1>6, ProductType DEF Jpeg!Unknown, Byte, Unknown
  <2> HIDE DEF n
  <2>2. row \in Seq(Byte) /\ Len(row) = n
    BY <2>1
  <2> HIDE DEF row
  <2>3. pixels' = Jpeg!RowTaken(row, pixels)
    BY <1>14 DEF n, row
  <2> QED BY <1>11, <1>14, <2>1, <2>2, <2>3
<1>15. Jpeg!RowDone(bitmap.width * c, Jpeg!IsTaken /\ Jpeg!RowStart + 4 * bitmap.width > Len(pixels)) = next
  BY DEF Jpeg!RowDone, next
<1> QED BY <1>12, <1>13, <1>14, <1>15, JpegCalls DEF Jpeg!ReadRow, Jpeg!h

(* JPEG: the end of a read keeps the invariant.                            *)
LEMMA JpegIsFinished ==
  ASSUME Inv, Jpeg!Finish
  PROVE  Inv'
<1>1. At("ReadJpeg", "Rows") /\ UNCHANGED <<file, metadata>>
  BY JpegCalls DEF Jpeg!Finish
<1>2. metadata' \in MetadataType /\ call.op = "ReadJpeg"
  BY <1>1 DEF Inv, Common, At
<1>3. "INVALID_DATA" \in Result /\ "INVALID_DATA" # "OK" /\ "OK" \in Result
  BY DEF Result
<1>4. CASE Fail("INVALID_DATA")
  BY <1>1, <1>3, <1>4, FailKeeps
<1>5. CASE Return("OK") /\ UNCHANGED <<bitmap, pixels>>
  BY <1>1, <1>2, <1>3, <1>5, ReturnKeeps
<1> QED BY <1>4, <1>5, JpegCalls DEF Jpeg!Finish

-----------------------------------------------------------------------------
(* JPEG: the saves                                                         *)

JpegKinds == {"jpegHeader", "scanline", "endOfImage", "part"}

(* A row that is written is one of the header that was.                    *)
RowsAreJpegs(f) ==
  /\ Kinds(f, JpegKinds)
  /\ \A o \in DOMAIN f.at : f.at[o].kind = "jpegHeader" => f.at[o].value = JpegSaved
  /\ \A o \in DOMAIN f.at : f.at[o].kind = "scanline" => Jpeg!IsRowOf(JpegSaved, f.at[o].value)

JpegPiece(p) ==
  /\ IsPiece(p) /\ p.kind \in JpegKinds
  /\ p.kind = "jpegHeader" => p.value = JpegSaved
  /\ p.kind = "scanline" => Jpeg!IsRowOf(JpegSaved, p.value)

(* JPEG: a file whose rows belong to its header is one when another such   *)
(* piece is appended.                                                      *)
LEMMA JpegFileGrows ==
  ASSUME NEW f, IsFile(f), f.cut, f.codec = "jpg", RowsAreJpegs(f), NEW p, JpegPiece(p)
  PROVE  LET g == Appended(f, p)
         IN  IsFile(g) /\ g.cut /\ g.codec = "jpg" /\ RowsAreJpegs(g) /\ g.strings = f.strings
<1> DEFINE g == Appended(f, p)
<1>1. /\ g.codec = f.codec /\ g.strings = f.strings
      /\ DOMAIN g.at = DOMAIN f.at \union {f.size} /\ g.at[f.size] = p
      /\ \A o \in DOMAIN f.at : o # f.size => g.at[o] = f.at[o]
  BY AppendFields
<1>2. g.cut
  BY AppendFields, Zenon
<1> HIDE DEF g
<1>3. \A o \in DOMAIN g.at : g.at[o] = p \/ (o \in DOMAIN f.at /\ g.at[o] = f.at[o])
  BY <1>1
<1>4. RowsAreJpegs(g)
  BY <1>3 DEF RowsAreJpegs, JpegPiece, Kinds
<1>5. \A o \in DOMAIN g.at : g.at[o].kind # "info" /\ g.at[o].kind # "footer"
  BY <1>4 DEF RowsAreJpegs, Kinds, JpegKinds
<1>6. HasRows(g)
  BY <1>4, <1>5 DEF HasRows, RowsAreJpegs
<1>7. HasHeaders(g)
  BY <1>1 DEF HasHeaders
<1>8. \A o \in DOMAIN f.at : f.at[o].kind # "footer"
  BY DEF RowsAreJpegs, Kinds, JpegKinds
<1>9. p.kind # "footer" /\ p.kind # "info" /\ IsPiece(p)
  BY DEF JpegPiece, JpegKinds
<1>10. IsFile(g)
  BY <1>6, <1>7, <1>8, <1>9, FileGrows DEF g
<1> QED BY <1>1, <1>2, <1>4, <1>10 DEF g

(* JPEG: what is saved is a plain picture of one or four bytes a pixel.    *)
LEMMA JpegCanBeSaved ==
  ASSUME Jpeg!CanSave
  PROVE  /\ bitmap.format \in HandledFormats /\ bitmap.type = "2D" /\ bitmap.arraySize = 1
         /\ bitmap.format = PIXEL_FORMAT_R8_UNORM \/ GetBytesPerPixel(bitmap.format) = 4
<1>1. /\ bitmap.type = "2D" /\ bitmap.arraySize = 1
      /\ bitmap.format \in {PIXEL_FORMAT_B8G8R8X8_UNORM, PIXEL_FORMAT_B8G8R8A8_UNORM,
                            PIXEL_FORMAT_R8_UNORM, PIXEL_FORMAT_R10G10B10A2_UNORM,
                            PIXEL_FORMAT_R10G10B10A2_TYPELESS}
  BY DEF Jpeg!CanSave, Jpeg!Is1010102, Jpeg!PIXEL_FORMAT_B8G8R8X8_UNORM,
     Jpeg!PIXEL_FORMAT_B8G8R8A8_UNORM, Jpeg!PIXEL_FORMAT_R8_UNORM,
     Jpeg!PIXEL_FORMAT_R10G10B10A2_UNORM, Jpeg!PIXEL_FORMAT_R10G10B10A2_TYPELESS,
     PIXEL_FORMAT_B8G8R8X8_UNORM, PIXEL_FORMAT_B8G8R8A8_UNORM, PIXEL_FORMAT_R8_UNORM,
     PIXEL_FORMAT_R10G10B10A2_UNORM, PIXEL_FORMAT_R10G10B10A2_TYPELESS
<1> QED BY <1>1, Formats DEF HandledFormats

(* JPEG: a row that is saved has a byte for each channel of each pixel.    *)
LEMMA JpegSavedRowType ==
  ASSUME Common, IsValid(bitmap), Jpeg!CanSave, NEW row \in 0 .. bitmap.height - 1
  PROVE  /\ Jpeg!SavedRow(row) \in Seq(Byte)
         /\ Len(Jpeg!SavedRow(row)) = bitmap.width * Jpeg!SavedChannels
         /\ bitmap.width * Jpeg!SavedChannels \in Nat \ {0}
<1> DEFINE w == bitmap.width
<1>1. /\ bitmap.format \in HandledFormats /\ bitmap.type = "2D" /\ bitmap.arraySize = 1
      /\ bitmap.format = PIXEL_FORMAT_R8_UNORM \/ GetBytesPerPixel(bitmap.format) = 4
      /\ IsImage(bitmap, pixels)
  BY JpegCanBeSaved DEF Common
<1>2. /\ GetPitch(bitmap) = w * GetBytesPerPixel(bitmap.format)
      /\ w \in Nat \ {0} /\ row * GetPitch(bitmap) \in Nat
      /\ Len(pixels) = bitmap.data /\ pixels \in Seq(Byte)
      /\ row * GetPitch(bitmap) + GetPitch(bitmap) <= bitmap.data
  BY <1>1, RowLies
<1>3. Jpeg!PIXEL_FORMAT_R8_UNORM = PIXEL_FORMAT_R8_UNORM
  BY DEF Jpeg!PIXEL_FORMAT_R8_UNORM, PIXEL_FORMAT_R8_UNORM
<1>4. w * 1 = w /\ w * 3 = 3 * w /\ 3 * w \in Nat \ {0} /\ w \in Nat
  BY <1>2
<1>5. CASE bitmap.format = PIXEL_FORMAT_R8_UNORM
  <2>1. GetPitch(bitmap) = w
    BY <1>2, <1>4, <1>5, Formats
  <2>2. row \in Nat
    OBVIOUS
  <2>3. (row + 1) * w = row * w + w
    <3>1. \A x \in Nat, y \in Nat : (x + 1) * y = x * y + y
      OBVIOUS
    <3> QED BY <1>4, <2>2, <3>1
  <2>4. Jpeg!SavedRow(row) = SubSeq(pixels, row * w + 1, row * w + w)
    BY <1>3, <1>5, <2>3 DEF Jpeg!SavedRow
  <2> DEFINE m == row * w
  <2>5. m \in Nat /\ m + w <= Len(pixels)
    BY <1>2, <2>1
  <2> HIDE DEF m
  <2>6. SubSeq(pixels, m + 1, m + w) \in Seq(Byte) /\ Len(SubSeq(pixels, m + 1, m + w)) = w
    BY <1>2, <1>4, <2>5, PartOfBytes
  <2> QED BY <1>2, <1>3, <1>4, <1>5, <2>4, <2>6 DEF Jpeg!SavedChannels, m
<1>6. CASE bitmap.format # PIXEL_FORMAT_R8_UNORM
  <2> DEFINE pixel(i)  == PixelOf(pixels, bitmap.format, row * w + i)
             colour(i) == IF Jpeg!Is1010102
                          THEN <<Red10(pixel(i)), Green10(pixel(i)), Blue10(pixel(i))>>
                          ELSE <<pixel(i)[3], pixel(i)[2], pixel(i)[1]>>
  <2>1. ASSUME NEW i \in 0 .. w - 1, NEW k \in 0 .. 2
        PROVE  colour(i)[k + 1] \in Byte
    <3>1. \A n \in 1 .. 4 : pixel(i)[n] \in Byte
      BY <1>1, <1>6, PixelBytes
    <3> HIDE DEF pixel
    <3>2. pixel(i)[1] \in Byte /\ pixel(i)[2] \in Byte /\ pixel(i)[3] \in Byte /\ pixel(i)[4] \in Byte
      BY <3>1
    <3>3. Red10(pixel(i)) \in Byte /\ Green10(pixel(i)) \in Byte /\ Blue10(pixel(i)) \in Byte
      BY <3>2, TenBits
    <3>4. k = 0 \/ k = 1 \/ k = 2
      OBVIOUS
    <3> QED BY <3>2, <3>3, <3>4
  <2>2. Jpeg!SavedRow(row) = [i \in 1 .. 3 * w |-> colour((i - 1) \div 3)[((i - 1) % 3) + 1]]
    BY <1>3, <1>6, JpegWrites DEF Jpeg!SavedRow
  <2> HIDE DEF colour
  <2>3. ASSUME NEW i \in 1 .. 3 * w
        PROVE  colour((i - 1) \div 3)[((i - 1) % 3) + 1] \in Byte
    <3>1. (i - 1) \div 3 \in 0 .. w - 1 /\ (i - 1) % 3 \in 0 .. 2
      BY <1>4
    <3> QED BY <2>1, <3>1
  <2>4. Jpeg!SavedRow(row) \in [1 .. 3 * w -> Byte]
    BY <2>2, <2>3
  <2>5. Jpeg!SavedRow(row) \in Seq(Byte) /\ Len(Jpeg!SavedRow(row)) = 3 * w
    BY <1>4, <2>4
  <2> QED BY <1>3, <1>4, <1>6, <2>5 DEF Jpeg!SavedChannels
<1> QED BY <1>5, <1>6

(* JPEG: what a save writes are the header, the rows and the end, pieces   *)
(* that belong together and none of them empty.                            *)
LEMMA JpegPieces ==
  ASSUME Common, IsValid(bitmap), Jpeg!CanSave
  PROVE  /\ Len(Jpeg!Pieces) = bitmap.height + 2 /\ bitmap.height \in Nat
         /\ \A i \in 1 .. bitmap.height + 2 :
              JpegPiece(Jpeg!Pieces[i]) /\ Jpeg!Pieces[i].size \in Nat \ {0}
<1> DEFINE height == bitmap.height
           first  == Jpeg!HeaderPiece(JpegSaved)
           rows   == [row \in 1 .. height |-> Jpeg!RowPiece(Jpeg!SavedRow(row - 1))]
<1>1. height \in Nat /\ bitmap.width \in Nat
  BY DEF Common, IsImage, Bitmap
<1>2. Jpeg!Pieces = (<<first>> \o rows) \o <<Jpeg!EndPiece>>
  BY DEF Jpeg!Pieces, JpegSaved
<1>3. JpegPiece(first) /\ first.size \in Nat \ {0}
  <2>1. Jpeg!SavedChannels \in Nat
    BY DEF Jpeg!SavedChannels
  <2> QED BY <1>1, <2>1 DEF JpegPiece, IsPiece, JpegKinds, JpegSaved, Jpeg!HeaderPiece, Jpeg!Piece,
              Jpeg!Header, Jpeg!Headers, Jpeg!JPEG_HEADER_SIZE
<1>4. JpegPiece(Jpeg!EndPiece) /\ Jpeg!EndPiece.size \in Nat \ {0}
  BY DEF JpegPiece, IsPiece, JpegKinds, Jpeg!EndPiece, Jpeg!Piece
<1>5. ASSUME NEW row \in 1 .. height
      PROVE  JpegPiece(rows[row]) /\ rows[row].size \in Nat \ {0}
  <2> DEFINE bytes == Jpeg!SavedRow(row - 1)
  <2>1. row - 1 \in 0 .. height - 1
    BY <1>1
  <2>2. /\ bytes \in Seq(Byte) /\ Len(bytes) = bitmap.width * Jpeg!SavedChannels
        /\ Len(bytes) \in Nat \ {0}
    BY <2>1, JpegSavedRowType
  <2> HIDE DEF bytes
  <2>3. Jpeg!IsRowOf(JpegSaved, bytes)
    BY <2>2 DEF Jpeg!IsRowOf, JpegSaved, Jpeg!Header, Jpeg!Byte, Jpeg!Unknown, Byte, Unknown
  <2>4. rows[row] = [kind |-> "scanline", size |-> Len(bytes), value |-> bytes]
    BY DEF bytes, Jpeg!RowPiece, Jpeg!Piece
  <2> HIDE DEF rows
  <2> QED BY <2>2, <2>3, <2>4 DEF JpegPiece, IsPiece, JpegKinds
<1> HIDE DEF height, first
<1>6. Len(rows) = height /\ rows \in Seq({rows[i] : i \in 1 .. height})
  <2>1. rows = [i \in 1 .. height |-> rows[i]]
    OBVIOUS
  <2> HIDE DEF rows
  <2> QED BY <1>1, <2>1, IsSequence
<1> HIDE DEF rows
<1>7. Len(Jpeg!Pieces) = height + 2
  BY <1>1, <1>2, <1>6
<1>8. ASSUME NEW i \in 1 .. height + 2
      PROVE  \/ Jpeg!Pieces[i] = first
             \/ \E row \in 1 .. height : Jpeg!Pieces[i] = rows[row]
             \/ Jpeg!Pieces[i] = Jpeg!EndPiece
  <2>1. CASE i = 1
    BY <1>1, <1>2, <1>6, <2>1
  <2>2. CASE i > 1 /\ i < height + 2
    <3>1. i - 1 \in 1 .. height
      BY <1>1, <2>2
    <3>2. (<<first>> \o rows)[i] = rows[i - 1] /\ Len(<<first>> \o rows) = height + 1
      BY <1>1, <1>6, <2>2, <3>1
    <3>3. Jpeg!Pieces[i] = (<<first>> \o rows)[i]
      BY <1>1, <1>2, <1>6, <2>2, <3>2
    <3> QED BY <3>1, <3>2, <3>3
  <2>3. CASE i = height + 2
    BY <1>1, <1>2, <1>6, <2>3
  <2> QED BY <1>1, <2>1, <2>2, <2>3
<1> QED BY <1>1, <1>3, <1>4, <1>5, <1>7, <1>8 DEF height

(* JPEG: the write of a piece keeps the invariant.                         *)
LEMMA JpegPieceIsSaved ==
  ASSUME Inv, Jpeg!SavePieces("SaveJpeg", Jpeg!Pieces)
  PROVE  Inv'
<1> DEFINE n     == bitmap.height + 2
           piece == Jpeg!Pieces[call.index + 1]
<1>1. At("SaveJpeg", "Pieces") /\ UNCHANGED <<bitmap, pixels, metadata>>
  BY JpegWrites DEF SavePieces
<1>2. /\ Common /\ JpegSaves /\ IsTyped(call) /\ IsFile(file) /\ call.op = "SaveJpeg"
      /\ call.op \in SaveOp
  BY <1>1 DEF Inv, Common, During, Running, At, SaveOp
<1>3. /\ file.codec = "jpg" /\ file.cut /\ IsValid(bitmap) /\ Jpeg!CanSave
      /\ RowsAreJpegs(file) /\ file.strings = <<>>
      /\ call.index < n /\ call.index \in Nat
  BY <1>1, <1>2 DEF JpegSaves, SavesTo, At, JpegKinds, RowsAreJpegs, IsTyped
<1>4. /\ Len(Jpeg!Pieces) = n /\ bitmap.height \in Nat
      /\ JpegPiece(piece) /\ piece.size \in Nat \ {0}
  BY <1>2, <1>3, JpegPieces
<1> HIDE DEF piece
<1>5. ASSUME NEW step \in {"Pieces", "Close"}, step = "Pieces" => call.index + 1 < n,
             NEW faults \in BOOLEAN,
             call' = [call EXCEPT !.index = @ + 1, !.step = step, !.faults = faults],
             file' = file \/ \E p : file' = Appended(file, p) /\ JpegPiece(p)
      PROVE  Inv'
  <2>1. /\ IsFile(file') /\ file'.cut /\ file'.codec = "jpg" /\ RowsAreJpegs(file')
        /\ file'.strings = <<>>
    BY <1>2, <1>3, <1>5, JpegFileGrows
  <2>2. /\ IsTyped(call') /\ call'.op = "SaveJpeg" /\ call'.step = step
        /\ call'.index = call.index + 1
    BY <1>2, <1>3, <1>5 DEF IsTyped
  <2>3. Common'
    BY <1>1, <1>2, <2>1, <2>2, CommonIsSaved
  <2>4. Jpeg!CanSave' /\ IsValid(bitmap)' /\ JpegSaved' = JpegSaved
    BY <1>1, <1>3 DEF Jpeg!CanSave, IsValid, JpegSaved, Jpeg!SavedChannels, Jpeg!Is1010102
  <2>5. SavesTo("jpg")'
    BY <2>1, <2>4 DEF SavesTo
  <2>6. RowsAreJpegs(file)'
    BY <2>1, <2>4 DEF RowsAreJpegs, Kinds
  <2>7. step = "Pieces" => call'.index < bitmap'.height + 2
    BY <1>1, <1>5, <2>2
  <2>8. JpegSaves'
    BY <2>1, <2>2, <2>4, <2>5, <2>6, <2>7 DEF JpegSaves, RowsAreJpegs, JpegKinds
  <2>9. call'.step # "Done"
    BY <2>2
  <2> QED BY <1>1, <1>2, <2>2, <2>3, <2>8, <2>9, GoesOnReading
<1> DEFINE step == IF call.index + 1 = n THEN "Close" ELSE "Pieces"
<1>6. step \in {"Pieces", "Close"} /\ (step = "Pieces" => call.index + 1 < n)
  BY <1>3, <1>4
<1>7. CASE /\ file' = Appended(file, piece)
           /\ call' = [call EXCEPT !.index = @ + 1, !.step = step]
  <2>1. call.faults \in BOOLEAN
        /\ call' = [call EXCEPT !.index = @ + 1, !.step = step, !.faults = call.faults]
    BY <1>2, <1>7 DEF IsTyped
  <2> QED BY <1>4, <1>5, <1>6, <1>7, <2>1
<1>8. CASE /\ \E k \in {0, piece.size - 1} : file' = AppendedPart(file, k)
           /\ call' = [call EXCEPT !.index = @ + 1, !.step = step, !.faults = TRUE]
  <2>1. PICK k \in {0, piece.size - 1} : file' = AppendedPart(file, k)
    BY <1>8
  <2>2. k \in Nat
    BY <1>4
  <2>3. JpegPiece(Piece("part", k, <<>>))
    BY <2>2, PartIsPiece DEF JpegPiece, JpegKinds
  <2>4. file' = file \/ file' = Appended(file, Piece("part", k, <<>>))
    BY <2>1 DEF AppendedPart
  <2> QED BY <1>5, <1>6, <1>8, <2>3, <2>4
<1>9. SavePieces("SaveJpeg", Jpeg!Pieces)
  BY JpegWrites
<1>10. \/ /\ file' = Appended(file, piece)
          /\ call' = [call EXCEPT !.index = @ + 1, !.step = step]
       \/ /\ \E k \in {0, piece.size - 1} : file' = AppendedPart(file, k)
          /\ call' = [call EXCEPT !.index = @ + 1, !.step = step, !.faults = TRUE]
  BY <1>4, <1>9 DEF SavePieces, piece
<1> QED BY <1>7, <1>8, <1>10

(* JPEG: the end of a save keeps the invariant.                            *)
LEMMA JpegIsClosed ==
  ASSUME Inv, Jpeg!Close("SaveJpeg")
  PROVE  Inv'
<1>1. Close("SaveJpeg") /\ At("SaveJpeg", "Close")
  BY JpegWrites DEF Close
<1>2. file.codec = "jpg"
  BY <1>1 DEF Inv, During, Running, At, JpegSaves, SavesTo
<1> QED BY <1>1, <1>2, CloseKeeps DEF SaveOp

(* JPEG: a call that begins keeps the invariant.                           *)
LEMMA JpegBegins ==
  ASSUME Inv, Jpeg!Start
  PROVE  Inv'
<1>1. ASSUME NEW wants \in BOOLEAN, Jpeg!ReadImage(wants)
      PROVE  Inv'
  <2>1. Begin("ReadJpeg", "Data", wants) /\ UNCHANGED <<file, bitmap, pixels, metadata>>
        /\ file.codec = "jpg"
    BY <1>1, JpegCalls DEF Jpeg!ReadImage
  <2>2. metadata' \in MetadataType /\ "ReadJpeg" \in ReadOp
    BY <2>1 DEF Inv, Common, ReadOp
  <2>3. /\ Common' /\ call'.op = "ReadJpeg" /\ call'.step = "Data" /\ call'.row = 0
        /\ call'.position = 0
    BY <2>1, <2>2, Begun
  <2>4. JpegReads'
    BY <2>1, <2>3 DEF JpegReads
  <2> QED BY <2>3, <2>4, GoesOnReading
<1>2. ASSUME NEW wants \in BOOLEAN, Jpeg!Save(wants)
      PROVE  Inv'
  <2>1. CASE \/ Refuse("SaveJpeg", "INVALID_BITMAP", wants)
             \/ Refuse("SaveJpeg", "SAVE_NOT_SUPPORTED", wants)
    BY <2>1, RefuseKeeps DEF SaveOp, Result
  <2>2. CASE /\ IsValid(bitmap) /\ Jpeg!CanSave /\ Begin("SaveJpeg", "Pieces", wants)
             /\ file' = NewFile("jpg", Jpeg!Stored(Jpeg!Shown), <<>>)
             /\ UNCHANGED <<bitmap, pixels, metadata>>
    <3>1. "SaveJpeg" \in SaveOp /\ "jpg" \in Codec /\ <<>> \in Seq(Strings \X Strings)
      BY DEF SaveOp, Codec
    <3>2. SaveHasBegun("SaveJpeg", "Pieces", wants, "jpg", <<>>)
      BY <2>2, <3>1, SaveBegun
    <3>3. Jpeg!CanSave' /\ IsValid(bitmap)'
      BY <2>2 DEF Jpeg!CanSave, IsValid, Jpeg!Is1010102
    <3>4. file'.at = <<>> /\ 0 < bitmap'.height + 2
      BY <2>2, <3>2 DEF SaveHasBegun, Common, IsImage, Bitmap
    <3>5. Kinds(file, {"jpegHeader", "scanline", "endOfImage", "part"})' /\ DOMAIN file'.at = {}
      BY <3>4 DEF Kinds
    <3>6. JpegSaves'
      BY <3>2, <3>3, <3>4, <3>5 DEF SaveHasBegun, JpegSaves, SavesTo
    <3> QED BY <3>2, <3>6, GoesOnReading DEF SaveHasBegun
  <2> QED BY <1>2, <2>1, <2>2, JpegCalls, JpegWrites, JpegValid DEF Jpeg!Save
<1> QED BY <1>1, <1>2 DEF Jpeg!Start

(* JPEG: a step of a call keeps the invariant.                             *)
LEMMA JpegGoes ==
  ASSUME Inv, Jpeg!Step
  PROVE  Inv'
<1>1. Jpeg!SaveCrashes => Crash /\ UNCHANGED file
  BY JpegCrash DEF Jpeg!SaveCrashes
<1> QED BY <1>1, JpegDataAreRead, JpegHeaderIsRead, JpegPixelsAreCleared, JpegRowIsRead,
           JpegIsFinished, CrashKeeps, JpegPieceIsSaved, JpegIsClosed DEF Jpeg!Step

-----------------------------------------------------------------------------
(* PSD: the operators of the instance                                      *)

(* PSD: the operators on streams and buffers are the ones of this module.  *)
LEMMA PsdStream ==
  /\ \A s, p, n : Psd!Holds(s, p, n) <=> Holds(s, p, n)
  /\ \A s, p, kind : Psd!IsAt(s, p, kind) <=> IsAt(s, p, kind)
  /\ \A s, p : Psd!Clamped(s, p) = Clamped(s, p)
  /\ \A s, p : Psd!ByteAt(s, p) = ByteAt(s, p)
  /\ \A s, p, n : Psd!BytesAt(s, p, n) = BytesAt(s, p, n)
  /\ \A data, i, values : Psd!Put(data, i, values) = Put(data, i, values)
  /\ \A data, i, values : Psd!GoesBeyond(data, i, values) = GoesBeyond(data, i, values)
  /\ \A f : Psd!GetBytesPerPixel(f) = GetBytesPerPixel(f)
  /\ \A b : Psd!GetPitch(b) = GetPitch(b)
<1>1. \A s, p, n : Psd!Holds(s, p, n) <=> Holds(s, p, n)
  BY DEF Psd!Holds, Holds
<1>2. \A s, p, kind : Psd!IsAt(s, p, kind) <=> IsAt(s, p, kind)
  BY DEF Psd!IsAt, IsAt
<1>3. \A s, p : Psd!Clamped(s, p) = Clamped(s, p)
  BY DEF Psd!Clamped, Clamped
<1>4. \A s, p : Psd!ByteAt(s, p) = ByteAt(s, p)
  BY DEF Psd!ByteAt, ByteAt, Psd!ByteWritten, ByteWritten, Psd!StartsBefore, StartsBefore,
         Psd!Unknown, Unknown
<1>5. \A s, p, n : Psd!BytesAt(s, p, n) = BytesAt(s, p, n)
  BY DEF Psd!BytesAt, BytesAt, Psd!ByteAt, ByteAt, Psd!ByteWritten, ByteWritten,
         Psd!StartsBefore, StartsBefore, Psd!Unknown, Unknown
<1>6. \A data, i, values : Psd!Put(data, i, values) = Put(data, i, values)
  BY DEF Psd!Put, Put
<1>7. \A data, i, values : Psd!GoesBeyond(data, i, values) = GoesBeyond(data, i, values)
  BY DEF Psd!GoesBeyond, GoesBeyond
<1>8. \A f : Psd!GetBytesPerPixel(f) = GetBytesPerPixel(f)
  BY DEF Psd!GetBytesPerPixel, GetBytesPerPixel
<1>9. \A b : Psd!GetPitch(b) = GetPitch(b)
  BY DEF Psd!GetPitch, GetPitch, Psd!IsValid, IsValid, Psd!IsCompressed, IsCompressed,
         Psd!IsCompressedFormat, IsCompressedFormat, Psd!IsDds10Format, IsDds10Format,
         Psd!GetBlockByteSize, GetBlockByteSize, Psd!GetBytesPerPixel, GetBytesPerPixel
<1> QED BY <1>1, <1>2, <1>3, <1>4, <1>5, <1>6, <1>7, <1>8, <1>9

(* PSD: the beginnings and ends of a call are the ones of this module.     *)
LEMMA PsdCalls ==
  /\ \A op, step : Psd!At(op, step) <=> At(op, step)
  /\ \A step : Psd!Goto(step) = Goto(step)
  /\ \A stride, beyond : Psd!RowDone(stride, beyond) = RowDone(stride, beyond)
  /\ \A c, result, faults : Psd!Finished(c, result, faults) = Finished(c, result, faults)
  /\ \A result : Psd!Return(result) <=> Return(result)
  /\ \A result : Psd!ReturnFault(result) <=> ReturnFault(result)
  /\ \A result : Psd!Fail(result) <=> Fail(result)
  /\ \A result : Psd!FailOnFault(result) <=> FailOnFault(result)
  /\ \A n, result : Psd!ReadFails(n, result) <=> ReadFails(n, result)
  /\ \A n : Psd!PixelsFallShort(n) <=> PixelsFallShort(n)
  /\ \A op, step, wants : Psd!Begin(op, step, wants) <=> Begin(op, step, wants)
  /\ \A op, result, wants : Psd!Refuse(op, result, wants) <=> Refuse(op, result, wants)
<1>1. \A op, step : Psd!At(op, step) <=> At(op, step)
  BY DEF Psd!At, At
<1>2. \A step : Psd!Goto(step) = Goto(step)
  BY DEF Psd!Goto, Goto
<1>3. \A stride, beyond : Psd!RowDone(stride, beyond) = RowDone(stride, beyond)
  BY DEF Psd!RowDone, RowDone
<1>4. \A c, result, faults : Psd!Finished(c, result, faults) = Finished(c, result, faults)
  BY DEF Psd!Finished, Finished, Psd!Called, Called
<1>5. \A result : Psd!Return(result) <=> Return(result)
  BY DEF Psd!Return, Return, Psd!Finished, Finished, Psd!Called, Called
<1>6. \A result : Psd!ReturnFault(result) <=> ReturnFault(result)
  BY DEF Psd!ReturnFault, ReturnFault, Psd!Finished, Finished, Psd!Called, Called
<1>7. \A result : Psd!Fail(result) <=> Fail(result)
  BY DEF Psd!Fail, Fail, Psd!Return, Return, Psd!Finished, Finished, Psd!Called, Called,
         Psd!Destroy, Destroy, Psd!Destroyed, Destroyed, Psd!PIXEL_FORMAT_UNKNOWN,
         PIXEL_FORMAT_UNKNOWN
<1>8. \A result : Psd!FailOnFault(result) <=> FailOnFault(result)
  BY DEF Psd!FailOnFault, FailOnFault, Psd!ReturnFault, ReturnFault, Psd!Finished, Finished,
         Psd!Called, Called, Psd!Destroy, Destroy, Psd!Destroyed, Destroyed,
         Psd!PIXEL_FORMAT_UNKNOWN, PIXEL_FORMAT_UNKNOWN
<1>9. \A n, result : Psd!ReadFails(n, result) <=> ReadFails(n, result)
  BY DEF Psd!ReadFails, ReadFails, Psd!Holds, Holds, Psd!Return, Return, Psd!ReturnFault,
         ReturnFault, Psd!Finished, Finished, Psd!Called, Called
<1>10. \A n : Psd!PixelsFallShort(n) <=> PixelsFallShort(n)
  BY DEF Psd!PixelsFallShort, PixelsFallShort, Psd!Holds, Holds, Psd!Fail, Fail,
         Psd!FailOnFault, FailOnFault, Psd!Return, Return, Psd!ReturnFault, ReturnFault,
         Psd!Finished, Finished, Psd!Called, Called, Psd!Destroy, Destroy, Psd!Destroyed,
         Destroyed, Psd!PIXEL_FORMAT_UNKNOWN, PIXEL_FORMAT_UNKNOWN
<1>11. \A op, step, wants : Psd!Begin(op, step, wants) <=> Begin(op, step, wants)
  BY DEF Psd!Begin, Begin, Psd!Called, Called
<1>12. \A op, result, wants : Psd!Refuse(op, result, wants) <=> Refuse(op, result, wants)
  BY DEF Psd!Refuse, Refuse, Psd!Called, Called
<1> QED BY <1>1, <1>2, <1>3, <1>4, <1>5, <1>6, <1>7, <1>8, <1>9, <1>10, <1>11, <1>12

(* PSD: the writes of a file are the ones of this module.                  *)
LEMMA PsdWrites ==
  /\ \A kind, n, value : Psd!Piece(kind, n, value) = Piece(kind, n, value)
  /\ \A values : Psd!Bytes(values) = Bytes(values)
  /\ \A s, piece : Psd!Appended(s, piece) = Appended(s, piece)
  /\ \A s, n : Psd!AppendedPart(s, n) = AppendedPart(s, n)
  /\ \A piece, result : Psd!WriteFails(piece, result) <=> WriteFails(piece, result)
  /\ \A op, pieces : Psd!SavePieces(op, pieces) <=> SavePieces(op, pieces)
  /\ \A codec, picture, strings : Psd!NewFile(codec, picture, strings) = NewFile(codec, picture, strings)
  /\ \A op : Psd!Close(op) <=> Close(op)
  /\ \A row : Psd!PackedRow(row) = PackedRow(row)
  /\ \A data, f, i : Psd!PixelOf(data, f, i) = PixelOf(data, f, i)
  /\ \A p : Psd!Red10(p) = Red10(p)
  /\ \A p : Psd!Green10(p) = Green10(p)
  /\ \A p : Psd!Blue10(p) = Blue10(p)
<1>1. \A kind, n, value : Psd!Piece(kind, n, value) = Piece(kind, n, value)
  BY DEF Psd!Piece, Piece
<1>2. \A values : Psd!Bytes(values) = Bytes(values)
  BY DEF Psd!Bytes, Bytes, Psd!Piece, Piece
<1>3. \A s, piece : Psd!Appended(s, piece) = Appended(s, piece)
  BY DEF Psd!Appended, Appended, Psd!Placed, Placed
<1>4. \A s, n : Psd!AppendedPart(s, n) = AppendedPart(s, n)
  BY DEF Psd!AppendedPart, AppendedPart, Psd!Placed, Placed, Psd!Appended, Appended, Psd!Piece,
         Piece
<1>5. \A piece, result : Psd!WriteFails(piece, result) <=> WriteFails(piece, result)
  BY DEF Psd!WriteFails, WriteFails, Psd!AppendedPart, AppendedPart, Psd!Appended, Appended,
         Psd!Placed, Placed, Psd!Piece, Piece, Psd!ReturnFault, ReturnFault, Psd!Finished,
         Finished, Psd!Called, Called
<1>6. \A op, pieces : Psd!SavePieces(op, pieces) <=> SavePieces(op, pieces)
  BY DEF Psd!SavePieces, SavePieces, Psd!At, At, Psd!AppendedPart, AppendedPart, Psd!Appended,
         Appended, Psd!Placed, Placed, Psd!Piece, Piece
<1>7. \A codec, picture, strings : Psd!NewFile(codec, picture, strings) = NewFile(codec, picture, strings)
  BY DEF Psd!NewFile, NewFile, Psd!File, File, Psd!NoContents, NoContents
<1>8. \A op : Psd!Close(op) <=> Close(op)
  BY DEF Psd!Close, Close, Psd!At, At, Psd!Return, Return, Psd!Finished, Finished, Psd!Called,
         Called
<1>9. \A row : Psd!PackedRow(row) = PackedRow(row)
  BY DEF Psd!PackedRow, PackedRow, Psd!GetPitch, GetPitch, Psd!PIXEL_FORMAT_B8G8R8X8_UNORM,
         PIXEL_FORMAT_B8G8R8X8_UNORM, Psd!IsValid, IsValid, Psd!IsCompressed, IsCompressed,
         Psd!IsCompressedFormat, IsCompressedFormat, Psd!IsDds10Format, IsDds10Format,
         Psd!GetBlockByteSize, GetBlockByteSize, Psd!GetBytesPerPixel, GetBytesPerPixel
<1>10. \A data, f, i : Psd!PixelOf(data, f, i) = PixelOf(data, f, i)
  BY DEF Psd!PixelOf, PixelOf, Psd!GetBytesPerPixel, GetBytesPerPixel
<1>11. \A p : Psd!Red10(p) = Red10(p)
  BY DEF Psd!Red10, Red10
<1>12. \A p : Psd!Green10(p) = Green10(p)
  BY DEF Psd!Green10, Green10
<1>13. \A p : Psd!Blue10(p) = Blue10(p)
  BY DEF Psd!Blue10, Blue10
<1> QED BY <1>1, <1>2, <1>3, <1>4, <1>5, <1>6, <1>7, <1>8, <1>9, <1>10, <1>11, <1>12, <1>13

(* PSD: the bitmaps and the metadata are the ones of this module.          *)
LEMMA PsdOthers ==
  /\ \A b, n : Psd!GetMipSize(b, n) = GetMipSize(b, n)
  /\ \A b : Psd!Resize(b) <=> Resize(b)
  /\ \A f, w, h, step : Psd!Create(f, w, h, step) <=> Create(f, w, h, step)
  /\ \A f, w, h, step : Psd!CreateFromBitmapDimensions(f, w, h, step) <=> CreateFromBitmapDimensions(f, w, h, step)
  /\ \A b : Psd!Destroyed(b) = Destroyed(b)
  /\ Psd!NoBitmap = NoBitmap
  /\ \A kind : Psd!IsWhole(kind) <=> IsWhole(kind)
  /\ \A s, p : Psd!HeaderIsValid(s, p) <=> HeaderIsValid(s, p)
  /\ \A s, p : Psd!ChunkStrings(s, p) = ChunkStrings(s, p)
  /\ \A m : Psd!Chunk(m) = Chunk(m)
  /\ \A m : Psd!ChunkSize(m) = ChunkSize(m)
  /\ \A f, x : Psd!Recursion(f, x) = Recursion(f, x)
  /\ \A x, y : Psd!Larger(x, y) = Larger(x, y)
  /\ \A t, f, w, h, d, m, a : Psd!Sized(t, f, w, h, d, m, a) = Sized(t, f, w, h, d, m, a)
  /\ \A s, p : Psd!ByteWritten(s, p) = ByteWritten(s, p)
<1>1. \A b, n : Psd!GetMipSize(b, n) = GetMipSize(b, n)
  BY DEF Psd!GetMipSize, GetMipSize, Psd!LevelBytes, LevelBytes, Psd!GetTrueMipCount,
         GetTrueMipCount, Psd!BitLength, BitLength, Psd!Shr, Shr, Psd!Recursion, Recursion,
         Psd!Halved, Halved, Psd!Larger, Larger, Psd!Total, Total, Psd!IsCompressed,
         IsCompressed, Psd!IsCompressedFormat, IsCompressedFormat, Psd!IsDds10Format,
         IsDds10Format, Psd!AlignUp4, AlignUp4, Psd!GetBlockByteSize, GetBlockByteSize,
         Psd!GetBytesPerPixel, GetBytesPerPixel, Psd!GetMipWidth, GetMipWidth, Psd!GetMipHeight,
         GetMipHeight, Psd!GetMipDepth, GetMipDepth, Psd!LevelSide, LevelSide
<1>2. \A b : Psd!Resize(b) <=> Resize(b)
  BY DEF Psd!Resize, Resize, Psd!GetDataSize, GetDataSize, Psd!Unknown, Unknown, Psd!LevelBytes,
         LevelBytes, Psd!GetTrueMipCount, GetTrueMipCount, Psd!BitLength, BitLength, Psd!Shr,
         Shr, Psd!Recursion, Recursion, Psd!Halved, Halved, Psd!Larger, Larger, Psd!Total,
         Total, Psd!IsCompressed, IsCompressed, Psd!IsCompressedFormat, IsCompressedFormat,
         Psd!IsDds10Format, IsDds10Format, Psd!AlignUp4, AlignUp4, Psd!GetBlockByteSize,
         GetBlockByteSize, Psd!GetBytesPerPixel, GetBytesPerPixel
<1>3. \A f, w, h, step : Psd!Create(f, w, h, step) <=> Create(f, w, h, step)
  BY DEF Psd!Create, Create, Psd!Sized, Sized, Psd!GetDataSize, GetDataSize, Psd!Resize, Resize,
         Psd!Unknown, Unknown, Psd!Goto, Goto, Psd!Fail, Fail, Psd!Return, Return,
         Psd!ReturnFault, ReturnFault, Psd!Finished, Finished, Psd!Called, Called, Psd!Destroy,
         Destroy, Psd!Destroyed, Destroyed, Psd!PIXEL_FORMAT_UNKNOWN, PIXEL_FORMAT_UNKNOWN,
         Psd!LevelBytes, LevelBytes, Psd!GetTrueMipCount, GetTrueMipCount, Psd!BitLength,
         BitLength, Psd!Shr, Shr, Psd!Recursion, Recursion, Psd!Halved, Halved, Psd!Larger,
         Larger, Psd!Total, Total, Psd!IsCompressed, IsCompressed, Psd!IsCompressedFormat,
         IsCompressedFormat, Psd!IsDds10Format, IsDds10Format, Psd!AlignUp4, AlignUp4,
         Psd!GetBlockByteSize, GetBlockByteSize, Psd!GetBytesPerPixel, GetBytesPerPixel
<1>4. \A f, w, h, step : Psd!CreateFromBitmapDimensions(f, w, h, step) <=> CreateFromBitmapDimensions(f, w, h, step)
  BY DEF Psd!CreateFromBitmapDimensions, CreateFromBitmapDimensions, Psd!Sized, Sized,
         Psd!GetDataSize, GetDataSize, Psd!Resize, Resize, Psd!Unknown, Unknown, Psd!Goto, Goto,
         Psd!Return, Return, Psd!ReturnFault, ReturnFault, Psd!Finished, Finished, Psd!Called,
         Called, Psd!LevelBytes, LevelBytes, Psd!GetTrueMipCount, GetTrueMipCount,
         Psd!BitLength, BitLength, Psd!Shr, Shr, Psd!Recursion, Recursion, Psd!Halved, Halved,
         Psd!Larger, Larger, Psd!Total, Total, Psd!IsCompressed, IsCompressed,
         Psd!IsCompressedFormat, IsCompressedFormat, Psd!IsDds10Format, IsDds10Format,
         Psd!AlignUp4, AlignUp4, Psd!GetBlockByteSize, GetBlockByteSize, Psd!GetBytesPerPixel,
         GetBytesPerPixel
<1>5. \A b : Psd!Destroyed(b) = Destroyed(b)
  BY DEF Psd!Destroyed, Destroyed, Psd!PIXEL_FORMAT_UNKNOWN, PIXEL_FORMAT_UNKNOWN
<1>6. Psd!NoBitmap = NoBitmap
  BY DEF Psd!NoBitmap, NoBitmap, Psd!Sized, Sized, Psd!PIXEL_FORMAT_UNKNOWN,
         PIXEL_FORMAT_UNKNOWN
<1>7. \A kind : Psd!IsWhole(kind) <=> IsWhole(kind)
  BY DEF Psd!IsWhole, IsWhole, Psd!IsAt, IsAt, Psd!Holds, Holds
<1>8. \A s, p : Psd!HeaderIsValid(s, p) <=> HeaderIsValid(s, p)
  BY DEF Psd!HeaderIsValid, HeaderIsValid, Psd!IsAt, IsAt
<1>9. \A s, p : Psd!ChunkStrings(s, p) = ChunkStrings(s, p)
  BY DEF Psd!ChunkStrings, ChunkStrings, Psd!HEADER_SIZE, HEADER_SIZE, Psd!ENTRY_SIZE,
         ENTRY_SIZE
<1>10. \A m : Psd!Chunk(m) = Chunk(m)
  BY DEF Psd!Chunk, Chunk, Psd!Piece, Piece, Psd!ChunkSize, ChunkSize, Psd!Entries, Entries,
         Psd!Characters, Characters, Psd!TextOffset, TextOffset, Psd!TextSize, TextSize,
         Psd!Text, Text, Psd!Total, Total, Psd!Recursion, Recursion, Psd!HEADER_SIZE,
         HEADER_SIZE, Psd!ENTRY_SIZE, ENTRY_SIZE
<1>11. \A m : Psd!ChunkSize(m) = ChunkSize(m)
  BY DEF Psd!ChunkSize, ChunkSize, Psd!TextOffset, TextOffset, Psd!TextSize, TextSize, Psd!Text,
         Text, Psd!Total, Total, Psd!Recursion, Recursion, Psd!ENTRY_SIZE, ENTRY_SIZE
<1>12. \A f, x : Psd!Recursion(f, x) = Recursion(f, x)
  BY DEF Psd!Recursion, Recursion
<1>13. \A x, y : Psd!Larger(x, y) = Larger(x, y)
  BY DEF Psd!Larger, Larger
<1>14. \A t, f, w, h, d, m, a : Psd!Sized(t, f, w, h, d, m, a) = Sized(t, f, w, h, d, m, a)
  BY DEF Psd!Sized, Sized
<1>15. \A s, p : Psd!ByteWritten(s, p) = ByteWritten(s, p)
  BY DEF Psd!ByteWritten, ByteWritten, Psd!StartsBefore, StartsBefore, Psd!Unknown, Unknown
<1> QED BY <1>1, <1>2, <1>3, <1>4, <1>5, <1>6, <1>7, <1>8, <1>9, <1>10, <1>11, <1>12, <1>13,
           <1>14, <1>15

(* PSD: a bitmap is valid in the same cases.                               *)
LEMMA PsdValid ==
  /\ \A b : Psd!IsValid(b) <=> IsValid(b)
<1>1. \A b : Psd!IsValid(b) <=> IsValid(b)
  BY DEF Psd!IsValid, IsValid
<1> QED BY <1>1

(* PSD: the program is stopped in the same way.                          *)
LEMMA PsdCrash == Psd!Crash <=> Crash
BY DEF Psd!Crash, Crash, Psd!Return, Return, Psd!Finished, Finished, Psd!Called, Called,
       Psd!NoBitmap, NoBitmap, Psd!Sized, Sized, Psd!PIXEL_FORMAT_UNKNOWN, PIXEL_FORMAT_UNKNOWN,
       Psd!NoMetadata, NoMetadata

-----------------------------------------------------------------------------
(* PSD: the reads                                                          *)

(* A number of some bytes is a number.                                     *)
LEMMA EndianType ==
  ASSUME NEW n \in {2, 4}, NEW bytes \in [1 .. n -> Byte]
  PROVE  Psd!SwitchEndian(bytes) \in Nat
<1> DEFINE f == [p \in Nat \X Nat |-> 256 * p[2] + Larger(bytes[p[1] + 1], 0)]
           r == Recursion(f, 0)
<1>1. Psd!SwitchEndian(bytes) = r[n]
  <2>1. Len(bytes) = n
    OBVIOUS
  <2>2. Psd!SwitchEndian(bytes) = Psd!Recursion([p \in Nat \X Nat |-> 256 * p[2] + Psd!Larger(bytes[p[1] + 1], 0)], 0)[Len(bytes)]
    BY DEF Psd!SwitchEndian
  <2>3. [p \in Nat \X Nat |-> 256 * p[2] + Psd!Larger(bytes[p[1] + 1], 0)] = f
    BY PsdOthers
  <2> HIDE DEF f
  <2> QED BY <2>1, <2>2, <2>3, PsdOthers
<1>2. Follows(r, f, 0)
  BY RecursionUnfolds
<1> HIDE DEF r
<1>3. ASSUME NEW k \in 0 .. n - 1, r[k] \in Nat
      PROVE  r[k + 1] \in Nat
  <2> k \in Nat
    OBVIOUS
  <2>1. r[k + 1] = f[<<k, r[k]>>]
    BY <1>2 DEF Follows
  <2>2. <<k, r[k]>> \in Nat \X Nat
    BY <1>3
  <2>3. f[<<k, r[k]>>] = 256 * r[k] + Larger(bytes[k + 1], 0)
    BY <2>2
  <2>4. bytes[k + 1] \in Byte
    OBVIOUS
  <2>5. \A x \in Byte : Larger(x, 0) \in Nat
    BY DEF Larger, Byte, Unknown
  <2>6. Larger(bytes[k + 1], 0) \in Nat
    BY <2>4, <2>5
  <2> QED BY <1>3, <2>1, <2>3, <2>6
<1> HIDE DEF f
<1>4. r[0] \in Nat
  BY <1>2 DEF Follows
<1>5. r[1] \in Nat
  BY <1>3, <1>4
<1>6. r[2] \in Nat
  BY <1>3, <1>5
<1>7. n = 4 => r[3] \in Nat
  BY <1>3, <1>6
<1>8. n = 4 => r[4] \in Nat
  BY <1>3, <1>7
<1> QED BY <1>1, <1>6, <1>8

(* PSD: a block ends at a position of a file.                              *)
LEMMA BlockEndType ==
  ASSUME IsFile(file), NEW offset \in Nat
  PROVE  Psd!BlockEnd(file, offset) \in Nat
<1>1. BytesAt(file, offset, 4) \in [1 .. 4 -> Byte]
  BY BytesType
<1>2. Psd!SwitchEndian(BytesAt(file, offset, 4)) \in Nat
  BY <1>1, EndianType
<1>3. \A x \in Int : Clamped(file, x) \in Nat
  BY DEF Clamped, IsFile
<1>4. offset + 4 + Psd!SwitchEndian(BytesAt(file, offset, 4)) \in Int
  BY <1>2
<1> QED BY <1>3, <1>4, PsdStream DEF Psd!BlockEnd

(* PSD: the read of the header keeps the invariant.                        *)
LEMMA PsdHeaderIsRead ==
  ASSUME Inv, Psd!DoReadHeader
  PROVE  Inv'
<1> DEFINE header == file.at[0].value
<1>1. At("ReadPsd", "Header") /\ UNCHANGED <<file, bitmap, pixels, metadata>>
  BY PsdCalls DEF Psd!DoReadHeader
<1>2. /\ Common /\ PsdReads /\ IsTyped(call) /\ IsFile(file)
      /\ call.op = "ReadPsd" /\ metadata' \in MetadataType
  BY <1>1 DEF Inv, Common, During, Running, At
<1>3. /\ "READ_FAILURE" \in Result \ {"OK"} /\ "INVALID_HEADER" \in Result \ {"OK"}
      /\ "HEADER_NOT_SUPPORTED" \in Result \ {"OK"}
  BY DEF Result
<1>4. CASE ReadFails(26, "READ_FAILURE")
  BY <1>1, <1>3, <1>4, ReadFailsKeeps
<1>5. CASE Return("INVALID_HEADER") \/ Return("HEADER_NOT_SUPPORTED")
  BY <1>1, <1>2, <1>3, <1>5, ReturnKeeps
<1>6. CASE /\ Holds(file, 0, 26) /\ header.channelCount <= 4
           /\ call' = [call EXCEPT !.step = "Blocks", !.header = header, !.position = 26]
  <2>1. IsTyped(call') /\ call'.beyond = call.beyond /\ call'.op = "ReadPsd"
        /\ call'.step = "Blocks" /\ call'.header = header
    BY <1>2, <1>6 DEF IsTyped
  <2>2. Common'
    BY <1>1, <1>2, <2>1, CommonStays
  <2>3. IsAt(file, 0, "psdHeader")
    BY <1>1, <1>2, <1>6, PsdStream DEF IsFile, HasHeaders, PsdReads, Psd!PSD_HEADER_SIZE
  <2>4. HeaderOf("psdHeader", 0)'
    BY <1>1, <2>1, <2>3 DEF HeaderOf, IsAt
  <2>5. PsdReads'
    BY <1>1, <1>2, <1>6, <2>1, <2>4 DEF PsdReads
  <2> QED BY <2>1, <2>2, <2>5, GoesOnReading
<1> QED BY <1>4, <1>5, <1>6, PsdStream, PsdCalls DEF Psd!DoReadHeader, Psd!PSD_HEADER_SIZE

(* PSD: the header that was read is one.                                   *)
LEMMA PsdHeaders ==
  ASSUME Common, HeaderOf("psdHeader", 0)
  PROVE  call.header \in Psd!Headers
BY DEF Common, HeaderOf, IsFile, IsPiece, IsAt

(* PSD: the skipping of a block keeps the invariant.                       *)
LEMMA PsdBlockIsSkipped ==
  ASSUME Inv, Psd!SkipBlock
  PROVE  Inv'
<1> DEFINE step == IF call.row = 2 THEN "Compression" ELSE "Blocks"
<1>1. At("ReadPsd", "Blocks") /\ UNCHANGED <<file, bitmap, pixels, metadata>>
  BY PsdCalls DEF Psd!SkipBlock
<1>2. /\ Common /\ PsdReads /\ IsTyped(call) /\ IsFile(file)
      /\ call.op = "ReadPsd" /\ metadata' \in MetadataType
  BY <1>1 DEF Inv, Common, During, Running, At
<1>3. ASSUME NEW position \in Nat, NEW faults \in BOOLEAN,
             call' = [call EXCEPT !.row = @ + 1, !.step = step, !.position = position,
                                  !.faults = faults]
      PROVE  Inv'
  <2>1. IsTyped(call') /\ call'.beyond = call.beyond /\ call'.op = "ReadPsd"
        /\ call'.step \in {"Compression", "Blocks"} /\ call'.header = call.header
    BY <1>2, <1>3 DEF IsTyped
  <2>2. Common'
    BY <1>1, <1>2, <2>1, CommonStays
  <2>3. HeaderOf("psdHeader", 0)' /\ call'.header.channelCount <= 4
    BY <1>1, <1>2, <2>1 DEF PsdReads, HeaderOf, IsAt, At
  <2>4. PsdReads'
    BY <1>1, <1>2, <2>1, <2>3 DEF PsdReads
  <2> QED BY <2>1, <2>2, <2>4, GoesOnReading
<1>4. call.faults \in BOOLEAN /\ call.position \in Nat /\ file.size \in Nat
  BY <1>2 DEF IsTyped, IsFile
<1>5. CASE call' = [call EXCEPT !.row = @ + 1, !.step = step, !.position = file.size]
  <2>1. call' = [call EXCEPT !.row = @ + 1, !.step = step, !.position = file.size,
                             !.faults = call.faults]
    BY <1>2, <1>5 DEF IsTyped
  <2> QED BY <1>3, <1>4, <2>1
<1>6. CASE call' = [call EXCEPT !.row = @ + 1, !.step = step,
                                !.position = Psd!BlockEnd(file, call.position)]
  <2>1. call' = [call EXCEPT !.row = @ + 1, !.step = step,
                             !.position = Psd!BlockEnd(file, call.position), !.faults = call.faults]
    BY <1>2, <1>6 DEF IsTyped
  <2>2. Psd!BlockEnd(file, call.position) \in Nat
    BY <1>2, <1>4, BlockEndType
  <2> QED BY <1>3, <1>4, <2>1, <2>2
<1>7. CASE \E n \in {0, 4} :
             call' = [call EXCEPT !.row = @ + 1, !.step = step, !.position = @ + n, !.faults = TRUE]
  <2>1. PICK n \in {0, 4} :
          call' = [call EXCEPT !.row = @ + 1, !.step = step, !.position = call.position + n,
                               !.faults = TRUE]
    BY <1>7
  <2>2. call.position + n \in Nat
    BY <1>4
  <2> QED BY <1>3, <1>4, <2>1, <2>2
<1>8. \/ call' = [[call EXCEPT !.row = @ + 1, !.step = step] EXCEPT !.position = file.size]
      \/ call' = [[call EXCEPT !.row = @ + 1, !.step = step]
                    EXCEPT !.position = Psd!BlockEnd(file, @)]
      \/ \E n \in {0, 4} : call' = [[call EXCEPT !.row = @ + 1, !.step = step]
                                     EXCEPT !.position = @ + n, !.faults = TRUE]
  BY DEF Psd!SkipBlock
<1>9. [[call EXCEPT !.row = @ + 1, !.step = step] EXCEPT !.position = Psd!BlockEnd(file, @)]
        = [call EXCEPT !.row = @ + 1, !.step = step, !.position = Psd!BlockEnd(file, call.position)]
  BY <1>2 DEF IsTyped
<1>10. \A n : [[call EXCEPT !.row = @ + 1, !.step = step] EXCEPT !.position = @ + n, !.faults = TRUE]
               = [call EXCEPT !.row = @ + 1, !.step = step, !.position = @ + n, !.faults = TRUE]
  BY <1>2 DEF IsTyped
<1> QED BY <1>5, <1>6, <1>7, <1>8, <1>9, <1>10

(* PSD: the read of the compression keeps the invariant.                   *)
LEMMA PsdCompressionIsRead ==
  ASSUME Inv, Psd!ReadCompression
  PROVE  Inv'
<1> DEFINE compression == Psd!SwitchEndian(Psd!BytesAt(file, call.position, 2))
<1>1. At("ReadPsd", "Compression") /\ UNCHANGED <<file, bitmap, pixels>>
  BY PsdCalls DEF Psd!ReadCompression
<1>2. /\ Common /\ PsdReads /\ IsTyped(call) /\ IsFile(file)
      /\ call.op = "ReadPsd" /\ metadata \in MetadataType /\ call.position \in Nat
  BY <1>1 DEF Inv, Common, During, Running, At, IsTyped
<1>3. "READ_FAILURE" \in Result \ {"OK"} /\ "HEADER_NOT_SUPPORTED" \in Result \ {"OK"}
  BY DEF Result
<1> HIDE DEF compression
<1>4. CASE ReadFails(2, "READ_FAILURE") /\ UNCHANGED metadata
  BY <1>1, <1>3, <1>4, ReadFailsKeeps
<1>5. CASE Return("HEADER_NOT_SUPPORTED") /\ UNCHANGED metadata
  BY <1>1, <1>2, <1>3, <1>5, ReturnKeeps
<1>6. CASE /\ call' = [call EXCEPT !.step = "Create", !.position = @ + 2, !.row = 0,
                                   !.palette = <<compression>>]
           /\ metadata' = IF call.wants THEN [metadata EXCEPT !.cutout = "default"] ELSE metadata
  <2>1. IsTyped(call') /\ call'.beyond = call.beyond /\ call'.op = "ReadPsd"
        /\ call'.step = "Create" /\ call'.header = call.header /\ call'.row = 0
    BY <1>2, <1>6 DEF IsTyped
  <2>2. metadata' \in MetadataType
    BY <1>2, <1>6 DEF MetadataType
  <2>3. Common'
    BY <1>1, <1>2, <2>1, <2>2, CommonStays
  <2>4. HeaderOf("psdHeader", 0)' /\ call'.header.channelCount <= 4
    BY <1>1, <1>2, <2>1 DEF PsdReads, HeaderOf, IsAt, At
  <2>5. PsdReads'
    BY <1>1, <1>2, <2>1, <2>4 DEF PsdReads
  <2> QED BY <2>1, <2>3, <2>5, GoesOnReading
<1> QED BY <1>4, <1>5, <1>6, PsdCalls DEF Psd!ReadCompression, compression

(* PSD: the formats that are read have a byte for each channel, and one    *)
(* more for three.                                                         *)
LEMMA PsdFormats ==
  ASSUME NEW header
  PROVE  /\ Psd!GetFormat(header) \in HandledFormats
         /\ header.channelCount = 1 => GetBytesPerPixel(Psd!GetFormat(header)) = 1
         /\ header.channelCount = 2 => GetBytesPerPixel(Psd!GetFormat(header)) = 2
         /\ header.channelCount = 3 => GetBytesPerPixel(Psd!GetFormat(header)) = 4
         /\ header.channelCount = 4 => GetBytesPerPixel(Psd!GetFormat(header)) = 4
<1>1. /\ header.channelCount = 1 => Psd!GetFormat(header) = PIXEL_FORMAT_R8_UNORM
      /\ header.channelCount = 2 => Psd!GetFormat(header) = PIXEL_FORMAT_R8G8_UNORM
      /\ header.channelCount = 3 => Psd!GetFormat(header) = PIXEL_FORMAT_B8G8R8X8_UNORM
      /\ header.channelCount \notin {1, 2, 3} => Psd!GetFormat(header) = PIXEL_FORMAT_B8G8R8A8_UNORM
  BY DEF Psd!GetFormat, Psd!PIXEL_FORMAT_R8_UNORM, Psd!PIXEL_FORMAT_R8G8_UNORM,
     Psd!PIXEL_FORMAT_B8G8R8X8_UNORM, Psd!PIXEL_FORMAT_B8G8R8A8_UNORM, PIXEL_FORMAT_R8_UNORM,
     PIXEL_FORMAT_R8G8_UNORM, PIXEL_FORMAT_B8G8R8X8_UNORM, PIXEL_FORMAT_B8G8R8A8_UNORM
<1>2. Psd!GetFormat(header) \in HandledFormats
  BY <1>1 DEF HandledFormats
<1> QED BY <1>1, <1>2, Formats

(* PSD: the creation of the bitmap keeps the invariant.                    *)
LEMMA PsdIsCreated ==
  ASSUME Inv, Psd!CreateBitmap
  PROVE  Inv'
<1> DEFINE f    == Psd!GetFormat(call.header)
           w    == call.header.width
           h    == call.header.height
           step == IF call.palette = <<1>> THEN "Counts" ELSE "Channels"
<1>1. At("ReadPsd", "Create") /\ UNCHANGED <<file, metadata>> /\ Create(f, w, h, step)
  BY PsdCalls, PsdOthers DEF Psd!CreateBitmap, Psd!h
<1>2. /\ Common /\ PsdReads /\ IsTyped(call) /\ call.op = "ReadPsd"
  BY <1>1 DEF Inv, Common, During, Running, At
<1>3. HeaderOf("psdHeader", 0) /\ call.header.channelCount <= 4 /\ call.row = 0
  BY <1>1, <1>2 DEF PsdReads, At
<1>4. w \in Nat /\ h \in Nat /\ call.header.channelCount \in Nat
  BY <1>2, <1>3, PsdHeaders DEF Psd!Headers
<1>5. f \in HandledFormats /\ step \in {"Counts", "Channels"}
  BY PsdFormats
<1> HIDE DEF step
<1>6. CASE Creates(f, w, h, step)
  <2>1. Common' /\ Fresh(bitmap', f, w, h) /\ call' = [call EXCEPT !.step = step]
    BY <1>6 DEF Creates, Goto
  <2>2. call'.op = "ReadPsd" /\ call'.step = step /\ call'.row = 0 /\ call'.header = call.header
    BY <1>2, <1>3, <2>1 DEF IsTyped
  <2>3. HeaderOf("psdHeader", 0)'
    BY <1>1, <1>3, <2>2 DEF HeaderOf, IsAt
  <2>4. PsdReads'
    BY <1>1, <1>2, <1>3, <1>4, <1>5, <2>1, <2>2, <2>3 DEF PsdReads
  <2> QED BY <1>5, <2>1, <2>2, <2>4, GoesOnReading
<1> QED BY <1>1, <1>4, <1>5, <1>6, CreateKeeps

(* PSD: bytes that are put at equal distances into a buffer leave a buffer *)
(* of bytes.                                                               *)
LEMMA PutEveryType ==
  ASSUME NEW m, NEW data \in [1 .. m -> Byte], NEW start \in Nat, NEW step \in Nat \ {0},
         NEW n \in Nat, NEW values \in [1 .. n -> Byte]
  PROVE  Psd!PutEvery(data, start, step, values) \in [1 .. m -> Byte]
<1>1. Len(values) = n
  OBVIOUS
<1>2. ASSUME NEW k \in Nat, k \div step < n
      PROVE  values[(k \div step) + 1] \in Byte
  <2>1. k \div step \in Nat
    OBVIOUS
  <2> QED BY <1>2, <2>1
<1>3. ASSUME NEW i \in 1 .. m
      PROVE  (IF i - 1 - start >= 0 /\ (i - 1 - start) % step = 0 /\ (i - 1 - start) \div step < n
              THEN values[((i - 1 - start) \div step) + 1] ELSE data[i]) \in Byte
  <2>1. i - 1 - start >= 0 => i - 1 - start \in Nat
    OBVIOUS
  <2> QED BY <1>2, <2>1
<1> QED BY <1>1, <1>3 DEF Psd!PutEvery

(* What the reads of PSD know while they put pixels.                       *)
PsdPixels(w, h, bpp) ==
  /\ w \in Nat /\ h \in Nat /\ bpp \in Nat \ {0}
  /\ call.header.width = w /\ call.header.height = h
  /\ HeaderOf("psdHeader", 0)
  /\ Fresh(bitmap, Psd!GetFormat(call.header), w, h)
  /\ bitmap.data = w * h * bpp /\ bitmap.data \in Nat
  /\ w * h \in Nat \ {0}
  /\ pixels \in [1 .. bitmap.data -> Byte]
  /\ call.row \in Nat /\ call.row <= call.header.channelCount
  /\ call.header.channelCount \in 0 .. 4 /\ call.header.gray \in BOOLEAN
  /\ call.header.channelCount = 1 => bpp = 1
  /\ call.header.channelCount = 2 => bpp = 2
  /\ call.header.channelCount = 3 => bpp = 4
  /\ call.header.channelCount = 4 => bpp = 4
  /\ GetMipSize(bitmap, 0) = bitmap.data

(* PSD: at the steps that write pixels, the bitmap is the new one, with    *)
(* room for every channel of the header.                                   *)
LEMMA PsdIsAtPixels ==
  ASSUME Common, PsdReads, call.step \in {"Counts", "Channels", "Packets"}
  PROVE  PsdPixels(call.header.width, call.header.height,
                   GetBytesPerPixel(Psd!GetFormat(call.header)))
<1> DEFINE f == Psd!GetFormat(call.header)
           w == call.header.width
           h == call.header.height
           bpp == GetBytesPerPixel(f)
<1>1. HeaderOf("psdHeader", 0) /\ call.header.channelCount <= 4 /\ Fresh(bitmap, f, w, h)
      /\ call.row <= call.header.channelCount /\ call.row \in Nat /\ IsImage(bitmap, pixels)
  BY DEF PsdReads, Common, IsTyped
<1>2. w \in Nat /\ h \in Nat /\ call.header.channelCount \in 0 .. 4 /\ call.header.gray \in BOOLEAN
  BY <1>1, PsdHeaders DEF Psd!Headers
<1>3. f \in HandledFormats /\ bpp \in Nat \ {0}
  BY PsdFormats, HandledFormatsAreFlat
<1>4. IsNew(bitmap, f, w, h)
  BY <1>1, <1>2, <1>3, FreshIsNew
<1>5. /\ bitmap.data = w * h * bpp /\ bitmap.data \in Nat /\ w # 0 /\ h # 0
      /\ GetMipSize(bitmap, 0) = bitmap.data
  BY <1>4 DEF IsNew, Bitmap
<1>6. w * h \in Nat \ {0}
  BY <1>2, <1>5
<1>7. pixels \in [1 .. bitmap.data -> Byte]
  BY <1>1 DEF IsImage
<1> QED BY <1>1, <1>2, <1>3, <1>5, <1>6, <1>7, PsdFormats DEF PsdPixels

(* A read of PSD goes on among the pixels.                                 *)
LEMMA PsdGoesOn ==
  ASSUME Inv, call.op = "ReadPsd", call.step \in {"Counts", "Channels", "Packets"},
         UNCHANGED <<file, bitmap, metadata>>, pixels' \in [1 .. bitmap.data -> Byte],
         IsTyped(call'), call'.op = "ReadPsd", call'.step \in {"Channels", "Packets"},
         call'.header = call.header, call'.row <= call.header.channelCount,
         call'.beyond => call.beyond \/ MayGoBeyond
  PROVE  Inv'
<1>1. Common /\ PsdReads
  BY DEF Inv, During, Running
<1>2. Common'
  BY <1>1, PixelsPut
<1>3. HeaderOf("psdHeader", 0)'
  BY <1>1 DEF PsdReads, HeaderOf, IsAt
<1>4. PsdReads'
  BY <1>1, <1>3 DEF PsdReads
<1> QED BY <1>2, <1>4, GoesOnReading

(* The bytes of a channel lie in the buffer.                               *)
LEMMA ChannelFits ==
  ASSUME NEW n \in Nat \ {0}, NEW bpp \in Nat \ {0}, NEW start \in 0 .. bpp - 1
  PROVE  start + (n - 1) * bpp + 1 <= n * bpp
<1>1. n - 1 \in Nat /\ n = (n - 1) + 1
  OBVIOUS
<1>2. \A x \in Nat : (x + 1) * bpp = x * bpp + bpp /\ x * bpp \in Nat
  OBVIOUS
<1>3. n * bpp = (n - 1) * bpp + bpp /\ (n - 1) * bpp \in Nat
  BY <1>1, <1>2
<1> QED BY <1>3

(* PSD: the read of an uncompressed channel keeps the invariant.           *)
LEMMA PsdChannelIsRead ==
  ASSUME Inv, Psd!ReadChannel
  PROVE  Inv'
<1> DEFINE w      == call.header.width
           h      == call.header.height
           c      == call.header.channelCount
           bpp    == GetBytesPerPixel(Psd!GetFormat(call.header))
           n      == w * h
           step   == IF c = 3 THEN 4 ELSE c
           start  == Psd!Component(c < 3, call.row)
           values == Psd!BytesAt(file, call.position, n)
           done   == [[call EXCEPT !.position = @ + n,
                         !.beyond = @ \/ Psd!EndOf(start, step, values) > bitmap.data]
                        EXCEPT !.row = @ + 1, !.index = 0]
<1>1. At("ReadPsd", "Channels") /\ UNCHANGED file /\ call.row < c
  BY PsdCalls DEF Psd!ReadChannel, Psd!h
<1>2. /\ Common /\ PsdReads /\ IsTyped(call) /\ IsFile(file) /\ call.op = "ReadPsd"
      /\ call.position \in Nat
  BY <1>1 DEF Inv, Common, During, Running, At, IsTyped
<1>3. PsdPixels(w, h, bpp)
  BY <1>1, <1>2, PsdIsAtPixels DEF At
<1> HIDE DEF bpp
<1>4. /\ n \in Nat \ {0} /\ bpp \in Nat \ {0} /\ bitmap.data = n * bpp
      /\ pixels \in [1 .. bitmap.data -> Byte] /\ call.row \in Nat /\ c \in 1 .. 4
      /\ (c = 1 => bpp = 1) /\ (c = 2 => bpp = 2) /\ (c = 3 => bpp = 4) /\ (c = 4 => bpp = 4)
  BY <1>1, <1>3 DEF PsdPixels
<1> HIDE DEF n
<1>5. values \in [1 .. n -> Byte]
  BY <1>2, <1>4, BytesType, PsdStream
<1> HIDE DEF values
<1>6. step = bpp /\ start \in 0 .. bpp - 1
  <2>1. step = bpp
    BY <1>4
  <2>2. CASE c < 3
    BY <1>1, <1>4, <2>2 DEF Psd!Component
  <2>3. CASE c \in {3, 4}
    <3>1. start = <<2, 1, 0, 3>>[call.row + 1]
      BY <2>3 DEF Psd!Component
    <3>2. call.row \in 0 .. c - 1
      BY <1>1, <1>4
    <3>3. /\ call.row = 0 => start = 2
          /\ call.row = 1 => start = 1
          /\ call.row = 2 => start = 0
          /\ call.row = 3 => start = 3
      BY <3>1
    <3> QED BY <1>4, <2>3, <3>2, <3>3
  <2> QED BY <1>4, <2>1, <2>2, <2>3
<1> HIDE DEF start, step
<1>7. ~ (Psd!EndOf(start, step, values) > bitmap.data)
  <2>1. Len(values) = n
    BY <1>4, <1>5
  <2>2. Psd!EndOf(start, step, values) = start + (n - 1) * bpp + 1
    BY <1>6, <2>1 DEF Psd!EndOf
  <2>3. start + (n - 1) * bpp + 1 <= n * bpp
    BY <1>4, <1>6, ChannelFits
  <2>4. start + (n - 1) * bpp + 1 \in Int /\ n * bpp \in Int
    BY <1>4, <1>6
  <2> QED BY <1>4, <2>2, <2>3, <2>4
<1>8. CASE PixelsFallShort(n) /\ UNCHANGED metadata
  BY <1>1, <1>8, PixelsFallShortKeeps
<1>9. CASE /\ pixels' = Psd!PutEvery(pixels, start, step, values)
           /\ call' = done /\ UNCHANGED <<bitmap, metadata>>
  <2>1. pixels' \in [1 .. bitmap.data -> Byte]
    BY <1>4, <1>5, <1>6, <1>9, PutEveryType
  <2>2. /\ IsTyped(call') /\ call'.op = "ReadPsd" /\ call'.step = "Channels"
        /\ call'.header = call.header /\ call'.row = call.row + 1
        /\ (call'.beyond => call.beyond)
    BY <1>1, <1>2, <1>4, <1>7, <1>9 DEF IsTyped, At
  <2>3. call'.row <= call.header.channelCount
    BY <1>1, <1>4, <2>2
  <2> QED BY <1>1, <1>2, <1>9, <2>1, <2>2, <2>3, PsdGoesOn DEF At
<1>10. \/ Crash
       \/ Psd!PixelsFallShort(n) /\ UNCHANGED metadata
       \/ /\ pixels' = Psd!PutEvery(pixels, start, step, values)
          /\ call' = done /\ UNCHANGED <<bitmap, metadata>>
  BY PsdCrash
  DEF Psd!ReadChannel, Psd!NoBuffer, Psd!NextChannel, Psd!h, Psd!channelSize, n, start, step,
      values
<1> QED BY <1>1, <1>8, <1>9, <1>10, CrashKeeps, PsdCalls

(* PSD: the skipping of the byte counts keeps the invariant.               *)
LEMMA PsdCountsAreSkipped ==
  ASSUME Inv, Psd!SkipCounts
  PROVE  Inv'
<1> DEFINE position == Psd!Clamped(file, call.position + call.header.height * call.header.channelCount * 2)
<1>1. At("ReadPsd", "Counts") /\ UNCHANGED <<file, metadata>>
  BY PsdCalls DEF Psd!SkipCounts
<1>2. /\ Common /\ PsdReads /\ IsTyped(call) /\ IsFile(file) /\ call.op = "ReadPsd"
      /\ call.position \in Nat
  BY <1>1 DEF Inv, Common, During, Running, At, IsTyped
<1>3. PsdPixels(call.header.width, call.header.height,
                GetBytesPerPixel(Psd!GetFormat(call.header)))
  BY <1>1, <1>2, PsdIsAtPixels DEF At
<1>4. /\ call.header.height \in Nat /\ call.header.channelCount \in Nat
      /\ pixels \in [1 .. bitmap.data -> Byte] /\ call.row <= call.header.channelCount
  BY <1>3 DEF PsdPixels
<1>5. position \in Nat
  <2>1. call.header.height * call.header.channelCount \in Nat
    BY <1>4, ProductType
  <2>2. call.position + call.header.height * call.header.channelCount * 2 \in Int
    BY <1>2, <2>1
  <2>3. \A x \in Int : Clamped(file, x) \in Nat
    BY <1>2 DEF Clamped, IsFile
  <2> QED BY <2>2, <2>3, PsdStream
<1> HIDE DEF position
<1>6. CASE FailOnFault("READ_FAILURE") \/ FailOnFault("INVALID_DATA")
  <2>1. {"READ_FAILURE", "INVALID_DATA"} \subseteq Result \ {"OK"}
    BY DEF Result
  <2> QED BY <1>1, <1>6, <2>1, FailKeeps
<1>7. CASE /\ \/ call' = [[call EXCEPT !.step = "Packets"] EXCEPT !.position = position]
              \/ call' = [[call EXCEPT !.step = "Packets"] EXCEPT !.faults = TRUE]
           /\ UNCHANGED <<bitmap, pixels>>
  <2>1. /\ IsTyped(call') /\ call'.op = "ReadPsd" /\ call'.step = "Packets"
        /\ call'.header = call.header /\ call'.row = call.row /\ call'.beyond = call.beyond
    BY <1>2, <1>5, <1>7 DEF IsTyped
  <2> QED BY <1>1, <1>2, <1>4, <1>7, <2>1, PsdGoesOn DEF At
<1>8. [[call EXCEPT !.step = "Packets"] EXCEPT
         !.position = Psd!Clamped(file, @ + call.header.height * call.header.channelCount * 2)]
        = [[call EXCEPT !.step = "Packets"] EXCEPT !.position = position]
  BY <1>2 DEF IsTyped, position
<1> QED BY <1>6, <1>7, <1>8, PsdCalls DEF Psd!SkipCounts, Psd!h

(* Of a literal packet that many bytes follow, of a run one.               *)
LEMMA PsdPacketType ==
  ASSUME IsFile(file), call.position \in Nat
  PROVE  /\ Psd!PacketCount \in Nat /\ Psd!PacketSize \in Nat
         /\ Psd!PacketValues \in [1 .. Psd!PacketCount -> Byte]
<1>1. Psd!Control \in Byte
  BY ByteType, PsdStream DEF Psd!Control
<1>2. Psd!Control \in Int /\ Psd!Control >= -1 /\ Psd!Control <= 255
  BY <1>1 DEF Byte, Unknown
<1>3. Psd!PacketCount \in Nat
  BY <1>2 DEF Psd!PacketCount, Psd!IsLiteral, Psd!IsNothing
<1>4. Psd!PacketSize \in Nat
  BY <1>3 DEF Psd!PacketSize
<1>5. \A k \in 1 .. Psd!PacketCount :
        ByteAt(file, call.position + IF Psd!IsLiteral THEN k ELSE 1) \in Byte
  BY <1>3, ByteType
<1>6. Psd!PacketValues \in [1 .. Psd!PacketCount -> Byte]
  BY <1>5, PsdStream DEF Psd!PacketValues
<1> QED BY <1>3, <1>4, <1>6

(* PSD: the decoding of a packet keeps the invariant, wherever the packet  *)
(* ends in the channel.                                                    *)
LEMMA PsdPacketIsDecoded ==
  ASSUME Inv, Psd!DecodePacket
  PROVE  Inv'
<1> DEFINE w      == call.header.width
           h      == call.header.height
           c      == call.header.channelCount
           bpp    == GetBytesPerPixel(Psd!GetFormat(call.header))
           n      == w * h
           step   == IF call.header.gray THEN 1 ELSE 4
           count  == Psd!PacketCount
           values == Psd!PacketValues
           next   == [call EXCEPT !.index = @ + count, !.position = @ + Psd!PacketSize]
           marked(start) == [next EXCEPT !.beyond = @ \/ Psd!EndOf(start, step, values) > bitmap.data]
           done(start)   == IF next.index < n THEN marked(start)
                            ELSE [marked(start) EXCEPT !.row = @ + 1, !.index = 0]
<1>1. At("ReadPsd", "Packets") /\ UNCHANGED <<file, metadata>> /\ call.row < c
  BY PsdCalls DEF Psd!DecodePacket, Psd!h
<1>2. /\ Common /\ PsdReads /\ IsTyped(call) /\ IsFile(file) /\ call.op = "ReadPsd"
      /\ call.position \in Nat /\ call.index \in Nat
  BY <1>1 DEF Inv, Common, During, Running, At, IsTyped
<1>3. PsdPixels(w, h, bpp)
  BY <1>1, <1>2, PsdIsAtPixels DEF At
<1> HIDE DEF bpp
<1>4. /\ n \in Nat \ {0} /\ bpp \in Nat \ {0} /\ bitmap.data = n * bpp /\ bitmap.data \in Nat
      /\ pixels \in [1 .. bitmap.data -> Byte] /\ call.row \in Nat /\ c \in 1 .. 4
      /\ (c = 1 => bpp = 1) /\ (c = 2 => bpp = 2) /\ (c = 3 => bpp = 4) /\ (c = 4 => bpp = 4)
      /\ call.header.gray \in BOOLEAN /\ HeaderOf("psdHeader", 0)
  BY <1>1, <1>3 DEF PsdPixels
<1> HIDE DEF n
<1>5. /\ count \in Nat /\ Psd!PacketSize \in Nat /\ values \in [1 .. count -> Byte]
      /\ step \in {1, 4}
  BY <1>2, PsdPacketType
<1> HIDE DEF count, values, step
<1>6. CASE Fail("INVALID_DATA")
  <2>1. "INVALID_DATA" \in Result /\ "INVALID_DATA" # "OK"
    BY DEF Result
  <2> QED BY <1>1, <1>6, <2>1, FailKeeps
<1>7. ASSUME NEW component \in Psd!RleComponents, call.index + count <= n,
             pixels' = Psd!PutEvery(pixels, component + call.index * step, step, values),
             call' = done(component + call.index * step), UNCHANGED bitmap
      PROVE  Inv'
  <2> DEFINE start == component + call.index * step
             end   == Psd!EndOf(start, step, values)
  <2>1. component \in 0 .. 3 /\ (call.header.gray /\ c = 1 => component = 0)
    <3>1. CASE call.header.gray
      BY <1>1, <1>4, <3>1 DEF Psd!RleComponents, Psd!h
    <3>2. CASE ~ call.header.gray
      <4>1. component = <<2, 1, 0, 3>>[call.row + 1]
        BY <3>2 DEF Psd!RleComponents, Psd!Component, Psd!h
      <4>2. call.row \in 0 .. 3
        BY <1>1, <1>4
      <4>3. /\ call.row = 0 => component = 2
            /\ call.row = 1 => component = 1
            /\ call.row = 2 => component = 0
            /\ call.row = 3 => component = 3
        BY <4>1
      <4> QED BY <3>2, <4>2, <4>3
    <3> QED BY <1>4, <3>1, <3>2
  <2>2. start \in Nat
    BY <1>2, <1>5, <2>1
  <2>3. pixels' \in [1 .. bitmap.data -> Byte]
    <3>1. step \in Nat \ {0}
      BY <1>5
    <3> HIDE DEF start
    <3>2. pixels' = Psd!PutEvery(pixels, start, step, values)
      BY <1>7 DEF start
    <3> QED BY <1>4, <1>5, <2>2, <3>1, <3>2, PutEveryType
  <2>4. end > bitmap.data => MayGoBeyond
    <3>1. CASE IF call.header.gray THEN c > 1 ELSE c < 3
      <4>1. call.header \in Header("psdHeader")
        BY <1>4 DEF HeaderOf, Header
      <4> QED BY <3>1, <4>1 DEF MayGoBeyond
    <3>2. CASE ~ IF call.header.gray THEN c > 1 ELSE c < 3
      <4>1. bpp = step /\ component \in 0 .. bpp - 1
        BY <1>4, <2>1, <3>2 DEF step
      <4>2. end = component + call.index * step + (count - 1) * step + 1
        <5>1. Len(values) = count
          BY <1>5
        <5> QED BY <5>1 DEF Psd!EndOf
      <4>3. call.index * step + (count - 1) * step = (call.index + count - 1) * step
        BY <1>2, <1>5
      <4>4. (call.index + count - 1) * step <= (n - 1) * step
        BY <1>2, <1>4, <1>5, <1>7
      <4>5. component + (n - 1) * bpp + 1 <= n * bpp
        BY <1>4, <4>1, ChannelFits
      <4>6. /\ call.index * step \in Int /\ (count - 1) * step \in Int
            /\ (n - 1) * step \in Int /\ (call.index + count - 1) * step \in Int
        BY <1>2, <1>4, <1>5
      <4>7. component \in Int /\ n * bpp \in Int
        BY <1>4, <2>1
      <4>8. component + (call.index * step + (count - 1) * step) + 1 <= bitmap.data
        BY <1>4, <4>1, <4>3, <4>4, <4>5, <4>6, <4>7
      <4>9. end <= bitmap.data /\ end \in Int
        BY <4>2, <4>6, <4>7, <4>8
      <4> QED BY <1>4, <4>9
    <3> QED BY <3>1, <3>2
  <2> HIDE DEF start, end
  <2>5. /\ IsTyped(next) /\ next.op = "ReadPsd" /\ next.step = "Packets" /\ next.row = call.row
        /\ next.header = call.header /\ next.beyond = call.beyond
    BY <1>1, <1>2, <1>5 DEF IsTyped, At
  <2> DEFINE m == marked(start)
  <2>6. /\ IsTyped(m) /\ m.op = "ReadPsd" /\ m.step = "Packets" /\ m.row = call.row
        /\ m.header = call.header /\ (m.beyond => call.beyond \/ MayGoBeyond)
    <3> HIDE DEF next
    <3>1. m = [next EXCEPT !.beyond = @ \/ end > bitmap.data]
      BY DEF end
    <3> QED BY <2>4, <2>5, <3>1 DEF IsTyped
  <2>7. call' = m \/ call' = [m EXCEPT !.row = @ + 1, !.index = 0]
    BY <1>7 DEF start
  <2> HIDE DEF m, marked, next, done
  <2>8. /\ IsTyped(call') /\ call'.op = "ReadPsd" /\ call'.step = "Packets"
        /\ call'.header = call.header /\ call'.row \in {call.row, call.row + 1}
        /\ (call'.beyond => call.beyond \/ MayGoBeyond)
    <3>1. CASE call' = m
      BY <2>6, <3>1
    <3>2. CASE call' = [m EXCEPT !.row = @ + 1, !.index = 0]
      <4>1. m.row \in Nat /\ DOMAIN m = DOMAIN call'
        BY <2>6, <3>2 DEF IsTyped
      <4>2. /\ call'.row = call.row + 1 /\ call'.index = 0
            /\ call'.op = m.op /\ call'.step = m.step /\ call'.header = m.header
            /\ call'.result = m.result /\ call'.position = m.position
        BY <2>6, <3>2 DEF IsTyped
      <4>3. call'.wants = m.wants /\ call'.faults = m.faults /\ call'.beyond = m.beyond
        BY <2>6, <3>2 DEF IsTyped
      <4> QED BY <1>4, <2>6, <4>1, <4>2, <4>3 DEF IsTyped
    <3> QED BY <2>7, <3>1, <3>2
  <2>9. call'.row <= call.header.channelCount
    <3>1. c \in Nat /\ call.row \in Nat /\ call.row < c
      BY <1>1, <1>4
    <3>2. call.row <= c /\ call.row + 1 <= c
      BY <3>1
    <3> QED BY <2>8, <3>2
  <2> QED BY <1>1, <1>2, <1>7, <2>3, <2>8, <2>9, PsdGoesOn DEF At
<1>8. \/ Psd!Fail("INVALID_DATA")
      \/ /\ call.index + count <= n /\ UNCHANGED bitmap
         /\ \E component \in Psd!RleComponents :
              /\ pixels' = Psd!PutEvery(pixels, component + call.index * step, step, values)
              /\ call' = done(component + call.index * step)
  BY DEF Psd!DecodePacket, Psd!PacketIsValid, Psd!NextChannel, Psd!h, Psd!channelSize, n, step,
     count, values
<1> QED BY <1>6, <1>7, <1>8, PsdCalls

(* PSD: the filling of the alpha channel keeps the invariant.              *)
LEMMA PsdAlphaIsFilled ==
  ASSUME Inv, Psd!FillAlpha
  PROVE  Inv'
<1>1. /\ At("ReadPsd", "Channels") \/ At("ReadPsd", "Packets")
      /\ UNCHANGED <<file, bitmap, metadata>> /\ Return("OK")
      /\ pixels' = IF call.header.channelCount = 3 THEN Psd!Opaque(Psd!Shown).data ELSE pixels
  BY PsdCalls DEF Psd!FillAlpha, Psd!h
<1>2. /\ Common /\ PsdReads /\ IsTyped(call) /\ call.op = "ReadPsd" /\ "OK" \in Result
  BY <1>1 DEF Inv, Common, During, Running, At, IsTyped, Result
<1>3. PsdPixels(call.header.width, call.header.height,
                GetBytesPerPixel(Psd!GetFormat(call.header)))
  BY <1>1, <1>2, PsdIsAtPixels DEF At
<1>4. /\ pixels \in [1 .. bitmap.data -> Byte] /\ bitmap.data \in Nat
      /\ GetMipSize(bitmap, 0) = bitmap.data
  BY <1>3 DEF PsdPixels
<1>5. pixels' \in [1 .. bitmap.data -> Byte]
  <2> DEFINE data == SubSeq(pixels, 1, bitmap.data)
  <2>1. data \in [1 .. bitmap.data -> Byte]
    <3> DEFINE n == bitmap.data
    <3>1. n \in Nat /\ pixels \in Seq(Byte) /\ Len(pixels) = n
      BY <1>4
    <3> HIDE DEF n
    <3>2. SubSeq(pixels, 0 + 1, 0 + n) \in Seq(Byte) /\ Len(SubSeq(pixels, 0 + 1, 0 + n)) = n
      BY <3>1, PartOfBytes
    <3>3. 0 + 1 = 1 /\ 0 + n = n
      BY <3>1
    <3>4. SubSeq(pixels, 1, n) \in Seq(Byte) /\ Len(SubSeq(pixels, 1, n)) = n
      BY <3>2, <3>3
    <3>5. \A s \in Seq(Byte) : Len(s) = n => s \in [1 .. n -> Byte]
      BY <3>1
    <3>6. SubSeq(pixels, 1, n) \in [1 .. n -> Byte]
      BY <3>4, <3>5
    <3> QED BY <3>6 DEF n
  <2>2. Psd!Shown.data = data
    BY <1>4, PsdOthers DEF Psd!Shown, Psd!Picture
  <2>3. Psd!Opaque(Psd!Shown).data
          = [i \in DOMAIN data |->
               IF Psd!Shown.format = Psd!PIXEL_FORMAT_B8G8R8X8_UNORM /\ i % 4 = 0 THEN 255
               ELSE data[i]]
    <3>1. Psd!Shown = [format |-> bitmap.format, width |-> bitmap.width, height |-> bitmap.height,
                       data |-> data]
      BY <1>4, PsdOthers DEF Psd!Shown, Psd!Picture
    <3> HIDE DEF data
    <3> QED BY <3>1 DEF Psd!Opaque
  <2> HIDE DEF data
  <2>4. 255 \in Byte
    BY DEF Byte, Unknown
  <2> QED BY <1>1, <1>4, <2>1, <2>3, <2>4
<1>6. /\ IsTyped(call') /\ call'.op = "ReadPsd" /\ call'.step = "Done" /\ call'.beyond = call.beyond
  BY <1>1, <1>2, Returned
<1>7. Common'
  BY <1>1, <1>2, <1>5, <1>6, PixelsPut
<1>8. MetadataComeFromTheFile'
  BY <1>6 DEF MetadataComeFromTheFile
<1> QED BY <1>6, <1>7, <1>8, Over

-----------------------------------------------------------------------------
(* PSD: the saves                                                          *)

PsdKinds == {"psdHeader", "bytes"}

(* PSD: no piece of the file speaks of another.                            *)
LEMMA PsdKindsAreSimple == Simple(PsdKinds)
BY DEF Simple, PsdKinds

(* The channels of a picture that is saved, and the bytes of its pixels.   *)
LEMMA PsdCanBeSaved ==
  ASSUME Psd!CanSave
  PROVE  /\ bitmap.format \in HandledFormats /\ bitmap.type = "2D" /\ bitmap.arraySize = 1
         /\ Psd!SavedChannels \in 1 .. 4
         /\ Psd!SavedChannels <= GetBytesPerPixel(bitmap.format)
         /\ Psd!SavedChannels = 3 => GetBytesPerPixel(bitmap.format) = 4
<1>1. /\ Psd!PIXEL_FORMAT_R8_UNORM = PIXEL_FORMAT_R8_UNORM
      /\ Psd!PIXEL_FORMAT_R8G8_UNORM = PIXEL_FORMAT_R8G8_UNORM
      /\ Psd!PIXEL_FORMAT_B8G8R8X8_UNORM = PIXEL_FORMAT_B8G8R8X8_UNORM
      /\ Psd!PIXEL_FORMAT_B8G8R8A8_UNORM = PIXEL_FORMAT_B8G8R8A8_UNORM
  BY DEF Psd!PIXEL_FORMAT_R8_UNORM, Psd!PIXEL_FORMAT_R8G8_UNORM,
     Psd!PIXEL_FORMAT_B8G8R8X8_UNORM, Psd!PIXEL_FORMAT_B8G8R8A8_UNORM, PIXEL_FORMAT_R8_UNORM,
     PIXEL_FORMAT_R8G8_UNORM, PIXEL_FORMAT_B8G8R8X8_UNORM, PIXEL_FORMAT_B8G8R8A8_UNORM
<1>2. /\ bitmap.type = "2D" /\ bitmap.arraySize = 1
      /\ bitmap.format \in {PIXEL_FORMAT_R8_UNORM, PIXEL_FORMAT_R8G8_UNORM,
                            PIXEL_FORMAT_B8G8R8X8_UNORM, PIXEL_FORMAT_B8G8R8A8_UNORM}
  BY <1>1 DEF Psd!CanSave
<1>3. Psd!SavedChannels = IF bitmap.format = PIXEL_FORMAT_B8G8R8X8_UNORM THEN 3
                          ELSE GetBytesPerPixel(bitmap.format)
  BY <1>1, PsdStream DEF Psd!SavedChannels
<1> QED BY <1>2, <1>3, Formats DEF HandledFormats

(* PSD: what a save writes ahead of the channels are pieces of a file, the *)
(* first of them the header.                                               *)
LEMMA PsdPreambleIsPieces ==
  ASSUME bitmap \in Bitmap, Psd!CanSave
  PROVE  /\ IsPiece(Psd!Preamble[1]) /\ Psd!Preamble[1].kind = "psdHeader"
         /\ Psd!Preamble[1].size = 26
         /\ \A k \in 2 .. 5 : /\ IsPiece(Psd!Preamble[k]) /\ Psd!Preamble[k].kind = "bytes"
                              /\ Psd!Preamble[k].size \in Nat \ {0}
<1> DEFINE gray   == Psd!SavedChannels <= 2
           header == Psd!Header(TRUE, TRUE, gray, Psd!SavedChannels, bitmap.width, bitmap.height)
<1>1. Psd!Preamble = <<Piece("psdHeader", 26, header), Bytes(<<0, 0, 0, 0>>),
                       Bytes(<<0, 0, 0, 0>>), Bytes(<<0, 0, 0, 0>>), Bytes(<<0, 0>>)>>
  BY PsdWrites DEF Psd!Preamble, Psd!PSD_HEADER_SIZE
<1>2. header \in Psd!Headers
  <2>1. Psd!SavedChannels \in Nat /\ gray \in BOOLEAN
    BY PsdCanBeSaved
  <2>2. bitmap.width \in Nat /\ bitmap.height \in Nat
    BY DEF Bitmap
  <2> HIDE DEF gray
  <2> QED BY <2>1, <2>2 DEF Psd!Header, Psd!Headers
<1> HIDE DEF header
<1>3. /\ IsPiece(Piece("psdHeader", 26, header)) /\ Piece("psdHeader", 26, header).size = 26
      /\ Piece("psdHeader", 26, header).kind = "psdHeader"
  BY <1>2 DEF IsPiece, Piece
<1>4. 0 \in Byte
  BY DEF Byte, Unknown
<1>5. /\ <<0, 0, 0, 0>> \in Seq(Byte) /\ Len(<<0, 0, 0, 0>>) = 4
      /\ <<0, 0>> \in Seq(Byte) /\ Len(<<0, 0>>) = 2
  BY <1>4
<1>6. /\ IsPiece(Bytes(<<0, 0, 0, 0>>)) /\ Bytes(<<0, 0, 0, 0>>).kind = "bytes"
      /\ Bytes(<<0, 0, 0, 0>>).size = 4
      /\ IsPiece(Bytes(<<0, 0>>)) /\ Bytes(<<0, 0>>).kind = "bytes" /\ Bytes(<<0, 0>>).size = 2
  <2> DEFINE s == <<0, 0, 0, 0>>
             t == <<0, 0>>
  <2>1. /\ s \in Seq(Byte) /\ Len(s) = 4 /\ t \in Seq(Byte) /\ Len(t) = 2
        /\ Len(s) # 0 /\ Len(t) # 0
    BY <1>5
  <2> HIDE DEF s, t
  <2>2. IsPiece(Bytes(s)) /\ Bytes(s).kind = "bytes" /\ Bytes(s).size = 4
    BY <2>1, BytesArePiece
  <2>3. IsPiece(Bytes(t)) /\ Bytes(t).kind = "bytes" /\ Bytes(t).size = 2
    BY <2>1, BytesArePiece
  <2> QED BY <2>2, <2>3 DEF s, t
<1>7. Psd!Preamble[1] = Piece("psdHeader", 26, header)
  BY <1>1
<1>8. \A k \in 2 .. 5 : Psd!Preamble[k] \in {Bytes(<<0, 0, 0, 0>>), Bytes(<<0, 0>>)}
  <2>1. /\ Psd!Preamble[2] = Bytes(<<0, 0, 0, 0>>) /\ Psd!Preamble[3] = Bytes(<<0, 0, 0, 0>>)
        /\ Psd!Preamble[4] = Bytes(<<0, 0, 0, 0>>) /\ Psd!Preamble[5] = Bytes(<<0, 0>>)
    BY <1>1
  <2>2. \A k \in 2 .. 5 : k \in {2, 3, 4, 5}
    OBVIOUS
  <2> QED BY <2>1, <2>2
<1> QED BY <1>3, <1>6, <1>7, <1>8

(* Whatever a save of PSD writes, it goes on from there.                   *)
LEMMA PsdSaveGoesOn ==
  ASSUME Inv, call.op = "SavePsd", call.step # "Done", PsdSaves, IsFile(file'),
         Kinds(file', PsdKinds),
         file'.codec = "psd", file'.cut, file'.strings = <<>>, file'.size >= 26,
         UNCHANGED <<bitmap, pixels, metadata>>, IsTyped(call'), call'.op = "SavePsd",
         call'.step \in {"Header", "Channels", "Close"},
         call'.step = "Header" => call'.index \in 1 .. 4 /\ call'.row = 0,
         call'.step = "Channels" => call'.row < Psd!SavedChannels
  PROVE  Inv'
<1>1. Common'
  BY CommonIsSaved DEF Inv, SaveOp
<1>2. Psd!CanSave' /\ IsValid(bitmap)' /\ Psd!SavedChannels' = Psd!SavedChannels
  BY DEF PsdSaves, SavesTo, Psd!CanSave, IsValid, Psd!SavedChannels
<1>3. SavesTo("psd")'
  BY <1>2 DEF SavesTo
<1>4. Kinds(file, PsdKinds)'
  BY DEF Kinds
<1>5. call'.step = "Header" => call'.index <= 4 /\ call'.index # 0
  OBVIOUS
<1>6. PsdSaves'
  BY <1>2, <1>3, <1>4, <1>5 DEF PsdSaves, PsdKinds
<1> QED BY <1>1, <1>6, GoesOnReading

(* PSD: the write of a piece ahead of the channels keeps the invariant.    *)
LEMMA PsdPreambleIsSaved ==
  ASSUME Inv, Psd!SavePreamble
  PROVE  Inv'
<1> DEFINE p == Psd!Preamble[call.index + 1]
           g == Appended(file, p)
<1>1. At("SavePsd", "Header") /\ UNCHANGED <<bitmap, pixels, metadata>>
  BY PsdCalls DEF Psd!SavePreamble
<1>2. /\ Common /\ PsdSaves /\ IsTyped(call) /\ IsFile(file) /\ call.op = "SavePsd"
      /\ call.op \in SaveOp /\ bitmap \in Bitmap /\ IsImage(bitmap, pixels)
  BY <1>1 DEF Inv, Common, During, Running, At, SaveOp, IsImage
<1>3. /\ file.codec = "psd" /\ file.cut /\ Kinds(file, PsdKinds) /\ file.strings = <<>>
      /\ call.row = 0 /\ Psd!CanSave /\ call.index \in Nat /\ call.index <= 4
      /\ (call.index = 0 => file.at = <<>> /\ file.size = 0)
      /\ (call.index # 0 => file.size >= 26)
  BY <1>1, <1>2 DEF PsdSaves, SavesTo, At, PsdKinds, IsTyped
<1>4. /\ IsPiece(p) /\ p.kind \in PsdKinds /\ p.size \in Nat \ {0}
      /\ (call.index = 0 => p.kind = "psdHeader" /\ p.size = 26)
  <2>1. CASE call.index = 0
    BY <1>2, <1>3, <2>1, PsdPreambleIsPieces DEF PsdKinds
  <2>2. CASE call.index # 0
    <3>1. call.index + 1 \in 2 .. 5
      BY <1>3, <2>2
    <3> QED BY <1>2, <1>3, <2>2, <3>1, PsdPreambleIsPieces DEF PsdKinds
  <2> QED BY <2>1, <2>2
<1>5. "WRITE_FAILURE" \in Result
  BY DEF Result
<1> HIDE DEF p
<1>6. /\ IsFile(g) /\ Kinds(g, PsdKinds) /\ g.size >= 26
      /\ \A n \in {0, p.size - 1} : IsFile(AppendedPart(file, n))
  <2>1. file.size \in Nat /\ p.size \in Nat /\ g.size = file.size + p.size
    BY <1>2, <1>4, AppendFields DEF IsFile
  <2>2. CASE call.index = 0
    <3>1. g.size >= 26
      BY <1>3, <1>4, <2>1, <2>2
    <3> HIDE DEF g
    <3>2. /\ IsFile(g) /\ Kinds(g, PsdKinds)
          /\ \A n \in {0, p.size - 1} : IsFile(AppendedPart(file, n))
      BY <1>2, <1>3, <1>4, <2>2, PsdKindsAreSimple, FirstWrite DEF g
    <3> QED BY <3>1, <3>2
  <2>3. CASE call.index # 0
    <3>1. g.size >= 26 /\ HasBegun(file)
      BY <1>3, <1>4, <2>1, <2>3 DEF HasBegun
    <3> HIDE DEF g
    <3>2. /\ IsFile(g) /\ Kinds(g, PsdKinds)
          /\ \A n \in {0, p.size - 1} : IsFile(AppendedPart(file, n))
      BY <1>2, <1>3, <1>4, <3>1, PsdKindsAreSimple, SimpleWrite DEF g
    <3> QED BY <3>1, <3>2
  <2> QED BY <2>2, <2>3
<1>7. g.codec = "psd" /\ g.strings = <<>>
  BY <1>2, <1>3, AppendFields
<1>8. g.cut
  BY <1>2, <1>3, AppendFields, Zenon
<1> HIDE DEF g
<1>9. CASE WriteFails(p, "WRITE_FAILURE")
  BY <1>1, <1>2, <1>5, <1>6, <1>9, WriteFailsKeeps
<1>10. CASE /\ file' = g
            /\ call' = [call EXCEPT !.index = @ + 1,
                                    !.step = IF call.index = 4 THEN "Channels" ELSE "Header"]
  <2>1. /\ IsTyped(call') /\ call'.op = "SavePsd" /\ call'.row = 0
        /\ call'.index = call.index + 1
        /\ call'.step = IF call.index = 4 THEN "Channels" ELSE "Header"
    BY <1>2, <1>3, <1>10 DEF IsTyped
  <2>2. call'.step = "Header" => call'.index \in 1 .. 4
    BY <1>3, <2>1
  <2>3. 0 < Psd!SavedChannels
    BY <1>3, PsdCanBeSaved
  <2>4. call'.step = "Channels" => call'.row < Psd!SavedChannels
    BY <2>1, <2>3
  <2>5. call'.step \in {"Header", "Channels", "Close"}
    BY <2>1
  <2> QED BY <1>1, <1>2, <1>6, <1>7, <1>8, <1>10, <2>1, <2>2, <2>4, <2>5, PsdSaveGoesOn DEF At
<1> QED BY <1>9, <1>10, PsdCalls, PsdWrites DEF Psd!SavePreamble, p, g

(* A channel is as many bytes as there are pixels, and each is one of the  *)
(* buffer.                                                                 *)
LEMMA PsdChannelIsBytes ==
  ASSUME Common, IsValid(bitmap), Psd!CanSave, NEW channel \in Nat, channel < Psd!SavedChannels
  PROVE  /\ IsPiece(Psd!SavedChannel(channel)) /\ Psd!SavedChannel(channel).kind = "bytes"
         /\ Psd!SavedChannel(channel).size \in Nat \ {0}
<1> DEFINE bpp  == GetBytesPerPixel(bitmap.format)
           w    == bitmap.width
           h    == bitmap.height
           n    == w * h
           c    == Psd!SavedChannels
           k    == Psd!Component(c < 3, channel)
           values == [i \in 1 .. n |-> pixels[(i - 1) * bpp + k + 1]]
<1>1. /\ bitmap.format \in HandledFormats /\ bitmap.type = "2D" /\ bitmap.arraySize = 1
      /\ c \in 1 .. 4 /\ c <= bpp /\ (c = 3 => bpp = 4) /\ bpp \in {1, 2, 4, 8}
  BY PsdCanBeSaved, HandledFormatsAreFlat
<1>2. /\ w \in Nat \ {0} /\ h \in Nat \ {0} /\ bitmap.data \in Nat /\ h * (w * bpp) <= bitmap.data
      /\ pixels \in [1 .. bitmap.data -> Byte]
  BY <1>1, TopLevelFits DEF Common, IsImage
<1>3. Psd!SavedChannel(channel) = Bytes(values)
  BY PsdStream, PsdWrites DEF Psd!SavedChannel
<1> HIDE DEF bpp, w, h, c
<1>4. n \in Nat \ {0} /\ h * (w * bpp) = n * bpp
  BY <1>1, <1>2
<1>5. k \in 0 .. bpp - 1
  <2>1. CASE c < 3
    BY <1>1, <2>1 DEF Psd!Component, c
  <2>2. CASE ~ (c < 3)
    <3>1. k = <<2, 1, 0, 3>>[channel + 1]
      BY <2>2 DEF Psd!Component
    <3>2. channel \in 0 .. c - 1 /\ c \in {3, 4}
      BY <1>1, <2>2 DEF c
    <3>3. /\ channel = 0 => k = 2
          /\ channel = 1 => k = 1
          /\ channel = 2 => k = 0
          /\ channel = 3 => k = 3
      BY <3>1
    <3> QED BY <1>1, <3>2, <3>3
  <2> QED BY <2>1, <2>2
<1> HIDE DEF n, k
<1>6. ASSUME NEW i \in 1 .. n
      PROVE  pixels[(i - 1) * bpp + k + 1] \in Byte
  <2>1. i - 1 \in Nat /\ i - 1 < n /\ bpp \in Nat /\ n \in Nat
    BY <1>1, <1>4
  <2>2. (i - 1) * bpp \in Nat /\ (i - 1) * bpp + bpp <= n * bpp /\ n * bpp \in Nat
    BY <2>1, RowsFit
  <2> DEFINE m == (i - 1) * bpp
             t == n * bpp
  <2>3. m \in Nat /\ m + bpp <= t /\ t <= bitmap.data /\ t \in Nat
    BY <1>2, <1>4, <2>2
  <2> HIDE DEF m, t
  <2>4. m + k + 1 \in 1 .. bitmap.data
    BY <1>2, <1>5, <2>1, <2>3
  <2> QED BY <1>2, <2>4 DEF m
<1>7. values \in [1 .. n -> Byte]
  BY <1>6
<1> HIDE DEF values
<1>8. values \in Seq(Byte) /\ Len(values) = n
  BY <1>4, <1>7
<1>9. Len(values) # 0
  BY <1>4, <1>8
<1> QED BY <1>3, <1>4, <1>8, <1>9, BytesArePiece

(* PSD: the write of a channel keeps the invariant.                        *)
LEMMA PsdChannelIsSaved ==
  ASSUME Inv, Psd!SaveChannel
  PROVE  Inv'
<1> DEFINE p == Psd!SavedChannel(call.row)
           g == Appended(file, p)
<1>1. At("SavePsd", "Channels")
  BY PsdCalls DEF Psd!SaveChannel
<1>2. /\ Common /\ PsdSaves /\ IsTyped(call) /\ IsFile(file) /\ call.op = "SavePsd"
      /\ call.op \in SaveOp
  BY <1>1 DEF Inv, Common, During, Running, At, SaveOp
<1>3. /\ file.codec = "psd" /\ file.cut /\ IsValid(bitmap) /\ Psd!CanSave
      /\ Kinds(file, PsdKinds) /\ file.strings = <<>> /\ file.size >= 26
      /\ call.row < Psd!SavedChannels /\ call.row \in Nat /\ Psd!SavedChannels \in 1 .. 4
  BY <1>1, <1>2, PsdCanBeSaved DEF PsdSaves, SavesTo, At, PsdKinds, IsTyped
<1>4. IsPiece(p) /\ p.kind \in PsdKinds /\ p.size \in Nat \ {0}
  BY <1>2, <1>3, PsdChannelIsBytes DEF PsdKinds
<1>5. HasBegun(file) /\ "WRITE_FAILURE" \in Result
  BY <1>3 DEF HasBegun, Result
<1> HIDE DEF p
<1>6. /\ IsFile(g) /\ Kinds(g, PsdKinds) /\ HasBegun(g)
      /\ \A n \in {0, p.size - 1} : IsFile(AppendedPart(file, n))
  BY <1>2, <1>3, <1>4, <1>5, PsdKindsAreSimple, SimpleWrite
<1>7. g.codec = "psd" /\ g.strings = <<>>
  BY <1>2, <1>3, AppendFields
<1>8. g.cut
  BY <1>2, <1>3, AppendFields, Zenon
<1>9. g.size >= 26
  BY <1>6, <1>7 DEF HasBegun
<1> HIDE DEF g
<1>10. CASE WriteFails(p, "WRITE_FAILURE") /\ UNCHANGED <<bitmap, pixels, metadata>>
  BY <1>2, <1>5, <1>6, <1>10, WriteFailsKeeps
<1>11. CASE /\ file' = g
            /\ call' = [call EXCEPT !.row = @ + 1,
                 !.step = IF call.row + 1 = Psd!SavedChannels THEN "Close" ELSE "Channels"]
            /\ UNCHANGED <<bitmap, pixels, metadata>>
  <2>1. /\ IsTyped(call') /\ call'.op = "SavePsd" /\ call'.row = call.row + 1
        /\ call'.step = IF call.row + 1 = Psd!SavedChannels THEN "Close" ELSE "Channels"
    BY <1>2, <1>3, <1>11 DEF IsTyped
  <2>2. call'.step = "Channels" => call'.row < Psd!SavedChannels
    BY <1>3, <2>1
  <2>3. call'.step \in {"Channels", "Close"}
    BY <2>1
  <2> QED BY <1>1, <1>2, <1>6, <1>7, <1>8, <1>9, <1>11, <2>1, <2>2, <2>3, PsdSaveGoesOn DEF At
<1>12. Psd!NoBuffer => Crash
  BY PsdCrash DEF Psd!NoBuffer
<1> QED BY <1>10, <1>11, <1>12, CrashKeeps, PsdCalls, PsdWrites DEF Psd!SaveChannel, p, g

(* PSD: the end of a save keeps the invariant.                             *)
LEMMA PsdIsClosed ==
  ASSUME Inv, Psd!Close("SavePsd")
  PROVE  Inv'
<1>1. Close("SavePsd") /\ At("SavePsd", "Close")
  BY PsdWrites DEF Close
<1>2. file.codec = "psd"
  BY <1>1 DEF Inv, During, Running, At, PsdSaves, SavesTo
<1> QED BY <1>1, <1>2, CloseKeeps DEF SaveOp

(* PSD: a call that begins keeps the invariant.                            *)
LEMMA PsdBegins ==
  ASSUME Inv, Psd!Start
  PROVE  Inv'
<1>1. ASSUME NEW wants \in BOOLEAN, Psd!ReadImage(wants)
      PROVE  Inv'
  <2>1. Begin("ReadPsd", "Header", wants) /\ UNCHANGED <<file, bitmap, pixels, metadata>>
        /\ file.codec = "psd"
    BY <1>1, PsdCalls DEF Psd!ReadImage
  <2>2. metadata' \in MetadataType /\ "ReadPsd" \in ReadOp
    BY <2>1 DEF Inv, Common, ReadOp
  <2>3. Common' /\ call'.op = "ReadPsd" /\ call'.step = "Header" /\ call'.row = 0
    BY <2>1, <2>2, Begun
  <2>4. PsdReads'
    BY <2>1, <2>3 DEF PsdReads
  <2> QED BY <2>3, <2>4, GoesOnReading
<1>2. ASSUME NEW wants \in BOOLEAN, Psd!Save(wants)
      PROVE  Inv'
  <2>1. CASE Refuse("SavePsd", "INVALID_BITMAP", wants) \/ Refuse("SavePsd", "SAVE_NOT_SUPPORTED", wants)
    BY <2>1, RefuseKeeps DEF SaveOp, Result
  <2>2. CASE /\ IsValid(bitmap) /\ Psd!CanSave /\ Begin("SavePsd", "Header", wants)
             /\ file' = NewFile("psd", Psd!Opaque(Psd!Shown), <<>>)
             /\ UNCHANGED <<bitmap, pixels, metadata>>
    <3>1. "SavePsd" \in SaveOp /\ "psd" \in Codec /\ <<>> \in Seq(Strings \X Strings)
      BY DEF SaveOp, Codec
    <3>2. SaveHasBegun("SavePsd", "Header", wants, "psd", <<>>)
      BY <2>2, <3>1, SaveBegun
    <3>3. Psd!CanSave' /\ IsValid(bitmap)'
      BY <2>2 DEF Psd!CanSave, IsValid
    <3>4. Kinds(file, {"psdHeader", "bytes"})'
      BY <3>2 DEF SaveHasBegun, Kinds
    <3>5. PsdSaves'
      BY <3>2, <3>3, <3>4 DEF SaveHasBegun, PsdSaves, SavesTo
    <3> QED BY <3>2, <3>5, GoesOnReading DEF SaveHasBegun
  <2> QED BY <1>2, <2>1, <2>2, PsdCalls, PsdWrites, PsdValid DEF Psd!Save
<1> QED BY <1>1, <1>2 DEF Psd!Start

(* PSD: a step of a call keeps the invariant.                              *)
LEMMA PsdGoes ==
  ASSUME Inv, Psd!Step
  PROVE  Inv'
BY PsdHeaderIsRead, PsdBlockIsSkipped, PsdCompressionIsRead, PsdIsCreated, PsdChannelIsRead,
   PsdCountsAreSkipped, PsdPacketIsDecoded, PsdAlphaIsFilled, PsdPreambleIsSaved,
   PsdChannelIsSaved, PsdIsClosed DEF Psd!Step
=============================================================================
