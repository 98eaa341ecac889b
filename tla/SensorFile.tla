----------------------------- MODULE SensorFile -----------------------------
(***************************************************************************)
(* What the camera register drivers promise: every caller's list of        *)
(* register writes is carried out one whole write at a time, in order, and *)
(* nothing else ever changes a register.  A write to a chip that is not    *)
(* fitted has no effect, and one whose frame the controller gave up is     *)
(* lost as a whole, that one and no other.                                 *)
(***************************************************************************)
EXTENDS Sequences, TLC

CONSTANTS Callers, Chips, Lists     \* Lists: the lists of writes a caller may ask for

VARIABLES todo,      \* per caller: the writes still to be carried out
          file,      \* the registers written so far
          gaveup     \* the controller has given up the frame in progress

FileInit == todo = [c \in Callers |-> <<>>] /\ file = <<>> /\ gaveup = FALSE

FileAsk(c) ==
  /\ todo[c] = <<>> /\ todo'[c] \in Lists /\ todo' = [todo EXCEPT ![c] = todo'[c]]
  /\ UNCHANGED <<file, gaveup>>

FileWrite(c) ==
  LET w == Head(todo[c]) IN
  /\ todo[c] # <<>> /\ ~gaveup /\ UNCHANGED gaveup
  /\ todo' = [todo EXCEPT ![c] = Tail(@)]
  /\ file' = IF w.chip \in Chips THEN (<<w.chip, w.reg>> :> w.val) @@ file ELSE file

FileLose(c) ==
  /\ todo[c] # <<>> /\ gaveup /\ todo' = [todo EXCEPT ![c] = Tail(@)] /\ UNCHANGED <<file, gaveup>>

\* A frame is given up, or the next one begins.
FileFrame == gaveup' \in BOOLEAN /\ UNCHANGED <<todo, file>>

FileNext == FileFrame \/ \E c \in Callers : FileAsk(c) \/ FileWrite(c) \/ FileLose(c)

FileSpec == FileInit /\ [][FileNext]_<<todo, file, gaveup>>
=============================================================================
