--------------------------- MODULE ServoAuthority ---------------------------
(***************************************************************************)
(* What the roll-control component promises about who may move the canard  *)
(* servos, with no PID loop, no clock and no messages.  RollControl        *)
(* implements it under the refinement mapping given there.                 *)
(*                                                                         *)
(*   mode     "safe"    disarmed, servos off                               *)
(*            "bench"   disarmed, servos switched on by the test command   *)
(*            "armed"   armed, servos on                                   *)
(*            "expired" armed, servos switched off by the flight timer     *)
(*   driving  has the roll board last been told to drive the servos?       *)
(*   overdue  is the rocket in flight and past the timer's deadline?       *)
(***************************************************************************)
VARIABLES mode, driving, overdue

Init == mode = "safe" /\ driving = FALSE /\ overdue = FALSE

(* The flight goes on, whatever the servos do. *)
Flight == overdue' \in BOOLEAN /\ UNCHANGED <<mode, driving>>

(* The ARM signal is obeyed in every mode, and revives expired servos. *)
Arm == mode' = "armed" /\ UNCHANGED driving

(* The SAFE signal is obeyed in every mode and the board is told at once. *)
Safe == mode' = "safe" /\ driving' = FALSE

(* The test commands have an effect only while the rocket is disarmed. *)
BenchOn  == mode = "safe" /\ mode' = "bench" /\ UNCHANGED driving
BenchOff == mode \in {"safe", "bench"} /\ mode' = "safe" /\ driving' = FALSE

(* Deflections are commanded only from the two modes with the servos on,   *)
(* and never past the deadline.                                            *)
Drive ==
  /\ mode \in {"bench", "armed"} /\ ~overdue
  /\ driving' = TRUE /\ UNCHANGED mode

(* Past the deadline the servos are switched off, and the board is told at *)
(* once.  This is the only way an armed rocket loses its servos without    *)
(* being disarmed.                                                         *)
Expire ==
  /\ overdue
  /\ \/ mode = "armed" /\ mode' = "expired"
     \/ mode = "bench" /\ mode' = "safe"
  /\ driving' = FALSE

Next ==
  \/ Flight
  \/ (Arm \/ Safe \/ BenchOn \/ BenchOff \/ Drive \/ Expire) /\ UNCHANGED overdue

Spec == Init /\ [][Next]_<<mode, driving, overdue>>
=============================================================================
