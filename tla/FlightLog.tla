----------------------------- MODULE FlightLog -----------------------------
(***************************************************************************)
(* What the logger promises, with one queue of messages and no buffers,    *)
(* sizes or lengths: every batch gets one number, the file gets the batch  *)
(* and the ground the part of it that is meant for the ground, each all or *)
(* not at all, and what was not written uses up its number all the same.   *)
(* Logger implements it under the refinement mapping given there.          *)
(*                                                                         *)
(*   waiting  the messages of the next batch                               *)
(*   number   ... and its number                                           *)
(*   file     the batches in the log file                                  *)
(*   wire     the packets that reached the ground                          *)
(*   given    how many messages the logger was given                       *)
(*   status   of the process                                               *)
(***************************************************************************)
EXTENDS Integers, Sequences

VARIABLES waiting, number, file, wire, given, status

(* msgs are the messages of the batch that are meant for the ground, in    *)
(* the order in which they were given.                                     *)
ForGround(msgs, batch) ==
  /\ {msgs[i] : i \in 1 .. Len(msgs)} =
       {m \in {batch[i] : i \in 1 .. Len(batch)} : m.ground}
  /\ \A i, j \in 1 .. Len(msgs) : i < j => msgs[i].id < msgs[j].id

Init ==
  /\ waiting = <<>> /\ number = 0 /\ file = <<>> /\ wire = {}
  /\ given = 0 /\ status = "running"

(* A batch goes out; the file, the ground or both may miss it. *)
Batch ==
  /\ waiting # <<>> /\ number' = number + 1
  /\ \/ UNCHANGED file
     \/ file' = Append(file, [seqn |-> number, msgs |-> waiting])
  /\ \/ UNCHANGED wire
     \/ \E msgs \in {packet.msgs : packet \in wire'} :
          /\ ForGround(msgs, waiting)
          /\ wire' = wire \cup {[seqn |-> number, msgs |-> msgs]}

(* A message joins those that wait, or a batch goes out to make room.      *)
Write(ground) ==
  /\ status = "running" /\ given' = given + 1 /\ UNCHANGED status
  /\ \/ /\ waiting' = Append(waiting, [id |-> given + 1, ground |-> ground])
        /\ UNCHANGED <<number, file, wire>>
     \/ waiting' = <<[id |-> given + 1, ground |-> ground]>> /\ Batch

(* On the timer, or on the way out. *)
Flush ==
  /\ status = "running" /\ status' \in {"running", "exited"}
  /\ Batch /\ waiting' = <<>> /\ UNCHANGED given

(* Nothing waits when the program exits, unless it crashes. *)
Exit ==
  /\ status = "running" /\ status' = "exited" /\ waiting = <<>>
  /\ UNCHANGED <<waiting, number, file, wire, given>>

Crash ==
  /\ status = "running" /\ status' = "crashed" /\ waiting' = <<>>
  /\ UNCHANGED <<number, file, wire, given>>

(* A new file, if there is a name left for one. *)
Restart ==
  /\ status \in {"exited", "crashed"} /\ status' \in {"running", "failed"}
  /\ waiting' = <<>> /\ number' = 0 /\ file' = <<>> /\ wire' = {} /\ given' = 0

Next ==
  \/ \E ground \in BOOLEAN : Write(ground)
  \/ Flush \/ Exit \/ Crash \/ Restart

Spec == Init /\ [][Next]_<<waiting, number, file, wire, given, status>>
=============================================================================
