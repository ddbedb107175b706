-------------------------------- MODULE Logger --------------------------------
(***************************************************************************)
(* src/logger.c: two buffers, one for the log file and one for the ground, *)
(* flushed together under one sequence number when either is full, every   *)
(* 100 ms, and at exit.  The results of the two writev calls are ignored,  *)
(* so either may fail unnoticed.  The process may die and be started again.*)
(***************************************************************************)
EXTENDS Integers, Sequences, FiniteSets

CONSTANTS
  Header,        \* sizeof(message_header)
  Lengths,       \* the data lengths of the messages handed to log_write
  DiskLengths,   \* ... and to log_write_disk_only: GPS data may be longer
  DiskCap,       \* sizeof disk_log_buffer: 65536
  NetCap,        \* sizeof log_buffer: P_LIMIT
  Names,         \* 10 ** LOGFILE_DIGITS file names, in the order tried
  MaxMessages    \* bound of the model on the messages of one run

ASSUME LoggerAssumption ==
  /\ Header \in Nat \ {0} /\ DiskCap \in Nat /\ NetCap \in Nat
  /\ Lengths \subseteq Nat /\ DiskLengths \subseteq Nat
  /\ \A l \in Lengths : Header + l <= NetCap /\ Header + l <= DiskCap
  /\ \A l \in DiskLengths : Header + l <= DiskCap
  /\ Names \in Nat \ {0} /\ MaxMessages \in Nat

VARIABLES
  log,        \* the logger's statics, its file and its packets, see Fresh
  accepted,   \* history: messages handed to the logger since logger_init
  cur,        \* name of the file disk_fd is open on
  taken,      \* names of the files earlier runs left behind
  status      \* of the process

vars == <<log, accepted, cur, taken, status>>

(* A message is known by its number; ground tells whether log_write or     *)
(* log_write_disk_only was called for it.                                  *)
Garbage == [id |-> 0, ground |-> FALSE]
IsGround(m) == m.ground

(* logger_init. *)
Fresh == [disk |-> <<>>, disk_log_buffer_size |-> 0,
          net  |-> <<>>, log_buffer_size |-> 0,
          sequence |-> 0,
          file |-> <<>>,   \* blocks of messages after a SEQN message
          wire |-> {}]     \* packets that got out

\* fault: a block that could not be written does not use up its number
flush_log_Reuse(s) ==
  IF s.disk_log_buffer_size = 0 THEN {s}
  ELSE {[disk |-> <<>>, disk_log_buffer_size |-> 0,
         net  |-> <<>>, log_buffer_size |-> 0,
         sequence |-> IF onDisk THEN s.sequence + 1 ELSE s.sequence,
         file |-> IF onDisk
                  THEN Append(s.file, [seqn |-> s.sequence, msgs |-> s.disk])
                  ELSE s.file,
         wire |-> IF onNet
                  THEN s.wire \cup {[seqn |-> s.sequence, msgs |-> s.net]}
                  ELSE s.wire] : onDisk \in BOOLEAN, onNet \in BOOLEAN}

(* The possible results of a flush: both writes are tried, each may fail.  *)
flush_log(s) ==
  IF s.disk_log_buffer_size = 0 THEN {s}
  ELSE {[disk |-> <<>>, disk_log_buffer_size |-> 0,
         net  |-> <<>>, log_buffer_size |-> 0,
         sequence |-> s.sequence + 1,
         file |-> IF onDisk
                  THEN Append(s.file, [seqn |-> s.sequence, msgs |-> s.disk])
                  ELSE s.file,
         wire |-> IF onNet
                  THEN s.wire \cup {[seqn |-> s.sequence, msgs |-> s.net]}
                  ELSE s.wire] : onDisk \in BOOLEAN, onNet \in BOOLEAN}

ensure_disk_log_space(s, len) ==
  IF s.disk_log_buffer_size + len > DiskCap THEN flush_log(s) ELSE {s}

\* fault: the disk buffer's space is left to log_write_disk_only
ensure_net_log_space_NetOnly(s, len) ==
  IF s.log_buffer_size + len > NetCap THEN flush_log(s) ELSE {s}

\* fault: a message that just fits is let in one byte too late
ensure_net_log_space_OffByOne(s, len) ==
  UNION {IF t.log_buffer_size + len > NetCap + 1 THEN flush_log(t) ELSE {t} :
           t \in ensure_disk_log_space(s, len)}

\* fault: a full packet goes out on its own, with a number of its own
ensure_net_log_space_Alone(s, len) ==
  UNION {IF t.log_buffer_size + len > NetCap
           THEN {[t EXCEPT !.net = <<>>, !.log_buffer_size = 0, !.sequence = @ + 1,
                           !.wire = @ \cup {[seqn |-> t.sequence, msgs |-> t.net]}]}
           ELSE {t} : t \in ensure_disk_log_space(s, len)}

ensure_net_log_space(s, len) ==
  UNION {IF t.log_buffer_size + len > NetCap THEN flush_log(t) ELSE {t} :
           t \in ensure_disk_log_space(s, len)}

disk_only(s, len, m) ==
  {[t EXCEPT !.disk = Append(@, m), !.disk_log_buffer_size = @ + len] :
     t \in ensure_disk_log_space(s, len)}

(* log_write copies what lies at the old end of the disk buffer: the new   *)
(* message, unless a flush came in between and moved it to the front.      *)
to_ground(s, len, m) ==
  UNION {{[u EXCEPT !.net = Append(@, IF Len(u.disk) > Len(t.disk)
                                      THEN u.disk[Len(t.disk) + 1]
                                      ELSE Garbage),
                    !.log_buffer_size = @ + len] : u \in disk_only(t, len, m)} :
         t \in ensure_net_log_space(s, len)}
-----------------------------------------------------------------------------
\* fault: the first name is used, whatever it holds
open_logfile_First(existing) == {0}

(* The first name that is not taken, if any; any other error is permanent. *)
open_logfile(existing) ==
  {i \in 0 .. Names - 1 :
     i \notin existing /\ \A j \in 0 .. i - 1 : j \in existing}

(* Files of earlier flights may be there, and some of them gone again. *)
Init ==
  /\ log = Fresh /\ accepted = 0 /\ status = "running"
  /\ taken \in SUBSET (0 .. Names - 1) /\ cur \in open_logfile(taken)

Accept(len, ground, Result(_, _, _)) ==
  /\ status = "running" /\ accepted < MaxMessages
  /\ accepted' = accepted + 1
  /\ log' \in Result(log, Header + len, [id |-> accepted + 1, ground |-> ground])
  /\ UNCHANGED <<cur, taken, status>>

log_write_disk_only(len) == Accept(len, FALSE, disk_only)
log_write(len) == Accept(len, TRUE, to_ground)

log_timeout ==
  /\ status = "running"
  /\ log' \in flush_log(log)
  /\ UNCHANGED <<accepted, cur, taken, status>>

\* fault: the files are closed without a last flush
logger_final_NoFlush ==
  /\ status = "running" /\ status' = "exited"
  /\ UNCHANGED <<log, accepted, cur, taken>>

logger_final ==
  /\ status = "running" /\ status' = "exited"
  /\ log' \in flush_log(log)
  /\ UNCHANGED <<accepted, cur, taken>>

(* What was buffered dies with the process. *)
Crash ==
  /\ status = "running" /\ status' = "crashed"
  /\ log' = [Fresh EXCEPT !.sequence = log.sequence, !.file = log.file,
                          !.wire = log.wire]
  /\ UNCHANGED <<accepted, cur, taken>>

(* The next process: a new log file, and numbers from 0. *)
logger_init ==
  /\ status \in {"exited", "crashed"}
  /\ taken' = taken \cup {cur}
  /\ log' = Fresh /\ accepted' = 0
  /\ \/ cur' \in open_logfile(taken') /\ status' = "running"
     \/ status' = "failed" /\ UNCHANGED cur

Next ==
  \/ \E l \in DiskLengths : log_write_disk_only(l)
  \/ \E l \in Lengths : log_write(l)
  \/ log_timeout
  \/ logger_final
  \/ Crash
  \/ logger_init

Spec == Init /\ [][Next]_vars

(* The timer is periodic and the event loop serves it. *)
FairSpec == Spec /\ WF_vars(log_timeout)
-----------------------------------------------------------------------------
Messages == [id : 0 .. MaxMessages, ground : BOOLEAN]
Block    == [seqn : Nat, msgs : Seq(Messages)]

(* The sizes keep each memcpy inside its buffer. *)
LogType == [disk : Seq(Messages), disk_log_buffer_size : 0 .. DiskCap,
            net  : Seq(Messages), log_buffer_size : 0 .. NetCap,
            sequence : Nat, file : Seq(Block), wire : SUBSET Block]

(* Types of logger.c's statics, with the limits of the two buffers: no     *)
(* order of ground and disk-only messages, each of which fits its buffers, *)
(* overruns them.                                                          *)
TypeOK ==
  /\ log \in LogType
  /\ accepted \in 0 .. MaxMessages
  /\ taken \subseteq 0 .. Names - 1 /\ cur \in 0 .. Names - 1
  /\ status \in {"running", "exited", "crashed", "failed"}

(* flush_log returns early when the disk buffer is empty, and only looks at*)
(* that one: what waits for the ground is always waiting for the disk too. *)
NetInsideDisk == log.log_buffer_size <= log.disk_log_buffer_size

Consecutive(msgs) == \A i \in 1 .. Len(msgs) - 1 : msgs[i + 1].id = msgs[i].id + 1
First(msgs) == msgs[1].id
Final(msgs) == msgs[Len(msgs)].id

(* What is in the file and, as the next block, what is still to be flushed.*)
Blocks == IF log.disk = <<>> THEN log.file
          ELSE Append(log.file, [seqn |-> log.sequence, msgs |-> log.disk])

(* Reading the log file back: as long as the SEQN numbers count up from 0  *)
(* without a gap, the messages are exactly those the logger was given, in  *)
(* that order and once each, up to the last one while the process has not  *)
(* crashed.  A failed write leaves a gap before whatever is written later. *)
LossIsVisible ==
  LET b == Blocks IN
  /\ \A i \in 1 .. Len(b) : b[i].msgs # <<>> /\ Consecutive(b[i].msgs)
  /\ \A i \in 1 .. Len(b) - 1 :
       b[i + 1].seqn = b[i].seqn + 1 => First(b[i + 1].msgs) = Final(b[i].msgs) + 1
  /\ b # <<>> /\ b[1].seqn = 0 => First(b[1].msgs) = 1
  /\ LET last == b[Len(b)]
         newest == IF log.disk = <<>> THEN log.sequence - 1 ELSE log.sequence
     IN  b # <<>> /\ last.seqn = newest /\ status \in {"running", "exited"}
           => Final(last.msgs) = accepted

Contents(msgs) == {msgs[i] : i \in 1 .. Len(msgs)}

(* A packet with these messages has those of the block that were meant for *)
(* the ground, all of them and no others, in their order.                  *)
Carries(packet, block) ==
  /\ Contents(packet) = {m \in Contents(block) : IsGround(m)}
  /\ \A i, j \in 1 .. Len(packet) : i < j => packet[i].id < packet[j].id

(* The packet with number n carries just the ground messages of the file's *)
(* block SEQN n, in the block's order, whichever writes failed before.     *)
PacketMatchesBlock ==
  \A i \in 1 .. Len(log.file) : \A packet \in log.wire :
    packet.seqn = log.file[i].seqn => Carries(packet.msgs, log.file[i].msgs)

(* No run of the program writes to a file another run has written.         *)
LogIsNew == status = "running" => cur \notin taken

(* A message does not stay in the buffers for good, however few follow it, *)
(* and an orderly exit leaves none behind.                                 *)
BufferedIsFlushed ==
  log.disk # <<>> ~> (log.disk = <<>> /\ log.net = <<>>)

(* The two buffers with their two limits act as one queue: whichever fills *)
(* first, a batch goes out whole, to both places under one number, and at  *)
(* most one goes out for a message.                                        *)
Abstract == INSTANCE FlightLog WITH
  waiting <- log.disk, number <- log.sequence, file <- log.file,
  wire <- log.wire, given <- accepted

FlightLogSpec == Abstract!Spec
=============================================================================
