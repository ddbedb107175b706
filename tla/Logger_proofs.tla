----------------------------- MODULE Logger_proofs -----------------------------
(***************************************************************************)
(* Theorems of Logger for every size of its buffers and messages.          *)
(***************************************************************************)
EXTENDS Logger, TLAPS

USE LoggerAssumption

(* The states of the buffers the helpers are called in: the type is not    *)
(* inductive on its own, because flush_log does nothing when the disk      *)
(* buffer is empty, whatever the other one holds.                          *)
Sound == {s \in LogType : s.log_buffer_size <= s.disk_log_buffer_size}

-----------------------------------------------------------------------------
(* What each helper of logger.c leaves behind.                             *)

(* flush_log empties both buffers, or there was nothing in them.           *)
LEMMA FlushFacts ==
  ASSUME NEW s \in Sound, NEW t \in flush_log(s)
  PROVE  /\ t \in Sound
         /\ t.disk_log_buffer_size = 0 /\ t.log_buffer_size = 0
<1>1. CASE s.disk_log_buffer_size = 0
  <2>1. flush_log(s) = {s}
    BY <1>1 DEF flush_log
  <2> QED
    BY <1>1, <2>1 DEF Sound, LogType
<1>2. CASE s.disk_log_buffer_size # 0
  <2>1. PICK onDisk \in BOOLEAN, onNet \in BOOLEAN :
          t = [disk |-> <<>>, disk_log_buffer_size |-> 0,
               net  |-> <<>>, log_buffer_size |-> 0,
               sequence |-> s.sequence + 1,
               file |-> IF onDisk
                  THEN Append(s.file, [seqn |-> s.sequence, msgs |-> s.disk])
                  ELSE s.file,
               wire |-> IF onNet
                  THEN s.wire \cup {[seqn |-> s.sequence, msgs |-> s.net]}
                  ELSE s.wire]
    BY <1>2 DEF flush_log
  <2>2. /\ [seqn |-> s.sequence, msgs |-> s.disk] \in Block
        /\ [seqn |-> s.sequence, msgs |-> s.net] \in Block
    BY DEF Sound, LogType, Block
  <2>3. t.file \in Seq(Block) /\ t.wire \in SUBSET Block
    <3>1. t.file \in {s.file, Append(s.file, [seqn |-> s.sequence, msgs |-> s.disk])}
          /\ t.wire \in {s.wire, s.wire \cup {[seqn |-> s.sequence, msgs |-> s.net]}}
      BY <2>1
    <3>2. s.file \in Seq(Block) /\ s.wire \in SUBSET Block
      BY DEF Sound, LogType
    <3>3. Append(s.file, [seqn |-> s.sequence, msgs |-> s.disk]) \in Seq(Block)
      BY <2>2, <3>2
    <3> QED
      BY <2>2, <3>1, <3>2, <3>3
  <2>4. t = [disk |-> <<>>, disk_log_buffer_size |-> 0,
             net  |-> <<>>, log_buffer_size |-> 0,
             sequence |-> s.sequence + 1, file |-> t.file, wire |-> t.wire]
    BY <2>1
  <2>5. s.sequence + 1 \in Nat /\ <<>> \in Seq(Messages)
        /\ 0 \in 0 .. DiskCap /\ 0 \in 0 .. NetCap
    BY DEF Sound, LogType
  <2>6. [disk |-> <<>>, disk_log_buffer_size |-> 0,
         net  |-> <<>>, log_buffer_size |-> 0,
         sequence |-> s.sequence + 1, file |-> t.file, wire |-> t.wire]
        \in LogType
    BY <2>3, <2>5, Zenon DEF LogType
  <2>7. t.disk_log_buffer_size = 0 /\ t.log_buffer_size = 0
    BY <2>1
  <2>8. t \in LogType
    BY <2>4, <2>6, Zenon
  <2> QED
    BY <2>7, <2>8 DEF Sound
<1> QED
  BY <1>1, <1>2

(* Room is made by a flush, or was there already.                          *)
LEMMA SpaceByFlushing ==
  ASSUME NEW s, NEW len
  PROVE  /\ \A t \in ensure_disk_log_space(s, len) : t \in flush_log(s) \/ t = s
         /\ \A t \in ensure_net_log_space(s, len) :
              \E r \in ensure_disk_log_space(s, len) : t \in flush_log(r) \/ t = r
<1>1. ASSUME NEW t \in ensure_disk_log_space(s, len)
      PROVE  t \in flush_log(s) \/ t = s
  BY <1>1, SMT DEF ensure_disk_log_space
<1>2. ASSUME NEW t \in ensure_net_log_space(s, len)
      PROVE  \E r \in ensure_disk_log_space(s, len) : t \in flush_log(r) \/ t = r
  <2>1. PICK r \in ensure_disk_log_space(s, len) :
          t \in IF r.log_buffer_size + len > NetCap THEN flush_log(r) ELSE {r}
    BY <1>2, SMT DEF ensure_net_log_space
  <2>2. CASE r.log_buffer_size + len > NetCap
    BY <2>1, <2>2, SMT
  <2>3. CASE ~(r.log_buffer_size + len > NetCap)
    BY <2>1, <2>3, SMT
  <2> QED
    BY <2>2, <2>3
<1> QED
  BY <1>1, <1>2

(* ensure_disk_log_space makes room for a message the buffer can hold.     *)
LEMMA DiskSpaceFacts ==
  ASSUME NEW s \in Sound, NEW len \in Nat, len <= DiskCap,
         NEW t \in ensure_disk_log_space(s, len)
  PROVE  t \in Sound /\ t.disk_log_buffer_size + len <= DiskCap
<1>1. CASE s.disk_log_buffer_size + len > DiskCap
  <2>1. t \in flush_log(s)
    BY <1>1 DEF ensure_disk_log_space
  <2> QED
    BY <2>1, FlushFacts
<1>2. CASE ~(s.disk_log_buffer_size + len > DiskCap)
  BY <1>2 DEF ensure_disk_log_space, Sound, LogType
<1> QED
  BY <1>1, <1>2

(* ensure_net_log_space makes room in both buffers.                        *)
LEMMA NetSpaceFacts ==
  ASSUME NEW s \in Sound, NEW len \in Nat, len <= DiskCap, len <= NetCap,
         NEW t \in ensure_net_log_space(s, len)
  PROVE  /\ t \in Sound
         /\ t.disk_log_buffer_size + len <= DiskCap
         /\ t.log_buffer_size + len <= NetCap
<1>1. PICK r \in ensure_disk_log_space(s, len) :
        t \in IF r.log_buffer_size + len > NetCap THEN flush_log(r) ELSE {r}
  BY DEF ensure_net_log_space
<1>2. r \in Sound /\ r.disk_log_buffer_size + len <= DiskCap
  BY DiskSpaceFacts
<1>3. CASE r.log_buffer_size + len > NetCap
  <2>1. t \in flush_log(r)
    BY <1>1, <1>3
  <2> QED
    BY <1>2, <2>1, FlushFacts
<1>4. CASE ~(r.log_buffer_size + len > NetCap)
  BY <1>1, <1>2, <1>4 DEF Sound, LogType
<1> QED
  BY <1>3, <1>4

(* With room in the disk buffer, log_write_disk_only just appends.         *)
LEMMA DiskOnlyAppends ==
  ASSUME NEW s \in Sound, NEW len \in Nat, NEW m,
         s.disk_log_buffer_size + len <= DiskCap
  PROVE  disk_only(s, len, m) =
           {[s EXCEPT !.disk = Append(@, m), !.disk_log_buffer_size = @ + len]}
<1>1. s.disk_log_buffer_size \in Int
  BY DEF Sound, LogType
<1>2. ensure_disk_log_space(s, len) = {s}
  BY <1>1 DEF ensure_disk_log_space
<1> QED
  BY <1>2 DEF disk_only

(* A disk-only message is appended after any flush it needed.              *)
LEMMA DiskOnlyFacts ==
  ASSUME NEW s \in Sound, NEW len \in Nat, len <= DiskCap,
         NEW m \in Messages, NEW t \in disk_only(s, len, m)
  PROVE  t \in Sound
<1>1. PICK r \in ensure_disk_log_space(s, len) :
        t = [r EXCEPT !.disk = Append(@, m), !.disk_log_buffer_size = @ + len]
  BY DEF disk_only
<1>2. r \in Sound /\ r.disk_log_buffer_size + len <= DiskCap
  BY DiskSpaceFacts
<1>3. r.disk_log_buffer_size + len \in 0 .. DiskCap /\ Append(r.disk, m) \in Seq(Messages)
  BY <1>2 DEF Sound, LogType
<1>4. t \in LogType
  BY <1>1, <1>2, <1>3 DEF Sound, LogType
<1>5. t.log_buffer_size = r.log_buffer_size
      /\ t.disk_log_buffer_size = r.disk_log_buffer_size + len
  BY <1>1, <1>2 DEF Sound, LogType
<1>6. /\ r.log_buffer_size \in Int /\ r.disk_log_buffer_size \in Int
      /\ r.log_buffer_size <= r.disk_log_buffer_size
  BY <1>2 DEF Sound, LogType
<1>7. t.log_buffer_size <= t.disk_log_buffer_size
  BY <1>5, <1>6
<1> QED
  BY <1>4, <1>7 DEF Sound

(* log_write puts the new message itself, not what a flush left behind,    *)
(* into the packet: disk_start is never stale (logger.c:193-200).          *)
LEMMA ToGroundFacts ==
  ASSUME NEW s \in Sound, NEW len \in Nat, len <= DiskCap, len <= NetCap,
         NEW m \in Messages, NEW u \in to_ground(s, len, m)
  PROVE  /\ u \in Sound
         /\ \E t \in ensure_net_log_space(s, len) :
              /\ u.disk = Append(t.disk, m) /\ u.net = Append(t.net, m)
              /\ u.disk_log_buffer_size = t.disk_log_buffer_size + len
              /\ u.sequence = t.sequence /\ u.file = t.file /\ u.wire = t.wire
<1>1. PICK t \in ensure_net_log_space(s, len) :
        \E r \in disk_only(t, len, m) :
          u = [r EXCEPT !.net = Append(@, IF Len(r.disk) > Len(t.disk)
                                          THEN r.disk[Len(t.disk) + 1]
                                          ELSE Garbage),
                        !.log_buffer_size = @ + len]
  BY DEF to_ground
<1>2. /\ t \in Sound
      /\ t.disk_log_buffer_size + len <= DiskCap
      /\ t.log_buffer_size + len <= NetCap
  BY NetSpaceFacts
<1>3. PICK r :
        /\ r = [t EXCEPT !.disk = Append(@, m), !.disk_log_buffer_size = @ + len]
        /\ u = [r EXCEPT !.net = Append(@, IF Len(r.disk) > Len(t.disk)
                                           THEN r.disk[Len(t.disk) + 1]
                                           ELSE Garbage),
                         !.log_buffer_size = @ + len]
  <2> DEFINE R == [t EXCEPT !.disk = Append(@, m), !.disk_log_buffer_size = @ + len]
  <2>1. disk_only(t, len, m) = {R}
    BY <1>2, DiskOnlyAppends, Zenon
  <2> QED
    BY <1>1, <2>1, Zenon
<1>4. t.disk \in Seq(Messages) /\ t.net \in Seq(Messages)
  BY <1>2 DEF Sound, LogType
<1>5. r.disk = Append(t.disk, m) /\ r.net = t.net
  BY <1>2, <1>3 DEF Sound, LogType
<1>6. Len(r.disk) > Len(t.disk) /\ r.disk[Len(t.disk) + 1] = m
  BY <1>4, <1>5
<1>7. u = [t EXCEPT !.disk = Append(t.disk, m), !.net = Append(t.net, m),
                    !.disk_log_buffer_size = t.disk_log_buffer_size + len,
                    !.log_buffer_size = t.log_buffer_size + len]
  BY <1>2, <1>3, <1>5, <1>6 DEF Sound, LogType
<1>8. /\ t.disk_log_buffer_size + len \in 0 .. DiskCap
      /\ t.log_buffer_size + len \in 0 .. NetCap
      /\ t.log_buffer_size + len <= t.disk_log_buffer_size + len
      /\ Append(t.disk, m) \in Seq(Messages) /\ Append(t.net, m) \in Seq(Messages)
  <2>1. /\ t.disk_log_buffer_size \in Nat /\ t.log_buffer_size \in Nat
        /\ t.log_buffer_size <= t.disk_log_buffer_size
    BY <1>2 DEF Sound, LogType
  <2>2. DiskCap \in Nat /\ NetCap \in Nat
    BY LoggerAssumption
  <2>3. /\ t.disk_log_buffer_size + len \in 0 .. DiskCap
        /\ t.log_buffer_size + len \in 0 .. NetCap
        /\ t.log_buffer_size + len <= t.disk_log_buffer_size + len
    BY <1>2, <2>1, <2>2
  <2> QED
    BY <1>4, <2>3
<1>9. /\ u.disk = Append(t.disk, m) /\ u.net = Append(t.net, m)
      /\ u.disk_log_buffer_size = t.disk_log_buffer_size + len
      /\ u.log_buffer_size = t.log_buffer_size + len
      /\ u.sequence = t.sequence /\ u.file = t.file /\ u.wire = t.wire
  BY <1>2, <1>7 DEF Sound, LogType
<1>10. u \in LogType
  BY <1>2, <1>7, <1>8 DEF Sound, LogType
<1> QED
  BY <1>8, <1>9, <1>10 DEF Sound

-----------------------------------------------------------------------------
(* The buffers.                                                            *)

LEMMA FreshIsSound == Fresh \in Sound
<1>1. Fresh \in LogType
  <2>1. /\ <<>> \in Seq(Messages) /\ <<>> \in Seq(Block)
        /\ 0 \in 0 .. DiskCap /\ 0 \in 0 .. NetCap /\ 0 \in Nat
        /\ {} \in SUBSET Block
    OBVIOUS
  <2> QED
    BY <2>1, Zenon DEF Fresh, LogType
<1> QED
  BY <1>1 DEF Fresh, Sound

(* The inductive invariant: the types of TypeOK, with log sound.           *)
BufferInv == TypeOK /\ log \in Sound

(* Either entry point hands the buffers a message that fits.               *)
LEMMA AcceptKeepsBufferInv ==
  ASSUME BufferInv,
         \/ \E l \in DiskLengths : log_write_disk_only(l)
         \/ \E l \in Lengths : log_write(l)
  PROVE  BufferInv'
<1>1. /\ accepted < MaxMessages /\ accepted' = accepted + 1
      /\ UNCHANGED <<cur, taken, status>>
  BY Zenon DEF log_write_disk_only, log_write, Accept
<1>2. accepted' \in 0 .. MaxMessages
  BY <1>1 DEF BufferInv, TypeOK
<1>3. \A g \in BOOLEAN : [id |-> accepted + 1, ground |-> g] \in Messages
  BY <1>1, <1>2 DEF Messages
<1>4. ASSUME NEW l \in DiskLengths, log_write_disk_only(l)
      PROVE  log' \in Sound
  <2>1. Header + l \in Nat /\ Header + l <= DiskCap
    OBVIOUS
  <2>2. log' \in disk_only(log, Header + l, [id |-> accepted + 1, ground |-> FALSE])
    BY <1>4, Zenon DEF log_write_disk_only, Accept
  <2> QED
    BY <1>3, <2>1, <2>2, DiskOnlyFacts DEF BufferInv
<1>5. ASSUME NEW l \in Lengths, log_write(l)
      PROVE  log' \in Sound
  <2>1. Header + l \in Nat /\ Header + l <= DiskCap /\ Header + l <= NetCap
    OBVIOUS
  <2>2. log' \in to_ground(log, Header + l, [id |-> accepted + 1, ground |-> TRUE])
    BY <1>5, Zenon DEF log_write, Accept
  <2> QED
    BY <1>3, <2>1, <2>2, ToGroundFacts DEF BufferInv
<1>6. log' \in Sound
  BY <1>4, <1>5, Zenon
<1> QED
  BY <1>1, <1>2, <1>6 DEF BufferInv, TypeOK, Sound

LEMMA FlushKeepsBufferInv ==
  ASSUME BufferInv, log' \in flush_log(log), UNCHANGED <<accepted, cur, taken>>,
         status' \in {"running", "exited", "crashed", "failed"}
  PROVE  BufferInv'
<1>1. log' \in Sound
  BY FlushFacts DEF BufferInv
<1> QED
  BY <1>1 DEF BufferInv, TypeOK, Sound

LEMMA BufferInit == Init => BufferInv
<1> SUFFICES ASSUME Init PROVE BufferInv
  OBVIOUS
<1>1. cur \in 0 .. Names - 1
  BY DEF Init, open_logfile
<1> QED
  BY <1>1, FreshIsSound DEF Init, BufferInv, TypeOK, Sound

LEMMA BufferInvariant == Spec => []BufferInv
<1>1. BufferInv /\ [Next]_vars => BufferInv'
  <2> SUFFICES ASSUME BufferInv, [Next]_vars PROVE BufferInv'
    OBVIOUS
  <2>1. CASE \/ \E l \in DiskLengths : log_write_disk_only(l)
             \/ \E l \in Lengths : log_write(l)
    BY <2>1, AcceptKeepsBufferInv
  <2>2. CASE log_timeout
    BY <2>2, FlushKeepsBufferInv DEF log_timeout, BufferInv, TypeOK
  <2>3. CASE logger_final
    BY <2>3, FlushKeepsBufferInv DEF logger_final, BufferInv, TypeOK
  <2>4. CASE Crash
    <3>1. log' \in Sound
      BY <2>4, FreshIsSound DEF Crash, Fresh, BufferInv, Sound, LogType
    <3> QED
      BY <2>4, <3>1 DEF Crash, BufferInv, TypeOK, Sound
  <2>5. CASE logger_init
    <3>1. log' \in Sound /\ accepted' \in 0 .. MaxMessages
      BY <2>5, FreshIsSound DEF logger_init
    <3>2. taken' \subseteq 0 .. Names - 1
      BY <2>5 DEF logger_init, BufferInv, TypeOK
    <3>3. cur' \in 0 .. Names - 1
          /\ status' \in {"running", "exited", "crashed", "failed"}
      BY <2>5 DEF logger_init, open_logfile, BufferInv, TypeOK
    <3> QED
      BY <3>1, <3>2, <3>3 DEF BufferInv, TypeOK, Sound
  <2>6. CASE UNCHANGED vars
    BY <2>6 DEF vars, BufferInv, TypeOK
  <2> QED
    BY <2>1, <2>2, <2>3, <2>4, <2>5, <2>6, Zenon DEF Next
<1> QED
  BY <1>1, BufferInit, PTL DEF Spec

(* The buffers are never overrun, for every size of theirs and of the      *)
(* messages that fit in one.                                               *)
THEOREM TypeCorrect == Spec => []TypeOK
<1>1. BufferInv => TypeOK
  BY DEF BufferInv
<1> QED
  BY <1>1, BufferInvariant, PTL

(* Nothing waits for the ground that is not waiting for the disk.          *)
THEOREM NetNeverAlone == Spec => []NetInsideDisk
<1>1. BufferInv => NetInsideDisk
  BY DEF BufferInv, Sound, NetInsideDisk
<1> QED
  BY <1>1, BufferInvariant, PTL

(* No run writes to a file another run has written (open_logfile).         *)
THEOREM NewLog == Spec => []LogIsNew
<1>1. Init => LogIsNew
  BY DEF Init, LogIsNew, open_logfile
<1>2. LogIsNew /\ [Next]_vars => LogIsNew'
  <2> SUFFICES ASSUME LogIsNew, [Next]_vars PROVE LogIsNew'
    OBVIOUS
  <2>1. CASE logger_init
    BY <2>1 DEF logger_init, LogIsNew, open_logfile
  <2>2. CASE UNCHANGED <<cur, taken>> /\ (status' = "running" => status = "running")
    BY <2>2 DEF LogIsNew
  <2>3. \A l : log_write_disk_only(l) \/ log_write(l)
                 => UNCHANGED <<cur, taken, status>>
    BY Zenon DEF log_write_disk_only, log_write, Accept
  <2>4. log_timeout \/ logger_final \/ Crash \/ UNCHANGED vars
          => /\ UNCHANGED <<cur, taken>>
             /\ status' = "running" => status = "running"
    BY DEF log_timeout, logger_final, Crash, vars
  <2> QED
    BY <2>1, <2>2, <2>3, <2>4, Zenon DEF Next
<1> QED
  BY <1>1, <1>2, PTL DEF Spec

-----------------------------------------------------------------------------
(* The numbers of the blocks.                                              *)

(* What LossIsVisible asks of a file, its last block apart.                *)
Whole(b) ==
  /\ \A i \in 1 .. Len(b) : b[i].msgs # <<>> /\ Consecutive(b[i].msgs)
  /\ \A i \in 1 .. Len(b) - 1 :
       b[i + 1].seqn = b[i].seqn + 1 => First(b[i + 1].msgs) = Final(b[i].msgs) + 1
  /\ b # <<>> /\ b[1].seqn = 0 => First(b[1].msgs) = 1

(* What is still to be flushed, after n messages: the last of them, in     *)
(* order, and the file ends just before them when no block is missing.     *)
Pending(s, n) ==
  /\ s.disk = <<>> <=> s.disk_log_buffer_size = 0
  /\ \A i \in 1 .. Len(s.disk) : s.disk[i].id = (n - Len(s.disk)) + i
  /\ s.sequence = 0 => s.file = <<>> /\ n = Len(s.disk)
  /\ s.file # <<>> => s.file[Len(s.file)].seqn < s.sequence
  /\ s.file # <<>> /\ s.file[Len(s.file)].seqn = s.sequence - 1
       => Final(s.file[Len(s.file)].msgs) = n - Len(s.disk)

(* A block may be added that fits the last one, or that shows a gap.       *)
LEMMA AppendWhole ==
  ASSUME NEW b \in Seq(Block), Whole(b), NEW x \in Block,
         x.msgs # <<>>, Consecutive(x.msgs),
         b = <<>> /\ x.seqn = 0 => First(x.msgs) = 1,
         b # <<>> /\ x.seqn = b[Len(b)].seqn + 1
           => First(x.msgs) = Final(b[Len(b)].msgs) + 1
  PROVE  Whole(Append(b, x))
<1> DEFINE c == Append(b, x)
<1>1. /\ Len(b) \in Nat /\ Len(c) = Len(b) + 1 /\ c[Len(b) + 1] = x
      /\ \A i \in 1 .. Len(b) : c[i] = b[i]
  OBVIOUS
<1>2. \A i \in 1 .. Len(c) : c[i].msgs # <<>> /\ Consecutive(c[i].msgs)
  <2> SUFFICES ASSUME NEW i \in 1 .. Len(c)
               PROVE  c[i].msgs # <<>> /\ Consecutive(c[i].msgs)
    OBVIOUS
  <2>1. CASE i = Len(b) + 1
    BY <1>1, <2>1
  <2>2. CASE i \in 1 .. Len(b)
    BY <1>1, <2>2, Zenon DEF Whole
  <2> QED
    BY <1>1, <2>1, <2>2
<1>3. \A i \in 1 .. Len(c) - 1 :
        c[i + 1].seqn = c[i].seqn + 1 => First(c[i + 1].msgs) = Final(c[i].msgs) + 1
  <2> SUFFICES ASSUME NEW i \in 1 .. Len(b), c[i + 1].seqn = c[i].seqn + 1
               PROVE  First(c[i + 1].msgs) = Final(c[i].msgs) + 1
    BY <1>1
  <2>1. CASE i = Len(b)
    <3>1. c[i + 1] = x /\ c[i] = b[Len(b)] /\ b # <<>>
      BY <1>1, <2>1
    <3> QED
      BY <3>1
  <2>2. CASE i \in 1 .. Len(b) - 1
    <3>1. c[i + 1] = b[i + 1] /\ c[i] = b[i]
      BY <1>1, <2>2
    <3> QED
      BY <2>2, <3>1, Zenon DEF Whole
  <2> QED
    BY <1>1, <2>1, <2>2
<1>4. c[1].seqn = 0 => First(c[1].msgs) = 1
  <2>1. CASE b = <<>>
    <3>1. c[1] = x
      BY <1>1, <2>1
    <3> QED
      BY <2>1, <3>1
  <2>2. CASE b # <<>>
    <3>1. c[1] = b[1]
      BY <1>1, <2>2
    <3> QED
      BY <2>2, <3>1, Zenon DEF Whole
  <2> QED
    BY <2>1, <2>2
<1> QED
  BY <1>2, <1>3, <1>4, Zenon DEF Whole

LEMMA LastBlock ==
  ASSUME NEW b \in Seq(Block), b # <<>>
  PROVE  b[Len(b)].seqn \in Nat
<1>1. Len(b) \in 1 .. Len(b)
  OBVIOUS
<1>2. b[Len(b)] \in Block
  BY <1>1
<1> QED
  BY <1>2 DEF Block

(* What waits for the disk is such a block, and ends with the n-th message.*)
LEMMA PendingIsABlock ==
  ASSUME NEW s \in Sound, NEW n \in Nat, Whole(s.file), Pending(s, n), s.disk # <<>>
  PROVE  /\ Whole(Append(s.file, [seqn |-> s.sequence, msgs |-> s.disk]))
         /\ Final(s.disk) = n
<1> DEFINE x == [seqn |-> s.sequence, msgs |-> s.disk]
<1>1. /\ s.file \in Seq(Block) /\ s.disk \in Seq(Messages) /\ s.sequence \in Nat
      /\ x \in Block
  BY DEF Sound, LogType, Block
<1>2. Len(s.disk) \in Nat /\ Len(s.disk) >= 1
  BY <1>1
<1>3. \A i \in 1 .. Len(s.disk) : s.disk[i].id = (n - Len(s.disk)) + i
  BY Zenon DEF Pending
<1>4. Consecutive(s.disk)
  <2> SUFFICES ASSUME NEW i \in 1 .. Len(s.disk) - 1
               PROVE  s.disk[i + 1].id = s.disk[i].id + 1
    BY Zenon DEF Consecutive
  <2>1. i \in 1 .. Len(s.disk) /\ i + 1 \in 1 .. Len(s.disk)
    BY <1>2
  <2>2. /\ s.disk[i].id = (n - Len(s.disk)) + i
        /\ s.disk[i + 1].id = (n - Len(s.disk)) + (i + 1)
    BY <1>3, <2>1, Zenon
  <2> QED
    BY <1>2, <2>2
<1>5. First(s.disk) = (n - Len(s.disk)) + 1 /\ Final(s.disk) = n
  <2>1. 1 \in 1 .. Len(s.disk) /\ Len(s.disk) \in 1 .. Len(s.disk)
    BY <1>2
  <2>2. /\ s.disk[1].id = (n - Len(s.disk)) + 1
        /\ s.disk[Len(s.disk)].id = (n - Len(s.disk)) + Len(s.disk)
    BY <1>3, <2>1, Zenon
  <2>3. (n - Len(s.disk)) + Len(s.disk) = n
    BY <1>2
  <2> QED
    BY <2>2, <2>3, Zenon DEF First, Final
<1>6. s.sequence = 0 => First(s.disk) = 1
  <2>1. s.sequence = 0 => n = Len(s.disk)
    BY Zenon DEF Pending
  <2> QED
    BY <1>2, <1>5, <2>1
<1>7. ASSUME s.file # <<>>, s.sequence = s.file[Len(s.file)].seqn + 1
      PROVE  First(s.disk) = Final(s.file[Len(s.file)].msgs) + 1
  <2>1. s.file[Len(s.file)].seqn \in Nat
    BY <1>1, <1>7, LastBlock
  <2>2. s.file[Len(s.file)].seqn = s.sequence - 1
    BY <1>7, <2>1
  <2>3. Final(s.file[Len(s.file)].msgs) = n - Len(s.disk)
    BY <1>7, <2>2, Zenon DEF Pending
  <2> QED
    BY <1>5, <2>3
<1>8. Whole(Append(s.file, x))
  BY <1>1, <1>4, <1>6, <1>7, AppendWhole
<1> QED
  BY <1>5, <1>8

(* A flush that fails uses up its number, so that the gap shows.           *)
LEMMA FlushKeepsPending ==
  ASSUME NEW s \in Sound, NEW n \in Nat, Whole(s.file), Pending(s, n),
         NEW t \in flush_log(s)
  PROVE  Whole(t.file) /\ Pending(t, n)
<1>1. CASE s.disk_log_buffer_size = 0
  <2>1. t = s
    BY <1>1 DEF flush_log
  <2> QED
    BY <2>1
<1>2. CASE s.disk_log_buffer_size # 0
  <2> DEFINE x == [seqn |-> s.sequence, msgs |-> s.disk]
  <2>1. /\ t.disk = <<>> /\ t.disk_log_buffer_size = 0
        /\ t.sequence = s.sequence + 1
        /\ t.file \in {s.file, Append(s.file, x)}
    BY <1>2 DEF flush_log
  <2>2. s.disk # <<>> /\ s.sequence \in Nat /\ s.file \in Seq(Block)
    BY <1>2 DEF Pending, Sound, LogType
  <2>3. Whole(Append(s.file, x)) /\ Final(s.disk) = n
    BY <2>2, PendingIsABlock
  <2>4. t.sequence # 0 /\ n - Len(t.disk) = n
    BY <2>1, <2>2
  <2>5. CASE t.file = s.file
    <3>1. s.file # <<>> => s.file[Len(s.file)].seqn < s.sequence
      BY Zenon DEF Pending
    <3>2. s.file # <<>> => s.file[Len(s.file)].seqn \in Nat
      BY <2>2, LastBlock
    <3>3. /\ s.file # <<>> => s.file[Len(s.file)].seqn < s.sequence + 1
          /\ s.file # <<>> => s.file[Len(s.file)].seqn # (s.sequence + 1) - 1
      BY <2>2, <3>1, <3>2
    <3> QED
      BY <2>1, <2>4, <2>5, <3>3 DEF Pending
  <2>6. CASE t.file = Append(s.file, x)
    <3>1. t.file[Len(t.file)] = x
      BY <2>2, <2>6
    <3>2. x.seqn = s.sequence /\ s.sequence < s.sequence + 1 /\ x.msgs = s.disk
      BY <2>2
    <3>3. Pending(t, n)
      BY <2>1, <2>3, <2>4, <3>1, <3>2 DEF Pending
    <3> QED
      BY <2>3, <2>6, <3>3
  <2> QED
    BY <2>1, <2>3, <2>5, <2>6, Zenon
<1> QED
  BY <1>1, <1>2

(* The next message is appended to what waits.                             *)
LEMMA AppendKeepsPending ==
  ASSUME NEW s \in Sound, NEW n \in Nat, Pending(s, n), NEW len \in Nat \ {0},
         NEW m \in Messages, m.id = n + 1,
         NEW t, t.disk = Append(s.disk, m),
         t.disk_log_buffer_size = s.disk_log_buffer_size + len,
         t.sequence = s.sequence, t.file = s.file
  PROVE  Pending(t, n + 1)
<1>1. s.disk \in Seq(Messages) /\ s.disk_log_buffer_size \in Nat
  BY DEF Sound, LogType
<1>2. /\ Len(s.disk) \in Nat /\ Len(t.disk) = Len(s.disk) + 1
      /\ t.disk # <<>> /\ t.disk[Len(s.disk) + 1] = m
      /\ \A i \in 1 .. Len(s.disk) : t.disk[i] = s.disk[i]
  BY <1>1
<1>3. (n + 1) - Len(t.disk) = n - Len(s.disk)
  BY <1>2
<1>4. \A i \in 1 .. Len(t.disk) : t.disk[i].id = (n - Len(s.disk)) + i
  <2> SUFFICES ASSUME NEW i \in 1 .. Len(t.disk)
               PROVE  t.disk[i].id = (n - Len(s.disk)) + i
    OBVIOUS
  <2>1. CASE i = Len(s.disk) + 1
    BY <1>2, <2>1
  <2>2. CASE i \in 1 .. Len(s.disk)
    BY <1>2, <2>2, Zenon DEF Pending
  <2>3. i = Len(s.disk) + 1 \/ i \in 1 .. Len(s.disk)
    BY <1>2
  <2> QED
    BY <2>1, <2>2, <2>3, Zenon
<1>5. t.disk_log_buffer_size # 0
  BY <1>1
<1>6. s.sequence = 0 => n + 1 = Len(t.disk)
  BY <1>2 DEF Pending
<1> QED
  BY <1>2, <1>3, <1>4, <1>5, <1>6, Zenon DEF Pending

LEMMA EnsureKeepsPending ==
  ASSUME NEW s \in Sound, NEW n \in Nat, Whole(s.file), Pending(s, n),
         NEW len \in Nat, len <= DiskCap
  PROVE  /\ \A t \in ensure_disk_log_space(s, len) : Whole(t.file) /\ Pending(t, n)
         /\ \A t \in ensure_net_log_space(s, len) : Whole(t.file) /\ Pending(t, n)
<1>1. ASSUME NEW t \in ensure_disk_log_space(s, len)
      PROVE  t \in Sound /\ Whole(t.file) /\ Pending(t, n)
  <2>1. t \in flush_log(s) \/ t = s
    BY SpaceByFlushing
  <2> QED
    BY <2>1, FlushKeepsPending, DiskSpaceFacts
<1>2. ASSUME NEW t \in ensure_net_log_space(s, len)
      PROVE  Whole(t.file) /\ Pending(t, n)
  <2>1. PICK r \in ensure_disk_log_space(s, len) : t \in flush_log(r) \/ t = r
    BY SpaceByFlushing
  <2> QED
    BY <1>1, <2>1, FlushKeepsPending
<1> QED
  BY <1>1, <1>2

-----------------------------------------------------------------------------
(* The inductive invariant of the file: whole blocks, and what is pending  *)
(* follows them as long as the process has not crashed.                    *)
FileInv ==
  /\ BufferInv /\ Whole(log.file)
  /\ status \in {"running", "exited"} => Pending(log, accepted)
  /\ status \notin {"running", "exited"} => log.disk = <<>>

LEMMA FileInvLoss == FileInv => LossIsVisible
<1> SUFFICES ASSUME FileInv PROVE LossIsVisible
  OBVIOUS
<1>1. log \in Sound /\ accepted \in Nat /\ Whole(log.file)
  BY DEF FileInv, BufferInv, TypeOK
<1> DEFINE b == Blocks
           newest == IF log.disk = <<>> THEN log.sequence - 1 ELSE log.sequence
<1>2. Whole(b)
  <2>1. CASE log.disk = <<>>
    BY <1>1, <2>1 DEF Blocks
  <2>2. CASE log.disk # <<>>
    <3>1. Pending(log, accepted)
      BY <2>2, Zenon DEF FileInv
    <3> QED
      BY <1>1, <2>2, <3>1, PendingIsABlock DEF Blocks
  <2> QED
    BY <2>1, <2>2
<1>3. ASSUME b # <<>>, b[Len(b)].seqn = newest, status \in {"running", "exited"}
      PROVE  Final(b[Len(b)].msgs) = accepted
  <2>1. Pending(log, accepted)
    BY <1>3, Zenon DEF FileInv
  <2>2. CASE log.disk = <<>>
    <3>1. b = log.file /\ newest = log.sequence - 1
      BY <2>2 DEF Blocks
    <3>2. Final(b[Len(b)].msgs) = accepted - Len(log.disk)
      BY <1>3, <2>1, <3>1, Zenon DEF Pending
    <3> QED
      BY <1>1, <2>2, <3>2
  <2>3. CASE log.disk # <<>>
    <3> DEFINE x == [seqn |-> log.sequence, msgs |-> log.disk]
    <3>1. b = Append(log.file, x)
      BY <2>3 DEF Blocks
    <3>2. log.file \in Seq(Block)
      BY <1>1 DEF Sound, LogType
    <3>3. b[Len(b)] = x
      BY <3>1, <3>2
    <3>4. Final(log.disk) = accepted
      BY <1>1, <2>1, <2>3, PendingIsABlock
    <3> QED
      BY <3>3, <3>4
  <2> QED
    BY <2>2, <2>3
<1> QED
  BY <1>2, <1>3, Zenon DEF Whole, LossIsVisible

LEMMA AcceptKeepsFileInv ==
  ASSUME FileInv, BufferInv',
         \/ \E l \in DiskLengths : log_write_disk_only(l)
         \/ \E l \in Lengths : log_write(l)
  PROVE  FileInv'
<1>1. /\ status = "running" /\ status' = status
      /\ accepted < MaxMessages /\ accepted' = accepted + 1
  BY Zenon DEF log_write_disk_only, log_write, Accept
<1>2. /\ log \in Sound /\ accepted \in Nat /\ accepted + 1 \in 0 .. MaxMessages
      /\ Whole(log.file) /\ Pending(log, accepted)
  BY <1>1 DEF FileInv, BufferInv, TypeOK
<1>3. \A g \in BOOLEAN : [id |-> accepted + 1, ground |-> g] \in Messages
  BY <1>2 DEF Messages
<1>4. ASSUME NEW l \in DiskLengths, log_write_disk_only(l)
      PROVE  Whole(log'.file) /\ Pending(log', accepted + 1)
  <2> DEFINE m == [id |-> accepted + 1, ground |-> FALSE]
             len == Header + l
  <2>1. len \in Nat \ {0} /\ len \in Nat /\ len <= DiskCap
    OBVIOUS
  <2>2. PICK t \in ensure_disk_log_space(log, len) :
          log' = [t EXCEPT !.disk = Append(@, m), !.disk_log_buffer_size = @ + len]
    BY <1>4 DEF log_write_disk_only, Accept, disk_only
  <2>3. t \in Sound /\ Whole(t.file) /\ Pending(t, accepted)
    BY <1>2, <2>1, DiskSpaceFacts, EnsureKeepsPending
  <2>4. /\ log'.disk = Append(t.disk, m) /\ log'.file = t.file
        /\ log'.disk_log_buffer_size = t.disk_log_buffer_size + len
        /\ log'.sequence = t.sequence
    BY <2>2, <2>3 DEF Sound, LogType
  <2>5. m \in Messages /\ m.id = accepted + 1
    BY <1>3
  <2> HIDE DEF m, len
  <2> QED
    BY <1>2, <2>1, <2>3, <2>4, <2>5, AppendKeepsPending
<1>5. ASSUME NEW l \in Lengths, log_write(l)
      PROVE  Whole(log'.file) /\ Pending(log', accepted + 1)
  <2> DEFINE m == [id |-> accepted + 1, ground |-> TRUE]
             len == Header + l
  <2>1. len \in Nat \ {0} /\ len \in Nat /\ len <= DiskCap /\ len <= NetCap
    OBVIOUS
  <2>2. log' \in to_ground(log, len, m)
    BY <1>5, Zenon DEF log_write, Accept
  <2>3. m \in Messages /\ m.id = accepted + 1
    BY <1>3
  <2> HIDE DEF m, len
  <2>4. PICK t \in ensure_net_log_space(log, len) :
          /\ log'.disk = Append(t.disk, m)
          /\ log'.disk_log_buffer_size = t.disk_log_buffer_size + len
          /\ log'.sequence = t.sequence /\ log'.file = t.file
    BY <1>2, <2>1, <2>2, <2>3, ToGroundFacts
  <2>5. t \in Sound /\ Whole(t.file) /\ Pending(t, accepted)
    BY <1>2, <2>1, NetSpaceFacts, EnsureKeepsPending
  <2> QED
    BY <1>2, <2>1, <2>3, <2>4, <2>5, AppendKeepsPending
<1> QED
  BY <1>1, <1>4, <1>5, Zenon DEF FileInv

LEMMA FileInvariant == Spec => []FileInv
<1>1. Init => FileInv
  <2> SUFFICES ASSUME Init PROVE FileInv
    OBVIOUS
  <2>1. Whole(<<>>)
    BY DEF Whole
  <2>2. Pending(Fresh, 0)
    BY DEF Pending, Fresh
  <2>3. BufferInv
    BY BufferInit
  <2> QED
    BY <2>1, <2>2, <2>3 DEF Init, FileInv, Fresh
<1>2. FileInv /\ BufferInv' /\ [Next]_vars => FileInv'
  <2> SUFFICES ASSUME FileInv, BufferInv', [Next]_vars PROVE FileInv'
    OBVIOUS
  <2>1. CASE \/ \E l \in DiskLengths : log_write_disk_only(l)
             \/ \E l \in Lengths : log_write(l)
    BY <2>1, AcceptKeepsFileInv
  <2>2. CASE log_timeout \/ logger_final
    <3>1. /\ log' \in flush_log(log) /\ accepted' = accepted
          /\ status = "running" /\ status' \in {"running", "exited"}
      BY <2>2 DEF log_timeout, logger_final
    <3>2. /\ log \in Sound /\ accepted \in Nat /\ Whole(log.file)
          /\ Pending(log, accepted)
      BY <3>1 DEF FileInv, BufferInv, TypeOK
    <3>3. Whole(log'.file) /\ Pending(log', accepted)
      BY <3>1, <3>2, FlushKeepsPending
    <3> QED
      BY <3>1, <3>3, Zenon DEF FileInv
  <2>3. CASE Crash
    <3>1. log'.file = log.file /\ log'.disk = <<>> /\ status' = "crashed"
      BY <2>3 DEF Crash, Fresh
    <3> QED
      BY <3>1 DEF FileInv
  <2>4. CASE logger_init
    <3>1. log' = Fresh /\ accepted' = 0 /\ status' \in {"running", "failed"}
      BY <2>4 DEF logger_init
    <3>2. Whole(<<>>) /\ Pending(Fresh, 0) /\ Fresh.file = <<>> /\ Fresh.disk = <<>>
      BY DEF Whole, Pending, Fresh
    <3> QED
      BY <3>1, <3>2 DEF FileInv
  <2>5. CASE UNCHANGED vars
    BY <2>5 DEF vars, FileInv
  <2> QED
    BY <2>1, <2>2, <2>3, <2>4, <2>5, Zenon DEF Next
<1> QED
  BY <1>1, <1>2, BufferInvariant, PTL DEF Spec

(* As long as the numbers of the file count up without a gap, no message   *)
(* is missing, out of order or there twice: every failed write shows.      *)
THEOREM LossShows == Spec => []LossIsVisible
BY FileInvariant, FileInvLoss, PTL

-----------------------------------------------------------------------------
(* The packets and the blocks.                                             *)

LEMMA ContentsOfAppend ==
  ASSUME NEW s \in Seq(Messages), NEW m \in Messages
  PROVE  Contents(Append(s, m)) = Contents(s) \cup {m}
<1>1. /\ Len(Append(s, m)) = Len(s) + 1 /\ Len(s) \in Nat
      /\ Append(s, m)[Len(s) + 1] = m
      /\ \A i \in 1 .. Len(s) : Append(s, m)[i] = s[i]
  OBVIOUS
<1>2. 1 .. Len(s) + 1 = (1 .. Len(s)) \cup {Len(s) + 1}
  BY <1>1
<1> QED
  BY <1>1, <1>2, Zenon DEF Contents

(* A message for the disk only does not change what the packet has to      *)
(* carry; one for the ground is the newest of both.                        *)
LEMMA CarriesDiskOnly ==
  ASSUME NEW q \in Seq(Messages), NEW d \in Seq(Messages), NEW m \in Messages,
         Carries(q, d), ~m.ground
  PROVE  Carries(q, Append(d, m))
<1>1. ~IsGround(m)
  BY DEF IsGround
<1> QED
  BY <1>1, ContentsOfAppend DEF Carries

LEMMA CarriesToGround ==
  ASSUME NEW q \in Seq(Messages), NEW d \in Seq(Messages), NEW m \in Messages,
         Carries(q, d), m.ground, \A x \in Contents(d) : x.id < m.id
  PROVE  Carries(Append(q, m), Append(d, m))
<1>1. IsGround(m)
  BY DEF IsGround
<1>2. Contents(Append(q, m)) = {x \in Contents(Append(d, m)) : IsGround(x)}
  BY <1>1, ContentsOfAppend DEF Carries
<1>3. /\ Len(Append(q, m)) = Len(q) + 1 /\ Len(q) \in Nat
      /\ Append(q, m)[Len(q) + 1] = m
      /\ \A i \in 1 .. Len(q) : Append(q, m)[i] = q[i]
  OBVIOUS
<1>4. ASSUME NEW i \in 1 .. Len(q) + 1, NEW j \in 1 .. Len(q) + 1, i < j
      PROVE  Append(q, m)[i].id < Append(q, m)[j].id
  <2>1. i \in 1 .. Len(q)
    BY <1>3, <1>4
  <2>2. q[i] \in Contents(d)
    <3>1. q[i] \in Contents(q)
      BY <2>1 DEF Contents
    <3> QED
      BY <3>1 DEF Carries
  <2>3. CASE j = Len(q) + 1
    BY <1>3, <2>1, <2>2, <2>3, Zenon
  <2>4. CASE j \in 1 .. Len(q)
    BY <1>3, <1>4, <2>1, <2>4, Zenon DEF Carries
  <2>5. j = Len(q) + 1 \/ j \in 1 .. Len(q)
    BY <1>3
  <2> QED
    BY <2>3, <2>4, <2>5, Zenon
<1> QED
  BY <1>2, <1>3, <1>4, Zenon DEF Carries

(* Every number is used for one flush: a block and a packet of the same    *)
(* number left the buffers together.                                       *)
Matched(s) ==
  /\ Carries(s.net, s.disk)
  /\ \A i \in 1 .. Len(s.file) : s.file[i].seqn < s.sequence
  /\ \A packet \in s.wire : packet.seqn < s.sequence
  /\ \A i \in 1 .. Len(s.file) : \A packet \in s.wire :
       packet.seqn = s.file[i].seqn => Carries(packet.msgs, s.file[i].msgs)

LEMMA EmptyCarries == Carries(<<>>, <<>>)
BY DEF Carries, Contents

LEMMA FlushKeepsMatched ==
  ASSUME NEW s \in Sound, Matched(s), NEW t \in flush_log(s)
  PROVE  Matched(t)
<1>1. CASE s.disk_log_buffer_size = 0
  <2>1. t = s
    BY <1>1 DEF flush_log
  <2> QED
    BY <2>1
<1>2. CASE s.disk_log_buffer_size # 0
  <2> DEFINE x == [seqn |-> s.sequence, msgs |-> s.disk]
             y == [seqn |-> s.sequence, msgs |-> s.net]
  <2>1. /\ t.disk = <<>> /\ t.net = <<>> /\ t.sequence = s.sequence + 1
        /\ t.file \in {s.file, Append(s.file, x)}
        /\ t.wire \in {s.wire, s.wire \cup {y}}
    BY <1>2 DEF flush_log
  <2>2. /\ s.sequence \in Nat /\ s.file \in Seq(Block) /\ s.wire \subseteq Block
        /\ x \in Block /\ y \in Block
    BY DEF Sound, LogType, Block
  <2>3. \A i \in 1 .. Len(t.file) :
          \/ t.file[i] = x
          \/ i \in 1 .. Len(s.file) /\ t.file[i] = s.file[i]
    <3>1. CASE t.file = s.file
      BY <3>1
    <3>2. CASE t.file = Append(s.file, x)
      BY <2>2, <3>2
    <3> QED
      BY <2>1, <3>1, <3>2
  <2>4. \A packet \in t.wire : packet = y \/ packet \in s.wire
    BY <2>1
  <2>5. /\ \A i \in 1 .. Len(s.file) : s.file[i].seqn < s.sequence
        /\ \A packet \in s.wire : packet.seqn < s.sequence
    BY Zenon DEF Matched
  <2>6. /\ \A i \in 1 .. Len(s.file) : s.file[i].seqn \in Nat
        /\ \A packet \in s.wire : packet.seqn \in Nat
    <3>1. \A i \in 1 .. Len(s.file) : s.file[i] \in Block
      BY <2>2
    <3>2. \A block \in Block : block.seqn \in Nat
      BY DEF Block
    <3> QED
      BY <2>2, <3>1, <3>2, Zenon
  <2>7. x.seqn = s.sequence /\ y.seqn = s.sequence /\ x.msgs = s.disk /\ y.msgs = s.net
    OBVIOUS
  <2> HIDE DEF x, y
  <2>8. /\ \A i \in 1 .. Len(t.file) : t.file[i].seqn < t.sequence
        /\ \A packet \in t.wire : packet.seqn < t.sequence
    <3>1. \A k \in Nat : k < s.sequence => k < s.sequence + 1
      BY <2>2
    <3>2. s.sequence < s.sequence + 1
      BY <2>2
    <3> QED
      BY <2>1, <2>3, <2>4, <2>5, <2>6, <2>7, <3>1, <3>2, Zenon
  <2>9. ASSUME NEW i \in 1 .. Len(t.file), NEW packet \in t.wire,
               packet.seqn = t.file[i].seqn
        PROVE  Carries(packet.msgs, t.file[i].msgs)
    <3>1. \A k \in Nat : k < s.sequence => k # s.sequence
      BY <2>2
    <3>2. CASE t.file[i] = x /\ packet = y
      BY <2>7, <3>2, Zenon DEF Matched
    <3>3. CASE t.file[i] = x /\ packet \in s.wire
      BY <2>5, <2>6, <2>7, <2>9, <3>1, <3>3, Zenon
    <3>4. CASE i \in 1 .. Len(s.file) /\ t.file[i] = s.file[i] /\ packet = y
      BY <2>5, <2>6, <2>7, <2>9, <3>1, <3>4, Zenon
    <3>5. CASE i \in 1 .. Len(s.file) /\ t.file[i] = s.file[i] /\ packet \in s.wire
      BY <2>9, <3>5, Zenon DEF Matched
    <3> QED
      BY <2>3, <2>4, <3>2, <3>3, <3>4, <3>5, Zenon
  <2> QED
    BY <2>1, <2>8, <2>9, EmptyCarries, Zenon DEF Matched
<1> QED
  BY <1>1, <1>2

LEMMA EnsureKeepsMatched ==
  ASSUME NEW s \in Sound, Matched(s), NEW len \in Nat, len <= DiskCap
  PROVE  /\ \A t \in ensure_disk_log_space(s, len) : Matched(t)
         /\ \A t \in ensure_net_log_space(s, len) : Matched(t)
<1>1. ASSUME NEW t \in ensure_disk_log_space(s, len)
      PROVE  t \in Sound /\ Matched(t)
  <2>1. t \in flush_log(s) \/ t = s
    BY SpaceByFlushing
  <2> QED
    BY <2>1, FlushKeepsMatched, DiskSpaceFacts
<1>2. ASSUME NEW t \in ensure_net_log_space(s, len)
      PROVE  Matched(t)
  <2>1. PICK r \in ensure_disk_log_space(s, len) : t \in flush_log(r) \/ t = r
    BY SpaceByFlushing
  <2> QED
    BY <1>1, <2>1, FlushKeepsMatched
<1> QED
  BY <1>1, <1>2

(* What waits for the disk was numbered before the next message.           *)
LEMMA PendingIsOlder ==
  ASSUME NEW s \in Sound, NEW n \in Nat, Pending(s, n)
  PROVE  \A x \in Contents(s.disk) : x.id < n + 1
<1> SUFFICES ASSUME NEW i \in 1 .. Len(s.disk) PROVE s.disk[i].id < n + 1
  BY Zenon DEF Contents
<1>1. Len(s.disk) \in Nat
  BY DEF Sound, LogType
<1>2. s.disk[i].id = (n - Len(s.disk)) + i
  BY Zenon DEF Pending
<1>3. ASSUME NEW l \in Nat, NEW k \in 1 .. l
      PROVE  (n - l) + k < n + 1
  OBVIOUS
<1>4. (n - Len(s.disk)) + i < n + 1
  BY <1>1, <1>3, Zenon
<1> QED
  BY <1>2, <1>4, Zenon

PacketInv == FileInv /\ Matched(log)

LEMMA AcceptKeepsMatched ==
  ASSUME PacketInv,
         \/ \E l \in DiskLengths : log_write_disk_only(l)
         \/ \E l \in Lengths : log_write(l)
  PROVE  Matched(log')
<1>1. status = "running" /\ accepted < MaxMessages
  BY Zenon DEF log_write_disk_only, log_write, Accept
<1>2. /\ log \in Sound /\ accepted \in Nat /\ accepted + 1 \in 0 .. MaxMessages
      /\ Whole(log.file) /\ Pending(log, accepted) /\ Matched(log)
  BY <1>1 DEF PacketInv, FileInv, BufferInv, TypeOK
<1>3. \A g \in BOOLEAN : [id |-> accepted + 1, ground |-> g] \in Messages
  BY <1>2 DEF Messages
<1>4. ASSUME NEW l \in DiskLengths, log_write_disk_only(l)
      PROVE  Matched(log')
  <2> DEFINE m == [id |-> accepted + 1, ground |-> FALSE]
             len == Header + l
  <2>1. len \in Nat /\ len <= DiskCap
    OBVIOUS
  <2>2. PICK t \in ensure_disk_log_space(log, len) :
          log' = [t EXCEPT !.disk = Append(@, m), !.disk_log_buffer_size = @ + len]
    BY <1>4 DEF log_write_disk_only, Accept, disk_only
  <2>3. t \in Sound /\ Matched(t)
    BY <1>2, <2>1, DiskSpaceFacts, EnsureKeepsMatched
  <2>4. /\ log'.disk = Append(t.disk, m) /\ log'.net = t.net
        /\ log'.file = t.file /\ log'.wire = t.wire /\ log'.sequence = t.sequence
    BY <2>2, <2>3 DEF Sound, LogType
  <2>5. /\ m \in Messages /\ ~m.ground
        /\ t.net \in Seq(Messages) /\ t.disk \in Seq(Messages)
    BY <1>3, <2>3 DEF Sound, LogType
  <2> HIDE DEF m, len
  <2>6. Carries(t.net, Append(t.disk, m))
    BY <2>3, <2>5, CarriesDiskOnly, Zenon DEF Matched
  <2> QED
    BY <2>3, <2>4, <2>6, Zenon DEF Matched
<1>5. ASSUME NEW l \in Lengths, log_write(l)
      PROVE  Matched(log')
  <2> DEFINE m == [id |-> accepted + 1, ground |-> TRUE]
             len == Header + l
  <2>1. len \in Nat /\ len <= DiskCap /\ len <= NetCap
    OBVIOUS
  <2>2. log' \in to_ground(log, len, m)
    BY <1>5, Zenon DEF log_write, Accept
  <2>3. m \in Messages /\ m.ground /\ m.id = accepted + 1
    BY <1>3
  <2> HIDE DEF m, len
  <2>4. PICK t \in ensure_net_log_space(log, len) :
          /\ log'.disk = Append(t.disk, m) /\ log'.net = Append(t.net, m)
          /\ log'.sequence = t.sequence /\ log'.file = t.file /\ log'.wire = t.wire
    BY <1>2, <2>1, <2>2, <2>3, ToGroundFacts
  <2>5. t \in Sound /\ Matched(t) /\ Pending(t, accepted)
    BY <1>2, <2>1, NetSpaceFacts, EnsureKeepsMatched, EnsureKeepsPending
  <2>6. t.net \in Seq(Messages) /\ t.disk \in Seq(Messages)
    BY <2>5 DEF Sound, LogType
  <2>7. \A x \in Contents(t.disk) : x.id < m.id
    BY <1>2, <2>3, <2>5, PendingIsOlder
  <2>8. Carries(Append(t.net, m), Append(t.disk, m))
    BY <2>3, <2>5, <2>6, <2>7, CarriesToGround, Zenon DEF Matched
  <2> QED
    BY <2>4, <2>5, <2>8, Zenon DEF Matched
<1> QED
  BY <1>4, <1>5, Zenon

LEMMA FreshMatched == Matched(Fresh)
BY EmptyCarries DEF Matched, Fresh

LEMMA PacketInvariant == Spec => []PacketInv
<1>1. Init => Matched(log)
  BY FreshMatched DEF Init
<1>2. FileInv /\ Matched(log) /\ [Next]_vars => Matched(log)'
  <2> SUFFICES ASSUME FileInv, Matched(log), [Next]_vars PROVE Matched(log')
    OBVIOUS
  <2>1. CASE \/ \E l \in DiskLengths : log_write_disk_only(l)
             \/ \E l \in Lengths : log_write(l)
    BY <2>1, AcceptKeepsMatched DEF PacketInv
  <2>2. CASE log_timeout \/ logger_final
    <3>1. log' \in flush_log(log) /\ log \in Sound
      BY <2>2 DEF log_timeout, logger_final, FileInv, BufferInv
    <3> QED
      BY <3>1, FlushKeepsMatched
  <2>3. CASE Crash
    <3>1. /\ log'.net = <<>> /\ log'.disk = <<>> /\ log'.sequence = log.sequence
          /\ log'.file = log.file /\ log'.wire = log.wire
      BY <2>3 DEF Crash, Fresh
    <3> QED
      BY <3>1, EmptyCarries, Zenon DEF Matched
  <2>4. CASE logger_init
    BY <2>4, FreshMatched DEF logger_init
  <2>5. CASE UNCHANGED vars
    BY <2>5 DEF vars
  <2> QED
    BY <2>1, <2>2, <2>3, <2>4, <2>5, Zenon DEF Next
<1> QED
  BY <1>1, <1>2, FileInvariant, PTL DEF Spec, PacketInv

(* A packet and a block of the same number hold the same messages for the  *)
(* ground, in the same order, for every size of the two buffers.           *)
THEOREM PacketsMatch == Spec => []PacketMatchesBlock
<1>1. PacketInv => PacketMatchesBlock
  BY Zenon DEF PacketInv, Matched, PacketMatchesBlock
<1> QED
  BY <1>1, PacketInvariant, PTL
-----------------------------------------------------------------------------
(* The abstract log.                                                       *)

(* t is s with everything that waited sent on its way.                     *)
Batched(s, t) ==
  /\ s.disk # <<>> /\ t.disk = <<>> /\ t.log_buffer_size = 0
  /\ t.sequence = s.sequence + 1
  /\ \/ t.file = s.file
     \/ t.file = Append(s.file, [seqn |-> s.sequence, msgs |-> s.disk])
  /\ \/ t.wire = s.wire
     \/ t.wire = s.wire \cup {[seqn |-> s.sequence, msgs |-> s.net]}

(* The early return of flush_log is taken just when nothing waits.         *)
LEMMA FlushIsBatch ==
  ASSUME NEW s, s.disk = <<>> <=> s.disk_log_buffer_size = 0, NEW t \in flush_log(s)
  PROVE  (s.disk = <<>> /\ t = s) \/ Batched(s, t)
<1>1. CASE s.disk_log_buffer_size = 0
  <2>1. flush_log(s) = {s}
    BY <1>1 DEF flush_log
  <2> QED
    BY <1>1, <2>1
<1>2. CASE s.disk_log_buffer_size # 0
  <2>1. PICK onDisk \in BOOLEAN, onNet \in BOOLEAN :
          t = [disk |-> <<>>, disk_log_buffer_size |-> 0,
               net  |-> <<>>, log_buffer_size |-> 0,
               sequence |-> s.sequence + 1,
               file |-> IF onDisk
                  THEN Append(s.file, [seqn |-> s.sequence, msgs |-> s.disk])
                  ELSE s.file,
               wire |-> IF onNet
                  THEN s.wire \cup {[seqn |-> s.sequence, msgs |-> s.net]}
                  ELSE s.wire]
    BY <1>2 DEF flush_log
  <2> QED
    BY <1>2, <2>1 DEF Batched
<1> QED
  BY <1>1, <1>2

(* Room for one message never takes more than one batch.                   *)
LEMMA RoomByOneBatch ==
  ASSUME NEW s \in Sound, s.disk = <<>> <=> s.disk_log_buffer_size = 0,
         NEW len \in Nat
  PROVE  /\ \A t \in ensure_disk_log_space(s, len) : t = s \/ Batched(s, t)
         /\ len <= NetCap =>
              \A t \in ensure_net_log_space(s, len) : t = s \/ Batched(s, t)
<1>1. ASSUME NEW t \in ensure_disk_log_space(s, len)
      PROVE  t = s \/ Batched(s, t)
  BY SpaceByFlushing, FlushIsBatch
<1>2. ASSUME len <= NetCap, NEW t \in ensure_net_log_space(s, len)
      PROVE  t = s \/ Batched(s, t)
  <2>1. PICK r \in ensure_disk_log_space(s, len) :
          t \in IF r.log_buffer_size + len > NetCap THEN flush_log(r) ELSE {r}
    BY <1>2, SMT DEF ensure_net_log_space
  <2>2. CASE r = s
    <3>1. t \in flush_log(s) \/ t = s
      BY <2>1, <2>2, SMT
    <3> QED
      BY <3>1, FlushIsBatch
  <2>3. CASE Batched(s, r)
    <3>1. r.log_buffer_size = 0
      BY <2>3 DEF Batched
    <3>2. ~(r.log_buffer_size + len > NetCap)
      BY <1>2, <3>1
    <3>3. t = r
      BY <2>1, <3>2
    <3> QED
      BY <2>3, <3>3
  <2> QED
    BY <1>1, <2>2, <2>3
<1> QED
  BY <1>1, <1>2

(* What leaves the two buffers together is a batch of the abstract log: a  *)
(* packet carries what Matched says the packet buffer carries.             *)
LEMMA BatchStep ==
  ASSUME Matched(log), NEW t, Batched(log, t), log'.sequence = t.sequence,
         log'.file = t.file, log'.wire = t.wire
  PROVE  Abstract!Batch
<1> DEFINE x == [seqn |-> log.sequence, msgs |-> log.disk]
           y == [seqn |-> log.sequence, msgs |-> log.net]
<1>1. /\ log.disk # <<>> /\ log'.sequence = log.sequence + 1
      /\ log'.file = log.file \/ log'.file = Append(log.file, x)
      /\ log'.wire = log.wire \/ log'.wire = log.wire \cup {y}
  BY DEF Batched
<1>2. Abstract!ForGround(log.net, log.disk)
  BY DEF Matched, Carries, Contents, IsGround, Abstract!ForGround
<1>3. ASSUME log'.wire = log.wire \cup {y}
      PROVE  \E msgs \in {packet.msgs : packet \in log'.wire} :
               /\ Abstract!ForGround(msgs, log.disk)
               /\ log'.wire = log.wire \cup {[seqn |-> log.sequence, msgs |-> msgs]}
  <2>1. y \in log'.wire /\ y.msgs = log.net
    BY <1>3
  <2>2. log.net \in {packet.msgs : packet \in log'.wire}
    BY <2>1
  <2> QED
    BY <1>2, <1>3, <2>2
<1> QED
  BY <1>1, <1>3 DEF Abstract!Batch

(* A message handed to either entry point is written in the abstract log.  *)
LEMMA WriteStep ==
  ASSUME Matched(log), status = "running", status' = status,
         accepted' = accepted + 1, NEW ground \in BOOLEAN,
         NEW t, t = log \/ Batched(log, t),
         log'.disk = Append(t.disk, [id |-> accepted + 1, ground |-> ground]),
         log'.sequence = t.sequence, log'.file = t.file, log'.wire = t.wire
  PROVE  Abstract!Write(ground)
<1> DEFINE m == [id |-> accepted + 1, ground |-> ground]
<1>1. CASE t = log
  BY <1>1 DEF Abstract!Write
<1>2. CASE Batched(log, t)
  <2>1. Abstract!Batch
    BY <1>2, BatchStep
  <2>2. t.disk = <<>>
    BY <1>2 DEF Batched
  <2>3. log'.disk = <<m>>
    BY <2>2
  <2> QED
    BY <2>1, <2>3 DEF Abstract!Write
<1> QED
  BY <1>1, <1>2

LEMMA AcceptImplements ==
  ASSUME PacketInv,
         \/ \E l \in DiskLengths : log_write_disk_only(l)
         \/ \E l \in Lengths : log_write(l)
  PROVE  \E ground \in BOOLEAN : Abstract!Write(ground)
<1>1. /\ status = "running" /\ status' = status
      /\ accepted < MaxMessages /\ accepted' = accepted + 1
  BY Zenon DEF log_write_disk_only, log_write, Accept
<1>2. /\ log \in Sound /\ Matched(log) /\ accepted + 1 \in 0 .. MaxMessages
      /\ log.disk = <<>> <=> log.disk_log_buffer_size = 0
  BY <1>1 DEF PacketInv, FileInv, BufferInv, TypeOK, Pending
<1>3. \A g \in BOOLEAN : [id |-> accepted + 1, ground |-> g] \in Messages
  BY <1>2 DEF Messages
<1>4. ASSUME NEW l \in DiskLengths, log_write_disk_only(l)
      PROVE  Abstract!Write(FALSE)
  <2> DEFINE m == [id |-> accepted + 1, ground |-> FALSE]
             len == Header + l
  <2>1. len \in Nat /\ len <= DiskCap
    OBVIOUS
  <2>2. PICK t \in ensure_disk_log_space(log, len) :
          log' = [t EXCEPT !.disk = Append(@, m), !.disk_log_buffer_size = @ + len]
    BY <1>4 DEF log_write_disk_only, Accept, disk_only
  <2>3. t \in Sound /\ (t = log \/ Batched(log, t))
    BY <1>2, <2>1, DiskSpaceFacts, RoomByOneBatch
  <2>4. /\ log'.disk = Append(t.disk, m) /\ log'.sequence = t.sequence
        /\ log'.file = t.file /\ log'.wire = t.wire
    BY <2>2, <2>3 DEF Sound, LogType
  <2> QED
    BY <1>1, <1>2, <2>3, <2>4, WriteStep
<1>5. ASSUME NEW l \in Lengths, log_write(l)
      PROVE  Abstract!Write(TRUE)
  <2> DEFINE m == [id |-> accepted + 1, ground |-> TRUE]
             len == Header + l
  <2>1. len \in Nat /\ len <= DiskCap /\ len <= NetCap
    OBVIOUS
  <2>2. log' \in to_ground(log, len, m)
    BY <1>5, Zenon DEF log_write, Accept
  <2>3. m \in Messages
    BY <1>3
  <2> HIDE DEF m, len
  <2>4. PICK t \in ensure_net_log_space(log, len) :
          /\ log'.disk = Append(t.disk, m)
          /\ log'.sequence = t.sequence /\ log'.file = t.file /\ log'.wire = t.wire
    <3>1. log \in Sound
      BY <1>2
    <3> QED
      BY <2>1, <2>2, <2>3, <3>1, ToGroundFacts
  <2>5. t = log \/ Batched(log, t)
    BY <1>2, <2>1, RoomByOneBatch
  <2>6. log'.disk = Append(t.disk, [id |-> accepted + 1, ground |-> TRUE])
    BY <2>4 DEF m
  <2> QED
    BY <1>1, <1>2, <2>4, <2>5, <2>6, WriteStep
<1> QED
  BY <1>4, <1>5, Zenon

(* A flush of the timer or of logger_final sends a batch if anything waits.*)
LEMMA FlushImplements ==
  ASSUME PacketInv, log_timeout \/ logger_final
  PROVE  \/ Abstract!Flush \/ Abstract!Exit
         \/ UNCHANGED <<log, accepted, status>>
<1>1. /\ status = "running" /\ status' \in {"running", "exited"}
      /\ log' \in flush_log(log) /\ accepted' = accepted
  BY DEF log_timeout, logger_final
<1>2. Matched(log) /\ (log.disk = <<>> <=> log.disk_log_buffer_size = 0)
  BY <1>1 DEF PacketInv, FileInv, Pending
<1>3. CASE log.disk = <<>> /\ log' = log
  BY <1>1, <1>3 DEF Abstract!Exit
<1>4. CASE Batched(log, log')
  <2>1. Abstract!Batch
    BY <1>2, <1>4, BatchStep
  <2>2. log'.disk = <<>>
    BY <1>4 DEF Batched
  <2> QED
    BY <1>1, <2>1, <2>2 DEF Abstract!Flush
<1> QED
  BY <1>1, <1>2, <1>3, <1>4, FlushIsBatch

(* The two buffers are one queue, for every size of theirs: the logger     *)
(* implements the abstract log.                                            *)
THEOREM ImplementsFlightLog == Spec => FlightLogSpec
<1>1. Init => Abstract!Init
  BY DEF Init, Fresh, Abstract!Init
<1>2. PacketInv /\ [Next]_vars =>
        [Abstract!Next]_<<log.disk, log.sequence, log.file, log.wire, accepted, status>>
  <2> SUFFICES ASSUME PacketInv, [Next]_vars
               PROVE  \/ Abstract!Next
                      \/ UNCHANGED <<log.disk, log.sequence, log.file, log.wire,
                                     accepted, status>>
    OBVIOUS
  <2>1. CASE \/ \E l \in DiskLengths : log_write_disk_only(l)
             \/ \E l \in Lengths : log_write(l)
    BY <2>1, AcceptImplements DEF Abstract!Next
  <2>2. CASE log_timeout \/ logger_final
    BY <2>2, FlushImplements DEF Abstract!Next
  <2>3. CASE Crash
    <3>1. Abstract!Crash
      BY <2>3 DEF Crash, Fresh, Abstract!Crash
    <3> QED
      BY <3>1 DEF Abstract!Next
  <2>4. CASE logger_init
    <3>1. Abstract!Restart
      BY <2>4 DEF logger_init, Fresh, Abstract!Restart
    <3> QED
      BY <3>1 DEF Abstract!Next
  <2>5. CASE UNCHANGED vars
    BY <2>5 DEF vars
  <2> QED
    BY <2>1, <2>2, <2>3, <2>4, <2>5, Zenon DEF Next
<1> QED
  BY <1>1, <1>2, PacketInvariant, PTL DEF Spec, FlightLogSpec, Abstract!Spec
=============================================================================
