----------------------------- MODULE VenusFrames -----------------------------
(***************************************************************************)
(* src/devices/gps.c: the frames of the COTS GPS receiver arrive as a byte *)
(* stream cut into datagrams anywhere, with bytes missing where a datagram *)
(* was lost.  cots_raw_in collects them and send_venus_messages finds the  *)
(* frames.  One iteration of its loop is one action; nothing else runs     *)
(* until the loop ends.  Offsets count from 0 as in the code.              *)
(***************************************************************************)
EXTENDS Integers, Sequences, FiniteSets, FiniteSetsExt

CONSTANTS
  BufSize,    \* sizeof buf: 512
  Chunks,     \* the data_lengths of datagrams: the COTS port admits any
  Streams     \* what may arrive on the COTS port, datagrams joined

Byte == 0 .. 255
UInt16 == 0 .. 65535

ASSUME VenusFramesAssumption ==
  /\ BufSize \in Nat \ {0} /\ Chunks \subseteq Nat
  /\ Streams \subseteq Seq(Byte)

VARIABLES
  buf,        \* the cur - buf bytes of memory from buf on
  frame,      \* offset of the loop's pointer in buf
  scanning,   \* is the loop of send_venus_messages running?
  sent,       \* the calls of gps_data_out
  stream,     \* what arrives in this behaviour
  pos,        \* how much of it has arrived
  base        \* history: offset in stream of the first byte since an overrun

vars == <<buf, frame, scanning, sent, stream, pos, base>>

(* The XOR of the bytes of a sequence: each bit of it is a parity. *)
chexxor(data) ==
  LET Odd(i) == Cardinality({k \in DOMAIN data : (data[k] \div 2^i) % 2 = 1}) % 2
  IN MapThenSumSet(LAMBDA i : 2^i * Odd(i), 0 .. 7)

(* The len bytes of data from an offset. *)
Bytes(data, offset, len) == [k \in 1 .. len |-> data[offset + k]]

(* A frame: A0 A1, a big-endian length, that many bytes of ID and body,    *)
(* their checksum, CR LF.                                                  *)
Overhead == 7
MaxPacket == BufSize \div 2
packet_len(data, f) == 256 * data[f + 3] + data[f + 4]
Trailer(data, f) ==
  LET end == f + 5 + packet_len(data, f)
  IN data[end + 1] = 13 /\ data[end + 2] = 10
Checksum(data, f) ==
  LET len == packet_len(data, f)
  IN chexxor(Bytes(data, f + 4, len)) = data[f + 4 + len + 1]

-----------------------------------------------------------------------------
Init ==
  /\ buf = <<>> /\ frame = 0 /\ scanning = FALSE /\ sent = {}
  /\ stream \in Streams /\ pos = 0 /\ base = 0

\* fault: only a full buffer is taken for an overrun
cots_raw_in_Late(data_length) ==
  LET overrun == Len(buf) >= BufSize
  IN /\ ~scanning /\ pos + data_length <= Len(stream)
     /\ buf' = (IF overrun THEN <<>> ELSE buf) \o Bytes(stream, pos, data_length)
     /\ base' = IF overrun THEN pos ELSE base
     /\ pos' = pos + data_length
     /\ frame' = 0 /\ scanning' = TRUE
     /\ UNCHANGED <<sent, stream>>

cots_raw_in(data_length) ==
  LET overrun == Len(buf) + data_length >= BufSize
  IN /\ ~scanning /\ pos + data_length <= Len(stream)
     /\ buf' = (IF overrun THEN <<>> ELSE buf) \o Bytes(stream, pos, data_length)
     /\ base' = IF overrun THEN pos ELSE base
     /\ pos' = pos + data_length
     /\ frame' = 0 /\ scanning' = TRUE
     /\ UNCHANGED <<sent, stream>>

(* A datagram longer than all of buf passes the test too: cur is set back  *)
(* and the copy runs past the end of buf (one of BufSize bytes just fills  *)
(* it).  What the program does from then on is undefined: no step of it is *)
(* modelled, and nothing is claimed of it.                                 *)
Spilled == Len(buf) > BufSize

(* The next A0 at or after frame. *)
Candidate(f) ==
  /\ f \in frame .. Len(buf) - 1 /\ buf[f + 1] = 160
  /\ \A k \in frame .. f - 1 : buf[k + 1] # 160

(* The loop ends, and what lies from offset f on is kept. *)
Keep(f) ==
  /\ buf' = Bytes(buf, f, Len(buf) - f)
  /\ frame' = 0 /\ scanning' = FALSE
  /\ UNCHANGED <<sent, stream, pos, base>>

(* Nothing, or nothing that could be a frame, is left. *)
Exhausted ==
  /\ scanning /\ \A k \in frame .. Len(buf) - 1 : buf[k + 1] # 160
  /\ Keep(Len(buf))

\* fault: the sanity check admits any length the buffer could hold
Header_Lax(f) ==
  /\ f + Overhead <= Len(buf)
  /\ buf[f + 2] = 161 /\ packet_len(buf, f) <= BufSize

Header(f) ==
  /\ f + Overhead <= Len(buf)
  /\ buf[f + 2] = 161 /\ packet_len(buf, f) <= MaxPacket

Whole(f) == Header(f) /\ f + Overhead + packet_len(buf, f) <= Len(buf)

\* fault: the trailer is not looked at
Valid_NoTrailer(f) == Whole(f) /\ Checksum(buf, f)

Valid(f) == Whole(f) /\ Trailer(buf, f) /\ Checksum(buf, f)

\* fault: what is waited for is taken from the next datagram alone
WaitForMore_Drop(f) ==
  /\ scanning /\ Candidate(f)
  /\ f + Overhead > Len(buf) \/ (Header(f) /\ ~Whole(f))
  /\ Keep(Len(buf))

WaitForMore(f) ==
  /\ scanning /\ Candidate(f)
  /\ f + Overhead > Len(buf) \/ (Header(f) /\ ~Whole(f))
  /\ Keep(f)

Continue(next) ==
  /\ frame' = next
  /\ UNCHANGED <<buf, scanning, stream, pos, base>>

\* fault: all that the header announces is skipped
Skip_All(f) ==
  /\ scanning /\ Candidate(f) /\ f + Overhead <= Len(buf)
  /\ \/ buf[f + 2] # 161 /\ Continue(f + 1)
     \/ buf[f + 2] = 161 /\ ~Header(f) /\ Continue(f + 2)
     \/ Whole(f) /\ ~Valid(f) /\ Continue(f + packet_len(buf, f) + Overhead)
  /\ UNCHANGED sent

\* fault: the pointer does not move on
Skip_Stuck(f) ==
  /\ scanning /\ Candidate(f) /\ f + Overhead <= Len(buf)
  /\ \/ buf[f + 2] # 161 /\ Continue(f)
     \/ buf[f + 2] = 161 /\ ~Header(f) /\ Continue(f + 2)
     \/ Whole(f) /\ ~Valid(f) /\ Continue(f + 2)
  /\ UNCHANGED sent

(* Not a frame: its A0, or its A0 A1, is skipped. *)
Skip(f) ==
  /\ scanning /\ Candidate(f) /\ f + Overhead <= Len(buf)
  /\ \/ buf[f + 2] # 161 /\ Continue(f + 1)
     \/ buf[f + 2] = 161 /\ ~Header(f) /\ Continue(f + 2)
     \/ Whole(f) /\ ~Valid(f) /\ Continue(f + 2)
  /\ UNCHANGED sent

(* Offset in stream of the byte at offset 0 of buf. *)
Origin == pos - Len(buf)

(* The ID, the body's length in 16 bits, and where the frame lay. *)
gps_data_out(f) ==
  /\ scanning /\ Candidate(f) /\ Valid(f)
  /\ sent' = sent \cup {[at   |-> Origin + f, ID |-> buf[f + 5],
                         data_length |-> (packet_len(buf, f) - 1) % 65536,
                         next |-> Origin + f + packet_len(buf, f) + Overhead]}
  /\ Continue(f + packet_len(buf, f) + Overhead)

send_venus_messages ==
  /\ ~Spilled
  /\ \/ Exhausted
     \/ \E f \in frame .. Len(buf) - 1 :
          WaitForMore(f) \/ Skip(f) \/ gps_data_out(f)

Next ==
  \/ \E n \in Chunks : cots_raw_in(n)
  \/ send_venus_messages

Spec == Init /\ [][Next]_vars

(* The handler runs to completion. *)
FairSpec == Spec /\ WF_vars(send_venus_messages)
-----------------------------------------------------------------------------
Messages == [at : Nat, ID : Byte, data_length : UInt16, next : Nat]

(* Types of gps.c's statics; the pointer never leaves what has been        *)
(* received.  What is left over and what comes never add up to a full      *)
(* buffer: it is filled, or written past, only by one datagram that alone  *)
(* is that long (gps.c:122).                                               *)
TypeOK ==
  /\ buf \in Seq(Byte) /\ (Len(buf) < BufSize \/ Len(buf) \in Chunks)
  /\ frame \in 0 .. Len(buf) /\ scanning \in BOOLEAN
  /\ stream \in Seq(Byte) /\ pos \in 0 .. Len(stream) /\ base \in 0 .. pos
  /\ sent \subseteq Messages

(* A frame in the sense of the comment of send_venus_messages (gps.c:40-43)*)
(* that lies in the received stream at offset i.                           *)
FrameAt(i) ==
  /\ i + Overhead <= Len(stream)
  /\ stream[i + 1] = 160 /\ stream[i + 2] = 161
  /\ packet_len(stream, i) <= MaxPacket
  /\ i + Overhead + packet_len(stream, i) <= Len(stream)
  /\ Trailer(stream, i) /\ Checksum(stream, i)

(* Whatever was reported is a frame of the stream, with its ID, wherever   *)
(* the stream was cut into datagrams; and no two reported frames overlap.  *)
FramesAreGenuine ==
  /\ \A m \in sent :
       /\ FrameAt(m.at) /\ m.ID = stream[m.at + 5]
       /\ m.next = m.at + Overhead + packet_len(stream, m.at)
  /\ \A m, n \in sent : m = n \/ m.next <= n.at \/ n.next <= m.at

(* No frame is missed: each frame of the stream that the parser has passed *)
(* was reported, or began inside one that was.  Noise, false headers and   *)
(* frames cut short by a lost datagram cost nothing but themselves.        *)
NoneIsMissed ==
  \A i \in base .. Origin + frame - 1 :
    FrameAt(i) => \E m \in sent : m.at <= i /\ i < m.next

(* What a reader of the uncut stream finds between two offsets: of the     *)
(* frames that begin there, those that begin in none it found before.      *)
FrameEnd(i) == i + Overhead + packet_len(stream, i)
FramesIn(b, e) == {i \in b .. e - 1 : FrameAt(i)}
IsReading(S, b, e) ==
  \A i \in FramesIn(b, e) : i \in S <=> \A j \in S : j < i => FrameEnd(j) <= i
Reading(b, e) == CHOOSE S \in SUBSET FramesIn(b, e) : IsReading(S, b, e)

(* The datagrams' boundaries do not matter: what has been reported since   *)
(* an overrun is what one pass over the bytes received since would find,   *)
(* however often the loop stopped to wait for more (gps.c:69, 88, 113).    *)
CutsDoNotMatter ==
  {m.at : m \in {n \in sent : n.at >= base}} = Reading(base, Origin + frame)

(* What waits for more data is less than one frame, so that a datagram of  *)
(* up to BufSize - MaxPacket - Overhead bytes never overruns buf (gps.c:28,*)
(* "at least 2x longer than longest GPS message").                         *)
ResidueFits == ~scanning => Len(buf) < MaxPacket + Overhead

(* The loop ends, whatever bytes arrive, unless they do not fit buf. *)
ScanEnds == scanning ~> (~scanning \/ Spilled)

(* gps.c:42: "The packet consists of an ID byte and data", and gps.c:40    *)
(* promises to emit only valid messages: the data passed on lies between   *)
(* the ID and the checksum of its frame.                                   *)
DataIsInFrame == \A m \in sent : m.at + 5 + m.data_length < m.next
=============================================================================
