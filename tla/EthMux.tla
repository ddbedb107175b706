-------------------------------- MODULE EthMux --------------------------------
(***************************************************************************)
(* src/ethmux.c: every datagram the flight computer receives comes in on   *)
(* one socket; demux routes it by its source port, and sequenced_receive   *)
(* checks its sequence number.  The network may lose, duplicate and        *)
(* reorder datagrams, and a sensor node may restart and count from 0.      *)
(***************************************************************************)
EXTENDS Integers, FiniteSets

CONSTANTS
  Ports,        \* source ports with sequence numbers (a demux_type each)
  CommandPorts, \* ARM_PORT, RC_SERVO_ENABLE_PORT: no sequence numbers
  OtherPorts,   \* ports no case of the switch names
  DataLength,   \* data_length of each demux_type; 0 allows any
  NodeLength,   \* the payload sizes the node on each port sends
  SeqMod,       \* 2^32
  UINT16_MAX,
  MaxInFlight   \* bound of the model on the datagrams in the network

SeqSize == 4    \* sizeof(uint32_t)
Seqs    == 0 .. SeqMod - 1
None    == -1

ASSUME EthMuxAssumption ==
  /\ SeqMod \in Nat \ {0} /\ UINT16_MAX \in Nat /\ MaxInFlight \in Nat
  /\ DataLength \in [Ports -> 0 .. UINT16_MAX]
  /\ \A p \in Ports : NodeLength[p] \subseteq 0 .. UINT16_MAX - 2 * SeqSize
  /\ None \notin Ports \cup CommandPorts /\ Ports \cap CommandPorts = {}

VARIABLES
  next_sequence,  \* of each demux_type
  inFlight,       \* datagrams in the network
  nodeSeq,        \* the sequence number each node sends next
  out,            \* what the last call of demux did
  prevArrival,    \* history: last sequence number taken note of, per port
  lastHandled,    \* history: last sequence number given to the handler
  quiet           \* history: no SEQE since then

history == <<prevArrival, lastHandled, quiet>>
vars == <<next_sequence, inFlight, nodeSeq, out, history>>

Nothing == [port |-> None, handled |-> FALSE, seqe |-> FALSE]

Init ==
  /\ next_sequence = [p \in Ports |-> 0]
  /\ inFlight = {}
  /\ nodeSeq = [p \in Ports |-> 0]
  /\ out = Nothing
  /\ prevArrival = [p \in Ports |-> None]
  /\ lastHandled = [p \in Ports |-> None]
  /\ quiet = [p \in Ports |-> TRUE]
-----------------------------------------------------------------------------
(* The nodes and the network.                                              *)

Transmit(d) ==
  /\ Cardinality(inFlight \cup {d}) <= MaxInFlight
  /\ inFlight' = inFlight \cup {d}

(* A node numbers its datagrams consecutively, modulo the counter's width. *)
Send(p) ==
  /\ \E l \in NodeLength[p] :
       Transmit([port |-> p, seq |-> nodeSeq[p], len |-> SeqSize + l])
  /\ nodeSeq' = [nodeSeq EXCEPT ![p] = (@ + 1) % SeqMod]
  /\ out' = Nothing /\ UNCHANGED <<next_sequence, history>>

(* Something else on a node's port: too short a datagram, or an empty one. *)
SendRunt(p) ==
  /\ \E l \in {0, SeqSize - 1} :
       Transmit([port |-> p, seq |-> nodeSeq[p], len |-> l])
  /\ out' = Nothing /\ UNCHANGED <<next_sequence, nodeSeq, history>>

(* An operator's command, or a datagram from a port demux does not know. *)
SendPlain(p) ==
  /\ Transmit([port |-> p, seq |-> 0, len |-> SeqSize])
  /\ out' = Nothing /\ UNCHANGED <<next_sequence, nodeSeq, history>>

Restart(p) ==
  /\ nodeSeq' = [nodeSeq EXCEPT ![p] = 0]
  /\ out' = Nothing /\ UNCHANGED <<next_sequence, inFlight, history>>

Lose(d) ==
  /\ inFlight' = inFlight \ {d}
  /\ out' = Nothing /\ UNCHANGED <<next_sequence, nodeSeq, history>>
-----------------------------------------------------------------------------
is_expected_length(p, len) ==
  \/ DataLength[p] # 0 /\ len = SeqSize + DataLength[p]
  \/ DataLength[p] = 0 /\ len >= SeqSize /\ len <= UINT16_MAX - SeqSize

\* fault: the sum is wider than the counter
Successor_Wide(seq) == seq + 1

Successor(seq) == (seq + 1) % SeqMod

(* What demux lets its environment see: a handler call, a SEQE message. *)
Report(p, handled, seqe) ==
  out' = [port |-> p, handled |-> handled, seqe |-> seqe]

Malformed(p) ==
  /\ Report(p, FALSE, TRUE)
  /\ quiet' = [quiet EXCEPT ![p] = FALSE]
  /\ UNCHANGED <<next_sequence, prevArrival, lastHandled>>

WellFormed(p, seq, handled, seqe, next) ==
  /\ Report(p, handled, seqe)
  /\ next_sequence' = [next_sequence EXCEPT ![p] = next]
  /\ prevArrival' = [prevArrival EXCEPT ![p] = seq]
  /\ lastHandled' = [lastHandled EXCEPT ![p] = IF handled THEN seq ELSE @]
  /\ quiet' = [quiet EXCEPT ![p] = handled]

\* fault: the expected number follows accepted datagrams only
sequenced_receive_Strict(d) ==
  LET p        == d.port
      expected == d.seq = next_sequence[p]
  IN \/ ~is_expected_length(p, d.len) /\ Malformed(p)
     \/ /\ is_expected_length(p, d.len)
        /\ WellFormed(p, d.seq, expected, ~expected,
             IF expected THEN Successor(d.seq) ELSE next_sequence[p])

\* fault: a gap is not reported
sequenced_receive_Silent(d) ==
  LET p       == d.port
      handled == d.seq >= next_sequence[p]
  IN \/ ~is_expected_length(p, d.len) /\ Malformed(p)
     \/ /\ is_expected_length(p, d.len)
        /\ WellFormed(p, d.seq, handled, ~handled, Successor(d.seq))

(* A stale datagram is reported and dropped, one beyond the expected one is*)
(* reported and handled, the expected one just handled.  In each case the  *)
(* next one expected is the one after it.                                  *)
sequenced_receive(d) ==
  LET p       == d.port
      handled == d.seq >= next_sequence[p]
  IN \/ ~is_expected_length(p, d.len) /\ Malformed(p)
     \/ /\ is_expected_length(p, d.len)
        /\ WellFormed(p, d.seq, handled, d.seq # next_sequence[p],
                      Successor(d.seq))

(* An empty datagram looks like a closed connection. *)
readsocketfromts(d) == IF d.len = 0 THEN -1 ELSE d.len

(* The network may deliver the same datagram again later. *)
demux(d) ==
  /\ inFlight' \in {inFlight, inFlight \ {d}}
  /\ UNCHANGED nodeSeq
  /\ \/ readsocketfromts(d) > 0 /\ d.port \in Ports /\ sequenced_receive(d)
     \/ /\ readsocketfromts(d) <= 0 /\ out' = Nothing
        /\ UNCHANGED <<next_sequence, history>>
     \/ /\ readsocketfromts(d) > 0
        /\ d.port \in CommandPorts /\ Report(d.port, TRUE, FALSE)
        /\ UNCHANGED <<next_sequence, history>>
     \/ /\ readsocketfromts(d) > 0
        /\ d.port \in OtherPorts \ (Ports \cup CommandPorts) /\ out' = Nothing
        /\ UNCHANGED <<next_sequence, history>>

Next ==
  \/ \E p \in Ports : Send(p) \/ SendRunt(p) \/ Restart(p)
  \/ \E p \in CommandPorts \cup OtherPorts : SendPlain(p)
  \/ \E d \in inFlight : demux(d) \/ Lose(d)

Spec == Init /\ [][Next]_vars
-----------------------------------------------------------------------------
(* Types of the demux_types' counters, the datagrams and the histories. *)
TypeOK ==
  /\ next_sequence \in [Ports -> Seqs] /\ nodeSeq \in [Ports -> Seqs]
  /\ \A d \in inFlight : d.port \in Ports => d.seq \in Seqs /\ d.len \in Nat
  /\ prevArrival \in [Ports -> Seqs \cup {None}]
  /\ lastHandled \in [Ports -> Seqs \cup {None}]
  /\ quiet \in [Ports -> BOOLEAN]
  /\ out \in [port : Ports \cup CommandPorts \cup {None},
              handled : BOOLEAN, seqe : BOOLEAN]

GapStep ==
  \A p \in Ports :
    out'.port = p /\ out'.handled /\ ~out'.seqe /\ quiet[p]
      => lastHandled'[p] = (lastHandled[p] + 1) % SeqMod

(* A log in which no SEQE lies between two messages of a port has lost and *)
(* repeated nothing between them: a handler is called with the successor of*)
(* the number it was last called with (0 at first), or a SEQE was written  *)
(* since, whatever the network does (ethmux.c:41-63).                      *)
GapIsReported == [][GapStep]_vars

AdvanceStep ==
  \A d \in inFlight :
    /\ d.port \in Ports
    /\ d.len - SeqSize \in NodeLength[d.port]
    /\ d.seq > prevArrival[d.port]
    /\ demux(d)
    => out'.handled

(* A whole datagram that carries a higher number than the one before it is *)
(* always handled: however late the previous ones were, and when a node    *)
(* restarts at 0, at most the step back costs a datagram.                  *)
AdvanceIsHandled == [][AdvanceStep]_vars
=============================================================================
