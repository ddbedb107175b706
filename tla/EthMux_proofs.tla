----------------------------- MODULE EthMux_proofs -----------------------------
(***************************************************************************)
(* Theorems of EthMux for every set of ports and every counter width.      *)
(***************************************************************************)
EXTENDS EthMux, TLAPS

USE EthMuxAssumption

-----------------------------------------------------------------------------
(* The counter's successor is a sequence number again, at most one higher. *)
LEMMA SuccessorFacts ==
  ASSUME NEW s \in Seqs
  PROVE  Successor(s) \in Seqs /\ Successor(s) <= s + 1
BY DEF Successor, Seqs

LEMMA ZeroIsASeq == 0 \in Seqs
BY DEF Seqs

(* The inductive invariant: what is expected is the successor of the last  *)
(* arrival, and of the last handled number while no SEQE was written.      *)
SequenceInv ==
  /\ next_sequence \in [Ports -> Seqs] /\ nodeSeq \in [Ports -> Seqs]
  /\ prevArrival \in [Ports -> Seqs \cup {None}]
  /\ lastHandled \in [Ports -> Seqs \cup {None}]
  /\ quiet \in [Ports -> BOOLEAN]
  /\ \A d \in inFlight : d.port \in Ports => d.seq \in Seqs /\ d.len \in Nat
  /\ \A p \in Ports :
       /\ next_sequence[p] <= prevArrival[p] + 1
       /\ quiet[p] => next_sequence[p] = (lastHandled[p] + 1) % SeqMod

LEMMA InitSequenceInv == Init => SequenceInv
BY ZeroIsASeq DEF Init, SequenceInv, None, Seqs

(* What the nodes and the network do: nothing the receiver keeps changes.  *)
LEMMA TransmitKeepsSequenceInv ==
  ASSUME SequenceInv, NEW d, Transmit(d),
         d.port \in Ports => d.seq \in Seqs /\ d.len \in Nat,
         nodeSeq' \in [Ports -> Seqs], UNCHANGED <<next_sequence, history>>
  PROVE  SequenceInv'
BY DEF SequenceInv, Transmit, history

(* A datagram of the expected length updates its own port only.            *)
LEMMA WellFormedKeepsSequenceInv ==
  ASSUME SequenceInv, NEW p \in Ports, NEW s \in Seqs, NEW seqe,
         NEW handled \in BOOLEAN,
         WellFormed(p, s, handled, seqe, Successor(s)),
         inFlight' \subseteq inFlight, UNCHANGED nodeSeq
  PROVE  SequenceInv'
<1>1. /\ next_sequence' \in [Ports -> Seqs]
      /\ prevArrival' \in [Ports -> Seqs \cup {None}]
      /\ lastHandled' \in [Ports -> Seqs \cup {None}]
      /\ quiet' \in [Ports -> BOOLEAN]
  BY SuccessorFacts DEF SequenceInv, WellFormed
<1>2. ASSUME NEW q \in Ports
      PROVE  /\ next_sequence'[q] <= prevArrival'[q] + 1
             /\ quiet'[q] => next_sequence'[q] = (lastHandled'[q] + 1) % SeqMod
  <2>1. CASE q = p
    <3>1. next_sequence'[q] = Successor(s) /\ prevArrival'[q] = s
          /\ quiet'[q] = handled /\ (handled => lastHandled'[q] = s)
      BY <2>1 DEF WellFormed, SequenceInv
    <3> QED
      BY <3>1, SuccessorFacts DEF Successor
  <2>2. CASE q # p
    BY <2>2 DEF WellFormed, SequenceInv
  <2> QED
    BY <2>1, <2>2
<1> QED
  BY <1>1, <1>2 DEF SequenceInv

LEMMA MalformedKeepsSequenceInv ==
  ASSUME SequenceInv, NEW p \in Ports, Malformed(p),
         inFlight' \subseteq inFlight, UNCHANGED nodeSeq
  PROVE  SequenceInv'
<1>1. quiet' \in [Ports -> BOOLEAN]
  BY DEF SequenceInv, Malformed
<1>2. \A q \in Ports : quiet'[q] => quiet[q]
  BY DEF SequenceInv, Malformed
<1> QED
  BY <1>1, <1>2 DEF SequenceInv, Malformed

(* demux hands a sequenced port's datagram to sequenced_receive.           *)
LEMMA ReceiveShapes ==
  ASSUME SequenceInv, NEW d \in inFlight, d.port \in Ports, sequenced_receive(d)
  PROVE  \/ ~is_expected_length(d.port, d.len) /\ Malformed(d.port)
         \/ /\ is_expected_length(d.port, d.len)
            /\ WellFormed(d.port, d.seq, d.seq >= next_sequence[d.port],
                          d.seq # next_sequence[d.port], Successor(d.seq))
BY Zenon DEF sequenced_receive

LEMMA DemuxKeepsSequenceInv ==
  ASSUME SequenceInv, NEW d \in inFlight, demux(d)
  PROVE  SequenceInv'
<1>1. inFlight' \subseteq inFlight /\ UNCHANGED nodeSeq
  BY DEF demux
<1>2. CASE d.port \in Ports /\ sequenced_receive(d)
  <2>1. d.seq \in Seqs
    BY <1>2 DEF SequenceInv
  <2>2. (d.seq >= next_sequence[d.port]) \in BOOLEAN
    OBVIOUS
  <2>3. CASE Malformed(d.port)
    BY <1>1, <1>2, <2>3, MalformedKeepsSequenceInv, Zenon
  <2>4. CASE WellFormed(d.port, d.seq, d.seq >= next_sequence[d.port],
                        d.seq # next_sequence[d.port], Successor(d.seq))
    BY <1>1, <1>2, <2>1, <2>2, <2>4, WellFormedKeepsSequenceInv, Zenon
  <2> QED
    BY <1>2, <2>3, <2>4, ReceiveShapes, Zenon
<1>3. CASE UNCHANGED <<next_sequence, history>>
  BY <1>1, <1>3 DEF SequenceInv, history
<1> QED
  BY <1>2, <1>3, Zenon DEF demux

LEMMA SequenceInvariant == Spec => []SequenceInv
<1>1. SequenceInv /\ [Next]_vars => SequenceInv'
  <2> SUFFICES ASSUME SequenceInv, [Next]_vars PROVE SequenceInv'
    OBVIOUS
  <2>1. ASSUME NEW p \in Ports, Send(p) PROVE SequenceInv'
    <3>1. PICK l \in NodeLength[p] :
            Transmit([port |-> p, seq |-> nodeSeq[p], len |-> SeqSize + l])
      BY <2>1, Zenon DEF Send
    <3>2. /\ nodeSeq[p] \in Seqs /\ (nodeSeq[p] + 1) % SeqMod \in Seqs
          /\ SeqSize + l \in Nat
      BY SuccessorFacts DEF SequenceInv, Successor, SeqSize
    <3>3. nodeSeq' \in [Ports -> Seqs]
      BY <2>1, <3>2 DEF SequenceInv, Send
    <3>4. UNCHANGED <<next_sequence, history>>
      BY <2>1 DEF Send
    <3> QED
      BY <3>1, <3>2, <3>3, <3>4, TransmitKeepsSequenceInv
  <2>2. ASSUME NEW p \in Ports, SendRunt(p) PROVE SequenceInv'
    <3>1. PICK l \in {0, SeqSize - 1} :
            Transmit([port |-> p, seq |-> nodeSeq[p], len |-> l])
      BY <2>2, Zenon DEF SendRunt
    <3>2. nodeSeq[p] \in Seqs /\ nodeSeq' \in [Ports -> Seqs] /\ l \in Nat
      BY <2>2 DEF SequenceInv, SendRunt, SeqSize
    <3>3. UNCHANGED <<next_sequence, history>>
      BY <2>2 DEF SendRunt
    <3> QED
      BY <3>1, <3>2, <3>3, TransmitKeepsSequenceInv
  <2>3. ASSUME NEW p \in CommandPorts \cup OtherPorts, SendPlain(p)
        PROVE  SequenceInv'
    <3>1. nodeSeq' \in [Ports -> Seqs] /\ SeqSize \in Nat
      BY <2>3 DEF SequenceInv, SendPlain, SeqSize
    <3>2. Transmit([port |-> p, seq |-> 0, len |-> SeqSize])
          /\ UNCHANGED <<next_sequence, history>>
      BY <2>3 DEF SendPlain
    <3> QED
      BY <3>1, <3>2, ZeroIsASeq, TransmitKeepsSequenceInv
  <2>4. ASSUME NEW p \in Ports, Restart(p) PROVE SequenceInv'
    BY <2>4, ZeroIsASeq DEF Restart, SequenceInv, history
  <2>5. ASSUME NEW d \in inFlight, Lose(d) PROVE SequenceInv'
    BY <2>5 DEF Lose, SequenceInv, history
  <2>6. CASE UNCHANGED vars
    BY <2>6 DEF vars, SequenceInv, history
  <2> QED
    BY <2>1, <2>2, <2>3, <2>4, <2>5, <2>6, DemuxKeepsSequenceInv, Zenon DEF Next
<1> QED
  BY <1>1, InitSequenceInv, PTL DEF Spec

-----------------------------------------------------------------------------
(* What the handlers and the log see.                                      *)

(* Only demux writes out; the nodes and the network clear it.              *)
LEMMA OutShapes ==
  ASSUME Next
  PROVE  out' = Nothing \/ \E d \in inFlight : demux(d)
BY Zenon DEF Next, Send, SendRunt, SendPlain, Restart, Lose

(* A handled message without a SEQE before it continues its stream.        *)
THEOREM GapsAreReported == Spec => GapIsReported
<1>1. SequenceInv /\ [Next]_vars => [GapStep]_vars
  <2> SUFFICES ASSUME SequenceInv, Next, NEW p \in Ports,
                      out'.port = p, out'.handled, ~out'.seqe, quiet[p]
               PROVE  lastHandled'[p] = (lastHandled[p] + 1) % SeqMod
    BY DEF GapStep
  <2>1. out' # Nothing
    BY DEF Nothing
  <2>2. PICK d \in inFlight : demux(d)
    BY <2>1, OutShapes
  <2>3. d.port = p /\ sequenced_receive(d)
    BY <2>1, <2>2 DEF demux, sequenced_receive, Malformed, WellFormed, Report
  <2>4. WellFormed(p, d.seq, d.seq >= next_sequence[p],
                   d.seq # next_sequence[p], Successor(d.seq))
    <3>1. ~Malformed(p)
      BY DEF Malformed, Report
    <3> QED
      BY <2>3, <3>1, ReceiveShapes, Zenon
  <2>5. d.seq = next_sequence[p] /\ d.seq >= next_sequence[p]
    <3>1. out'.seqe = (d.seq # next_sequence[p])
      BY <2>4 DEF WellFormed, Report
    <3>2. d.seq = next_sequence[p]
      BY <3>1, Zenon
    <3> QED
      BY <2>3, <3>2 DEF SequenceInv, Seqs
  <2>6. lastHandled'[p] = d.seq
    BY <2>4, <2>5 DEF WellFormed, SequenceInv
  <2> QED
    BY <2>5, <2>6 DEF SequenceInv
<1> QED
  BY <1>1, SequenceInvariant, PTL DEF Spec, GapIsReported

(* A stream that counts up is handled, whatever came before, for every     *)
(* fixed-size port whose node sends the size demux expects.                *)
THEOREM AdvancesAreHandled ==
  ASSUME \A p \in Ports : DataLength[p] = 0 \/ NodeLength[p] \subseteq {DataLength[p]}
  PROVE  Spec => AdvanceIsHandled
<1>1. SequenceInv /\ [Next]_vars => [AdvanceStep]_vars
  <2> SUFFICES ASSUME SequenceInv, NEW d \in inFlight, d.port \in Ports,
                      d.len - SeqSize \in NodeLength[d.port],
                      d.seq > prevArrival[d.port], demux(d)
               PROVE  out'.handled
    BY Zenon DEF AdvanceStep
  <2>1. sequenced_receive(d)
    <3>1. d.port \notin CommandPorts
      OBVIOUS
    <3>2. ~(readsocketfromts(d) <= 0)
      BY DEF SequenceInv, SeqSize, readsocketfromts
    <3> QED
      BY <3>1, <3>2, Zenon DEF demux
  <2>2. is_expected_length(d.port, d.len)
    BY DEF is_expected_length, SequenceInv, SeqSize
  <2>3. WellFormed(d.port, d.seq, d.seq >= next_sequence[d.port],
                   d.seq # next_sequence[d.port], Successor(d.seq))
    BY <2>1, <2>2, ReceiveShapes, Zenon
  <2>4. d.seq >= next_sequence[d.port]
    BY DEF SequenceInv, Seqs, None
  <2>5. out'.handled = (d.seq >= next_sequence[d.port])
    BY <2>3 DEF WellFormed, Report
  <2> QED
    BY <2>4, <2>5
<1> QED
  BY <1>1, SequenceInvariant, PTL DEF Spec, AdvanceIsHandled

-----------------------------------------------------------------------------
(* What demux reports has the type TypeOK gives it, after every datagram.  *)
LEMMA OutType ==
  ASSUME NEW d, demux(d)
  PROVE  out' \in [port : Ports \cup CommandPorts \cup {None},
                  handled : BOOLEAN, seqe : BOOLEAN]
<1>1. CASE out' = Nothing
  BY <1>1 DEF Nothing
<1>2. CASE d.port \in CommandPorts /\ Report(d.port, TRUE, FALSE)
  BY <1>2 DEF Report
<1>3. CASE d.port \in Ports /\ sequenced_receive(d)
  <2>1. CASE Malformed(d.port)
    BY <1>3, <2>1 DEF Malformed, Report
  <2>2. CASE WellFormed(d.port, d.seq, d.seq >= next_sequence[d.port],
                        d.seq # next_sequence[d.port], Successor(d.seq))
    <3>1. (d.seq >= next_sequence[d.port]) \in BOOLEAN
          /\ (d.seq # next_sequence[d.port]) \in BOOLEAN
      OBVIOUS
    <3>2. out' = [port |-> d.port, handled |-> d.seq >= next_sequence[d.port],
                  seqe |-> d.seq # next_sequence[d.port]]
      BY <2>2, Zenon DEF WellFormed, Report
    <3> QED
      BY <1>3, <3>1, <3>2
  <2> QED
    BY <1>3, <2>1, <2>2, Zenon DEF sequenced_receive
<1> QED
  BY <1>1, <1>2, <1>3, Zenon DEF demux

(* Counters, datagrams in flight, histories and reports keep their types,  *)
(* through restarts and every wrap of a counter.                           *)
THEOREM TypeCorrect == Spec => []TypeOK
<1>1. Init => TypeOK
  BY InitSequenceInv DEF Init, SequenceInv, TypeOK, Nothing
<1>2. SequenceInv' /\ TypeOK /\ [Next]_vars => TypeOK'
  <2> SUFFICES ASSUME SequenceInv', TypeOK, [Next]_vars
               PROVE  out' \in [port : Ports \cup CommandPorts \cup {None},
                               handled : BOOLEAN, seqe : BOOLEAN]
    BY Zenon DEF SequenceInv, TypeOK
  <2>1. CASE UNCHANGED vars
    BY <2>1 DEF vars, TypeOK
  <2>2. CASE out' = Nothing
    BY <2>2 DEF Nothing
  <2> QED
    BY <2>1, <2>2, OutShapes, OutType, Zenon
<1> QED
  BY <1>1, <1>2, SequenceInvariant, PTL DEF Spec
=============================================================================
