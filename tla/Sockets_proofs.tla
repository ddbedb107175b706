---------------------------- MODULE Sockets_proofs ----------------------------
(***************************************************************************)
(* Lemmas of Sockets for every number of descriptors: what start-up and    *)
(* the hub's query preserve.  FlightComputer_proofs makes theorems of them.*)
(***************************************************************************)
EXTENDS Sockets, TLAPS

USE SocketsAssumption

-----------------------------------------------------------------------------
(* What the two modules that initialise first may assume of the kernel:    *)
(* a loopback address can always be connected to.                          *)
LoopbackConnects == \A m \in {"ARM", "RC"} : <<m, "connect">> \notin Failures

(* A module's descriptor is its own socket, or there is none; only that of *)
(* the servo interface may have been closed, and then it is free until     *)
(* ethmux_init, which takes it or does not listen at all.                  *)
Connected(m) == sd[m] \in Fds => open[sd[m]] = Addr[m]

WritersInv ==
  /\ next # "ARM" => Connected("ARM")
  /\ next \notin {"ARM", "RC"} => Connected("RC")
  /\ next \notin {"ARM", "RC", "RS"} =>
       \/ Connected("RS")
       \/ next = "ETH" /\ sd["RS"] \in Fds /\ socket(sd["RS"])
       \/ sd["RS"] \in Fds /\ open[sd["RS"]] = "unconnected"
       \/ next \in {"RNH", "loop"} /\ \A f \in Fds : <<f, "demux">> \notin polled

PolledInv ==
  /\ next \in {"ARM", "RC", "RS", "ETH"} => polled = {}
  /\ next = "RNH" => \A f \in Fds : <<f, "version_callback">> \notin polled
  /\ CallbackHasItsSocket

SocketsInv == SocketsType /\ PolledInv

LEMMA AddrFacts ==
  /\ Addr["ARM"] = "ARM_ADDR" /\ Addr["RC"] = "RC_SERVO_ENABLE_ADDR"
  /\ Addr["RS"] = "ROLL_ADDR"
BY DEF Addr, Writers

LEMMA AfterFacts ==
  /\ After("ARM") = "RC" /\ After("RC") = "RS" /\ After("RS") = "ETH"
  /\ After("ETH") = "RNH" /\ After("RNH") = "loop"
BY DEF After

-----------------------------------------------------------------------------
(* Each init function, and the end of the hub's query.                     *)

LEMMA InitSocketsInv == SocketsInit => SocketsInv /\ WritersInv
<1> SUFFICES ASSUME SocketsInit PROVE SocketsInv /\ WritersInv
  OBVIOUS
<1>1. SocketsType
  <2>1. 0 \in Fds /\ "ARM" \in Modules
    BY DEF Fds, Modules, Writers
  <2> QED
    BY <2>1 DEF SocketsInit, SocketsType
<1>2. PolledInv
  BY DEF SocketsInit, PolledInv, CallbackHasItsSocket
<1>3. WritersInv
  BY DEF SocketsInit, WritersInv
<1> QED
  BY <1>1, <1>2, <1>3 DEF SocketsInv

(* A module's init takes a free descriptor or none, before anything is     *)
(* polled.                                                                 *)
LEMMA ConnectedSocketSteps ==
  ASSUME SocketsInv, NEW m \in Writers, connected_socket(m)
  PROVE  SocketsInv'
<1>1. polled = {} /\ polled' = {} /\ next' \in {"RC", "RS", "ETH"}
  BY AfterFacts DEF connected_socket, SocketsInv, PolledInv, Writers
<1>2. PICK f \in Fds \cup {-1} :
        /\ sd' = [sd EXCEPT ![m] = f]
        /\ \/ open' = open
           \/ f \in Fds /\ open' = [open EXCEPT ![f] = Addr[m]]
  <2>1. PICK f \in Fds \cup {-1} :
          /\ sd' = [sd EXCEPT ![m] = f]
          /\ \/ f >= 0 /\ open' = [open EXCEPT ![f] = Addr[m]]
             \/ open' = open
    BY Zenon DEF connected_socket
  <2>2. f >= 0 => f \in Fds
    BY DEF Fds
  <2> QED
    BY <2>1, <2>2, Zenon
<1>3. Addr[m] \in Peers
  BY AddrFacts DEF Peers, Writers
<1>4. SocketsType'
  <2>1. next' \in Modules
    BY <1>1 DEF Modules, Writers
  <2> QED
    BY <1>1, <1>2, <1>3, <2>1 DEF SocketsInv, SocketsType
<1> QED
  BY <1>1, <1>4 DEF SocketsInv, PolledInv, CallbackHasItsSocket

LEMMA EthmuxInitSteps ==
  ASSUME SocketsInv, ethmux_init
  PROVE  SocketsInv'
<1>1. polled = {} /\ next = "ETH" /\ next' = "RNH" /\ sd' = sd
  BY AfterFacts DEF ethmux_init, SocketsInv, PolledInv
<1>2. PICK f \in Fds \cup {-1} :
        /\ timestamped_bound_udp_socket("ETH", f)
        /\ polled' = IF f < 0 THEN polled ELSE polled \cup {<<f, "demux">>}
  BY DEF ethmux_init
<1>3. CASE f = -1
  <2>1. open' = open /\ polled' = {}
    BY <1>1, <1>2, <1>3 DEF timestamped_bound_udp_socket, Fds
  <2> QED
    BY <1>1, <2>1 DEF SocketsInv, SocketsType, PolledInv, CallbackHasItsSocket, Modules
<1>4. CASE f \in Fds
  <2>1. open' = [open EXCEPT ![f] = "unconnected"] /\ polled' = {<<f, "demux">>}
    BY <1>1, <1>2, <1>4 DEF timestamped_bound_udp_socket, Fds
  <2> QED
    BY <1>1, <1>4, <2>1 DEF SocketsInv, SocketsType, PolledInv, CallbackHasItsSocket, Modules
<1> QED
  BY <1>3, <1>4

LEMMA RnhInitSteps ==
  ASSUME SocketsInv, rnh_init
  PROVE  SocketsInv'
<1>1. next = "RNH" /\ next' = "loop" /\ sd' = sd
  BY AfterFacts DEF rnh_init
<1>2. CASE UNCHANGED <<open, polled>>
  BY <1>1, <1>2 DEF SocketsInv, SocketsType, PolledInv, CallbackHasItsSocket, Modules
<1>3. ASSUME NEW f \in Fds, socket(f),
             open' = [open EXCEPT ![f] = "RNH_RCI_ADDR"],
             polled' = polled \cup {<<f, "version_callback">>}
      PROVE  SocketsInv'
  <2>1. SocketsType'
    BY <1>1, <1>3 DEF SocketsInv, SocketsType, Modules, Peers
  <2>2. <<f, "demux">> \notin polled
    BY <1>3 DEF SocketsInv, PolledInv, CallbackHasItsSocket, socket
  <2>3. CallbackHasItsSocket'
    BY <1>1, <1>3, <2>2 DEF SocketsInv, SocketsType, PolledInv, CallbackHasItsSocket
  <2> QED
    BY <1>1, <2>1, <2>3 DEF SocketsInv, PolledInv
<1> QED
  BY <1>2, <1>3, Zenon DEF rnh_init

LEMMA VersionCallbackSteps ==
  ASSUME SocketsInv, version_callback
  PROVE  SocketsInv'
<1>1. PICK f \in Fds : /\ next = "loop" /\ <<f, "version_callback">> \in polled
                       /\ polled' = polled \ {<<f, "version_callback">>}
                       /\ open' = [open EXCEPT ![f] = "closed"]
                       /\ UNCHANGED <<sd, next>>
  BY DEF version_callback
<1>2. <<f, "demux">> \notin polled
  BY <1>1 DEF SocketsInv, PolledInv, CallbackHasItsSocket
<1> QED
  BY <1>1, <1>2 DEF SocketsInv, SocketsType, PolledInv, CallbackHasItsSocket

(* No step leaves a polled descriptor closed or with another's socket.     *)
LEMMA SocketsStep ==
  ASSUME SocketsInv, Startup \/ version_callback
  PROVE  SocketsInv'
BY ConnectedSocketSteps, EthmuxInitSteps, RnhInitSteps, VersionCallbackSteps
   DEF Startup, arm_init, rollcontrol_init, rollservo_init, Writers

-----------------------------------------------------------------------------
(* Where the writers' descriptors lead.                                    *)

(* A module's own init: the modules before it keep their sockets, because  *)
(* the kernel gives out free descriptors only.                             *)
LEMMA ConnectedSocketWriters ==
  ASSUME SocketsInv, WritersInv, LoopbackConnects, NEW m \in Writers,
         connected_socket(m)
  PROVE  WritersInv'
<1>1. PICK f \in Fds \cup {-1} :
        /\ udp_socket(m, f) /\ sd' = [sd EXCEPT ![m] = f]
        /\ \/ f >= 0 /\ open' = [open EXCEPT ![f] = Addr[m]]
           \/ f >= 0 /\ <<m, "connect">> \in Failures /\ UNCHANGED open
           \/ f < 0 /\ UNCHANGED open
  BY Zenon DEF connected_socket
<1>2. (f >= 0 <=> f \in Fds) /\ (f < 0 <=> f \notin Fds) /\ -1 \notin Fds
  BY DEF Fds
<1>3. next = m /\ next' = After(m)
  BY DEF connected_socket
<1>4. f \in Fds => socket(f)
  BY <1>1, <1>2, Zenon DEF udp_socket
<1>5. ASSUME NEW w \in Writers, w # m, Connected(w)
      PROVE  Connected(w)'
  <2>1. sd'[w] = sd[w]
    BY <1>1, <1>5 DEF SocketsInv, SocketsType
  <2>2. sd[w] \in Fds => sd[w] # f
    BY <1>4, <1>5, AddrFacts DEF Connected, socket, Writers
  <2> QED
    BY <1>1, <1>5, <2>1, <2>2 DEF Connected, SocketsInv, SocketsType
<1>6. m \in {"ARM", "RC"} => Connected(m)'
  BY <1>1, <1>2 DEF Connected, SocketsInv, SocketsType, LoopbackConnects
<1>7. m = "RS" => Connected(m)' \/ (sd["RS"] \in Fds /\ socket(sd["RS"]))'
  BY <1>1, <1>2, <1>4 DEF Connected, SocketsInv, SocketsType, socket
<1>8. CASE m = "ARM"
  BY <1>3, <1>6, <1>8, AfterFacts DEF WritersInv
<1>9. CASE m = "RC"
  BY <1>3, <1>5, <1>6, <1>9, AfterFacts DEF WritersInv, Writers
<1>10. CASE m = "RS"
  <2>1. next' = "ETH" /\ Connected("ARM")' /\ Connected("RC")'
    BY <1>3, <1>5, <1>10, AfterFacts DEF WritersInv, Writers
  <2> QED
    BY <1>7, <1>10, <2>1 DEF WritersInv
<1> QED
  BY <1>8, <1>9, <1>10 DEF Writers

(* ethmux_init takes the descriptor that a failed connect left free.       *)
LEMMA EthmuxInitWriters ==
  ASSUME SocketsInv, WritersInv, ethmux_init
  PROVE  WritersInv'
<1>1. /\ polled = {} /\ next = "ETH" /\ next' = "RNH" /\ sd' = sd
      /\ Connected("ARM") /\ Connected("RC")
  BY AfterFacts DEF ethmux_init, SocketsInv, PolledInv, WritersInv
<1>2. PICK f \in Fds \cup {-1} :
        /\ timestamped_bound_udp_socket("ETH", f)
        /\ polled' = IF f < 0 THEN polled ELSE polled \cup {<<f, "demux">>}
  BY DEF ethmux_init
<1>3. CASE f = -1
  <2>1. open' = open /\ polled' = {}
    BY <1>1, <1>2, <1>3 DEF timestamped_bound_udp_socket, Fds
  <2> QED
    BY <1>1, <2>1 DEF WritersInv, Connected
<1>4. CASE f \in Fds
  <2>1. open' = [open EXCEPT ![f] = "unconnected"] /\ socket(f)
    BY <1>2, <1>4 DEF timestamped_bound_udp_socket, Fds
  <2>2. ASSUME NEW w \in Writers, Connected(w) PROVE Connected(w)'
    BY <1>1, <2>1, <2>2, AddrFacts
       DEF Connected, socket, Writers, SocketsInv, SocketsType
  <2>3. CASE Connected("RS")
    BY <1>1, <2>2, <2>3 DEF WritersInv, Writers
  <2>4. CASE sd["RS"] \in Fds /\ socket(sd["RS"])
    <3>1. sd["RS"] = f
      BY <1>4, <2>1, <2>4 DEF socket, Fds
    <3> QED
      BY <1>1, <1>4, <2>1, <2>2, <3>1
         DEF WritersInv, Writers, SocketsInv, SocketsType
  <2>5. CASE sd["RS"] \in Fds /\ open[sd["RS"]] = "unconnected"
    BY <1>1, <2>1, <2>2, <2>5 DEF WritersInv, Writers, SocketsInv, SocketsType
  <2> QED
    BY <1>1, <2>3, <2>4, <2>5, Zenon DEF WritersInv
<1> QED
  BY <1>3, <1>4

(* The hub's socket is a new one, and the only one that is closed later.   *)
LEMMA RnhInitWriters ==
  ASSUME SocketsInv, WritersInv, rnh_init
  PROVE  WritersInv'
<1>1. /\ next = "RNH" /\ next' = "loop" /\ sd' = sd
      /\ Connected("ARM") /\ Connected("RC")
  BY AfterFacts DEF rnh_init, WritersInv
<1>2. CASE UNCHANGED <<open, polled>>
  BY <1>1, <1>2 DEF WritersInv, Connected
<1>3. ASSUME NEW f \in Fds, socket(f),
             open' = [open EXCEPT ![f] = "RNH_RCI_ADDR"],
             polled' = polled \cup {<<f, "version_callback">>}
      PROVE  WritersInv'
  <2>1. ASSUME NEW w \in Writers, Connected(w) PROVE Connected(w)'
    BY <1>1, <1>3, <2>1, AddrFacts
       DEF Connected, socket, Writers, SocketsInv, SocketsType
  <2>2. sd["RS"] \in Fds /\ open[sd["RS"]] = "unconnected"
          => open'[sd["RS"]] = "unconnected"
    BY <1>3 DEF socket, SocketsInv, SocketsType
  <2>3. ASSUME \A g \in Fds : <<g, "demux">> \notin polled
        PROVE  \A g \in Fds : <<g, "demux">> \notin polled'
    BY <1>3, <2>3
  <2> QED
    BY <1>1, <2>1, <2>2, <2>3 DEF WritersInv, Writers
<1> QED
  BY <1>2, <1>3, Zenon DEF rnh_init

LEMMA VersionCallbackWriters ==
  ASSUME SocketsInv, WritersInv, version_callback
  PROVE  WritersInv'
<1>1. PICK f \in Fds : /\ next = "loop" /\ <<f, "version_callback">> \in polled
                       /\ polled' = polled \ {<<f, "version_callback">>}
                       /\ open' = [open EXCEPT ![f] = "closed"]
                       /\ UNCHANGED <<sd, next>>
  BY DEF version_callback
<1>2. open[f] = "RNH_RCI_ADDR" /\ Connected("ARM") /\ Connected("RC")
  BY <1>1 DEF SocketsInv, PolledInv, CallbackHasItsSocket, WritersInv
<1>3. ASSUME NEW w \in Writers, Connected(w) PROVE Connected(w)'
  BY <1>1, <1>2, <1>3, AddrFacts
     DEF Connected, Writers, SocketsInv, SocketsType
<1>4. sd["RS"] \in Fds /\ open[sd["RS"]] = "unconnected"
        => open'[sd["RS"]] = "unconnected"
  BY <1>1, <1>2 DEF SocketsInv, SocketsType
<1>5. ASSUME \A g \in Fds : <<g, "demux">> \notin polled
      PROVE  \A g \in Fds : <<g, "demux">> \notin polled'
  BY <1>1, <1>5
<1> QED
  BY <1>1, <1>2, <1>3, <1>4, <1>5 DEF WritersInv, Writers

LEMMA WritersStep ==
  ASSUME SocketsInv, WritersInv, LoopbackConnects, Startup \/ version_callback
  PROVE  WritersInv'
BY ConnectedSocketWriters, EthmuxInitWriters, RnhInitWriters, VersionCallbackWriters
   DEF Startup, arm_init, rollcontrol_init, rollservo_init, Writers

(* When datagrams are served each descriptor has its peer or none.         *)
LEMMA WritersInvSuffices ==
  ASSUME SocketsInv, WritersInv
  PROVE  NoStrayWrites
<1> SUFFICES ASSUME Served, NEW m \in Writers
             PROVE  Written(m) \in {Addr[m], "closed", "unconnected"}
  BY DEF NoStrayWrites
<1>1. next = "loop" /\ \E f \in Fds : <<f, "demux">> \in polled
  BY DEF Served
<1>2. Connected(m) \/ (sd[m] \in Fds /\ open[sd[m]] = "unconnected")
  BY <1>1 DEF WritersInv, Writers
<1> QED
  BY <1>2 DEF Connected, Written
=============================================================================
