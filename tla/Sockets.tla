------------------------------- MODULE Sockets -------------------------------
(***************************************************************************)
(* The descriptors of the flight computer: the socket functions of         *)
(* src/utilities/utils_sockets.c and the init functions that call them, in *)
(* the order of main.miml.  The logger's descriptors are opened first and  *)
(* stay (it exits when it cannot open them), so they are left out.         *)
(***************************************************************************)
EXTENDS Integers

CONSTANTS
  MaxFd,       \* largest descriptor the model's kernel gives out
  Failures     \* the <<module, call>> that may fail at start-up

Fds     == 0 .. MaxFd
Writers == {"ARM", "RC", "RS"}      \* modules that keep a descriptor to write to
Modules == Writers \cup {"ETH", "RNH"}
Calls   == {"socket", "connect"}    \* of ETH, connect stands for bind, setsockopt

ASSUME SocketsAssumption ==
  /\ MaxFd \in Nat
  /\ Failures \subseteq Modules \X Calls

VARIABLES
  open,     \* what each descriptor is connected to
  sd,       \* the static descriptor of each writing module
  polled,   \* the event loop's descriptors with their callbacks
  next      \* the init function that runs next, or "loop"

socketVars == <<open, sd, polled, next>>

Addr == [m \in Writers |-> CASE m = "ARM" -> "ARM_ADDR"
                             [] m = "RC"  -> "RC_SERVO_ENABLE_ADDR"
                             [] m = "RS"  -> "ROLL_ADDR"]
Peers == {"ARM_ADDR", "RC_SERVO_ENABLE_ADDR", "ROLL_ADDR", "RNH_RCI_ADDR"}

SocketsInit ==
  /\ open = [f \in Fds |-> "closed"]
  /\ sd = [m \in Writers |-> 0]       \* zero-initialised statics
  /\ polled = {} /\ next = "ARM"

\* fault: the hub is queried before the listening socket is opened
After_HubFirst(m) == CASE m = "ARM" -> "RC"  [] m = "RC" -> "RS" [] m = "RS" -> "RNH"
                       [] m = "RNH" -> "ETH" [] m = "ETH" -> "loop"

(* The order of the sources in main.miml; STATE opens no socket. *)
After(m) == CASE m = "ARM" -> "RC"  [] m = "RC" -> "RS" [] m = "RS" -> "ETH"
              [] m = "ETH" -> "RNH" [] m = "RNH" -> "loop"

(* The kernel gives out the lowest descriptor that is free. *)
socket(f) ==
  /\ open[f] = "closed"
  /\ \A g \in Fds : g < f => open[g] # "closed"

udp_socket(m, f) ==
  \/ f = -1 /\ <<m, "socket">> \in Failures
  \/ f \in Fds /\ socket(f)

(* A socket that cannot be bound or configured is closed again: -1 stands  *)
(* for both failures.                                                      *)
timestamped_bound_udp_socket(m, f) ==
  \/ f = -1 /\ (\E call \in Calls : <<m, call>> \in Failures) /\ UNCHANGED open
  \/ f \in Fds /\ socket(f) /\ open' = [open EXCEPT ![f] = "unconnected"]

(* arm_init, rollcontrol_init and rollservo_init: after a failed connect   *)
(* the descriptor is closed, and its number kept in sd.                    *)
connected_socket(m) ==
  /\ next = m /\ next' = After(m) /\ UNCHANGED polled
  /\ \E f \in Fds \cup {-1} :
       /\ udp_socket(m, f) /\ sd' = [sd EXCEPT ![m] = f]
       /\ \/ f >= 0 /\ open' = [open EXCEPT ![f] = Addr[m]]
          \/ f >= 0 /\ <<m, "connect">> \in Failures /\ UNCHANGED open
          \/ f < 0 /\ UNCHANGED open

arm_init         == connected_socket("ARM")
rollcontrol_init == connected_socket("RC")
rollservo_init   == connected_socket("RS")

ethmux_init ==
  /\ next = "ETH" /\ next' = After("ETH") /\ UNCHANGED sd
  /\ \E f \in Fds \cup {-1} :
       /\ timestamped_bound_udp_socket("ETH", f)
       /\ polled' = IF f < 0 THEN polled ELSE polled \cup {<<f, "demux">>}

rnh_init ==
  /\ next = "RNH" /\ next' = After("RNH") /\ UNCHANGED sd
  /\ \/ /\ \E call \in Calls : <<"RNH", call>> \in Failures
        /\ UNCHANGED <<open, polled>>
     \/ \E f \in Fds : /\ socket(f)
                       /\ open' = [open EXCEPT ![f] = "RNH_RCI_ADDR"]
                       /\ polled' = polled \cup {<<f, "version_callback">>}

\* fault: the descriptor is closed, and still polled
version_callback_StillPolled ==
  \E f \in Fds : /\ next = "loop" /\ <<f, "version_callback">> \in polled
                 /\ open' = [open EXCEPT ![f] = "closed"]
                 /\ UNCHANGED <<sd, polled, next>>

(* The hub's answer, its hanging up or an error: the query is over. *)
version_callback ==
  \E f \in Fds : /\ next = "loop" /\ <<f, "version_callback">> \in polled
                 /\ polled' = polled \ {<<f, "version_callback">>}
                 /\ open' = [open EXCEPT ![f] = "closed"]
                 /\ UNCHANGED <<sd, next>>

Startup == arm_init \/ rollcontrol_init \/ rollservo_init \/ ethmux_init \/ rnh_init

(* Does the event loop call demux?  Then anything may be written to. *)
Served == next = "loop" /\ \E f \in Fds : <<f, "demux">> \in polled

(* Where a write of module m goes. *)
Written(m) == IF sd[m] \in Fds THEN open[sd[m]] ELSE "closed"
-----------------------------------------------------------------------------
SocketsType ==
  /\ open \in [Fds -> Peers \cup {"closed", "unconnected"}]
  /\ sd \in [Writers -> Fds \cup {-1}]
  /\ polled \subseteq Fds \X {"demux", "version_callback"}
  /\ next \in Modules \cup {"loop"}

(* Every descriptor the loop polls is open, and is the socket its callback *)
(* was registered for: none is closed, or given out again, while polled    *)
(* (rnh.c:20-21, ethmux.c:138-142).                                        *)
CallbackHasItsSocket ==
  \A f \in Fds :
    /\ <<f, "demux">> \in polled => open[f] = "unconnected"
    /\ <<f, "version_callback">> \in polled => open[f] = "RNH_RCI_ADDR"

(* Whatever a handler writes reaches the module's own peer or nobody, also *)
(* when its connect has failed and its number went to another socket: a    *)
(* servo command never lands in the hub's stream, nor an operator's answer *)
(* on the roll board (rollservo.c:16-19).                                  *)
NoStrayWrites ==
  Served => \A m \in Writers : Written(m) \in {Addr[m], "closed", "unconnected"}
=============================================================================
