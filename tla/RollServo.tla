------------------------------ MODULE RollServo ------------------------------
(***************************************************************************)
(* src/devices/rollservo.c: a canard angle becomes PWM ticks, and a        *)
(* numbered datagram that is sent once and not acknowledged.  The roll     *)
(* board and the way to it are external: a datagram arrives or does not.   *)
(***************************************************************************)
EXTENDS Integers

CONSTANTS
  MIN_SERVO_POSITION_TICKS, MAX_SERVO_POSITION_TICKS,   \* 18481, 31923
  MAX_CANARD_ANGLE,                                     \* = -MIN_CANARD_ANGLE
  SeqMod,        \* 2^32
  MaxMissed      \* bound of the model on the count of datagrams missed

ASSUME RollServoAssumption ==
  /\ MIN_SERVO_POSITION_TICKS \in Nat /\ MAX_SERVO_POSITION_TICKS \in Nat
  /\ MIN_SERVO_POSITION_TICKS <= MAX_SERVO_POSITION_TICKS
  /\ MAX_SERVO_POSITION_TICKS < 2^16         \* ticks is a uint16_t
  /\ MAX_CANARD_ANGLE \in Nat \ {0}
  /\ SeqMod \in Nat \ {0} /\ MaxMissed \in Nat \ {0}

VARIABLES
  seq,      \* rollservo.c:40
  board,    \* the last datagram of this run that reached the roll board, if any
  missed    \* history: datagrams since that one, up to MaxMissed

servoVars == <<seq, board, missed>>

Angles == -MAX_CANARD_ANGLE .. MAX_CANARD_ANGLE
Ticks  == MIN_SERVO_POSITION_TICKS .. MAX_SERVO_POSITION_TICKS

(* Slope and intercept are those of the line through the two end points;   *)
(* the conversion to an integer truncates.                                 *)
PWM(angle) ==
  MIN_SERVO_POSITION_TICKS
  + ((MAX_SERVO_POSITION_TICKS - MIN_SERVO_POSITION_TICKS)
       * (angle + MAX_CANARD_ANGLE)) \div (2 * MAX_CANARD_ANGLE)

PWM_TICKS_CENTER == PWM(0)

CLAMP(value, lower, upper) ==
  IF value < lower THEN lower ELSE IF value > upper THEN upper ELSE value

(* A double lies in memory in the order of the host, or in the other one   *)
(* after bswap64.  Read in the wrong order it may be any number, of which  *)
(* the conversion to uint16_t makes any ticks.                             *)
Double(angle) == [order |-> "host", value |-> angle]
bswap64(d)    == [d EXCEPT !.order = IF @ = "host" THEN "net" ELSE "host"]
ticks(d) ==
  IF d.order # "host" THEN Ticks
  ELSE {CLAMP(PWM(d.value), MIN_SERVO_POSITION_TICKS, MAX_SERVO_POSITION_TICKS)}

(* rollservo_init sends nothing: until a datagram of this run arrives, the *)
(* roll board does whatever an earlier run or its own power-up left it at, *)
(* and may be driving the servos.                                          *)
RollServoInit == seq = 0 /\ missed = 0 /\ board = {}

(* write fails, or the datagram is lost: nobody finds out. *)
Lost == /\ missed' = IF missed < MaxMissed THEN missed + 1 ELSE missed
        /\ UNCHANGED board

Arrives(data) == board' = {data} /\ missed' = 0

\* fault: only a datagram that was written is counted
rs_receive_adj_Uncounted(adj, wired) ==
  \/ /\ wired /\ seq' = (seq + 1) % SeqMod
     /\ \E t \in ticks(adj.angle) :
          Arrives([seq |-> seq, ticks |-> t, disable |-> adj.disable])
  \/ Lost /\ UNCHANGED seq

\* fault: the counter is wider than its field
rs_receive_adj_Wide(adj, wired) ==
  /\ seq' = seq + 1
  /\ \/ /\ wired
        /\ \E t \in ticks(adj.angle) :
             Arrives([seq |-> seq, ticks |-> t, disable |-> adj.disable])
     \/ Lost

(* wired: does the descriptor lead to the roll board? *)
rs_receive_adj(adj, wired) ==
  /\ seq' = (seq + 1) % SeqMod
  /\ \/ /\ wired
        /\ \E t \in ticks(adj.angle) :
             Arrives([seq |-> seq, ticks |-> t, disable |-> adj.disable])
     \/ Lost

-----------------------------------------------------------------------------
RollServoType ==
  /\ seq \in 0 .. SeqMod - 1 /\ missed \in 0 .. MaxMissed
  /\ \/ board = {}
     \/ \E b \in [seq : 0 .. SeqMod - 1, ticks : Ticks, disable : BOOLEAN] :
          board = {b}

(* The number of a datagram tells the roll board how many it has missed,   *)
(* since the last that arrived or since this run began: seq counts the     *)
(* commands, also those whose write failed (rollservo.c:60).               *)
LossIsNumbered ==
  missed < MaxMissed =>
    /\ board = {} => missed % SeqMod = seq
    /\ \A b \in board : (b.seq + 1 + missed) % SeqMod = seq
=============================================================================
