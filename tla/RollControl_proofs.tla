-------------------------- MODULE RollControl_proofs --------------------------
(***************************************************************************)
(* Theorems of RollControl for every value of its constants.               *)
(***************************************************************************)
EXTENDS RollControl, TLAPS

USE RollControlAssumption

-----------------------------------------------------------------------------
(* Facts about the two arithmetic helpers.                                 *)

(* CLAMP returns a value between its bounds and keeps the side of zero     *)
(* the value was on when the bounds straddle zero (utils.h:5).             *)
LEMMA ClampFacts ==
  ASSUME NEW v \in Int, NEW b \in Nat
  PROVE  /\ CLAMP(v, -b, b) \in -b .. b
         /\ v >= 0 => CLAMP(v, -b, b) >= 0
         /\ v <= 0 => CLAMP(v, -b, b) <= 0
BY DEF CLAMP

(* The fin estimate is an integer on the side of zero of the correction    *)
(* (estimate_alpha, rollcontrol.c:128-169).                                *)
LEMMA EstimateFacts ==
  ASSUME NEW c \in Int, NEW f \in BOOLEAN, NEW a \in estimate_alpha(c, f)
  PROVE  /\ a \in Int
         /\ c >= 0 => a >= 0
         /\ c <= 0 => a <= 0
BY DEF estimate_alpha

-----------------------------------------------------------------------------
(* Type correctness.                                                       *)

(* Every static and every message field keeps its type and clamp bounds.   *)
THEOREM TypeCorrect == Spec => []TypeOK
<1>1. Init => TypeOK
  <2> SUFFICES ASSUME Init PROVE TypeOK
    OBVIOUS
  <2>1. clock \in Nat
    BY DEF Init
  <2>2. 0 \in Angles /\ 0 \in -integrator_max .. integrator_max
    BY DEF Angles
  <2>3. servo \in [angle : Angles, disable : BOOLEAN, at : Nat]
    BY <2>1, <2>2 DEF Init
  <2>4. timeout \in Nat /\ launchClock \in Nat /\ lastError \in Int
    BY <2>1 DEF Init
  <2> QED
    BY <2>1, <2>2, <2>3, <2>4, Zenon DEF Init, TypeOK
<1>2. TypeOK /\ [Next]_vars => TypeOK'
  <2> SUFFICES ASSUME TypeOK, [Next]_vars PROVE TypeOK'
    OBVIOUS
  <2> USE DEF TypeOK
  <2>0. ASSUME NEW d \in Int, enable_servo' \in BOOLEAN, set_canard_angle(d)
        PROVE  servo' \in [angle : Angles, disable : BOOLEAN, at : Nat]
    BY <2>0, ClampFacts DEF set_canard_angle, Angles
  <2>1. ASSUME NEW r \in RollRates, NEW f \in BOOLEAN, rc_receive_state(r, f)
        PROVE  TypeOK'
    <3>1. CASE check_timeout
      <4>1. enable_servo' \in BOOLEAN /\ set_canard_angle(0)
        BY <3>1, Zenon DEF check_timeout, set_servo_enable
      <4>2. servo' \in [angle : Angles, disable : BOOLEAN, at : Nat]
        BY <4>1, <2>0
      <4> QED
        BY <3>1, <4>1, <4>2, Zenon DEF check_timeout, pidVars, umbVars
    <3>2. CASE UNCHANGED vars
      BY <3>2, Zenon DEF vars, pidVars, umbVars
    <3>3. CASE pid_step(r, f)
      <4>1. integrator' \in -integrator_max .. integrator_max /\ lastError' \in Int
        BY <3>3, ClampFacts DEF pid_step
      <4>2. PICK a \in estimate_alpha(Gain * (-r) + integrator, f) :
              set_canard_angle(a)
        BY <3>3 DEF pid_step
      <4>3. a \in Int
        BY <4>2, EstimateFacts
      <4>4. servo' \in [angle : Angles, disable : BOOLEAN, at : Nat]
        BY <3>3, <4>2, <4>3, <2>0 DEF pid_step
      <4> QED
        BY <3>3, <4>1, <4>4 DEF pid_step, umbVars
    <3> QED
      BY <2>1, <3>1, <3>2, <3>3 DEF rc_receive_state
  <2>2. ASSUME NEW d \in BOOLEAN, rc_raw_umb(d)
        PROVE  TypeOK'
    BY <2>2 DEF rc_raw_umb, pidVars, Stamp
  <2>3. ASSUME NEW sig \in {"ARM", "SAFE"}, rc_receive_arm(sig)
        PROVE  TypeOK'
    <3>1. enable_servo' \in BOOLEAN /\ armed' \in BOOLEAN
      BY <2>3, Zenon DEF rc_receive_arm, set_armed, set_servo_enable
    <3>2. UNCHANGED servo \/ set_canard_angle(0)
      BY <2>3, Zenon DEF rc_receive_arm
    <3>3. servo' \in [angle : Angles, disable : BOOLEAN, at : Nat]
      BY <3>1, <3>2, <2>0
    <3> QED
      BY <2>3, <3>1, <3>3, Zenon DEF rc_receive_arm, pidVars, umbVars
  <2>4. ASSUME NEW data \in Datagrams, rc_raw_testrc(data)
        PROVE  TypeOK'
    <3>1. enable_servo' \in BOOLEAN
      BY <2>4, Zenon DEF rc_raw_testrc, set_servo_enable
    <3>2. UNCHANGED servo \/ set_canard_angle(0)
      BY <2>4, Zenon DEF rc_raw_testrc
    <3>3. servo' \in [angle : Angles, disable : BOOLEAN, at : Nat]
      BY <3>1, <3>2, <2>0
    <3> QED
      BY <2>4, <3>1, <3>3, Zenon DEF rc_raw_testrc, pidVars, umbVars
  <2>5. CASE Tick
    BY <2>5 DEF Tick, pidVars, umbVars
  <2>6. CASE UNCHANGED vars
    BY <2>6, Zenon DEF vars, pidVars, umbVars
  <2> QED
    BY <2>1, <2>2, <2>3, <2>4, <2>5, <2>6 DEF Next, StateMessage
<1> QED
  BY <1>1, <1>2, PTL DEF Spec

-----------------------------------------------------------------------------
(* What the roll board is told.                                            *)

(* A message sent while the servos are off disables them, with the angle 0 *)
(* (set_canard_angle(0) on each path that clears enable_servo).            *)
LEMMA DisableMessage ==
  ASSUME enable_servo' = FALSE, set_canard_angle(0)
  PROVE  servo'.disable = TRUE /\ servo'.angle = 0
<1>1. CLAMP(0, -MAX_CANARD_ANGLE, MAX_CANARD_ANGLE) = 0
  BY DEF CLAMP
<1> QED
  BY <1>1 DEF set_canard_angle

(* How each handler treats the servos: it leaves the message alone and does*)
(* not switch them off, or tells the board to disable them, or runs the    *)
(* PID loop with the servos on and the flight timer not expired.           *)
LEMMA StepShapes ==
  ASSUME [Next]_vars
  PROVE  \/ /\ UNCHANGED <<servo, lastError>>
            /\ enable_servo' = enable_servo \/ enable_servo' = TRUE
         \/ /\ enable_servo' = FALSE /\ set_canard_angle(0)
            /\ UNCHANGED <<clock, umbVars>>
         \/ /\ enable_servo /\ ~TimedOut
            /\ \E r \in RollRates, f \in BOOLEAN : pid_step(r, f)
<1>1. ASSUME NEW r \in RollRates, NEW f \in BOOLEAN, rc_receive_state(r, f)
      PROVE  \/ UNCHANGED vars
             \/ /\ enable_servo' = FALSE /\ set_canard_angle(0)
                /\ UNCHANGED <<clock, umbVars>>
             \/ enable_servo /\ ~TimedOut /\ pid_step(r, f)
  BY <1>1, Zenon DEF rc_receive_state, check_timeout, set_servo_enable
<1>2. ASSUME NEW d \in BOOLEAN, rc_raw_umb(d)
      PROVE  UNCHANGED <<servo, lastError, enable_servo>>
  BY <1>2, Zenon DEF rc_raw_umb, pidVars
<1>3. ASSUME NEW sig \in {"ARM", "SAFE"}, rc_receive_arm(sig)
      PROVE  \/ UNCHANGED <<servo, lastError>> /\ enable_servo' = TRUE
             \/ /\ enable_servo' = FALSE /\ set_canard_angle(0)
                /\ UNCHANGED <<clock, umbVars>>
  BY <1>3, Zenon DEF rc_receive_arm, set_armed, set_servo_enable, pidVars
<1>4. ASSUME NEW data \in Datagrams, rc_raw_testrc(data)
      PROVE  \/ /\ UNCHANGED <<servo, lastError>>
                /\ enable_servo' = TRUE \/ enable_servo' = enable_servo
             \/ /\ enable_servo' = FALSE /\ set_canard_angle(0)
                /\ UNCHANGED <<clock, umbVars>>
  BY <1>4, Zenon DEF rc_raw_testrc, set_servo_enable, pidVars
<1>5. Tick => UNCHANGED <<servo, lastError, enable_servo>>
  BY Zenon DEF Tick, pidVars
<1>6. UNCHANGED vars => UNCHANGED <<servo, lastError, enable_servo>>
  BY Zenon DEF vars, pidVars
<1> QED
  BY <1>1, <1>2, <1>3, <1>4, <1>5, <1>6, Zenon DEF Next, StateMessage

(* No path that clears enable_servo forgets to tell the roll board.        *)
THEOREM ServosOffAnnounced == Spec => []DisabledIsTold
<1>1. Init => DisabledIsTold
  BY DEF Init, DisabledIsTold
<1>2. DisabledIsTold /\ [Next]_vars => DisabledIsTold'
  <2> SUFFICES ASSUME DisabledIsTold, [Next]_vars, enable_servo' # TRUE
               PROVE  servo'.disable
    BY Zenon DEF DisabledIsTold
  <2>1. CASE UNCHANGED servo /\ enable_servo' = enable_servo
    BY <2>1, Zenon DEF DisabledIsTold
  <2>2. CASE enable_servo' = FALSE /\ set_canard_angle(0)
    BY <2>2, DisableMessage, Zenon
  <2>3. ASSUME enable_servo, NEW r, NEW f, pid_step(r, f) PROVE FALSE
    BY <2>3, Zenon DEF pid_step
  <2> QED
    BY <2>1, <2>2, <2>3, StepShapes, Zenon
<1> QED
  BY <1>1, <1>2, PTL DEF Spec

(* The message that switches the servos off never carries a deflection.    *)
THEOREM ServosOffCentred == Spec => []DisabledIsCentred
<1>1. Init => DisabledIsCentred
  BY DEF Init, DisabledIsCentred
<1>2. DisabledIsCentred /\ [Next]_vars => DisabledIsCentred'
  <2> SUFFICES ASSUME DisabledIsCentred, [Next]_vars PROVE DisabledIsCentred'
    OBVIOUS
  <2>1. CASE UNCHANGED servo
    BY <2>1, Zenon DEF DisabledIsCentred
  <2>2. CASE enable_servo' = FALSE /\ set_canard_angle(0)
    BY <2>2, DisableMessage, Zenon DEF DisabledIsCentred
  <2>3. ASSUME enable_servo, NEW r, NEW f, pid_step(r, f)
        PROVE  ~servo'.disable
    <3>1. enable_servo' /\ \E a : set_canard_angle(a)
      BY <2>3, Zenon DEF pid_step
    <3>2. servo'.disable = ~enable_servo'
      BY <3>1 DEF set_canard_angle
    <3> QED
      BY <3>1, <3>2, Zenon
  <2> QED
    BY <2>1, <2>2, <2>3, StepShapes, Zenon DEF DisabledIsCentred
<1> QED
  BY <1>1, <1>2, PTL DEF Spec

-----------------------------------------------------------------------------
(* Anti-windup.                                                            *)

(* When the proportional term outweighs the clamped integrator the         *)
(* correction has its sign, and estimate_alpha and CLAMP keep it.          *)
LEMMA PidOpposesRoll ==
  ASSUME TypeOK, NEW r \in RollRates, NEW f \in BOOLEAN, pid_step(r, f)
  PROVE  FinOpposesRoll'
<1> DEFINE P == Gain * (-r)
<1>1. P \in Int /\ integrator \in Int
  BY DEF TypeOK
<1>2. lastError' = -r /\ Gain * lastError' = P
  BY DEF pid_step
<1>3. PICK a \in estimate_alpha(P + integrator, f) : set_canard_angle(a)
  BY DEF pid_step
<1>4. a \in Int /\ servo'.angle = CLAMP(a, -MAX_CANARD_ANGLE, MAX_CANARD_ANGLE)
  BY <1>1, <1>3, EstimateFacts DEF set_canard_angle
<1> HIDE DEF P
<1>5. P >= integrator_max + DeadZone => servo'.angle >= 0
  <2>1. P >= integrator_max + DeadZone => P + integrator >= 0
    BY <1>1 DEF TypeOK
  <2>2. P + integrator >= 0 => a >= 0
    BY <1>1, <1>3, EstimateFacts
  <2> QED
    BY <2>1, <2>2, <1>4, ClampFacts
<1>6. P <= -(integrator_max + DeadZone) => servo'.angle <= 0
  <2>1. P <= -(integrator_max + DeadZone) => P + integrator <= 0
    BY <1>1 DEF TypeOK
  <2>2. P + integrator <= 0 => a <= 0
    BY <1>1, <1>3, EstimateFacts
  <2> QED
    BY <2>1, <2>2, <1>4, ClampFacts
<1> QED
  BY <1>2, <1>5, <1>6 DEF FinOpposesRoll

(* The accumulated errors never make a large roll rate worse.              *)
THEOREM AntiWindup == Spec => []FinOpposesRoll
<1>1. Init => FinOpposesRoll
  BY DEF Init, FinOpposesRoll
<1>2. TypeOK /\ FinOpposesRoll /\ [Next]_vars => FinOpposesRoll'
  <2> SUFFICES ASSUME TypeOK, FinOpposesRoll, [Next]_vars PROVE FinOpposesRoll'
    OBVIOUS
  <2>1. CASE UNCHANGED <<servo, lastError>>
    BY <2>1 DEF FinOpposesRoll
  <2>2. CASE enable_servo' = FALSE /\ set_canard_angle(0)
    BY <2>2, DisableMessage DEF FinOpposesRoll
  <2>3. ASSUME NEW r \in RollRates, NEW f \in BOOLEAN, pid_step(r, f)
        PROVE  FinOpposesRoll'
    BY <2>3, PidOpposesRoll
  <2> QED
    BY <2>1, <2>2, <2>3, StepShapes, Zenon
<1> QED
  BY <1>1, <1>2, TypeCorrect, PTL DEF Spec

-----------------------------------------------------------------------------
(* The flight timer.  The bound holds while the 48-bit timestamp does not  *)
(* wrap; run roll_wrap shows what happens when it does.                    *)

(* The inductive invariant: what the history variables record, and that a  *)
(* running timer was set at the last disconnect.                           *)
TimerInv ==
  /\ clock <= MaxTime /\ launchClock <= clock /\ servo.at <= clock
  /\ launched => timeout = launchClock + TIMEOUT
  /\ NoDriveAfterTimeout

(* Before the wrap the stamp of a datagram is its receive time.            *)
LEMMA StampExact ==
  ASSUME MaxTime < TimeMod, NEW t \in Nat, t <= MaxTime
  PROVE  Stamp(t) = t
BY DEF Stamp

(* The history the timer needs: the clock only moves in Tick, and          *)
(* launched, timeout and launchClock only change in rc_raw_umb.            *)
LEMMA TimerSteps ==
  ASSUME [Next]_vars
  PROVE  \/ clock' = clock /\ UNCHANGED umbVars
         \/ clock < MaxTime /\ clock' = clock + 1 /\ UNCHANGED <<servo, umbVars>>
         \/ \E d \in BOOLEAN : rc_raw_umb(d)
BY Zenon DEF Next, StateMessage, rc_receive_state, check_timeout, pid_step,
     rc_receive_arm, rc_raw_testrc, Tick, vars, umbVars

(* No driving message is sent later than TIMEOUT after the disconnect.     *)
THEOREM FlightTimer ==
  ASSUME MaxTime < TimeMod
  PROVE  Spec => []NoDriveAfterTimeout
<1>1. Init => TimerInv
  BY DEF Init, TimerInv, NoDriveAfterTimeout
<1>2. TypeOK /\ TypeOK' /\ TimerInv /\ [Next]_vars => TimerInv'
  <2> SUFFICES ASSUME TypeOK, TypeOK', TimerInv, [Next]_vars PROVE TimerInv'
    OBVIOUS
  <2>0. Stamp(clock) = clock
    BY StampExact DEF TimerInv, TypeOK
  <2>1. ASSUME NEW d \in BOOLEAN, rc_raw_umb(d) PROVE TimerInv'
    BY <2>0, <2>1 DEF rc_raw_umb, TimerInv, NoDriveAfterTimeout, TypeOK
  <2>2. CASE clock < MaxTime /\ clock' = clock + 1 /\ UNCHANGED <<servo, umbVars>>
    BY <2>2 DEF TimerInv, NoDriveAfterTimeout, umbVars, TypeOK
  <2>3. CASE clock' = clock /\ UNCHANGED umbVars
    <3>1. CASE UNCHANGED servo
      BY <2>3, <3>1 DEF TimerInv, NoDriveAfterTimeout, umbVars, TypeOK
    <3>2. CASE enable_servo' = FALSE /\ set_canard_angle(0)
      <4>1. servo'.at = clock /\ servo'.disable = TRUE
        BY <3>2, DisableMessage DEF set_canard_angle
      <4> QED
        BY <2>3, <4>1 DEF TimerInv, NoDriveAfterTimeout, umbVars, TypeOK
    <3>3. ASSUME enable_servo, ~TimedOut, NEW r, NEW f, pid_step(r, f)
          PROVE  TimerInv'
      <4>1. servo'.at = clock
        BY <3>3 DEF pid_step, set_canard_angle
      <4>2. launched => clock <= launchClock + TIMEOUT
        BY <3>3, <2>0 DEF TimedOut, Overdue, TimerInv, TypeOK
      <4> QED
        BY <2>3, <4>1, <4>2 DEF TimerInv, NoDriveAfterTimeout, umbVars, TypeOK
    <3> QED
      BY <3>1, <3>2, <3>3, StepShapes, Zenon
  <2> QED
    BY <2>1, <2>2, <2>3, TimerSteps, Zenon
<1>3. TimerInv => NoDriveAfterTimeout
  BY DEF TimerInv
<1> QED
  BY <1>1, <1>2, <1>3, TypeCorrect, PTL DEF Spec

-----------------------------------------------------------------------------
(* RollControl implements ServoAuthority.                                  *)

(* Every handler is a step of the authority machine or a stutter: arming   *)
(* is obeyed in every mode, the test commands only when disarmed, and the  *)
(* flight timer never disarms (rollcontrol.c:184-196, 253-292).            *)
THEOREM ImplementsAuthority == Spec => ServoAuthoritySpec
<1> DEFINE A == [Authority!Next]_<<Mode, ~servo.disable, Overdue>>
<1>1. Init => Authority!Init
  <2> SUFFICES ASSUME Init PROVE Authority!Init
    OBVIOUS
  <2>1. ~armed /\ ~enable_servo /\ servo.disable = TRUE /\ launched = FALSE
    BY DEF Init
  <2>2. Mode = "safe" /\ (~servo.disable) = FALSE /\ Overdue = FALSE
    BY <2>1, Zenon DEF Mode, Overdue
  <2> QED
    BY <2>2, Zenon DEF Authority!Init
<1>2. TypeOK /\ [Next]_vars => A
  <2> SUFFICES ASSUME TypeOK, [Next]_vars PROVE A
    OBVIOUS
  <2> USE DEF Authority!Next
  <2>0. UNCHANGED <<clock, umbVars>> => UNCHANGED Overdue
    <3> SUFFICES ASSUME UNCHANGED <<clock, umbVars>> PROVE UNCHANGED Overdue
      OBVIOUS
    <3>1. clock' = clock /\ launched' = launched /\ timeout' = timeout
      BY DEF umbVars
    <3>2. Stamp(clock)' = Stamp(clock)
      BY <3>1 DEF Stamp
    <3> QED
      BY <3>1, <3>2, Zenon DEF Overdue
  <2>1. ASSUME NEW r \in RollRates, NEW f \in BOOLEAN, rc_receive_state(r, f)
        PROVE  A
    <3>1. CASE check_timeout
      <4>1. /\ enable_servo /\ enable_servo' = FALSE /\ armed' = armed
            /\ servo'.disable /\ Overdue /\ UNCHANGED <<clock, umbVars>>
        BY <3>1, DisableMessage, Zenon DEF check_timeout, TimedOut, set_servo_enable
      <4> QED
        BY <2>0, <4>1, Zenon DEF Mode, Authority!Expire
    <3>2. CASE UNCHANGED vars
      BY <3>2, Zenon DEF vars, Mode, Overdue, umbVars
    <3>3. CASE enable_servo /\ ~TimedOut /\ pid_step(r, f)
      <4>1. /\ enable_servo /\ enable_servo' /\ armed' = armed /\ ~Overdue
            /\ UNCHANGED <<clock, umbVars>>
            /\ \E a : set_canard_angle(a)
        BY <3>3, Zenon DEF pid_step, TimedOut
      <4>2. ~servo'.disable
        <5>1. servo'.disable = ~enable_servo'
          BY <4>1 DEF set_canard_angle
        <5> QED
          BY <4>1, <5>1, Zenon
      <4> QED
        BY <2>0, <4>1, <4>2, Zenon DEF Mode, Authority!Drive, TypeOK
    <3> QED
      BY <2>1, <3>1, <3>2, <3>3, Zenon DEF rc_receive_state
  <2>2. ASSUME NEW sig \in {"ARM", "SAFE"}, rc_receive_arm(sig)
        PROVE  A
    <3>0. UNCHANGED Overdue
      BY <2>0, <2>2, Zenon DEF rc_receive_arm
    <3>1. CASE sig = "ARM"
      BY <2>2, <3>0, <3>1, Zenon
      DEF rc_receive_arm, set_armed, set_servo_enable, Mode, Authority!Arm
    <3>2. CASE sig = "SAFE"
      <4>1. armed' = FALSE /\ enable_servo' = FALSE /\ servo'.disable
        BY <2>2, <3>2, DisableMessage DEF rc_receive_arm, set_armed, set_servo_enable
      <4> QED
        BY <3>0, <4>1, Zenon DEF Mode, Authority!Safe
    <3> QED
      BY <2>2, <3>1, <3>2
  <2>3. ASSUME NEW data \in Datagrams, rc_raw_testrc(data)
        PROVE  A
    <3>0. UNCHANGED Overdue
      BY <2>0, <2>3, Zenon DEF rc_raw_testrc
    <3>1. CASE ~armed /\ enable_servo' = TRUE /\ armed' = armed /\ servo' = servo
      BY <3>0, <3>1, Zenon DEF Mode, Authority!BenchOn, TypeOK
    <3>2. CASE ~armed /\ enable_servo' = FALSE /\ armed' = armed
               /\ set_canard_angle(0)
      <4>1. servo'.disable
        BY <3>2, DisableMessage, Zenon
      <4> QED
        BY <3>0, <3>2, <4>1, Zenon DEF Mode, Authority!BenchOff
    <3>3. CASE UNCHANGED <<enable_servo, servo, armed>>
      BY <3>0, <3>3, Zenon DEF Mode
    <3> QED
      BY <2>3, <3>1, <3>2, <3>3, Zenon DEF rc_raw_testrc, set_servo_enable
  <2>4. CASE UNCHANGED <<enable_servo, armed, servo>>
    <3>1. Overdue' \in BOOLEAN
      BY Zenon DEF Overdue
    <3>2. UNCHANGED <<Mode, ~servo.disable>>
      BY <2>4, Zenon DEF Mode
    <3> QED
      BY <3>1, <3>2, Zenon DEF Authority!Flight
  <2>5. ASSUME NEW d \in BOOLEAN, rc_raw_umb(d) PROVE A
    BY <2>4, <2>5, Zenon DEF rc_raw_umb
  <2>6. CASE Tick
    BY <2>4, <2>6, Zenon DEF Tick
  <2>7. CASE UNCHANGED vars
    BY <2>4, <2>7, Zenon DEF vars
  <2> QED
    BY <2>1, <2>2, <2>3, <2>5, <2>6, <2>7, Zenon DEF Next, StateMessage
<1> QED
  BY <1>1, <1>2, TypeCorrect, PTL DEF Spec, ServoAuthoritySpec, Authority!Spec
=============================================================================
