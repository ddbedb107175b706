----------------------------- MODULE RollControl -----------------------------
(***************************************************************************)
(* src/rollcontrol.c: the roll controller.  Every handler runs to          *)
(* completion inside the single-threaded event loop, so each is one        *)
(* action.  Degrees are whole quanta; PID quantities are in units of Ki    *)
(* (error * Kp/Ki + integrator), which makes them integers.                *)
(***************************************************************************)
EXTENDS Integers

CONSTANTS
  Gain,              \* Kp / Ki
  DeadZone,          \* 1 / Ki: corrections below 1 are ignored
  integrator_max,    \* 100 / Ki
  RollRates,         \* the roll rates a VSTE message may carry
  AlphaMax,          \* bound of the model on the fin-fit result, in degrees
  MAX_CANARD_ANGLE,  \* = -MIN_CANARD_ANGLE
  TIMEOUT,           \* two minutes
  TimeMod,           \* 2^48: a PSAS timestamp has six bytes
  StartTimes,        \* phases of the 48-bit timestamp at start-up
  MaxTime            \* bound of the model on the clock

ASSUME RollControlAssumption ==
  /\ Gain \in Nat /\ integrator_max \in Nat /\ MaxTime \in Nat
  /\ DeadZone \in Nat \ {0} /\ AlphaMax \in Nat \ {0}
  /\ MAX_CANARD_ANGLE \in Nat /\ TIMEOUT \in Nat /\ TimeMod \in Nat \ {0}
  /\ RollRates \subseteq Int /\ StartTimes \subseteq 0 .. MaxTime

VARIABLES
  enable_servo, armed,     \* rollcontrol.c:55-56
  launched, timeout,       \* rollcontrol.c:60-61
  lastError, integrator,   \* rollcontrol.c:29-30
  servo,                   \* the last ROLL message handed to rc_send_servo
  clock,                   \* true time: receive time of the next datagram
  launchClock              \* history: clock of the last umbilical disconnect

pidVars == <<lastError, integrator>>
umbVars == <<launched, timeout, launchClock>>
vars == <<enable_servo, armed, servo, clock, pidVars, umbVars>>

(* to_psas_time keeps the low six bytes of the nanosecond count. *)
Stamp(t) == t % TimeMod

\* fault: only the lower bound is enforced
CLAMP_LowerOnly(value, lower, upper) == IF value < lower THEN lower ELSE value

CLAMP(value, lower, upper) ==
  IF value < lower THEN lower ELSE IF value > upper THEN upper ELSE value

set_servo_enable(enable) == enable_servo' = enable
set_armed(arm) == armed' = arm /\ set_servo_enable(arm)

(* The message carries the enable flag as the handler has left it. *)
set_canard_angle(degrees) ==
  servo' = [angle   |-> CLAMP(degrees, -MAX_CANARD_ANGLE, MAX_CANARD_ANGLE),
            disable |-> ~enable_servo',
            at      |-> clock]

(* The fin fit is a positive magnitude with the sign of the correction, or *)
(* nothing when the correction is small or the rocket is not flying.       *)
estimate_alpha(set_aa, flying) ==
  IF ~flying \/ (-DeadZone < set_aa /\ set_aa < DeadZone) THEN {0}
  ELSE IF set_aa < 0 THEN -AlphaMax .. 0 ELSE 0 .. AlphaMax

-----------------------------------------------------------------------------
(* rollcontrol_init, and the zero-initialised statics.  It tells the board *)
(* nothing; servo then stands for that, and what the board does is unknown *)
(* (see RollServo).                                                        *)
Init ==
  /\ enable_servo = FALSE /\ armed = FALSE
  /\ launched = FALSE /\ timeout = 0
  /\ lastError = 0 /\ integrator = 0
  /\ clock \in StartTimes /\ launchClock = clock
  /\ servo = [angle |-> 0, disable |-> TRUE, at |-> clock]

\* fault: every RNHU message of a flying rocket restarts the timer
rc_raw_umb_Restarting(detect) ==
  /\ timeout' = IF ~detect THEN Stamp(clock) + TIMEOUT ELSE timeout
  /\ launchClock' = IF ~launched /\ ~detect THEN clock ELSE launchClock
  /\ launched' = ~detect
  /\ UNCHANGED <<enable_servo, armed, servo, clock, pidVars>>

rc_raw_umb(detect) ==
  LET disconnected == ~launched /\ ~detect
  IN /\ timeout' = IF disconnected THEN Stamp(clock) + TIMEOUT ELSE timeout
     /\ launchClock' = IF disconnected THEN clock ELSE launchClock
     /\ launched' = ~detect
     /\ UNCHANGED <<enable_servo, armed, servo, clock, pidVars>>

Overdue  == launched /\ Stamp(clock) > timeout
TimedOut == Overdue /\ enable_servo

\* fault: the servos are switched off, but the roll board is not told
check_timeout_Unannounced ==
  /\ TimedOut
  /\ set_servo_enable(FALSE)
  /\ UNCHANGED <<armed, servo, clock, pidVars, umbVars>>

(* The call of check_timeout at the head of rc_receive_state when it fires;*)
(* it clears enable_servo, so rc_receive_state then returns.               *)
check_timeout ==
  /\ TimedOut
  /\ set_servo_enable(FALSE)
  /\ set_canard_angle(0)
  /\ UNCHANGED <<armed, clock, pidVars, umbVars>>

\* fault: the integrator is not clamped
pid_step_Windup(roll_rate, flying) ==
  /\ lastError' = -roll_rate
  /\ integrator' = integrator - roll_rate
  /\ UNCHANGED <<enable_servo, armed, clock, umbVars>>
  /\ \E output \in estimate_alpha(integrator - Gain * roll_rate, flying) :
       set_canard_angle(output)

pid_step(roll_rate, flying) ==
  LET error      == -roll_rate      \* pidTarget is 0, Kd is 0
      correction == Gain * error + integrator
  IN /\ lastError' = error
     /\ integrator' =
          CLAMP(integrator + error, -integrator_max, integrator_max)
     /\ UNCHANGED <<enable_servo, armed, clock, umbVars>>
     /\ \E output \in estimate_alpha(correction, flying) :
          set_canard_angle(output)

\* fault: enable_servo is not tested again after check_timeout
rc_receive_state_Unguarded(roll_rate, flying) ==
  \/ check_timeout
  \/ ~TimedOut /\ pid_step(roll_rate, flying)

\* fault: check_timeout is not called
rc_receive_state_NoTimer(roll_rate, flying) ==
  \/ ~enable_servo /\ UNCHANGED vars
  \/ enable_servo /\ pid_step(roll_rate, flying)

rc_receive_state(roll_rate, flying) ==
  \/ check_timeout
  \/ ~TimedOut /\ ~enable_servo /\ UNCHANGED vars
  \/ ~TimedOut /\ enable_servo /\ pid_step(roll_rate, flying)

rc_receive_arm(signal) ==
  /\ \/ signal = "ARM"  /\ set_armed(TRUE)  /\ UNCHANGED servo
     \/ signal = "SAFE" /\ set_armed(FALSE) /\ set_canard_angle(0)
  /\ UNCHANGED <<clock, pidVars, umbVars>>

(* A test datagram is the set of command words it compares equal to. *)
Datagrams == {{"ENABLE"}, {"DISABLE"}, {}}
COMPARE_BUFFER_TO_CMD(data, cmd) == cmd \in data

\* fault: DISABLE is obeyed even when armed
rc_raw_testrc_WhileArmed(data) ==
  /\ \/ ~armed /\ data = {"ENABLE"} /\ set_servo_enable(TRUE) /\ UNCHANGED servo
     \/ data = {"DISABLE"} /\ set_servo_enable(FALSE) /\ set_canard_angle(0)
  /\ UNCHANGED <<armed, clock, pidVars, umbVars>>

\* fault: ENABLE arms
rc_raw_testrc_Arms(data) ==
  /\ \/ ~armed /\ data = {"ENABLE"} /\ set_armed(TRUE) /\ UNCHANGED servo
     \/ /\ ~armed /\ data = {"DISABLE"} /\ set_servo_enable(FALSE)
        /\ set_canard_angle(0) /\ UNCHANGED armed
     \/ (armed \/ data = {}) /\ UNCHANGED <<enable_servo, servo, armed>>
  /\ UNCHANGED <<clock, pidVars, umbVars>>

rc_raw_testrc(data) ==
  /\ \/ /\ ~armed
        /\ COMPARE_BUFFER_TO_CMD(data, "ENABLE")
        /\ set_servo_enable(TRUE) /\ UNCHANGED servo
     \/ /\ ~armed
        /\ COMPARE_BUFFER_TO_CMD(data, "DISABLE")
        /\ set_servo_enable(FALSE) /\ set_canard_angle(0)
     \/ /\ armed \/ data = {}
        /\ UNCHANGED <<enable_servo, servo>>
  /\ UNCHANGED <<armed, clock, pidVars, umbVars>>

Tick == /\ clock < MaxTime
        /\ clock' = clock + 1
        /\ UNCHANGED <<enable_servo, armed, servo, pidVars, umbVars>>

StateMessage == \E r \in RollRates, f \in BOOLEAN : rc_receive_state(r, f)

Next ==
  \/ StateMessage
  \/ \E detect \in BOOLEAN : rc_raw_umb(detect)
  \/ \E signal \in {"ARM", "SAFE"} : rc_receive_arm(signal)
  \/ \E data \in Datagrams : rc_raw_testrc(data)
  \/ Tick

Spec == Init /\ [][Next]_vars

(* The IMU transmits periodically and state.c sends one VSTE for each. *)
FairSpec == Spec /\ WF_vars(StateMessage)
-----------------------------------------------------------------------------
Angles == -MAX_CANARD_ANGLE .. MAX_CANARD_ANGLE

(* Types of rollcontrol.c's statics and of the ROLL message.  The bounds   *)
(* on angle and integrator are those of the two clamps.                    *)
TypeOK ==
  /\ enable_servo \in BOOLEAN /\ armed \in BOOLEAN /\ launched \in BOOLEAN
  /\ timeout \in Nat /\ clock \in Nat /\ launchClock \in Nat
  /\ lastError \in Int
  /\ integrator \in -integrator_max .. integrator_max
  /\ servo \in [angle : Angles, disable : BOOLEAN, at : Nat]

(* No message that drives the servos is sent more than TIMEOUT after the   *)
(* umbilical was last seen to disconnect, however often the operator arms, *)
(* disarms or uses the test commands meanwhile (check_timeout).            *)
NoDriveAfterTimeout ==
  launched /\ ~servo.disable => servo.at <= launchClock + TIMEOUT

(* Whenever the controller considers the servos off, the last thing it     *)
(* told the roll board was to disable them, or it has told it nothing yet: *)
(* no path that clears enable_servo forgets the set_canard_angle(0) that   *)
(* announces it (rollcontrol.c:194, 258, 282).                             *)
DisabledIsTold == ~enable_servo => servo.disable

(* Anti-windup: a roll rate whose proportional term outweighs the clamped  *)
(* integrator is never answered with a fin that speeds the roll up,        *)
(* whatever errors were accumulated before (rollcontrol.c:216-250).        *)
FinOpposesRoll ==
  ~servo.disable =>
    /\ Gain * lastError >= integrator_max + DeadZone => servo.angle >= 0
    /\ Gain * lastError <= -(integrator_max + DeadZone) => servo.angle <= 0

(* A message that switches the servos off carries the angle 0 and never a  *)
(* PID output, as a state message would that arrives while the servos are  *)
(* off or that trips the timer.  It does not centre the fins: disabling    *)
(* has precedence (rollcontrol.c:191).                                     *)
DisabledIsCentred == servo.disable => servo.angle = 0

(* The flight timer does fire: servos on past the deadline are switched    *)
(* off at some later state message, unless the umbilical is seen again.    *)
TimeoutFires == TimedOut ~> (~enable_servo \/ ~launched)

(* Who may switch the servos on or off, see ServoAuthority. *)
Mode == IF armed THEN IF enable_servo THEN "armed" ELSE "expired"
                 ELSE IF enable_servo THEN "bench" ELSE "safe"

Authority == INSTANCE ServoAuthority WITH mode <- Mode,
                                          driving <- ~servo.disable,
                                          overdue <- Overdue
ServoAuthoritySpec == Authority!Spec
=============================================================================
