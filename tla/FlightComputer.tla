---------------------------- MODULE FlightComputer ----------------------------
(***************************************************************************)
(* The flight computer from start-up to flight: the components joined as   *)
(* src/main.miml joins them.  One datagram, with every call it causes      *)
(* through the message lists, is one step.  Of the log, the last entry of  *)
(* each kind that tells of a decision is kept.                             *)
(***************************************************************************)
EXTENDS RollServo, Sockets, Sequences

CONSTANTS
  Imu,              \* samples: acc_x, acc_y, acc_z as in Arm, and gyro_x
  Fixes,            \* the fix modes of the GPS
  VelocityMin,      \* 1 m/s: below it roll control does not steer
  N, LittleEndian,                                            \* see Arm
  Gravity, Threshold, LAUNCH_ALTITUDE, WordMod, MaxSamples,   \* see StateEstimator
  Gain, DeadZone, integrator_max, AlphaMax, TIMEOUT,          \* see RollControl
  TimeMod, StartTimes, MaxTime

VARIABLES
  slock_enable, GPS_locked, upright, signal, lastTilt, wireTilt, lastFix, \* arm.c
  current_state, last_time, has_launched, launch_time, vste, flown,       \* state.c
  enable_servo, armed, launched, timeout, lastError, integrator, servo,
  launchClock,                                                       \* rollcontrol.c
  clock,
  logROLL, logMESG, logV8A8    \* last entries the ground is sent: ROLL, MESG, V8A8

armVars   == <<slock_enable, GPS_locked, upright, signal, lastTilt, wireTilt, lastFix>>
stateVars == <<current_state, last_time, has_launched, launch_time, vste, flown>>
rollVars  == <<enable_servo, armed, launched, timeout, lastError, integrator,
               servo, launchClock>>
loggers   == <<logROLL, logMESG, logV8A8>>
vars == <<armVars, stateVars, rollVars, clock, servoVars, socketVars, loggers>>

Rates == {-d.gyro_x : d \in Imu} \cup {0}     \* what state.c tells of them

A == INSTANCE Arm WITH Samples <- {d.acc : d \in Imu}, samples <- Len(flown)
S == INSTANCE StateEstimator
       WITH Accels <- {A!ntohs(d.acc.acc_x) : d \in Imu}, Gaps <- 0 .. MaxTime,
            RollRates <- {d.gyro_x : d \in Imu}, samples <- flown
R == INSTANCE RollControl WITH RollRates <- Rates

ASSUME FlightComputerAssumption ==
  /\ Imu \subseteq [acc : [A!Axes -> A!Word], gyro_x : Int]
  /\ Fixes \subseteq A!FixModes /\ VelocityMin \in Nat \ {0}
  /\ A!ArmAssumption /\ S!StateEstimatorAssumption /\ R!RollControlAssumption

Nobody == "none"

Init ==
  /\ S!Init /\ A!Init /\ R!Init /\ RollServoInit /\ SocketsInit
  /\ logROLL = [angle |-> bswap64(Double(0)), disable |-> TRUE]   \* none yet
  /\ logMESG = Nobody /\ logV8A8 = 0

-----------------------------------------------------------------------------
(* RC.rc_send_servo: the receivers share the message, and the logger swaps *)
(* the bytes of its angle in place.                                        *)
Message == [angle |-> Double(servo'.angle), disable |-> servo'.disable]
Wired   == Written("RS") = Addr["RS"]

\* fault: the angle is logged as it lies in memory
log_receive_rc_Host(data) == logROLL' = data

log_receive_rc(data) == logROLL' = [data EXCEPT !.angle = bswap64(@)]

\* fault: the logger is listed before the servo interface
rc_send_servo_LogFirst ==
  /\ log_receive_rc(Message)
  /\ rs_receive_adj([Message EXCEPT !.angle = bswap64(@)], Wired)

rc_send_servo == rs_receive_adj(Message, Wired) /\ log_receive_rc(Message)

NothingSent == UNCHANGED <<servoVars, logROLL>>

(* STATE.state_send_message.  set_canard_angle is called when the servos   *)
(* are on, be it by the PID loop or by check_timeout.                      *)
flying(data) == data.vel_up >= VelocityMin

state_send_message(data) ==
  /\ R!rc_receive_state(data.roll_rate, flying(data))
  /\ \/ enable_servo /\ rc_send_servo
     \/ ~enable_servo /\ NothingSent

demuxed_ADIS(d) ==
  /\ Served
  /\ S!state_receive_imu(A!ntohs(d.acc.acc_x), d.gyro_x, clock)
  /\ A!arm_receive_imu(d.acc)
  /\ state_send_message(vste'.data)
  /\ UNCHANGED <<socketVars, logMESG, logV8A8>>

log_receive_arm(code) == logMESG' = code

\* fault: a SAFE is passed on only when the servos count as on
arm_send_signal_Once(code) ==
  /\ R!rc_receive_arm(code)
  /\ \/ code = "SAFE" /\ enable_servo /\ rc_send_servo
     \/ (code = "ARM" \/ ~enable_servo) /\ NothingSent
  /\ log_receive_arm(code)

\* fault: the roll board is not told of the SAFE signal
arm_send_signal_Quiet(code) ==
  /\ R!set_armed(code = "ARM") /\ UNCHANGED servo /\ NothingSent
  /\ UNCHANGED <<launched, timeout, lastError, integrator, launchClock, clock>>
  /\ log_receive_arm(code)

arm_send_signal(code) ==
  /\ R!rc_receive_arm(code)
  /\ \/ code = "SAFE" /\ rc_send_servo
     \/ code = "ARM" /\ NothingSent
  /\ log_receive_arm(code)

demuxed_ARM(buffer) ==
  /\ Served /\ UNCHANGED <<stateVars, socketVars, logV8A8>>
  /\ A!arm_raw_in(buffer)
  /\ \/ signal' # "none" /\ arm_send_signal(signal')
     \/ signal' = "none" /\ NothingSent /\ UNCHANGED <<rollVars, clock, logMESG>>

(* ETH.demuxed_RC; DISABLE is the command that is announced. *)
demuxed_RC(data) ==
  /\ Served
  /\ R!rc_raw_testrc(data)
  /\ LET announced == /\ ~armed /\ R!COMPARE_BUFFER_TO_CMD(data, "DISABLE")
                      /\ ~R!COMPARE_BUFFER_TO_CMD(data, "ENABLE")
     IN \/ announced /\ rc_send_servo
        \/ ~announced /\ NothingSent
  /\ UNCHANGED <<armVars, stateVars, socketVars, logMESG, logV8A8>>

demuxed_RNHUMB(detect) ==
  /\ Served
  /\ R!rc_raw_umb(detect)
  /\ UNCHANGED <<armVars, stateVars, servoVars, socketVars, loggers>>

\* fault: no Venus message is exempt from the rule for V8
filter_receive_NoV8A8(ID, fix_mode) == UNCHANGED logV8A8

(* To the ground goes V8A8 of all the GPS data. *)
filter_receive(ID, fix_mode) ==
  logV8A8' = IF ID = "V8A8" THEN fix_mode ELSE logV8A8

gps_data_out(ID, fix_mode) ==
  /\ Served
  /\ UNCHANGED <<stateVars, rollVars, clock, servoVars, socketVars, logROLL, logMESG>>
  /\ A!arm_receive_gps(ID, fix_mode)
  /\ filter_receive(ID, fix_mode)

Tick ==
  /\ next = "loop" /\ R!Tick
  /\ UNCHANGED <<armVars, stateVars, servoVars, socketVars, loggers>>

NotFlying == UNCHANGED <<armVars, stateVars, rollVars, clock, servoVars, loggers>>

Next ==
  \/ (Startup \/ version_callback) /\ NotFlying
  \/ \E d \in Imu : demuxed_ADIS(d)
  \/ \E buffer \in A!Datagrams : demuxed_ARM(buffer)
  \/ \E data \in R!Datagrams : demuxed_RC(data)
  \/ \E detect \in BOOLEAN : demuxed_RNHUMB(detect)
  \/ \E ID \in {"V8A8", "V8xx"}, m \in Fixes : gps_data_out(ID, m)
  \/ Tick

Spec == Init /\ [][Next]_vars
-----------------------------------------------------------------------------
(* Types of the composition's own state: the link, the descriptors, and    *)
(* what the log holds.  The components' types are theirs.                  *)
TypeOK ==
  /\ RollServoType /\ SocketsType
  /\ logROLL \in [angle : [order : {"host", "net"}, value : Angles],
                  disable : BOOLEAN]
  /\ logMESG \in {Nobody, "ARM", "SAFE"} /\ logV8A8 \in Fixes \cup {0}

(* Before the IMU has shown a launch no fin is commanded away from the     *)
(* centre of its travel, whatever the operator has armed or enabled and    *)
(* however the rocket is moved: the estimator reports a rocket at rest     *)
(* (state.c:45), roll control does not steer one (rollcontrol.c:134), and  *)
(* 0 degrees are the ticks of the centre (rollservo.c:44).                 *)
FinsStillOnPad ==
  (\A i \in 1 .. Len(flown) : ~S!Strong(i)) =>
    servo.angle = 0 /\ \A b \in board : b.ticks = PWM_TICKS_CENTER

(* A command that arrives says what roll control meant, although the logger*)
(* turns the shared message's bytes round (main.miml:72-74).               *)
BoardFollows ==
  missed = 0 =>
    \A b \in board : b.ticks = PWM(servo.angle) /\ b.disable = servo.disable

(* The operator's two ways to have the servos off.                         *)
OperatorOff ==
  \/ signal' = "SAFE" /\ \E buffer \in A!Datagrams : demuxed_ARM(buffer)
  \/ ~armed /\ demuxed_RC({"DISABLE"})

OffStep ==
  OperatorOff =>
    /\ seq' = (seq + 1) % SeqMod
    /\ missed' = 0 => \E b \in board' : b.disable

(* A command that disables the servos may be lost, and a restarted flight  *)
(* computer may find them driven: roll control then considers them off and *)
(* by itself says no more about it.  The operator can put that right.      *)
(* Every SAFE, and on the bench every DISABLE, is sent to the roll board,  *)
(* also when the servos are off already as far as roll control knows; if   *)
(* it arrives they are off, whatever the board was doing, and if not it is *)
(* counted (rollcontrol.c:256-259, 280-284; rollservo.c:57).               *)
SafeRepairs == [][OffStep]_vars

(* Reading the log from the ground, the last ROLL entry is the command last*)
(* sent to the roll board, in network byte order (logger.c:217-227).       *)
LogTellsServo ==
  logROLL = [angle |-> [order |-> "net", value |-> servo.angle],
             disable |-> servo.disable]

(* The ground can tell from the entries it is sent in flight whether the   *)
(* rocket is armed, and whether the arm manager has its GPS lock: a signal *)
(* that is obeyed is logged and the reverse, and the one Venus message the *)
(* lock depends on is not left to the disk (logger.c:211, filter.c:8-10).  *)
LogTellsArming ==
  /\ armed <=> logMESG = "ARM"
  /\ GPS_locked <=> logV8A8 >= A!VENUS_A8_FIX_MODE_3D

ArmingStep ==
  ~armed /\ armed' =>
    \/ ~slock_enable
    \/ Len(flown) - lastTilt >= N /\ lastFix >= A!VENUS_A8_FIX_MODE_3D

(* Nothing arms the roll controller but the operator's command with both   *)
(* sensor locks held, or with the sensor lock overridden: no test command, *)
(* umbilical report or sample does (arm.c:89-95, rollcontrol.c:274-292).   *)
ArmedByLocks == [][ArmingStep]_vars

(* Joined to the others, roll control behaves as its own module says, with *)
(* the rates and speeds that the state estimator really sends; what is     *)
(* proved of it there holds of the flight computer.  This is R!Spec, with  *)
(* the stutter first: most steps of the others leave roll control alone.   *)
RollControlSpec == R!Init /\ [][UNCHANGED R!vars \/ R!Next]_(R!vars)
=============================================================================
