------------------------- MODULE FlightComputer_proofs -------------------------
(***************************************************************************)
(* Theorems of FlightComputer for every value of its constants.  What is   *)
(* proved of RollControl, Arm and StateEstimator alone is carried over:    *)
(* the flight computer implements all three.                               *)
(***************************************************************************)
EXTENDS FlightComputer, Sockets_proofs

AP == INSTANCE Arm_proofs
        WITH Samples <- {d.acc : d \in Imu}, samples <- Len(flown)
RP == INSTANCE RollControl_proofs WITH RollRates <- Rates

-----------------------------------------------------------------------------
(* The instances of the theorem modules are those of FlightComputer.       *)

LEMMA SameRollControl ==
  /\ R!Init <=> RP!Init
  /\ [R!Next]_(R!vars) <=> [RP!Next]_(RP!vars)
<1>1. R!Init <=> RP!Init
  BY Zenon DEF R!Init, RP!Init
<1>2. /\ \A r, f : R!rc_receive_state(r, f) <=> RP!rc_receive_state(r, f)
      /\ \A d : R!rc_raw_umb(d) <=> RP!rc_raw_umb(d)
      /\ \A s : R!rc_receive_arm(s) <=> RP!rc_receive_arm(s)
      /\ \A c : R!rc_raw_testrc(c) <=> RP!rc_raw_testrc(c)
      /\ R!Tick <=> RP!Tick
  BY Zenon DEF R!rc_receive_state, R!rc_raw_umb, R!rc_receive_arm,
       R!rc_raw_testrc, R!Tick, R!check_timeout, R!TimedOut, R!Overdue, R!Stamp,
       R!pid_step, R!set_canard_angle, R!CLAMP, R!estimate_alpha,
       R!set_servo_enable, R!set_armed, R!COMPARE_BUFFER_TO_CMD,
       R!vars, R!pidVars, R!umbVars,
       RP!rc_receive_state, RP!rc_raw_umb, RP!rc_receive_arm,
       RP!rc_raw_testrc, RP!Tick, RP!check_timeout, RP!TimedOut, RP!Overdue,
       RP!Stamp, RP!pid_step, RP!set_canard_angle, RP!CLAMP, RP!estimate_alpha,
       RP!set_servo_enable, RP!set_armed, RP!COMPARE_BUFFER_TO_CMD,
       RP!vars, RP!pidVars, RP!umbVars
<1> QED
  BY <1>1, <1>2, Zenon DEF R!Next, R!StateMessage, R!Datagrams, R!vars,
     R!pidVars, R!umbVars, RP!Next, RP!StateMessage, RP!Datagrams, RP!vars,
     RP!pidVars, RP!umbVars

LEMMA SameArm ==
  /\ A!Init <=> AP!Init
  /\ [A!Next]_(A!vars) <=> [AP!Next]_(AP!vars)
<1>1. A!Init <=> AP!Init
  BY Zenon DEF A!Init, AP!Init
<1>2. ASSUME NEW w
      PROVE  A!ntohs(w) = AP!ntohs(w) /\ A!HostRead(w) = AP!HostRead(w)
  BY Zenon DEF A!HostRead, A!ntohs, A!Signed, AP!HostRead, AP!ntohs, AP!Signed
<1>3. ASSUME NEW s PROVE A!Record(s) <=> AP!Record(s)
  <2>0. A!Down = AP!Down /\ A!Level = AP!Level
    BY SMT DEF A!Down, A!Level, AP!Down, AP!Level
  <2>1. /\ A!Vertical(s, A!HostRead) <=> AP!Vertical(s, AP!HostRead)
        /\ A!Vertical(s, A!ntohs) <=> AP!Vertical(s, AP!ntohs)
    BY <1>2, <2>0, Zenon DEF A!Vertical, AP!Vertical
  <2> QED
    BY <2>1, Zenon DEF A!Record, AP!Record
<1>4. ASSUME NEW s PROVE A!OffAxis(s) <=> AP!OffAxis(s)
  <2>1. /\ A!G = AP!G /\ A!Count = AP!Count
        /\ \A a, b : A!about(a, b) <=> AP!about(a, b)
    <3>1. A!G = AP!G /\ \A x : A!fabs(x) = AP!fabs(x)
      BY SMT DEF A!fabs, A!G, AP!fabs, AP!G
    <3>2. A!Count = AP!Count
      BY SMT DEF A!Count, AP!Count
    <3> QED
      BY <3>1, <3>2, SMT DEF A!about, AP!about
  <2>2. /\ A!HostRead(s.acc_x) = AP!HostRead(s.acc_x)
        /\ A!HostRead(s.acc_y) = AP!HostRead(s.acc_y)
        /\ A!HostRead(s.acc_z) = AP!HostRead(s.acc_z)
    BY <1>2, Zenon
  <2> QED
    BY <2>1, <2>2, Zenon DEF A!OffAxis, AP!OffAxis
<1>5. \A s : A!arm_receive_imu(s) <=> AP!arm_receive_imu(s)
  BY <1>3, <1>4, Zenon DEF A!arm_receive_imu, A!gpsVars,
                           AP!arm_receive_imu, AP!gpsVars
<1>6. \A ID, m : A!arm_receive_gps(ID, m) <=> AP!arm_receive_gps(ID, m)
  BY Zenon DEF A!arm_receive_gps, A!VENUS_A8_FIX_MODE_3D, A!imuVars, A!gpsVars,
               AP!arm_receive_gps, AP!VENUS_A8_FIX_MODE_3D, AP!imuVars, AP!gpsVars
<1>7. \A b : A!arm_raw_in(b) <=> AP!arm_raw_in(b)
  BY Zenon DEF A!arm_raw_in, A!COMPARE_BUFFER_TO_CMD, A!sensors_allow_launch,
               A!accel_locked, A!imuVars, A!gpsVars,
               AP!arm_raw_in, AP!COMPARE_BUFFER_TO_CMD, AP!sensors_allow_launch,
               AP!accel_locked, AP!imuVars, AP!gpsVars
<1> QED
  BY <1>1, <1>5, <1>6, <1>7, Zenon DEF A!Next, A!Datagrams, A!Stub, A!FixModes, A!vars,
     A!imuVars, A!gpsVars, AP!Next, AP!Datagrams, AP!Stub, AP!FixModes, AP!vars,
     AP!imuVars, AP!gpsVars

-----------------------------------------------------------------------------
(* The flight computer implements roll control.                            *)

(* The roll rate told to roll control is one a sample can carry.           *)
RateInv == current_state.roll_rate \in Rates

LEMMA IntegrateRate ==
  \A st, a, r, dt, t : S!integrate(st, a, r, dt, t).roll_rate = -r
BY DEF S!integrate

LEMMA SampleKeepsRate ==
  ASSUME RateInv, NEW d \in Imu, NEW a, NEW at, S!state_receive_imu(a, d.gyro_x, at)
  PROVE  RateInv' /\ vste'.data = current_state'
<1>1. \/ current_state' = current_state
      \/ \E st, dt, t : current_state' = S!integrate(st, a, d.gyro_x, dt, t)
  BY Zenon DEF S!state_receive_imu
<1>2. vste'.data = current_state'
  BY DEF S!state_receive_imu
<1>3. -d.gyro_x \in Rates
  BY DEF Rates
<1>4. current_state' = current_state \/ current_state'.roll_rate = -d.gyro_x
  BY <1>1, IntegrateRate
<1> QED
  BY <1>2, <1>3, <1>4 DEF RateInv, Rates

(* What each step is to roll control: a step of its own, or none at all.   *)
LEMMA RollStep ==
  ASSUME RateInv, [Next]_vars
  PROVE  RateInv' /\ [R!Next]_(R!vars)
<1> USE DEF R!Next
<1>1. UNCHANGED <<rollVars, clock>> => UNCHANGED R!vars
  BY Zenon DEF rollVars, R!vars, R!pidVars, R!umbVars
<1>2. UNCHANGED stateVars => RateInv'
  BY Zenon DEF stateVars, RateInv, Rates
<1>3. CASE (Startup \/ version_callback) /\ NotFlying
  BY <1>1, <1>2, <1>3, Zenon DEF NotFlying
<1>4. ASSUME NEW d \in Imu, demuxed_ADIS(d) PROVE RateInv' /\ R!Next
  <2>1. RateInv' /\ vste'.data = current_state'
    BY <1>4, SampleKeepsRate, Zenon DEF demuxed_ADIS
  <2>2. R!rc_receive_state(vste'.data.roll_rate, flying(vste'.data))
    BY <1>4, Zenon DEF demuxed_ADIS, state_send_message
  <2>3. vste'.data.roll_rate \in Rates
    BY <2>1 DEF RateInv, Rates
  <2>4. flying(vste'.data) \in BOOLEAN
    BY DEF flying
  <2> QED
    BY <2>1, <2>2, <2>3, <2>4, Zenon DEF R!StateMessage
<1>5. ASSUME NEW buffer \in A!Datagrams, demuxed_ARM(buffer)
      PROVE  RateInv' /\ [R!Next]_(R!vars)
  <2>1. signal' \in {"ARM", "SAFE", "none"}
    BY <1>5, Zenon DEF demuxed_ARM, A!arm_raw_in
  <2>2. CASE UNCHANGED <<rollVars, clock>>
    BY <1>1, <1>2, <1>5, <2>2, Zenon DEF demuxed_ARM
  <2>3. CASE signal' # "none" /\ arm_send_signal(signal')
    BY <1>2, <1>5, <2>1, <2>3, Zenon DEF demuxed_ARM, arm_send_signal
  <2> QED
    BY <1>5, <2>2, <2>3, Zenon DEF demuxed_ARM
<1>6. ASSUME NEW data \in R!Datagrams, demuxed_RC(data) PROVE RateInv' /\ R!Next
  BY <1>2, <1>6, Zenon DEF demuxed_RC
<1>7. ASSUME NEW detect \in BOOLEAN, demuxed_RNHUMB(detect) PROVE RateInv' /\ R!Next
  BY <1>2, <1>7, Zenon DEF demuxed_RNHUMB
<1>8. ASSUME NEW ID, NEW m, gps_data_out(ID, m) PROVE RateInv' /\ UNCHANGED R!vars
  BY <1>1, <1>2, <1>8, Zenon DEF gps_data_out
<1>9. Tick => RateInv' /\ R!Next
  BY <1>2, Zenon DEF Tick
<1>10. UNCHANGED vars => RateInv' /\ UNCHANGED R!vars
  BY <1>1, <1>2, Zenon DEF vars
<1> QED
  BY <1>3, <1>4, <1>5, <1>6, <1>7, <1>8, <1>9, <1>10, <1>1, <1>2, Zenon
     DEF Next, NotFlying

LEMMA RateInvariant == Spec => []RateInv
<1>1. Init => RateInv
  BY DEF Init, S!Init, S!OnPad, RateInv, Rates
<1> QED
  BY <1>1, RollStep, PTL DEF Spec

(* Joined to the others, roll control behaves as its module says.          *)
THEOREM ImplementsRollControl == Spec => RollControlSpec
<1>1. Init => R!Init
  BY DEF Init
<1> QED
  BY <1>1, RateInvariant, RollStep, PTL DEF Spec, RollControlSpec

(* The constants of the two components are as their theorems ask.          *)
LEMMA ComponentAssumptions == AP!ArmAssumption /\ RP!RollControlAssumption
BY FlightComputerAssumption
   DEF A!ArmAssumption, AP!ArmAssumption, A!Axes, AP!Axes, A!Word, AP!Word,
       A!Byte, AP!Byte, R!RollControlAssumption, RP!RollControlAssumption

(* What is proved of the types of roll control holds of the flight         *)
(* computer.                                                               *)
LEMMA RollControlFacts == Spec => []RP!TypeOK
<1>1. Spec => RP!Spec
  BY ImplementsRollControl, SameRollControl, PTL DEF RollControlSpec, R!Spec, RP!Spec
<1>2. RP!Spec => []RP!TypeOK
  BY ComponentAssumptions, RP!TypeCorrect
<1> QED
  BY <1>1, <1>2, PTL

-----------------------------------------------------------------------------
(* The flight computer implements the arm manager.                         *)

LEMMA ArmStep ==
  ASSUME [Next]_vars
  PROVE  [A!Next]_(A!vars)
<1> USE DEF A!Next
<1>1. UNCHANGED <<armVars, stateVars>> => UNCHANGED A!vars
  BY Zenon DEF armVars, stateVars, A!vars, A!imuVars, A!gpsVars
<1>2. ASSUME NEW d \in Imu, demuxed_ADIS(d) PROVE A!Next
  BY <1>2, Zenon DEF demuxed_ADIS
<1>3. ASSUME NEW buffer \in A!Datagrams, demuxed_ARM(buffer) PROVE A!Next
  BY <1>3, Zenon DEF demuxed_ARM
<1>4. ASSUME NEW ID \in {"V8A8", "V8xx"}, NEW m \in Fixes, gps_data_out(ID, m)
      PROVE  A!Next
  <2>1. m \in A!FixModes
    BY FlightComputerAssumption, Zenon
  <2> QED
    BY <1>4, <2>1, Zenon DEF gps_data_out
<1>5. ASSUME \/ NotFlying \/ Tick \/ UNCHANGED vars
             \/ \E data : demuxed_RC(data)
             \/ \E detect : demuxed_RNHUMB(detect)
      PROVE  UNCHANGED A!vars
  BY <1>1, <1>5, Zenon DEF NotFlying, Tick, vars, demuxed_RC, demuxed_RNHUMB
<1> QED
  BY <1>2, <1>3, <1>4, <1>5, Zenon DEF Next

(* The arm manager's locks are what its own theorems say, with the samples *)
(* that the state estimator integrates.                                    *)
THEOREM ImplementsArm == Spec => A!Spec
<1>1. Init => A!Init
  BY DEF Init
<1> QED
  BY <1>1, ArmStep, PTL DEF Spec, A!Spec

LEMMA ArmFacts == Spec => []AP!LockInv
<1>1. Spec => AP!Spec
  BY ImplementsArm, SameArm, PTL DEF A!Spec, AP!Spec
<1>2. AP!Spec => []AP!LockInv
  BY ComponentAssumptions, AP!LockInvariant
<1> QED
  BY <1>1, <1>2, PTL

(* How a step may change armed: by the signals that the arm manager sends. *)
LEMMA ArmedShapes ==
  ASSUME [Next]_vars
  PROVE  \/ armed' = armed /\ logMESG' = logMESG
         \/ \E buffer \in A!Datagrams :
              /\ A!arm_raw_in(buffer) /\ UNCHANGED stateVars
              /\ signal' \in {"ARM", "SAFE"} /\ logMESG' = signal'
              /\ armed' = (signal' = "ARM")
<1>1. ASSUME NEW d \in Imu, demuxed_ADIS(d) PROVE armed' = armed /\ logMESG' = logMESG
  BY <1>1, Zenon DEF demuxed_ADIS, state_send_message, R!rc_receive_state,
     R!check_timeout, R!pid_step, R!vars
<1>2. ASSUME NEW buffer \in A!Datagrams, demuxed_ARM(buffer)
      PROVE  \/ armed' = armed /\ logMESG' = logMESG
             \/ /\ A!arm_raw_in(buffer) /\ UNCHANGED stateVars
                /\ signal' \in {"ARM", "SAFE"} /\ logMESG' = signal'
                /\ armed' = (signal' = "ARM")
  <2>1. signal' \in {"ARM", "SAFE", "none"}
    BY <1>2, Zenon DEF demuxed_ARM, A!arm_raw_in
  <2>2. CASE UNCHANGED <<rollVars, logMESG>>
    BY <2>2, Zenon DEF rollVars
  <2>3. CASE signal' # "none" /\ arm_send_signal(signal')
    <3>1. R!rc_receive_arm(signal') /\ logMESG' = signal'
      BY <2>3, Zenon DEF arm_send_signal, log_receive_arm
    <3>2. \/ signal' = "ARM" /\ armed' = TRUE
          \/ signal' = "SAFE" /\ armed' = FALSE
      BY <3>1, Zenon DEF R!rc_receive_arm, R!set_armed
    <3>3. armed' = (signal' = "ARM") /\ signal' \in {"ARM", "SAFE"}
      BY <3>2
    <3> QED
      BY <1>2, <3>1, <3>3, Zenon DEF demuxed_ARM
  <2> QED
    BY <1>2, <2>2, <2>3, Zenon DEF demuxed_ARM
<1>3. ASSUME \/ NotFlying \/ Tick \/ UNCHANGED vars
             \/ \E data : demuxed_RC(data)
             \/ \E detect : demuxed_RNHUMB(detect)
             \/ \E ID, m : gps_data_out(ID, m)
      PROVE  armed' = armed /\ logMESG' = logMESG
  BY <1>3, Zenon DEF NotFlying, Tick, vars, rollVars, loggers, demuxed_RC,
     demuxed_RNHUMB, gps_data_out, R!Tick, R!rc_raw_testrc, R!rc_raw_umb
<1> QED
  BY <1>1, <1>2, <1>3, Zenon DEF Next

(* The rocket is armed by a command that finds both locks held, or the     *)
(* sensor lock overridden, and by nothing else.                            *)
THEOREM OnlyLocksArm == Spec => ArmedByLocks
<1>1. AP!LockInv' /\ [Next]_vars => [ArmingStep]_vars
  <2> SUFFICES ASSUME AP!LockInv', Next, ~armed, armed' PROVE ArmingStep
    BY Zenon DEF ArmingStep
  <2>1. PICK buffer \in A!Datagrams :
          A!arm_raw_in(buffer) /\ UNCHANGED stateVars /\ signal' = "ARM"
    <3>1. armed' # armed
      OBVIOUS
    <3>2. PICK buffer \in A!Datagrams :
            /\ A!arm_raw_in(buffer) /\ UNCHANGED stateVars
            /\ armed' = (signal' = "ARM")
      BY <3>1, ArmedShapes, Zenon
    <3> QED
      BY <3>2, Zenon
  <2>2. A!COMPARE_BUFFER_TO_CMD(buffer, "#YOLO")
    BY <2>1 DEF A!arm_raw_in
  <2>3. slock_enable' = slock_enable
    BY <2>1, <2>2, Zenon DEF A!arm_raw_in
  <2>4. UNCHANGED <<lastTilt, lastFix, flown>>
    BY <2>1, Zenon DEF A!arm_raw_in, A!imuVars, A!gpsVars, stateVars
  <2>5. /\ ~slock_enable' \/ (/\ Len(flown') - lastTilt' >= N
                             /\ lastFix' >= AP!VENUS_A8_FIX_MODE_3D)
    BY <2>1, Zenon DEF AP!LockInv, AP!ArmIsJustified
  <2>6. AP!VENUS_A8_FIX_MODE_3D = A!VENUS_A8_FIX_MODE_3D
    BY Zenon DEF AP!VENUS_A8_FIX_MODE_3D, A!VENUS_A8_FIX_MODE_3D
  <2> QED
    BY <2>3, <2>4, <2>5, <2>6, Zenon DEF ArmingStep
<1> QED
  BY <1>1, ArmFacts, PTL DEF Spec, ArmedByLocks

(* How a step may change the GPS lock: by the message that is also logged. *)
LEMMA LockShapes ==
  ASSUME [Next]_vars
  PROVE  \/ GPS_locked' = GPS_locked /\ logV8A8' = logV8A8
         \/ \E m \in Fixes : /\ GPS_locked' = (m >= A!VENUS_A8_FIX_MODE_3D)
                             /\ logV8A8' = m
<1>1. ASSUME NEW ID \in {"V8A8", "V8xx"}, NEW m \in Fixes, gps_data_out(ID, m)
      PROVE  \/ GPS_locked' = GPS_locked /\ logV8A8' = logV8A8
             \/ GPS_locked' = (m >= A!VENUS_A8_FIX_MODE_3D) /\ logV8A8' = m
  BY <1>1, Zenon DEF gps_data_out, filter_receive, A!arm_receive_gps, A!gpsVars
<1>2. ASSUME \/ NotFlying \/ Tick \/ UNCHANGED vars
             \/ \E d : demuxed_ADIS(d)
             \/ \E buffer : demuxed_ARM(buffer)
             \/ \E data : demuxed_RC(data)
             \/ \E detect : demuxed_RNHUMB(detect)
      PROVE  GPS_locked' = GPS_locked /\ logV8A8' = logV8A8
  BY <1>2, Zenon DEF NotFlying, Tick, vars, armVars, loggers, demuxed_ADIS,
     demuxed_ARM, demuxed_RC, demuxed_RNHUMB, A!arm_receive_imu, A!arm_raw_in,
     A!gpsVars
<1> QED
  BY <1>1, <1>2, Zenon DEF Next

(* The last entries of the log that the ground is sent tell whether the    *)
(* rocket is armed and whether the GPS lock is held.                       *)
THEOREM GroundSeesArming == Spec => []LogTellsArming
<1>1. Init => LogTellsArming
  <2> SUFFICES ASSUME Init PROVE LogTellsArming
    OBVIOUS
  <2>1. armed = FALSE /\ GPS_locked = FALSE /\ logMESG = "none" /\ logV8A8 = 0
    BY Zenon DEF Init, A!Init, R!Init, Nobody
  <2>2. ~(logV8A8 >= A!VENUS_A8_FIX_MODE_3D) /\ logMESG # "ARM"
    BY <2>1 DEF A!VENUS_A8_FIX_MODE_3D
  <2> QED
    BY <2>1, <2>2, Zenon DEF LogTellsArming
<1>2. LogTellsArming /\ [Next]_vars => LogTellsArming'
  <2> SUFFICES ASSUME LogTellsArming, [Next]_vars PROVE LogTellsArming'
    OBVIOUS
  <2>1. armed' <=> logMESG' = "ARM"
    <3>1. CASE armed' = armed /\ logMESG' = logMESG
      BY <3>1, Zenon DEF LogTellsArming
    <3>2. CASE logMESG' = signal' /\ armed' = (signal' = "ARM")
      BY <3>2, Zenon
    <3> QED
      BY <3>1, <3>2, ArmedShapes, Zenon
  <2>2. GPS_locked' <=> logV8A8' >= A!VENUS_A8_FIX_MODE_3D
    <3>1. CASE GPS_locked' = GPS_locked /\ logV8A8' = logV8A8
      BY <3>1, Zenon DEF LogTellsArming
    <3>2. ASSUME NEW m \in Fixes, GPS_locked' = (m >= A!VENUS_A8_FIX_MODE_3D),
                 logV8A8' = m
          PROVE  GPS_locked' <=> logV8A8' >= A!VENUS_A8_FIX_MODE_3D
      BY <3>2, Zenon
    <3> QED
      BY <3>1, <3>2, LockShapes, Zenon
  <2> QED
    BY <2>1, <2>2, Zenon DEF LogTellsArming, A!VENUS_A8_FIX_MODE_3D
<1> QED
  BY <1>1, <1>2, PTL DEF Spec

-----------------------------------------------------------------------------
(* From degrees to ticks and onto the wire.                                *)

LEMMA DivisionBounds ==
  ASSUME NEW span \in Nat, NEW n \in Nat \ {0}, NEW x \in 0 .. n
  PROVE  (span * x) \div n \in 0 .. span
<1>1. span * x \in Nat /\ span * x <= span * n
  OBVIOUS
<1> DEFINE p == span * x
<1> HIDE DEF p
<1>2. p \in Nat /\ p <= span * n
  BY <1>1 DEF p
<1>3. p \div n \in Int /\ n * (p \div n) <= p /\ p < n * ((p \div n) + 1)
  BY <1>2
<1> DEFINE q == p \div n
<1> HIDE DEF q
<1>4. q \in Int /\ n * q <= span * n /\ 0 < n * (q + 1)
  BY <1>2, <1>3 DEF q
<1>5. q <= span
  BY <1>4
<1>6. 0 <= q
  BY <1>4
<1> QED
  BY <1>4, <1>5, <1>6 DEF q, p

(* An angle within the clamp of set_canard_angle gives ticks within the    *)
(* travel of the servo: CLAMP of rs_receive_adj changes nothing.           *)
LEMMA PWMBounds ==
  ASSUME NEW angle \in Angles
  PROVE  PWM(angle) \in Ticks /\ ticks(Double(angle)) = {PWM(angle)}
<1> DEFINE span == MAX_SERVO_POSITION_TICKS - MIN_SERVO_POSITION_TICKS
           q    == (span * (angle + MAX_CANARD_ANGLE)) \div (2 * MAX_CANARD_ANGLE)
<1>1. /\ span \in Nat /\ 2 * MAX_CANARD_ANGLE \in Nat \ {0}
      /\ angle + MAX_CANARD_ANGLE \in 0 .. 2 * MAX_CANARD_ANGLE
      /\ MIN_SERVO_POSITION_TICKS \in Nat /\ MAX_SERVO_POSITION_TICKS \in Nat
  BY RollServoAssumption DEF Angles
<1>2. q \in 0 .. span
  BY <1>1, DivisionBounds
<1>3. PWM(angle) = MIN_SERVO_POSITION_TICKS + q
  BY DEF PWM
<1> HIDE DEF q
<1>4. PWM(angle) \in Ticks
  BY <1>1, <1>2, <1>3 DEF Ticks
<1>5. CLAMP(PWM(angle), MIN_SERVO_POSITION_TICKS, MAX_SERVO_POSITION_TICKS) = PWM(angle)
  BY <1>1, <1>4 DEF CLAMP, Ticks
<1>6. Double(angle).order = "host" /\ Double(angle).value = angle
  BY DEF Double
<1> QED
  BY <1>4, <1>5, <1>6, Zenon DEF ticks

LEMMA CentreIsAnAngle == 0 \in Angles
BY RollServoAssumption DEF Angles

(* What one command leaves behind, on the link and in the log.             *)
LEMMA SendFacts ==
  ASSUME servo'.angle \in Angles, rc_send_servo
  PROVE  /\ logROLL' = [angle |-> [order |-> "net", value |-> servo'.angle],
                        disable |-> servo'.disable]
         /\ seq' = (seq + 1) % SeqMod
         /\ \/ /\ board' = {[seq |-> seq, ticks |-> PWM(servo'.angle),
                             disable |-> servo'.disable]}
               /\ missed' = 0
            \/ Lost
<1>1. /\ Message.angle = Double(servo'.angle) /\ Message.disable = servo'.disable
      /\ bswap64(Double(servo'.angle)) = [order |-> "net", value |-> servo'.angle]
  BY DEF Message, Double, bswap64
<1>2. logROLL' = [angle |-> bswap64(Double(servo'.angle)), disable |-> servo'.disable]
  BY DEF rc_send_servo, log_receive_rc, Message
<1>3. /\ seq' = (seq + 1) % SeqMod
      /\ \/ \E t \in ticks(Message.angle) :
              Arrives([seq |-> seq, ticks |-> t, disable |-> Message.disable])
         \/ Lost
  BY Zenon DEF rc_send_servo, rs_receive_adj
<1>4. ticks(Message.angle) = {PWM(servo'.angle)}
  BY <1>1, PWMBounds
<1> QED
  BY <1>1, <1>2, <1>3, <1>4 DEF Arrives

(* Each step says nothing to the roll board and leaves roll control's last *)
(* word as it was, or sends what roll control has just set.                *)
LEMMA SendShapes ==
  ASSUME [Next]_vars
  PROVE  \/ NothingSent /\ UNCHANGED servo
         \/ rc_send_servo
<1>1. ASSUME NEW d \in Imu, demuxed_ADIS(d)
      PROVE  (NothingSent /\ UNCHANGED servo) \/ rc_send_servo
  <2>1. CASE enable_servo /\ rc_send_servo
    BY <2>1
  <2>2. CASE ~enable_servo /\ NothingSent
    BY <1>1, <2>2, Zenon DEF demuxed_ADIS, state_send_message,
       R!rc_receive_state, R!check_timeout, R!TimedOut, R!vars
  <2> QED
    BY <1>1, <2>1, <2>2, Zenon DEF demuxed_ADIS, state_send_message
<1>2. ASSUME NEW buffer, demuxed_ARM(buffer)
      PROVE  (NothingSent /\ UNCHANGED servo) \/ rc_send_servo
  <2>1. CASE NothingSent /\ UNCHANGED <<rollVars, clock, logMESG>>
    BY <2>1, Zenon DEF rollVars
  <2>2. CASE arm_send_signal(signal')
    <3>1. CASE signal' = "SAFE" /\ rc_send_servo
      BY <3>1
    <3>2. CASE signal' = "ARM" /\ NothingSent
      <4>1. R!rc_receive_arm("ARM")
        BY <2>2, <3>2, Zenon DEF arm_send_signal
      <4>2. "ARM" # "SAFE"
        OBVIOUS
      <4> QED
        BY <3>2, <4>1, <4>2, Zenon DEF R!rc_receive_arm
    <3> QED
      BY <2>2, <3>1, <3>2, Zenon DEF arm_send_signal
  <2> QED
    BY <1>2, <2>1, <2>2, Zenon DEF demuxed_ARM
<1>3. ASSUME NEW data \in R!Datagrams, demuxed_RC(data)
      PROVE  (NothingSent /\ UNCHANGED servo) \/ rc_send_servo
  <2> DEFINE IsOn  == R!COMPARE_BUFFER_TO_CMD(data, "ENABLE")
             IsOff == R!COMPARE_BUFFER_TO_CMD(data, "DISABLE")
  <2>1. IsOn => ~IsOff
    BY <1>3 DEF R!Datagrams, R!COMPARE_BUFFER_TO_CMD
  <2>2. IsOff => ~IsOn /\ data # {}
    BY <2>1 DEF R!COMPARE_BUFFER_TO_CMD
  <2>3. CASE rc_send_servo
    BY <2>3
  <2>4. CASE ~(~armed /\ IsOff /\ ~IsOn) /\ NothingSent
    <3>1. armed \/ ~IsOff
      BY <2>2, <2>4, Zenon
    <3>2. UNCHANGED servo
      BY <1>3, <3>1, Zenon DEF demuxed_RC, R!rc_raw_testrc
    <3> QED
      BY <2>4, <3>2
  <2> QED
    BY <1>3, <2>3, <2>4, Zenon DEF demuxed_RC
<1>4. ASSUME \/ NotFlying \/ Tick \/ UNCHANGED vars
             \/ \E detect : demuxed_RNHUMB(detect)
             \/ \E ID, m : gps_data_out(ID, m)
      PROVE  NothingSent /\ UNCHANGED servo
  BY <1>4, Zenon DEF NotFlying, Tick, vars, rollVars, loggers, demuxed_RNHUMB,
     gps_data_out, NothingSent, R!Tick, R!rc_raw_umb
<1> QED
  BY <1>1, <1>2, <1>3, <1>4, Zenon DEF Next

-----------------------------------------------------------------------------
(* What the roll board and the ground are told.                            *)

LEMMA ServoAngle == RP!TypeOK => servo.angle \in Angles
BY DEF RP!TypeOK, RP!Angles, Angles

LinkInv == RollServoType /\ LossIsNumbered /\ BoardFollows /\ LogTellsServo

LEMMA InitLinkInv == Init => LinkInv
<1> SUFFICES ASSUME Init PROVE LinkInv
  OBVIOUS
<1>1. /\ seq = 0 /\ missed = 0 /\ servo.angle = 0 /\ servo.disable = TRUE
      /\ board = {}
  BY DEF Init, RollServoInit, R!Init
<1>3. RollServoType
  BY <1>1, RollServoAssumption DEF RollServoType
<1>4. LossIsNumbered
  BY <1>1, RollServoAssumption DEF LossIsNumbered
<1>5. BoardFollows
  BY <1>1 DEF BoardFollows
<1>6. logROLL = [angle |-> [order |-> "net", value |-> 0], disable |-> TRUE]
  BY DEF Init, Double, bswap64
<1> QED
  BY <1>1, <1>3, <1>4, <1>5, <1>6 DEF LinkInv, LogTellsServo

(* Counting on from a remainder.                                           *)
LEMMA RemainderUnique ==
  ASSUME NEW n \in Nat \ {0}, NEW q \in Int, NEW r \in 0 .. n - 1
  PROVE  (n * q + r) % n = r
<1> DEFINE y == n * q + r
           e == y \div n
<1>1. y \in Int
  OBVIOUS
<1>2. /\ e \in Int /\ y % n \in 0 .. n - 1 /\ y = n * e + (y % n)
  BY <1>1
<1> DEFINE k == y % n
<1> HIDE DEF e
<1>3. n * q + r = n * e + k
  BY <1>2
<1> HIDE DEF y, k
<1>4. k \in 0 .. n - 1 /\ e \in Int
  BY <1>2 DEF k
<1> DEFINE d == q - e
<1>5. d \in Int /\ n * d = k - r
  BY <1>3, <1>4
<1> HIDE DEF d
<1>6. d >= 1 => n * d >= n
  BY <1>5
<1>7. d <= -1 => n * d <= -n
  BY <1>5
<1>8. d = 0
  BY <1>4, <1>5, <1>6, <1>7
<1>9. k = r
  BY <1>4, <1>5, <1>8
<1> QED
  BY <1>9 DEF k, y

LEMMA SuccessorOfRemainder ==
  ASSUME NEW x \in Nat, NEW n \in Nat \ {0}
  PROVE  ((x % n) + 1) % n = (x + 1) % n
<1> DEFINE q == x \div n
           r == x % n
<1>1. q \in Int /\ r \in 0 .. n - 1 /\ x = n * q + r
  OBVIOUS
<1> HIDE DEF q, r
<1>2. CASE r + 1 <= n - 1
  <2>1. r + 1 \in 0 .. n - 1 /\ x + 1 = n * q + (r + 1) /\ r + 1 = n * 0 + (r + 1)
    BY <1>1, <1>2
  <2>2. (x + 1) % n = r + 1
    BY <1>1, <2>1, RemainderUnique
  <2>3. (r + 1) % n = r + 1
    BY <2>1, RemainderUnique
  <2> QED
    BY <2>2, <2>3 DEF r
<1>3. CASE r + 1 = n
  <2>1. 0 \in 0 .. n - 1 /\ x + 1 = n * (q + 1) + 0 /\ q + 1 \in Int
    BY <1>1, <1>3
  <2>2. (x + 1) % n = 0
    BY <2>1, RemainderUnique
  <2>3. r + 1 = n * 1 + 0
    BY <1>1, <1>3
  <2>4. (r + 1) % n = 0
    BY <2>1, <2>3, RemainderUnique
  <2> QED
    BY <2>2, <2>4 DEF r
<1> QED
  BY <1>1, <1>2, <1>3

(* A command that arrives, and one that is lost.                           *)
LEMMA ArrivalKeepsLink ==
  ASSUME LinkInv, servo'.angle \in Angles, servo'.disable \in BOOLEAN,
         seq' = (seq + 1) % SeqMod, missed' = 0,
         board' = {[seq |-> seq, ticks |-> PWM(servo'.angle),
                    disable |-> servo'.disable]}
  PROVE  (RollServoType /\ LossIsNumbered /\ BoardFollows)'
<1> DEFINE b == [seq |-> seq, ticks |-> PWM(servo'.angle), disable |-> servo'.disable]
<1>1. seq \in 0 .. SeqMod - 1 /\ seq' \in 0 .. SeqMod - 1
  BY RollServoAssumption DEF LinkInv, RollServoType
<1>2. PWM(servo'.angle) \in Ticks
  BY PWMBounds
<1>3. RollServoType'
  <2>1. b \in [seq : 0 .. SeqMod - 1, ticks : Ticks, disable : BOOLEAN]
    BY <1>1, <1>2
  <2> HIDE DEF b
  <2>2. board' = {b}
    BY DEF b
  <2> QED
    BY <1>1, <2>1, <2>2, RollServoAssumption DEF RollServoType
<1>4. LossIsNumbered'
  <2>1. board' # {} /\ \A c \in board' : c.seq = seq
    OBVIOUS
  <2>2. \A c \in board' : (c.seq + 1 + missed') % SeqMod = seq'
    BY <1>1, <2>1
  <2> QED
    BY <2>1, <2>2 DEF LossIsNumbered
<1>5. BoardFollows'
  BY DEF BoardFollows
<1> QED
  BY <1>3, <1>4, <1>5

LEMMA LossKeepsLink ==
  ASSUME LinkInv, seq' = (seq + 1) % SeqMod, Lost
  PROVE  (RollServoType /\ LossIsNumbered /\ BoardFollows)'
<1>1. /\ board' = board /\ missed \in 0 .. MaxMissed /\ MaxMissed \in Nat \ {0}
      /\ missed' = IF missed < MaxMissed THEN missed + 1 ELSE missed
  BY RollServoAssumption DEF Lost, LinkInv, RollServoType
<1>2. missed' \in 1 .. MaxMissed
  BY <1>1
<1>3. RollServoType'
  BY <1>1, <1>2, RollServoAssumption DEF RollServoType, LinkInv
<1>4. ASSUME missed' < MaxMissed, NEW b \in board
      PROVE  (b.seq + 1 + missed') % SeqMod = seq'
  <2> DEFINE x == b.seq + 1 + missed
  <2>1. missed < MaxMissed /\ missed' = missed + 1
    BY <1>1, <1>4
  <2>2. b.seq \in Nat
    BY RollServoAssumption DEF LinkInv, RollServoType
  <2>3. x \in Nat /\ SeqMod \in Nat \ {0} /\ b.seq + 1 + missed' = x + 1
    BY <1>1, <2>1, <2>2, RollServoAssumption
  <2>4. x % SeqMod = seq
    BY <2>1 DEF LinkInv, LossIsNumbered
  <2> HIDE DEF x
  <2> QED
    BY <2>3, <2>4, SuccessorOfRemainder
<1>7. ASSUME missed' < MaxMissed, board = {}
      PROVE  missed' % SeqMod = seq'
  <2>1. missed < MaxMissed /\ missed' = missed + 1 /\ missed \in Nat
    BY <1>1, <1>7
  <2>2. missed % SeqMod = seq
    BY <1>7, <2>1 DEF LinkInv, LossIsNumbered
  <2> QED
    BY <2>1, <2>2, SuccessorOfRemainder, RollServoAssumption
<1>5. LossIsNumbered'
  BY <1>1, <1>4, <1>7 DEF LossIsNumbered
<1>6. BoardFollows'
  BY <1>2 DEF BoardFollows
<1> QED
  BY <1>3, <1>5, <1>6

LEMMA LinkStep ==
  ASSUME LinkInv, RP!TypeOK', [Next]_vars
  PROVE  LinkInv'
<1>1. CASE NothingSent /\ UNCHANGED servo
  BY <1>1 DEF NothingSent, servoVars, LinkInv, RollServoType, LossIsNumbered,
              BoardFollows, LogTellsServo
<1>2. CASE rc_send_servo
  <2>1. servo'.angle \in Angles /\ servo'.disable \in BOOLEAN
    BY DEF RP!TypeOK, RP!Angles, Angles
  <2>2. (RollServoType /\ LossIsNumbered /\ BoardFollows)'
    BY <1>2, <2>1, SendFacts, ArrivalKeepsLink, LossKeepsLink, Zenon
  <2>3. LogTellsServo'
    BY <1>2, <2>1, SendFacts, Zenon DEF LogTellsServo
  <2> QED
    BY <2>2, <2>3 DEF LinkInv
<1> QED
  BY <1>1, <1>2, SendShapes, Zenon

LEMMA LinkInvariant == Spec => []LinkInv
BY InitLinkInv, LinkStep, RollControlFacts, PTL DEF Spec

(* A command that arrives is the one roll control meant, in ticks of its   *)
(* angle, although the logger turns the shared message round.              *)
THEOREM BoardIsTold == Spec => []BoardFollows
<1>1. LinkInv => BoardFollows
  BY DEF LinkInv
<1> QED
  BY <1>1, LinkInvariant, PTL

(* The roll board can tell from the numbers how many commands it missed.   *)
THEOREM LossNumbered == Spec => []LossIsNumbered
<1>1. LinkInv => LossIsNumbered
  BY DEF LinkInv
<1> QED
  BY <1>1, LinkInvariant, PTL

(* The log's last ROLL entry is the last command, in network byte order.   *)
THEOREM LogIsTold == Spec => []LogTellsServo
<1>1. LinkInv => LogTellsServo
  BY DEF LinkInv
<1> QED
  BY <1>1, LinkInvariant, PTL

LEMMA CentredMessage ==
  ASSUME R!set_canard_angle(0)
  PROVE  servo'.angle = 0
<1>1. R!CLAMP(0, -MAX_CANARD_ANGLE, MAX_CANARD_ANGLE) = 0
  BY RollServoAssumption DEF R!CLAMP
<1> QED
  BY <1>1 DEF R!set_canard_angle

(* The operator's command reaches the servo interface, whatever roll       *)
(* control takes the servos for.                                           *)
LEMMA OffIsSent ==
  ASSUME OperatorOff
  PROVE  rc_send_servo /\ servo'.disable = TRUE /\ servo'.angle = 0
<1>1. rc_send_servo /\ R!set_canard_angle(0) /\ enable_servo' = FALSE
  <2>1. ASSUME NEW buffer, signal' = "SAFE", demuxed_ARM(buffer)
        PROVE  rc_send_servo /\ R!set_canard_angle(0) /\ enable_servo' = FALSE
    <3>1. signal' # "none" /\ signal' # "ARM"
      BY <2>1
    <3>2. arm_send_signal(signal')
      BY <2>1, <3>1, Zenon DEF demuxed_ARM
    <3> QED
      BY <3>1, <3>2, Zenon
         DEF arm_send_signal, R!rc_receive_arm, R!set_armed, R!set_servo_enable
  <2>2. ASSUME ~armed, demuxed_RC({"DISABLE"})
        PROVE  rc_send_servo /\ R!set_canard_angle(0) /\ enable_servo' = FALSE
    <3>1. /\ R!COMPARE_BUFFER_TO_CMD({"DISABLE"}, "DISABLE")
          /\ ~R!COMPARE_BUFFER_TO_CMD({"DISABLE"}, "ENABLE")
      BY DEF R!COMPARE_BUFFER_TO_CMD
    <3>2. {"DISABLE"} # {}
      OBVIOUS
    <3> QED
      BY <2>2, <3>1, <3>2, Zenon DEF demuxed_RC, R!rc_raw_testrc, R!set_servo_enable
  <2> QED
    BY <2>1, <2>2, Zenon DEF OperatorOff
<1>2. servo'.disable = ~enable_servo'
  BY <1>1 DEF R!set_canard_angle
<1> QED
  BY <1>1, <1>2, CentredMessage

(* Every SAFE and every DISABLE on the bench is sent: a roll board that it *)
(* reaches has its servos off, also one that missed the command before or  *)
(* that an earlier run left driving.                                       *)
THEOREM SafeIsRepeated == Spec => SafeRepairs
<1>1. LinkInv => OffStep
  <2> SUFFICES ASSUME LinkInv, OperatorOff
               PROVE  /\ seq' = (seq + 1) % SeqMod
                      /\ missed' = 0 => \E b \in board' : b.disable
    BY DEF OffStep
  <2>1. rc_send_servo /\ servo'.disable = TRUE /\ servo'.angle \in Angles
    BY OffIsSent, CentreIsAnAngle
  <2>2. Lost => missed' # 0
    BY RollServoAssumption DEF LinkInv, RollServoType, Lost
  <2>3. ASSUME board' = {[seq |-> seq, ticks |-> PWM(servo'.angle),
                          disable |-> servo'.disable]}
        PROVE  \E b \in board' : b.disable
    BY <2>1, <2>3
  <2> QED
    BY <2>1, <2>2, <2>3, SendFacts, Zenon
<1> QED
  BY <1>1, LinkInvariant, PTL DEF SafeRepairs

-----------------------------------------------------------------------------
(* The fins on the pad.                                                    *)

AtRest == \A i \in 1 .. Len(flown) : ~S!Strong(i)

(* Up to the launch the estimator keeps its initial state, and roll control*)
(* the fins at the centre.                                                 *)
PadInv ==
  /\ flown \in Seq([at : Nat, accel : Int])
  /\ AtRest => /\ ~has_launched /\ current_state = S!OnPad
               /\ servo.angle = 0 /\ \A b \in board : b.ticks = PWM_TICKS_CENTER

LEMMA NtohsType ==
  ASSUME NEW w \in A!Word
  PROVE  A!ntohs(w) \in Int
<1>1. w[1] \in Int /\ w[2] \in Int
  BY DEF A!Word, A!Byte
<1>2. 256 * w[1] + w[2] \in Int /\ 2^15 \in Int /\ 2^16 \in Int
  BY <1>1
<1> QED
  BY <1>2 DEF A!ntohs, A!Signed

(* A sample that is not strong leaves a rocket at rest at rest.            *)
LEMMA SampleAtRest ==
  ASSUME PadInv, NEW a \in Int, NEW r, NEW at \in Nat, S!state_receive_imu(a, r, at)
  PROVE  /\ flown' \in Seq([at : Nat, accel : Int])
         /\ AtRest' => /\ AtRest /\ ~has_launched'
                       /\ current_state' = S!OnPad /\ vste'.data = S!OnPad
<1> DEFINE rec == [at |-> at, accel |-> a]
<1>1. flown' = Append(flown, rec)
  BY Zenon DEF S!state_receive_imu, S!Record
<1>2. rec \in [at : Nat, accel : Int] /\ rec.accel = a
  OBVIOUS
<1> HIDE DEF rec
<1>3. /\ flown' \in Seq([at : Nat, accel : Int]) /\ Len(flown) \in Nat
      /\ Len(flown') = Len(flown) + 1 /\ flown'[Len(flown) + 1] = rec
      /\ \A i \in 1 .. Len(flown) : flown'[i] = flown[i]
  BY <1>1, <1>2 DEF PadInv
<1>4. ASSUME AtRest' PROVE AtRest /\ ~S!is_launch(a)
  <2>1. ASSUME NEW i \in 1 .. Len(flown) + 1
        PROVE  ~(flown'[i].accel > Threshold \/ flown'[i].accel < -Threshold)
    BY <1>3, <1>4, <2>1, Zenon DEF AtRest, S!Strong
  <2>2. AtRest
    <3>1. ASSUME NEW i \in 1 .. Len(flown) PROVE ~S!Strong(i)
      <4>1. i \in 1 .. Len(flown) + 1
        BY <1>3
      <4> QED
        BY <1>3, <2>1, <4>1, Zenon DEF S!Strong
    <3> QED
      BY <3>1 DEF AtRest
  <2>3. ~(a > Threshold \/ a < -Threshold)
    <3>1. Len(flown) + 1 \in 1 .. Len(flown) + 1
      BY <1>3
    <3> QED
      BY <1>2, <1>3, <2>1, <3>1, Zenon
  <2> QED
    BY <2>2, <2>3, FlightComputerAssumption
       DEF S!StateEstimatorAssumption, S!is_launch
<1>5. ASSUME AtRest' PROVE ~has_launched'
  BY <1>4, <1>5, Zenon DEF S!state_receive_imu, PadInv
<1>6. ASSUME AtRest' PROVE current_state' = S!OnPad /\ vste'.data = S!OnPad
  <2>1. current_state' = current_state
    BY <1>5, <1>6, Zenon DEF S!state_receive_imu
  <2>2. vste'.data = current_state'
    BY DEF S!state_receive_imu
  <2> QED
    BY <1>4, <1>6, <2>1, <2>2, Zenon DEF PadInv
<1> QED
  BY <1>3, <1>4, <1>5, <1>6

(* Roll control does not steer a rocket that it is told is at rest.        *)
LEMMA SteersInFlightOnly ==
  ASSUME NEW r, R!rc_receive_state(r, FALSE)
  PROVE  UNCHANGED servo \/ servo'.angle = 0
<1>1. CASE R!check_timeout
  BY <1>1, CentredMessage, Zenon DEF R!check_timeout
<1>2. CASE UNCHANGED R!vars
  BY <1>2, Zenon DEF R!vars
<1>3. CASE R!pid_step(r, FALSE)
  <2>1. \A c : R!estimate_alpha(c, FALSE) = {0}
    BY Zenon DEF R!estimate_alpha
  <2>2. R!set_canard_angle(0)
    BY <1>3, <2>1 DEF R!pid_step
  <2> QED
    BY <2>2, CentredMessage
<1> QED
  BY <1>1, <1>2, <1>3, Zenon DEF R!rc_receive_state

(* The ticks at the board when angle 0 is commanded, or nothing.            *)
LEMMA BoardStaysCentred ==
  ASSUME [Next]_vars, UNCHANGED servo \/ servo'.angle = 0,
         servo.angle = 0, \A b \in board : b.ticks = PWM_TICKS_CENTER
  PROVE  servo'.angle = 0 /\ \A b \in board' : b.ticks = PWM_TICKS_CENTER
<1>1. servo'.angle = 0
  OBVIOUS
<1>2. CASE NothingSent
  BY <1>1, <1>2 DEF NothingSent, servoVars
<1>3. CASE rc_send_servo
  <2>1. servo'.angle \in Angles
    BY <1>1, CentreIsAnAngle
  <2>2. (\A b \in board' : b.ticks = PWM(servo'.angle)) \/ board' = board
    BY <1>3, <2>1, SendFacts DEF Lost
  <2> QED
    BY <1>1, <2>2 DEF PWM_TICKS_CENTER
<1> QED
  BY <1>1, <1>2, <1>3, SendShapes, Zenon

LEMMA OtherStepsCentre ==
  ASSUME [Next]_vars, \A d \in Imu : ~demuxed_ADIS(d)
  PROVE  UNCHANGED stateVars /\ (UNCHANGED servo \/ servo'.angle = 0)
<1>1. ASSUME NEW buffer, demuxed_ARM(buffer)
      PROVE  UNCHANGED stateVars /\ (UNCHANGED servo \/ servo'.angle = 0)
  <2>1. UNCHANGED servo \/ R!set_canard_angle(0)
    BY <1>1, Zenon DEF demuxed_ARM, arm_send_signal, R!rc_receive_arm, rollVars
  <2> QED
    BY <1>1, <2>1, CentredMessage, Zenon DEF demuxed_ARM
<1>2. ASSUME NEW data, demuxed_RC(data)
      PROVE  UNCHANGED stateVars /\ (UNCHANGED servo \/ servo'.angle = 0)
  BY <1>2, CentredMessage, Zenon DEF demuxed_RC, R!rc_raw_testrc
<1>3. ASSUME \/ NotFlying \/ Tick \/ UNCHANGED vars
             \/ \E detect : demuxed_RNHUMB(detect)
             \/ \E ID, m : gps_data_out(ID, m)
      PROVE  UNCHANGED stateVars /\ UNCHANGED servo
  BY <1>3, Zenon DEF NotFlying, Tick, vars, rollVars, demuxed_RNHUMB,
     gps_data_out, R!Tick, R!rc_raw_umb
<1> QED
  BY <1>1, <1>2, <1>3, Zenon DEF Next

LEMMA PadStep ==
  ASSUME PadInv, RP!TypeOK, [Next]_vars
  PROVE  PadInv'
<1>1. ASSUME NEW d \in Imu, demuxed_ADIS(d) PROVE PadInv'
  <2>1. d.acc.acc_x \in A!Word /\ clock \in Nat
    BY FlightComputerAssumption DEF A!Axes, RP!TypeOK
  <2>2. A!ntohs(d.acc.acc_x) \in Int
    BY <2>1, NtohsType
  <2>3. S!state_receive_imu(A!ntohs(d.acc.acc_x), d.gyro_x, clock)
    BY <1>1, Zenon DEF demuxed_ADIS
  <2>4. /\ flown' \in Seq([at : Nat, accel : Int])
        /\ AtRest' => /\ AtRest /\ ~has_launched'
                      /\ current_state' = S!OnPad /\ vste'.data = S!OnPad
    BY <2>1, <2>2, <2>3, SampleAtRest
  <2>5. ASSUME AtRest'
        PROVE  servo'.angle = 0 /\ \A b \in board' : b.ticks = PWM_TICKS_CENTER
    <3>1. flying(vste'.data) = FALSE
      BY <2>4, <2>5, FlightComputerAssumption DEF flying, S!OnPad
    <3>2. R!rc_receive_state(vste'.data.roll_rate, FALSE)
      BY <1>1, <3>1 DEF demuxed_ADIS, state_send_message
    <3> QED
      BY <2>4, <2>5, <3>2, SteersInFlightOnly, BoardStaysCentred, Zenon DEF PadInv
  <2> QED
    BY <2>4, <2>5 DEF PadInv
<1>2. ASSUME \A d \in Imu : ~demuxed_ADIS(d) PROVE PadInv'
  <2>1. UNCHANGED stateVars /\ (UNCHANGED servo \/ servo'.angle = 0)
    BY <1>2, OtherStepsCentre
  <2>2. UNCHANGED <<flown, has_launched, current_state>> /\ (AtRest' <=> AtRest)
    BY <2>1, Zenon DEF stateVars, AtRest, S!Strong
  <2> QED
    BY <2>1, <2>2, BoardStaysCentred, Zenon DEF PadInv
<1> QED
  BY <1>1, <1>2

(* Until a launch is seen no fin is commanded away from the centre.        *)
THEOREM PadIsSafe == Spec => []FinsStillOnPad
<1>1. Init => PadInv
  BY DEF Init, S!Init, R!Init, RollServoInit, PadInv
<1>2. PadInv => FinsStillOnPad
  BY Zenon DEF PadInv, FinsStillOnPad, AtRest
<1> QED
  BY <1>1, <1>2, PadStep, RollControlFacts, PTL DEF Spec

-----------------------------------------------------------------------------
(* Descriptors.                                                            *)

LEMMA SocketsShapes ==
  ASSUME [Next]_vars
  PROVE  Startup \/ version_callback \/ UNCHANGED socketVars
BY Zenon DEF Next, vars, demuxed_ADIS, demuxed_ARM, demuxed_RC, demuxed_RNHUMB,
   gps_data_out, Tick

LEMMA IdleSockets ==
  ASSUME UNCHANGED socketVars
  PROVE  /\ SocketsInv => SocketsInv'
         /\ WritersInv => WritersInv'
BY DEF socketVars, SocketsInv, SocketsType, PolledInv, CallbackHasItsSocket,
       WritersInv, Connected, socket

LEMMA SocketsInvariant == Spec => []SocketsInv
<1>1. Init => SocketsInv
  BY InitSocketsInv DEF Init
<1>2. SocketsInv /\ [Next]_vars => SocketsInv'
  BY SocketsShapes, SocketsStep, IdleSockets
<1> QED
  BY <1>1, <1>2, PTL DEF Spec

(* No descriptor is closed, or given to another socket, while it is polled.*)
THEOREM CallbacksOwnSockets == Spec => []CallbackHasItsSocket
<1>1. SocketsInv => CallbackHasItsSocket
  BY DEF SocketsInv, PolledInv
<1> QED
  BY <1>1, SocketsInvariant, PTL

(* A handler's datagram reaches the module's own peer or nobody, if only   *)
(* the connect of the servo interface or of the hub's query may fail.      *)
THEOREM WritesReachPeers ==
  ASSUME LoopbackConnects
  PROVE  Spec => []NoStrayWrites
<1>1. Init => WritersInv
  BY InitSocketsInv DEF Init
<1>2. SocketsInv /\ WritersInv /\ [Next]_vars => WritersInv'
  BY SocketsShapes, WritersStep, IdleSockets
<1>3. SocketsInv /\ WritersInv => NoStrayWrites
  BY WritersInvSuffices
<1> QED
  BY <1>1, <1>2, <1>3, SocketsInvariant, PTL DEF Spec

-----------------------------------------------------------------------------
(* Types of the link, the descriptors and what is kept of the log.         *)
LogType == logMESG \in {Nobody, "ARM", "SAFE"} /\ logV8A8 \in Fixes \cup {0}

THEOREM TypeCorrect == Spec => []TypeOK
<1>1. Init => LogType
  BY DEF Init, LogType
<1>2. LogType /\ [Next]_vars => LogType'
  <2> SUFFICES ASSUME LogType, [Next]_vars PROVE LogType'
    OBVIOUS
  <2>1. logMESG' \in {Nobody, "ARM", "SAFE"}
    BY ArmedShapes DEF LogType
  <2>2. logV8A8' \in Fixes \cup {0}
    BY LockShapes DEF LogType
  <2> QED
    BY <2>1, <2>2 DEF LogType
<1>3. RP!TypeOK /\ LinkInv /\ SocketsInv /\ LogType => TypeOK
  <2> SUFFICES ASSUME RP!TypeOK, LinkInv, SocketsInv, LogType PROVE TypeOK
    OBVIOUS
  <2>1. servo.angle \in Angles /\ servo.disable \in BOOLEAN
    BY DEF RP!TypeOK, RP!Angles, Angles
  <2>2. logROLL \in [angle : [order : {"host", "net"}, value : Angles],
                     disable : BOOLEAN]
    BY <2>1 DEF LinkInv, LogTellsServo
  <2> QED
    BY <2>2, Zenon DEF TypeOK, LinkInv, SocketsInv, LogType
<1> QED
  BY <1>1, <1>2, <1>3, RollControlFacts, LinkInvariant, SocketsInvariant, PTL DEF Spec

-----------------------------------------------------------------------------
(* The flight computer implements the state estimator, whose clock is the  *)
(* time of the last sample.  No datagram arrives at time 0, which the code *)
(* takes for "none yet"; before the first, 1 is as early as any.           *)
Sampled == IF flown = <<>> THEN 1 ELSE flown[Len(flown)].at

SP == INSTANCE StateEstimator_proofs
        WITH Accels <- {A!ntohs(d.acc.acc_x) : d \in Imu}, Gaps <- 0 .. MaxTime,
             RollRates <- {d.gyro_x : d \in Imu}, samples <- flown,
             StartTimes <- {1} \cap (0 .. MaxTime), clock <- Sampled

LEMMA EstimatorAssumption == SP!StateEstimatorAssumption
<1>1. {1} \cap (0 .. MaxTime) \subseteq 0 .. MaxTime
  OBVIOUS
<1> QED
  BY <1>1, FlightComputerAssumption, Zenon
     DEF S!StateEstimatorAssumption, SP!StateEstimatorAssumption

SampledInv ==
  /\ flown \in Seq([at : Nat, accel : Int])
  /\ clock \in 0 .. MaxTime /\ Sampled \in 1 .. clock

(* The sample is one of the estimator's own, after a gap of its own.       *)
LEMMA SampleStep ==
  ASSUME SampledInv, NEW a, NEW r, S!state_receive_imu(a, r, clock)
  PROVE  SP!state_receive_imu(a, r, clock)
<1>1. Sampled' = clock
  <2> DEFINE rec == [at |-> clock, accel |-> a]
  <2>1. flown' = Append(flown, rec) /\ rec.at = clock
    BY Zenon DEF S!state_receive_imu, S!Record
  <2> HIDE DEF rec
  <2>2. flown' # <<>> /\ flown'[Len(flown')] = rec
    BY <2>1 DEF SampledInv
  <2> QED
    BY <2>1, <2>2 DEF Sampled
<1>2. SP!Record(a, clock)
  BY <1>1, Zenon DEF S!state_receive_imu, S!Record, SP!Record
<1> QED
  BY <1>2, Zenon DEF S!state_receive_imu, S!is_launch, S!integrate, S!elapsed,
     S!from_psas_time, SP!state_receive_imu, SP!is_launch, SP!integrate, SP!elapsed,
     SP!from_psas_time

(* A datagram takes no time; only Tick lets it pass.                       *)
LEMMA ClockShapes ==
  ASSUME RateInv, [Next]_vars
  PROVE  clock' = clock \/ (clock < MaxTime /\ clock' = clock + 1)
<1>1. [R!Next]_(R!vars)
  BY RollStep
<1>2. ASSUME R!StateMessage \/ UNCHANGED R!vars PROVE clock' = clock
  BY <1>2, Zenon DEF R!StateMessage, R!rc_receive_state, R!check_timeout, R!pid_step,
     R!vars
<1> QED
  BY <1>1, <1>2, Zenon DEF R!Next, R!rc_raw_umb, R!rc_receive_arm, R!rc_raw_testrc,
     R!Tick

LEMMA EstimatorStep ==
  ASSUME SampledInv, RateInv, [Next]_vars
  PROVE  SampledInv' /\ [SP!Next]_(SP!vars)
<1>1. /\ MaxTime \in Nat /\ clock \in Nat /\ clock <= MaxTime
      /\ clock' \in 0 .. MaxTime /\ clock <= clock'
  <2>1. MaxTime \in Nat /\ clock \in 0 .. MaxTime
    BY FlightComputerAssumption DEF S!StateEstimatorAssumption, SampledInv
  <2> QED
    BY <2>1, ClockShapes
<1>2. ASSUME NEW d \in Imu, demuxed_ADIS(d) PROVE SampledInv' /\ SP!Next
  <2> DEFINE a == A!ntohs(d.acc.acc_x)
  <2>1. S!state_receive_imu(a, d.gyro_x, clock) /\ Len(flown) < MaxSamples
    BY <1>2, Zenon DEF demuxed_ADIS, A!arm_receive_imu, A!Record
  <2>2. a \in Int
    <3>1. d.acc.acc_x \in A!Word
      BY FlightComputerAssumption DEF A!Axes
    <3> QED
      BY <3>1, NtohsType
  <2>3. d.gyro_x \in {e.gyro_x : e \in Imu} /\ a \in {A!ntohs(e.acc.acc_x) : e \in Imu}
    BY Zenon
  <2> HIDE DEF a
  <2>4. SP!state_receive_imu(a, d.gyro_x, clock)
    BY <2>1, SampleStep
  <2>5. flown' = Append(flown, [at |-> clock, accel |-> a]) /\ Sampled' = clock
    BY <2>4, Zenon DEF SP!state_receive_imu, SP!Record
  <2>6. flown' \in Seq([at : Nat, accel : Int])
    <3>1. [at |-> clock, accel |-> a] \in [at : Nat, accel : Int]
      BY <1>1, <2>2
    <3> QED
      BY <2>5, <3>1 DEF SampledInv
  <2>7. /\ clock - Sampled \in 0 .. MaxTime /\ Sampled + (clock - Sampled) = clock
        /\ Sampled' \in 1 .. clock'
    BY <1>1, <2>5 DEF SampledInv
  <2>8. SampledInv'
    BY <1>1, <2>6, <2>7 DEF SampledInv
  <2>9. \E gap \in 0 .. MaxTime : /\ Sampled + gap = clock
                                  /\ Sampled + gap <= MaxTime
    BY <1>1, <2>7
  <2> QED
    BY <2>1, <2>3, <2>4, <2>8, <2>9, Zenon DEF SP!Next
<1>3. ASSUME UNCHANGED stateVars PROVE SampledInv' /\ UNCHANGED SP!vars
  <2>1. Sampled' = Sampled
    BY <1>3, Zenon DEF stateVars, Sampled
  <2>2. UNCHANGED SP!vars
    BY <1>3, <2>1, Zenon DEF stateVars, SP!vars
  <2>3. flown' = flown
    BY <1>3, Zenon DEF stateVars
  <2>4. Sampled' \in 1 .. clock'
    BY <1>1, <2>1 DEF SampledInv
  <2> QED
    BY <1>1, <2>2, <2>3, <2>4 DEF SampledInv
<1>4. CASE \A d \in Imu : ~demuxed_ADIS(d)
  BY <1>3, <1>4, OtherStepsCentre
<1> QED
  BY <1>2, <1>4

LEMMA EstimatorInit ==
  ASSUME 0 \notin StartTimes, Init
  PROVE  SP!Init /\ SampledInv
<1>1. StartTimes \subseteq 0 .. MaxTime /\ MaxTime \in Nat
  BY FlightComputerAssumption DEF S!StateEstimatorAssumption
<1>2. clock \in StartTimes /\ flown = <<>>
  BY Zenon DEF Init, S!Init
<1>3. clock \in 0 .. MaxTime /\ clock >= 1
  BY <1>1, <1>2
<1>4. Sampled = 1 /\ Sampled \in {1} \cap (0 .. MaxTime) /\ Sampled \in 1 .. clock
  BY <1>1, <1>2, <1>3 DEF Sampled
<1>5. SP!Init
  BY <1>4, Zenon DEF Init, S!Init, S!OnPad, SP!Init, SP!OnPad
<1> QED
  BY <1>2, <1>3, <1>4, <1>5 DEF SampledInv

(* The samples that reach the state estimator through the demultiplexer,   *)
(* interleaved with everything else the flight computer does, are those of *)
(* the estimator's own module.                                             *)
THEOREM ImplementsStateEstimator ==
  ASSUME 0 \notin StartTimes
  PROVE  Spec => SP!Spec
<1>1. Init => SP!Init /\ SampledInv
  BY EstimatorInit
<1>2. SampledInv /\ RateInv /\ [Next]_vars => SampledInv' /\ [SP!Next]_(SP!vars)
  BY EstimatorStep
<1> QED
  BY <1>1, <1>2, RateInvariant, PTL DEF Spec, SP!Spec

(* In the flight computer roll control is told of a flight from the first  *)
(* strong sample on, with the time since that sample and with the speed    *)
(* and altitude that are the integrals of the samples since: what it       *)
(* steers by is the flight, as long as the timestamp does not wrap.        *)
THEOREM ToldOfTheFlight ==
  ASSUME 0 \notin StartTimes, MaxTime < TimeMod
  PROVE  Spec => [](SP!LaunchDecides /\ SP!FlightTimeIsTrue /\ SP!IntegratesFlight)
<1>1. Spec => SP!Spec
  BY ImplementsStateEstimator
<1>2. SP!Spec => []SP!LaunchDecides
  BY EstimatorAssumption, SP!LaunchLatched
<1>3. SP!Spec => []SP!FlightTimeIsTrue
  BY EstimatorAssumption, SP!FlightClock
<1>4. SP!Spec => []SP!IntegratesFlight
  <2>1. 0 \notin {1} \cap (0 .. MaxTime)
    OBVIOUS
  <2> QED
    BY <2>1, EstimatorAssumption, SP!FlightIsIntegrated
<1> QED
  BY <1>1, <1>2, <1>3, <1>4, PTL
=============================================================================
