------------------------------ MODULE Arm_proofs ------------------------------
(***************************************************************************)
(* Theorems of Arm for every number of samples N and every set of samples. *)
(***************************************************************************)
EXTENDS Arm, TLAPS

USE ArmAssumption

-----------------------------------------------------------------------------
(* The floating-point test of arm.c, as a band of raw counts.              *)

(* A word of two bytes reads as an integer in either byte order.           *)
LEMMA HostReadType ==
  ASSUME NEW w \in Word
  PROVE  HostRead(w) \in Int
<1>1. w[1] \in Int /\ w[2] \in Int
  BY DEF Word, Byte
<1>2. 256 * w[2] + w[1] \in Int /\ 256 * w[1] + w[2] \in Int
  BY <1>1
<1>3. ASSUME NEW i \in Int PROVE Signed(i) \in Int
  <2>1. 2^15 \in Int /\ 2^16 \in Int
    OBVIOUS
  <2> QED
    BY <2>1 DEF Signed
<1> QED
  BY <1>2, <1>3 DEF HostRead, ntohs

(* about(x, -1) && about(y, 0) && about(z, 0) on the scaled counts is the  *)
(* band of Vertical (arm.c:23-34).                                         *)
LEMMA OffAxisIsNotVertical ==
  ASSUME NEW s \in Samples
  PROVE  OffAxis(s) <=> ~Vertical(s, HostRead)
<1>1. s.acc_x \in Word /\ s.acc_y \in Word /\ s.acc_z \in Word
  BY DEF Axes
<1>2. ASSUME NEW c \in Int
      PROVE  /\ about(Count * c, -G) <=> c \in Down
             /\ about(Count * c, 0) <=> c \in Level
  BY DEF about, fabs, G, Count, Down, Level
<1>3. /\ HostRead(s.acc_x) \in Int
      /\ HostRead(s.acc_y) \in Int
      /\ HostRead(s.acc_z) \in Int
  BY <1>1, HostReadType
<1>4. /\ about(Count * HostRead(s.acc_x), -G) <=> HostRead(s.acc_x) \in Down
      /\ about(Count * HostRead(s.acc_y), 0) <=> HostRead(s.acc_y) \in Level
      /\ about(Count * HostRead(s.acc_z), 0) <=> HostRead(s.acc_z) \in Level
  BY <1>2, <1>3
<1> QED
  BY <1>4, Zenon DEF OffAxis, Vertical

-----------------------------------------------------------------------------
(* The inductive invariant: upright is the length of the current run of    *)
(* vertical samples, held at N, and GPS_locked is the last fix.            *)
LockInv ==
  /\ samples \in Nat /\ lastTilt \in 0 .. samples /\ lastFix \in FixModes
  /\ upright = IF samples - lastTilt >= N THEN N ELSE samples - lastTilt
  /\ GPS_locked <=> lastFix >= VENUS_A8_FIX_MODE_3D
  /\ ArmIsJustified

LEMMA LockInvExact == LockInv => LockIsExact
BY DEF LockInv, LockIsExact, accel_locked

LEMMA ImuKeepsLockInv ==
  ASSUME LockInv, NEW s \in Samples, arm_receive_imu(s)
  PROVE  LockInv'
<1>1. /\ samples' = samples + 1 /\ signal' = "none"
      /\ GPS_locked' = GPS_locked /\ lastFix' = lastFix
  BY Zenon DEF arm_receive_imu, Record, gpsVars
<1>2. ArmIsJustified'
  BY <1>1 DEF ArmIsJustified
<1>3. CASE OffAxis(s)
  <2>1. upright' = 0 /\ lastTilt' = samples + 1
    BY <1>3, OffAxisIsNotVertical, Zenon DEF arm_receive_imu, Record
  <2>2. /\ samples' \in Nat /\ lastTilt' \in 0 .. samples'
        /\ upright' = IF samples' - lastTilt' >= N THEN N ELSE samples' - lastTilt'
    BY <1>1, <2>1 DEF LockInv
  <2> QED
    BY <1>1, <1>2, <2>2, Zenon DEF LockInv
<1>4. CASE ~OffAxis(s)
  <2>1. lastTilt' = lastTilt
    BY <1>4, OffAxisIsNotVertical, Zenon DEF arm_receive_imu, Record
  <2>2. upright' = IF upright < N THEN upright + 1 ELSE upright
    <3>1. upright \in Int /\ (upright >= N <=> ~(upright < N))
      BY DEF LockInv
    <3> QED
      BY <1>4, <3>1, Zenon DEF arm_receive_imu
  <2>3. /\ samples' \in Nat /\ lastTilt' \in 0 .. samples'
        /\ upright' = IF samples' - lastTilt' >= N THEN N ELSE samples' - lastTilt'
    BY <1>1, <2>1, <2>2 DEF LockInv
  <2> QED
    BY <1>1, <1>2, <2>3, Zenon DEF LockInv
<1> QED
  BY <1>3, <1>4

LEMMA GpsKeepsLockInv ==
  ASSUME LockInv, NEW ID, NEW m \in FixModes, arm_receive_gps(ID, m)
  PROVE  LockInv'
<1>1. UNCHANGED <<upright, samples, lastTilt>> /\ signal' = "none"
  BY Zenon DEF arm_receive_gps, imuVars
<1>2. ArmIsJustified'
  BY <1>1 DEF ArmIsJustified
<1>3. \/ lastFix' = m /\ (GPS_locked' <=> m >= VENUS_A8_FIX_MODE_3D)
      \/ lastFix' = lastFix /\ GPS_locked' = GPS_locked
  BY Zenon DEF arm_receive_gps, gpsVars
<1>4. lastFix' \in FixModes /\ (GPS_locked' <=> lastFix' >= VENUS_A8_FIX_MODE_3D)
  <2>1. CASE lastFix' = m /\ (GPS_locked' <=> m >= VENUS_A8_FIX_MODE_3D)
    BY <2>1
  <2>2. CASE lastFix' = lastFix /\ GPS_locked' = GPS_locked
    BY <2>2 DEF LockInv
  <2> QED
    BY <1>3, <2>1, <2>2, Zenon
<1> QED
  BY <1>1, <1>2, <1>4, Zenon DEF LockInv

LEMMA CommandKeepsLockInv ==
  ASSUME LockInv, NEW b \in Datagrams, arm_raw_in(b)
  PROVE  LockInv'
<1>1. UNCHANGED <<upright, samples, lastTilt, GPS_locked, lastFix>>
  BY Zenon DEF arm_raw_in, imuVars, gpsVars
<1>2. ASSUME signal' = "ARM"
      PROVE  sensors_allow_launch /\ slock_enable' = slock_enable
  <2>1. COMPARE_BUFFER_TO_CMD(b, "#YOLO") /\ sensors_allow_launch
    BY <1>2 DEF arm_raw_in
  <2> QED
    BY <2>1, Zenon DEF arm_raw_in
<1>3. ArmIsJustified'
  <2> SUFFICES ASSUME signal' = "ARM", slock_enable'
               PROVE  samples' - lastTilt' >= N /\ lastFix' >= VENUS_A8_FIX_MODE_3D
    BY Zenon DEF ArmIsJustified
  <2>1. GPS_locked /\ accel_locked
    BY <1>2, Zenon DEF sensors_allow_launch
  <2> QED
    BY <1>1, <2>1, LockInvExact, Zenon DEF LockInv, LockIsExact
<1> QED
  BY <1>1, <1>3, Zenon DEF LockInv

LEMMA LockInvariant == Spec => []LockInv
<1>1. Init => LockInv
  <2> SUFFICES ASSUME Init PROVE LockInv
    OBVIOUS
  <2>1. ~GPS_locked /\ ~(lastFix >= VENUS_A8_FIX_MODE_3D)
    BY DEF Init, VENUS_A8_FIX_MODE_3D
  <2>2. samples \in Nat /\ lastTilt \in 0 .. samples /\ lastFix \in FixModes
    BY DEF Init, FixModes
  <2>3. upright = IF samples - lastTilt >= N THEN N ELSE samples - lastTilt
    BY DEF Init
  <2>4. ArmIsJustified
    BY DEF Init, ArmIsJustified
  <2> QED
    BY <2>1, <2>2, <2>3, <2>4, Zenon DEF LockInv
<1>2. LockInv /\ [Next]_vars => LockInv'
  <2> SUFFICES ASSUME LockInv, [Next]_vars PROVE LockInv'
    OBVIOUS
  <2>1. CASE UNCHANGED vars
    BY <2>1, Zenon DEF vars, imuVars, gpsVars, LockInv, ArmIsJustified
  <2> QED
    BY <2>1, ImuKeepsLockInv, GpsKeepsLockInv, CommandKeepsLockInv, Zenon DEF Next
<1> QED
  BY <1>1, <1>2, PTL DEF Spec

(* The acceleration lock means N consecutive vertical readings, for every  *)
(* N and in either byte order.                                             *)
THEOREM AccelLockExact == Spec => []LockIsExact
BY LockInvariant, LockInvExact, PTL

(* No ARM signal without both sensor locks or the operator's override.     *)
THEOREM ArmNeedsLocks == Spec => []ArmIsJustified
<1>1. LockInv => ArmIsJustified
  BY DEF LockInv
<1> QED
  BY <1>1, LockInvariant, PTL

-----------------------------------------------------------------------------
(* The statics keep their types; upright never passes N, where the test    *)
(* for equality would miss it.                                             *)
THEOREM TypeCorrect == Spec => []TypeOK
<1>1. Init => TypeOK
  <2> SUFFICES ASSUME Init PROVE TypeOK
    OBVIOUS
  <2>1. samples \in Nat /\ lastTilt \in 0 .. samples /\ wireTilt \in 0 .. samples
    BY DEF Init
  <2>2. upright \in 0 .. N /\ lastFix \in FixModes
    BY DEF Init, FixModes
  <2>3. slock_enable \in BOOLEAN /\ GPS_locked \in BOOLEAN /\ signal = "none"
    BY DEF Init
  <2> QED
    BY <2>1, <2>2, <2>3 DEF TypeOK
<1>2. LockInv' /\ TypeOK /\ [Next]_vars => TypeOK'
  <2> SUFFICES ASSUME LockInv', TypeOK, [Next]_vars
               PROVE  TypeOK'
    OBVIOUS
  <2>1. samples' \in Nat /\ lastTilt' \in 0 .. samples' /\ lastFix' \in FixModes
    BY Zenon DEF LockInv
  <2>2. upright' \in 0 .. N
    <3>1. upright' = IF samples' - lastTilt' >= N THEN N ELSE samples' - lastTilt'
      BY Zenon DEF LockInv
    <3>2. ASSUME NEW a \in Nat, NEW b \in 0 .. a
          PROVE  (IF a - b >= N THEN N ELSE a - b) \in 0 .. N
      <4>1. a - b \in Nat /\ N \in Nat
        OBVIOUS
      <4> QED
        BY <4>1
    <3> QED
      BY <2>1, <3>1, <3>2, Zenon
  <2>3. /\ slock_enable' \in BOOLEAN /\ GPS_locked' \in BOOLEAN
        /\ signal' \in {"none", "ARM", "SAFE"} /\ wireTilt' \in 0 .. samples'
    <3>1. ASSUME NEW s \in Samples, arm_receive_imu(s)
          PROVE  UNCHANGED <<slock_enable, GPS_locked>> /\ signal' = "none"
                 /\ samples' = samples + 1 /\ wireTilt' \in {wireTilt, samples + 1}
      BY <3>1, Zenon DEF arm_receive_imu, Record, gpsVars
    <3>2. ASSUME NEW ID, NEW m \in FixModes, arm_receive_gps(ID, m)
          PROVE  /\ slock_enable' = slock_enable /\ signal' = "none"
                 /\ UNCHANGED <<samples, wireTilt>>
                 /\ (GPS_locked' = GPS_locked \/ GPS_locked' \in BOOLEAN)
      <4>1. (m >= VENUS_A8_FIX_MODE_3D) \in BOOLEAN
        OBVIOUS
      <4> QED
        BY <3>2, <4>1, Zenon DEF arm_receive_gps, imuVars, gpsVars
    <3>3. ASSUME NEW b \in Datagrams, arm_raw_in(b)
          PROVE  /\ slock_enable' \in {TRUE, FALSE, slock_enable}
                 /\ signal' \in {"none", "ARM", "SAFE"}
                 /\ UNCHANGED <<GPS_locked, samples, wireTilt>>
      BY <3>3, Zenon DEF arm_raw_in, imuVars, gpsVars
    <3>4. CASE UNCHANGED vars
      BY <3>4 DEF vars, imuVars, gpsVars, TypeOK
    <3>5. CASE \E s \in Samples : arm_receive_imu(s)
      BY <3>1, <3>5 DEF TypeOK
    <3>6. CASE \E ID \in {"V8A8", "V8xx"}, m \in FixModes : arm_receive_gps(ID, m)
      BY <3>2, <3>6 DEF TypeOK
    <3>7. CASE \E b \in Datagrams : arm_raw_in(b)
      BY <3>3, <3>7 DEF TypeOK
    <3> QED
      BY <3>4, <3>5, <3>6, <3>7, Zenon DEF Next
  <2> QED
    BY <2>1, <2>2, <2>3, Zenon DEF TypeOK
<1> QED
  BY <1>1, <1>2, LockInvariant, PTL DEF Spec
=============================================================================
