--------------------------------- MODULE Arm ---------------------------------
(***************************************************************************)
(* src/arm.c: the ARM rocket manager.  It watches the IMU and the GPS for  *)
(* the two sensor locks, and turns the operator's datagrams into the ARM   *)
(* and SAFE signals that arm_send_signal hands to the roll controller and  *)
(* the logger.                                                             *)
(***************************************************************************)
EXTENDS Integers

CONSTANTS
  N,              \* consecutive upright samples that make a lock: 100
  LittleEndian,   \* the host's byte order (the flight computer is an Atom)
  Samples,        \* the ADIS16405 samples the IMU may send
  MaxSamples      \* bound of the model on the number of samples

Byte == 0 .. 255
Word == Byte \X Byte               \* two bytes in the order of the wire
Axes == {"acc_x", "acc_y", "acc_z"}

ASSUME ArmAssumption ==
  /\ N \in Nat \ {0} /\ MaxSamples \in Nat
  /\ LittleEndian \in BOOLEAN
  /\ Samples \subseteq [Axes -> Word]

VARIABLES
  slock_enable, GPS_locked, upright,   \* arm.c:17-21
  signal,     \* what the last handler handed to arm_send_signal, if anything
  samples,    \* history: IMU samples received
  lastTilt,   \* history: number of the last one arm.c read as not vertical
  wireTilt,   \* history: number of the last one that was not vertical
  lastFix     \* history: fix_mode of the last V8A8 message, 0 before any

imuVars == <<upright, samples, lastTilt, wireTilt>>
gpsVars == <<GPS_locked, lastFix>>
vars == <<slock_enable, signal, imuVars, gpsVars>>

Signed(word) == IF word >= 2^15 THEN word - 2^16 ELSE word
ntohs(w) == Signed(256 * w[1] + w[2])

(* arm.c uses the int16_t of the packed struct as it lies in memory. *)
HostRead(w) == IF LittleEndian THEN Signed(256 * w[2] + w[1]) ELSE ntohs(w)

(* In units of 10 micro-g: 1 g, and a raw count; ACCEL_NOISE_BOUND is 10000.*)
G == 100000
Count == 333
fabs(a) == IF a < 0 THEN -a ELSE a

\* fault: the difference is not made positive
about_Signed(a, b) == a - b < 10000

about(a, b) == fabs(a - b) < 10000

VENUS_A8_FIX_MODE_3D == 2
FixModes == 0 .. 3
-----------------------------------------------------------------------------
(* arm_init, and the zero-initialised statics. *)
Init ==
  /\ slock_enable = TRUE /\ GPS_locked = FALSE /\ upright = 0
  /\ signal = "none"
  /\ samples = 0 /\ lastTilt = 0 /\ wireTilt = 0 /\ lastFix = 0

(* The raw counts within the lock's band of -1 g, and of 0 g.              *)
Down  == -330 .. -271
Level == -30 .. 30

(* Is the reading of the sample within the lock's band?                    *)
Vertical(s, Read(_)) ==
  /\ Read(s.acc_x) \in Down
  /\ Read(s.acc_y) \in Level /\ Read(s.acc_z) \in Level

Record(s) ==
  /\ samples' = samples + 1
  /\ lastTilt' = IF Vertical(s, HostRead) THEN lastTilt ELSE samples + 1
  /\ wireTilt' = IF Vertical(s, ntohs) THEN wireTilt ELSE samples + 1

OffAxis(s) ==
  \/ ~about(Count * HostRead(s.acc_x), -G)
  \/ ~about(Count * HostRead(s.acc_y), 0)
  \/ ~about(Count * HostRead(s.acc_z), 0)

\* fault: the counter is not held at its limit
arm_receive_imu_NoLimit(s) ==
  /\ samples < MaxSamples
  /\ upright' = IF OffAxis(s) THEN 0 ELSE upright + 1
  /\ Record(s) /\ signal' = "none"
  /\ UNCHANGED <<slock_enable, gpsVars>>

arm_receive_imu(s) ==
  /\ samples < MaxSamples
  /\ \/ OffAxis(s) /\ upright' = 0
     \/ ~OffAxis(s) /\ upright < N /\ upright' = upright + 1
     \/ ~OffAxis(s) /\ upright >= N /\ UNCHANGED upright
  /\ Record(s) /\ signal' = "none"
  /\ UNCHANGED <<slock_enable, gpsVars>>

\* fault: a lost fix does not clear the lock
arm_receive_gps_Sticky(ID, fix_mode) ==
  /\ IF ID = "V8A8"
     THEN /\ GPS_locked' = (GPS_locked \/ fix_mode >= VENUS_A8_FIX_MODE_3D)
          /\ lastFix' = fix_mode
     ELSE UNCHANGED gpsVars
  /\ signal' = "none"
  /\ UNCHANGED <<slock_enable, imuVars>>

arm_receive_gps(ID, fix_mode) ==
  /\ IF ID = "V8A8"
     THEN /\ GPS_locked' = (fix_mode >= VENUS_A8_FIX_MODE_3D)
          /\ lastFix' = fix_mode
     ELSE UNCHANGED gpsVars
  /\ signal' = "none"
  /\ UNCHANGED <<slock_enable, imuVars>>

-----------------------------------------------------------------------------
(* A datagram stands for the set of command words it compares equal to.    *)
(* strncmp stops at the datagram's own length, so a lone "#" is equal to   *)
(* both #YOLO and #SAFE.                                                   *)
Stub == {"#YOLO", "#SAFE"}
Datagrams == {{"#YOLO"}, {"#SAFE"}, Stub, {"EN_SLOCK"}, {"DI_SLOCK"}, {}}
COMPARE_BUFFER_TO_CMD(buffer, cmd) == cmd \in buffer

accel_locked == upright = N
sensors_allow_launch == (GPS_locked /\ accel_locked) \/ ~slock_enable

arm_raw_in(buffer) ==
  LET Is(cmd) == COMPARE_BUFFER_TO_CMD(buffer, cmd)
      Arms     == Is("#YOLO")
      Safes    == ~Arms /\ Is("#SAFE")
      Enables  == ~Arms /\ ~Safes /\ Is("EN_SLOCK")
      Disables == ~Arms /\ ~Safes /\ ~Enables /\ Is("DI_SLOCK")
  IN /\ signal' = IF Arms /\ sensors_allow_launch THEN "ARM"
                  ELSE IF Safes THEN "SAFE" ELSE "none"
     /\ slock_enable' = IF Enables THEN TRUE
                        ELSE IF Disables THEN FALSE ELSE slock_enable
     /\ UNCHANGED <<imuVars, gpsVars>>

Next ==
  \/ \E s \in Samples : arm_receive_imu(s)
  \/ \E ID \in {"V8A8", "V8xx"}, m \in FixModes : arm_receive_gps(ID, m)
  \/ \E buffer \in Datagrams : arm_raw_in(buffer)

Spec == Init /\ [][Next]_vars
-----------------------------------------------------------------------------
(* Types of arm.c's statics; upright never leaves 0 .. N, or the lock's    *)
(* test for equality with N would miss it.                                 *)
TypeOK ==
  /\ slock_enable \in BOOLEAN /\ GPS_locked \in BOOLEAN
  /\ upright \in 0 .. N
  /\ signal \in {"none", "ARM", "SAFE"}
  /\ samples \in Nat /\ lastTilt \in 0 .. samples /\ wireTilt \in 0 .. samples
  /\ lastFix \in FixModes

(* The acceleration lock is held exactly when each of the last N samples   *)
(* read as -1 g along x and 0 g across it (arm.c:27-40).                   *)
LockIsExact == accel_locked <=> samples - lastTilt >= N

(* The rocket is armed only when each of the last N samples read as        *)
(* vertical and the last navigation message had a 3D fix, or the operator  *)
(* overrode the sensor lock and has not restored it (arm.c:89-101).        *)
ArmIsJustified ==
  signal = "ARM" =>
    \/ ~slock_enable
    \/ samples - lastTilt >= N /\ lastFix >= VENUS_A8_FIX_MODE_3D

(* What the comment of arm_receive_imu asks (arm.c:28): "does the          *)
(* acceleration vector == -1g over the last 100 samples?"                  *)
LockIsVertical == samples - wireTilt >= N => accel_locked
=============================================================================
