CONSTANTS
  Imu <- MCImu
  Fixes <- MCFixes
  VelocityMin = 31
  N = 1
  LittleEndian = TRUE
  Gravity = 300
  Threshold = 1224
  LAUNCH_ALTITUDE = 1390
  WordMod = 256
  MaxSamples = 2
  Gain = 2
  DeadZone = 1
  integrator_max = 1
  AlphaMax = 1
  MAX_CANARD_ANGLE = 1
  TIMEOUT = 0
  TimeMod = 64
  StartTimes <- MCStartTimes
  MaxTime = 2
  MIN_SERVO_POSITION_TICKS = 3
  MAX_SERVO_POSITION_TICKS = 8
  SeqMod = 2
  MaxMissed = 2
  MaxFd = 4
  Failures <- MCFailures
SPECIFICATION Spec
INVARIANTS
  TypeOK
  FinsStillOnPad
  BoardFollows
  LossIsNumbered
  LogTellsServo
  LogTellsArming
  CallbackHasItsSocket
  NoStrayWrites
PROPERTIES
  SafeRepairs
  ArmedByLocks
  RollControlSpec
CHECK_DEADLOCK FALSE
