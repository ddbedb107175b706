CONSTANTS
  Gain = 2
  DeadZone = 1
  integrator_max = 3
  RollRates <- MCRollRates
  AlphaMax = 2
  MAX_CANARD_ANGLE = 1
  TIMEOUT = 2
  TimeMod = 4
  StartTimes <- MCLate
  MaxTime = 7
SPECIFICATION Spec
INVARIANT NoDriveAfterTimeout
