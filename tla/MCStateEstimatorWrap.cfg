CONSTANTS
  Accels <- MCAccels
  RollRates <- MCRollRates
  Gaps <- MCGaps
  Gravity = 1
  Threshold = 4
  LAUNCH_ALTITUDE = 9
  TimeMod = 16
  WordMod = 64
  StartTimes <- MCLate
  MaxTime = 20
  MaxSamples = 4
SPECIFICATION Spec
INVARIANT IntegratesFlight
CHECK_DEADLOCK FALSE
