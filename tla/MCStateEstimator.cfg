CONSTANTS
  Accels <- MCAccels
  RollRates <- MCRollRates
  Gaps <- MCGaps
  Gravity = 1
  Threshold = 4
  LAUNCH_ALTITUDE = 9
  TimeMod = 16
  WordMod = 64
  StartTimes <- MCEarly
  MaxTime = 10
  MaxSamples = 4
SPECIFICATION Spec
INVARIANTS
  TypeOK
  LaunchDecides
  FlightTimeIsTrue
  IntegratesFlight
CHECK_DEADLOCK FALSE
