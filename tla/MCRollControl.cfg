CONSTANTS
  Gain = 2
  DeadZone = 1
  integrator_max = 3
  RollRates <- MCRollRates
  AlphaMax = 2
  MAX_CANARD_ANGLE = 1
  TIMEOUT = 2
  TimeMod = 16
  StartTimes <- MCEarly
  MaxTime = 6
SPECIFICATION FairSpec
INVARIANTS
  TypeOK
  NoDriveAfterTimeout
  DisabledIsTold
  FinOpposesRoll
  DisabledIsCentred
PROPERTIES
  ServoAuthoritySpec
  TimeoutFires
