CONSTANTS
  ADIS_PORT = adis
  GPS_COTS = cots
  MPU_PORT = mpu
  ARM_PORT = arm
  UNKNOWN_PORT = unknown
  Ports <- MCPorts
  CommandPorts = {arm}
  OtherPorts = {unknown}
  DataLength <- MCDataLength
  NodeLength <- MCNodeLength
  SeqMod = 4
  UINT16_MAX = 16
  MaxInFlight = 2
SPECIFICATION Spec
INVARIANT TypeOK
PROPERTIES
  GapIsReported
  AdvanceIsHandled
