CONSTANTS
  ADIS_PORT = adis
  GPS_COTS = cots
  MPU_PORT = mpu
  ARM_PORT = arm
  UNKNOWN_PORT = unknown
  Ports <- MPUPorts
  CommandPorts = {arm}
  OtherPorts = {unknown}
  DataLength <- MPUDataLength
  NodeLength <- MPUNodeLength
  SeqMod = 4
  UINT16_MAX = 16
  MaxInFlight = 2
SPECIFICATION Spec
PROPERTY AdvanceIsHandled
