CONSTANTS
  Header = 1
  Lengths = {0, 2}
  DiskLengths = {0, 5}
  DiskCap = 6
  NetCap = 5
  Names = 2
  MaxMessages = 5
SPECIFICATION FairSpec
INVARIANTS
  TypeOK
  LossIsVisible
  PacketMatchesBlock
  LogIsNew
PROPERTIES
  BufferedIsFlushed
  FlightLogSpec
CHECK_DEADLOCK FALSE
