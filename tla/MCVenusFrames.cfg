CONSTANTS
  BufSize = 16
  Chunks <- MCChunks
  Streams <- MCStreams
SPECIFICATION FairSpec
INVARIANTS
  TypeOK
  FramesAreGenuine
  NoneIsMissed
  CutsDoNotMatter
  ResidueFits
PROPERTY ScanEnds
CHECK_DEADLOCK FALSE
