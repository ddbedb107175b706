CONSTANTS
  N = 3
  LittleEndian = TRUE
  Samples <- MCSamples
  MaxSamples = 7
SPECIFICATION Spec
INVARIANT LockIsVertical
