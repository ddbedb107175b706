CONSTANTS
  BufSize = 16
  Chunks <- MCChunks
  Streams <- EmptyStreams
SPECIFICATION Spec
INVARIANT DataIsInFrame
