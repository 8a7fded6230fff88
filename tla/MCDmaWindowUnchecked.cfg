SPECIFICATION Spec
CONSTANTS
  Start = 0
  Size = 12
  BlockSize = 4
  Sizes <- MCSizes
  Foreign = {}
  Buffers <- MCBuffers
  UnmapsFailures = TRUE
INVARIANTS
  NullNeverMapped
