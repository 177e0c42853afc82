SPECIFICATION Spec
CONSTANTS
  ChunkSize = 3
  Inputs <- Buffers
INVARIANTS
  RoundTrip
  InPlace
CHECK_DEADLOCK FALSE
