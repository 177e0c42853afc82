SPECIFICATION Spec
CONSTANTS
  ChunkSize = 2
  MaxChunks = 3
  Byte = {0, 1, 2, 3}
  Bufs <- Ramps
  GapWrites = FALSE
  Extends = FALSE
INVARIANTS
  TypeOK
  Accounted
PROPERTIES
  ImplementsBytes
CHECK_DEADLOCK FALSE
