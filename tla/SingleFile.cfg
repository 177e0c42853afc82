SPECIFICATION Spec
CONSTANTS
  Paths = {p, q}
  Handles = {h1, h2}
  NoFile = NoFile
  Unknown = Unknown
  Byte = {0, 1}
  MaxLen = 2
  Comp <- Sizes
  MaxRequests = 6
  MaxCrashes = 1
  MaxFaults = 1
INVARIANTS
  TypeOK
  Durable
  StoreAgrees
CHECK_DEADLOCK FALSE
