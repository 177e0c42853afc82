SPECIFICATION Spec
CONSTANTS
  Names = {n, m}
  MaxDepth = 2
  NoHandle = NoHandle
INVARIANTS
  TypeOK
  ListingExact
PROPERTIES
  FilesKept
CHECK_DEADLOCK FALSE
