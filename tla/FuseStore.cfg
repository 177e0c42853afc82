SPECIFICATION StoreSpec
CONSTANTS
  a = a
  b = b
  c = c
  ha = ha
  hb = hb
  hc = hc
  piece = piece
  NoId = NoId
  NoMeta = NoMeta
  NoRequest = NoRequest
  ChunkSize = 2
  MaxChunks = 2
  Byte = {0, 1, 2, 3, 4, 5, 6, 7, 8, 9}
  Paths = {a, b, c}
  Ids = {ha, hb, hc, piece}
  HashOf <- Hash
  Words <- OneWord
  Modes = {420, 384}
  DefaultMode = 420
  CutIds = {piece}
  IndexBuffer = 1
  Threads = {t1, t2}
  Requests <- StoreRequests
  MaxRequests = 4
  MaxCrashes = 1
  MaxFaults = 1
  InitFiles = {a, b}
  InitBytes <- Distinct
  InitSize = 3
  HiddenNames = {c}
  ReuseIds = FALSE
  Garbage = 9
  NoFile = NoFile
  Unknown = Unknown
SYMMETRY ThreadSymmetry
INVARIANTS
  TypeOK
  NamespaceAgrees
  StatsExact
  NamesDistinct
  BytesKept
  FileExclusion
  LocksLive
PROPERTIES
  NamesStored
  ReadsRegular
CHECK_DEADLOCK FALSE
