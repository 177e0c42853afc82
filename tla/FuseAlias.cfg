SPECIFICATION Spec
CONSTANTS
  a = a
  b = b
  c = c
  ha = ha
  hb = hb
  hc = hc
  piece = piece
  NoId = NoId
  NoMeta = NoMeta
  NoRequest = NoRequest
  ChunkSize = 2
  MaxChunks = 2
  Byte = {0, 1, 2, 3}
  Paths = {a, b, c}
  Ids = {ha, hb, hc}
  HashOf <- Hash
  Words <- OneWord
  Modes = {420, 384}
  DefaultMode = 420
  CutIds = {}
  IndexBuffer = 3
  Threads = {t1, t2}
  Requests <- AliasRequests
  MaxRequests = 3
  MaxCrashes = 0
  MaxFaults = 0
  InitFiles = {a}
  InitBytes <- Ones
  InitSize = 3
  HiddenNames = {}
  ReuseIds = TRUE
  Garbage = 3
INVARIANTS
  NamesDistinct
CHECK_DEADLOCK FALSE
