SPECIFICATION Spec
CONSTANTS
  a = a
  b = b
  c = c
  ha = ha
  hb = hb
  hc = hc
  piece = piece
  NoId = NoId
  NoMeta = NoMeta
  NoRequest = NoRequest
  ChunkSize = 2
  MaxChunks = 2
  Byte = {0, 1, 2, 3}
  Paths = {a}
  Ids = {ha}
  HashOf <- Hash
  Words <- OneWord
  Modes = {420, 384}
  DefaultMode = 420
  CutIds = {}
  IndexBuffer = 3
  Threads = {t1, t2}
  Requests <- ChmodRequests
  MaxRequests = 3
  MaxCrashes = 0
  MaxFaults = 0
  InitFiles = {a}
  InitBytes <- TwoOnes
  InitSize = 4
  HiddenNames = {}
  ReuseIds = FALSE
  Garbage = 3
INVARIANTS
  Accounted
CHECK_DEADLOCK FALSE
