SPECIFICATION FairSpec
CONSTANTS
  a = a
  b = b
  c = c
  ha = ha
  hb = hb
  hc = hc
  piece = piece
  NoId = NoId
  NoMeta = NoMeta
  NoRequest = NoRequest
  ChunkSize = 2
  MaxChunks = 2
  Byte = {0, 1, 2, 3}
  Paths = {a, b, c}
  Ids = {ha, hb, hc}
  HashOf <- Hash
  Words <- BlanksInC
  Modes = {420, 384}
  DefaultMode = 420
  CutIds = {}
  IndexBuffer = 3
  Threads = {t1, t2}
  Requests <- FileRequests
  MaxRequests = 3
  MaxCrashes = 1
  MaxFaults = 1
  InitFiles = {a, b, c}
  InitBytes <- TwoOnes
  InitSize = 4
  HiddenNames = {}
  ReuseIds = FALSE
  Garbage = 3
INVARIANTS
  Accounted
PROPERTIES
  SizeKept
  Answered
CHECK_DEADLOCK FALSE
