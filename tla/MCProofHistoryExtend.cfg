CONSTANTS
  g = g
  a1 = a1
  a2 = a2
  a3 = a3
  b2 = b2
  b3 = b3
  c1 = c1
  c2 = c2
  Blocks <- MCBlocks
  Genesis = g
  Parent <- MCParent
  Number <- MCNumber
  NoBlock = NoBlock
  Refused = Refused
  FallbackDistance = 1
  Modes = {FALSE}
  Window = 2
  MaxStartupPrune = 1
  RealTimeBlocks = 2
  SyncBatch = 2
  ChanCap = 2
  DiskReorgs = TRUE
  MaxPending = 1
  MaxReorg = 2
  MaxMoves = 3
  MaxCrashes = 1
SPECIFICATION Spec
INVARIANTS
  WorkersExtendConsistently
CHECK_DEADLOCK FALSE
