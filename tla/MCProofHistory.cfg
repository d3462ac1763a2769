CONSTANTS
  g = g
  a1 = a1
  a2 = a2
  a3 = a3
  b2 = b2
  b3 = b3
  c1 = c1
  c2 = c2
  Blocks <- MCBlocks
  Genesis = g
  Parent <- MCParent
  Number <- MCNumber
  NoBlock = NoBlock
  Refused = Refused
  FallbackDistance = 1
  Modes = {FALSE, TRUE}
  Window = 2
  MaxStartupPrune = 1
  RealTimeBlocks = 2
  SyncBatch = 2
  ChanCap = 1
  DiskReorgs = FALSE
  MaxPending = 1
  MaxReorg = 2
  MaxMoves = 3
  MaxCrashes = 1
SPECIFICATION FairSpec
INVARIANTS
  SettledIsCanonical
  ProofsAreCanonical
PROPERTIES
  CondemnedIsWiped
  ServesWholeWindow
  ImplementsWindow
  CatchesUp
CHECK_DEADLOCK FALSE
