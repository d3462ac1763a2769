CONSTANTS
  BlockLimit = 9
  TxIntrinsic = 1
  MaxU64 = 30
  BlockGasLimit = 8
  anchor = anchor
  a1 = a1
  a2 = a2
  moody = moody
  heavy = heavy
  old = old
  bad = bad
  cheapskate = cheapskate
  dense = dense
  bulky = bulky
  s1 = s1
  s2 = s2
  NoTx = NoTx
  Txs <- MCTxs
  GasLimit <- MCGasLimit
  States <- MCStates
  GenesisState = FALSE
  Run <- MCRun
  Reservations <- MCReservations
  Seeds <- MCSeeds
  StartState <- MCStartState
  Requests <- MCRequests
  Senders <- MCSenders
  Sender <- MCSender
  Tip <- MCTip
  Allowed <- MCTxs
  NonceTooLow = {old}
  DaSize <- MCDaSize
  ZlibSize <- MCZlibSize
  MaxDa = 20
  Guard = 2
  Anchor = anchor
  AnchorGasLimit = 2
  AnchorReserve = 2
  RpcGasPerList = 4
  RpcMaxLists = 2
  MaxCalls = 2
  MaxForeign = 1
SPECIFICATION SelFairSpec
INVARIANTS
  MemorySound
  ListsAreTheBlock
  NearLimitIsMeasured
  OverflowWorkBounded
  MemoryIsTransparent
PROPERTIES
  SelectionReturns
CHECK_DEADLOCK FALSE
