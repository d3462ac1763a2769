CONSTANTS
  BlockLimit = 11
  TxIntrinsic = 1
  MaxU64 = 30
  BlockGasLimit = 4
  cheap = cheap
  heavy = heavy
  moody = moody
  bad = bad
  huge = huge
  wide = wide
  NoTx = NoTx
  Txs <- MCTxs
  GasLimit <- MCGasLimit
  States <- MCStates
  GenesisState = FALSE
  Run <- MCRun
  Reservations <- MCReservations
SPECIFICATION Spec
INVARIANTS
  NeverPanics
  PublishedIsCommitted
  CommittedTotalIsWork
  GasWithinBlock
PROPERTY OverflowIsSticky
CHECK_DEADLOCK FALSE
