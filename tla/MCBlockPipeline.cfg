CONSTANTS
  BlockLimit = 11
  TxIntrinsic = 1
  MaxU64 = 30
  BlockGasLimit = 4
  anchor = anchor
  badAnchor = badAnchor
  fatAnchor = fatAnchor
  cheap = cheap
  heavy = heavy
  moody = moody
  blob = blob
  ghost = ghost
  wide = wide
  NoTx = NoTx
  Txs <- MCTxs
  GasLimit <- MCGasLimit
  States <- MCStates
  GenesisState = 0
  Run <- MCRun
  Reservations = {}
  ForeignBlocks <- MCForeignBlocks
  Lists <- MCLists
  Anchors <- MCAnchors
  Disallowed = {blob}
  Unrecoverable = {ghost}
SPECIFICATION PipelineSpec
INVARIANTS
  ImportReproducesBuild
  ReplaysReproduceBuild
  BodyIsReference
  ImportIsExact
CHECK_DEADLOCK FALSE
