\* Two transactions after the anchor, four interpreter steps over the block
\* besides the ones that end a frame.
CONSTANTS
  BlockLimit = 22
  TxIntrinsic = 2
  MaxU64 = 255
  BaseFee = 3
  Shares = {75}
  Funds = {0, 20}
  UserFunds = 60
  AnchorTx <- MCAnchor
  Candidates <- MCCandidates
  MaxTxs = 3
  MaxEvents = 4
  IntrinsicGas = 1
  Multiplier <- MCMultiplier
  PrecompileMultiplier <- MCPrecompileMultiplier
  FailsafeMultiplier = 9
  SpawnEstimate <- MCSpawnEstimate
  SystemCharge = 4
  RefundQuotient = 2
SPECIFICATION Spec
INVARIANTS
  FeesConserved
  MeteringParity
  ReplayAgrees
CHECK_DEADLOCK FALSE
