SPECIFICATION Spec
CONSTANTS
    Accounts = {a1}
    Slots = {s1}
    Codes = {c1}
    EmptyCode = empty
    None = none
    MaxOps = 4
    ShastaTime = 1
    UnzenTime = 3
    GasLimit = 40
    InitialBaseFee = 10
    MinBaseFee = 8
    MaxBaseFee = 12
    MaxHeight = 3
    Gaps = {1, 3}
    PacayaFee = 5
    ZkGas <- MCZkGas
INVARIANTS
    HashedStateIsExact
    MirrorFollowsChain
    HonestBlockImports
PROPERTIES
    FeeStepsAreBounded
    ForksNeverRevert
CHECK_DEADLOCK FALSE
