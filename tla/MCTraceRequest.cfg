SPECIFICATION Spec
CONSTANTS
    Requests = {r1, r2}
    MaxReplays = 1
    MaxWitnesses = 1
    MaxProofs = 1
    Hashes = {A, B}
    NoBlock = NoBlock
    Stages = 1
    MaxReorgs = 2
INVARIANTS
    WorkBounded
PROPERTIES
    AnswerKnowsReorg
    PermitsComeBack
CHECK_DEADLOCK FALSE
