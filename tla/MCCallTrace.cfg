SPECIFICATION Spec
CONSTANTS
    MaxTxs = 2
    MaxFrames = 3
    MaxOps = 3
    MaxExotic = 2
    None = None
INVARIANTS
    SidecarExact
    EventsAreReceiptLogs
    TracesClassified
    StorageFlagsExact
CHECK_DEADLOCK FALSE
