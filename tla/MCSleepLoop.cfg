SPECIFICATION HandshakeSpec
CONSTANTS
    MaxSleeps = 1
    MaxEjects = 0
INVARIANTS
    LoopRunsUntilStop
CHECK_DEADLOCK FALSE
