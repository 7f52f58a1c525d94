SPECIFICATION HandshakeFairSpec
CONSTANTS
    MaxSleeps = 1
    MaxEjects = 1
INVARIANTS
    EjectOnClosedWatches
PROPERTIES
    EjectEnds
    SleepIsAnswered
    StopReachesWatcher
CHECK_DEADLOCK FALSE
