SPECIFICATION FakelibCacheSpec
CONSTANTS
    MaxChanges = 2
INVARIANTS
    MountedCacheIsWhole
CHECK_DEADLOCK FALSE
