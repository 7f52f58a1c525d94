SPECIFICATION MCSpec
CONSTANTS
    MaxBytes = 4
    Chunk = 2
INVARIANTS
    ContentSurvives
    
    
    ShutdownNeverSticks
    ReadsAreTrue
    ReadsNeverStick
    CoverageIsServed
    FreedIsQuiet
    StopNeverSticks
PROPERTIES
    ImplementsBlockCopy
    CopyEnds
CHECK_DEADLOCK FALSE
