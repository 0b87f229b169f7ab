CONSTANTS
    Frames <- MCFrames
    Garbage <- MCGarbage
    MaxChunk = 29
    None = None
SPECIFICATION Spec
INVARIANTS
    TypeOK
    StreamingMatchesScan
    CleanGarbageDiscarded
CHECK_DEADLOCK FALSE
