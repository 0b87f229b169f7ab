CONSTANTS
    Frames <- MCFrames
    Garbage <- MCGarbage
    MaxChunk = 29
    None = None
SPECIFICATION Spec
INVARIANTS


    GarbageDiscarded
CHECK_DEADLOCK FALSE
