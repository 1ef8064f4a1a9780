SPECIFICATION Spec
CONSTANTS
    t1 = t1
    t2 = t2
    Recorders = {t1, t2}
    Overlap = FALSE
    NumChunks = 2
    PerChunk = 2
    ChunkIds = 4
    MaxEvents = 2
    MaxFlushes = 0
INVARIANT CompletedChunk
CHECK_DEADLOCK FALSE
