SPECIFICATION Spec
CONSTANTS
    t1 = t1
    t2 = t2
    Recorders = {t1, t2}
    Overlap = FALSE
    NumChunks = 2
    PerChunk = 2
    ChunkIds = 4
    MaxEvents = 4
    MaxFlushes = 2
INVARIANTS ChunksConserved LoggedInOrder
PROPERTIES FlushWritten CallsEnd
CHECK_DEADLOCK FALSE
