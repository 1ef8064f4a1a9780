SPECIFICATION Spec
CONSTANTS
    ServerCount = 2
    PoolSize = 3
    BufSize = 12
    Margin = 2
    Fields <- MCFields
    Size <- MCSize
    Header <- MCHeader
    MaxAccepted = 3
INVARIANTS TypeOK StreamsOwnBuffers InFlightUntouched FifoPerServer ReceiveFits BufferObtainable
PROPERTIES ReturnsFlushed CallsReturn
CHECK_DEADLOCK FALSE
