SPECIFICATION Spec
CONSTANTS
    ServerCount = 2
    PoolSize = 3
    BufSize = 12
    Margin = 2
    Fields <- MCFields
    Size <- MCBigSize
    Header <- MCHeader
    MaxAccepted = 3
INVARIANT ReceiveFits
CHECK_DEADLOCK FALSE
