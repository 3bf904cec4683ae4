SPECIFICATION Spec
CONSTANTS
    Strategies <- MCStrategies
    InitialLens = {0, 1, 2, 4}
    DefaultChunk = 3
    MinChunk = 2
    StreamLen = 11
    BufLen = 6
INVARIANT TypeOK
INVARIANT AcknowledgedIsInFlight
INVARIANT SpanEncrypted
PROPERTY CipherIsPipe
CHECK_DEADLOCK FALSE
