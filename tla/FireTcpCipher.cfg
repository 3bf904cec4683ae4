SPECIFICATION Spec
CONSTANTS
    InitLen = 5
    WriteBuf = 5
    RequestLens = {3, 4, 5, 6, 7}
    StreamLen = 14
    BufLen = 8
INVARIANT RefusesFullRequest
PROPERTY FireTcpIsPipe
CHECK_DEADLOCK FALSE
