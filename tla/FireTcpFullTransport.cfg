SPECIFICATION SpecWithFullTransport
CONSTANTS
    InitLen = 4
    WriteBuf = 4
    RequestLens = {3}
    StreamLen = 6
    BufLen = 4
INVARIANT DeliversPlaintext
CHECK_DEADLOCK FALSE
