SPECIFICATION Spec
CONSTANTS
    MaxId = 1
    Tasks = {t1, t2}
    Socks = {s1, s2}
    MaxSession = 1
    Flows <- MCFlows
    OneOffFlows = {}
    MaxSeq = 1
    IncomingCap = 1
    MaxInFlight = 1
    MaxDups = 0
INVARIANT OwnEchoOnly
CHECK_DEADLOCK FALSE
