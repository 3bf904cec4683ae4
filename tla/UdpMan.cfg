SPECIFICATION Spec
CONSTANTS
    MaxId = 1
    Tasks = {t1, t2, t3}
    Socks = {s1}
    MaxSession = 2
    Flows <- MCFlows
    OneOffFlows = {}
    MaxSeq = 1
    IncomingCap = 1
    MaxInFlight = 1
    MaxDups = 1
SYMMETRY TaskSymmetry
INVARIANT EstablishedIdIsMine
INVARIANT WireFaithful
INVARIANT StrayOnlyAfterForgotten
CHECK_DEADLOCK FALSE
