SPECIFICATION FairServerSpec
CONSTANTS
    MaxId = 1
    Tasks = {t1, t2}
    Flows = {f1, f2}
    OneOffFlows = {f2}
    MaxSeq = 0
    IncomingCap = 1
    MaxInFlight = 1
INVARIANT ServerTypeOK
INVARIANT MapHoldsAlive
PROPERTY OnlyStaleDeferEvicts
PROPERTY QuietConnIsForgotten
CHECK_DEADLOCK FALSE
