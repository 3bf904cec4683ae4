SPECIFICATION FairServerSpec
CONSTANTS
    MaxId = 1
    Tasks = {t1}
    Flows = {f1}
    OneOffFlows = {}
    MaxSeq = 0
    IncomingCap = 1
    MaxInFlight = 1
PROPERTY IdleConnIsForgotten
CHECK_DEADLOCK FALSE
