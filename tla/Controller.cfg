SPECIFICATION FairSpec
CONSTANTS
    n1 = n1
    p1 = p1
    Names = {n1, n2}
    Protocols = {p1, p2}
    Settings <- MCSettings
    DefaultSettings <- Plain
    OfferedMaps <- MCOfferedMaps
    EditedUnder <- MCEditedUnder
    MaxBatch = 2
    MaxVersion = 2
    MaxCrashes = 1
INVARIANT AcknowledgedIsSaved
INVARIANT ClientNeverAhead
INVARIANT RulesLeadToProxy
INVARIANT StatsFollowUpstreams
PROPERTY NoRollback
PROPERTY AcknowledgedIsApplied
CHECK_DEADLOCK FALSE
