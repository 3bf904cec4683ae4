SPECIFICATION FairSpec
CONSTANTS
    Keys = {k1, k2}
    OneOffKeys = {k2}
    Tasks = {t1, t2, t3}
    MaxUpstreams = 1
    QueueCap = 1
    CleanupCap = 1
INVARIANT OneSessionPerKey
INVARIANT EndedIsAnnounced
PROPERTY OnlyStaleCleanupEvicts
PROPERTY QuietSessionIsForgotten
CHECK_DEADLOCK FALSE
