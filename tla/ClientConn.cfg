SPECIFICATION ClientSpec
CONSTANTS
    Tables = {"main", "t1", "t2"}
    MaxLevel = 2
    RuleLines <- MCRuleLines
    Requests <- MCRequests
    MaxRules = 3
    Conns = {"c1", "c2"}
    Clients <- MCClients
    Upstreams <- MCUpstreams
    Counted = {"u1", "u2"}
    ScoreMax = 2
    Times = {3, 5}
    MaxBytes = 2
    PreReadCap = 1
    Served <- MCServed
INVARIANT LimitIsForLoops
INVARIANT SniffedHostDecides
INVARIANT UploadIsWhole
INVARIANT LongestIdleFirst
INVARIANT ErrorMeansAllTried
PROPERTY DecidedIsStable
PROPERTY AnsweredOnce
CHECK_DEADLOCK FALSE
