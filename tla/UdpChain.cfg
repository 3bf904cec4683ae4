SPECIFICATION FairSpec
CONSTANTS
    Literals <- MCLiterals
    Repaired <- MCRepaired
    Scripts <- MCScripts
    Unresolvable <- MCUnresolvable
    ChannelLen = 1
    MaxBuffer = 2
PROPERTY JamIsForGood
PROPERTY UploadFlushed
INVARIANT DatagramsConserved
PROPERTY BothEndsEnd
CHECK_DEADLOCK FALSE
