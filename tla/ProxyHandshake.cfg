SPECIFICATION FairSpec
CONSTANTS
    Literals <- MCLiterals
    Repaired <- MCRepaired
    UriBytes <- MCUriBytes
    SocketTexts <- MCSocketTexts
    PortTexts <- MCPortTexts
    Urls <- MCUrls
    Sessions <- MCSessions
    HandshakeLen = 5
    ResponseLen = 5
INVARIANT AgreeOnTarget
INVARIANT UnderstoodAsMeant
INVARIANT RelayCutsOneSide
PROPERTY Settles
PROPERTY DownloadArrives
INVARIANT BytesAreKept
CHECK_DEADLOCK FALSE
