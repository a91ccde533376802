SPECIFICATION FairSpec
CONSTANTS
    MaxMessages = 2
    MaxPieces = 2
    Sent = {"write", "read", "refused", "short", "page", "status", "post", "other"}
    Worlds <- MCWorlds
    TcpRxSize = 3
    WebRxSize = 1
    TxSize = 7
    HdrSize = 2
    BodySize <- MCBodySize
    BadFronts <- MCBadFronts
    BadPages = {"blank", "post"}
INVARIANTS
    TypeOK
    WritesIntact
    AnswersMatch
    NothingStale
    LiteralsWhole
PROPERTIES
    TcpAnswered
    WebAnswered
