SPECIFICATION FairSpec
CONSTANTS
    MaxMessages = 2
    MaxPieces = 2
    Sent = {"page", "status"}
    Worlds <- MCWorlds
    TcpRxSize = 3
    WebRxSize = 1
    TxSize = 7
    HdrSize = 2
    BodySize <- MCBodySize
    BadFronts <- MCBadFronts
    BadPages = {"blank", "post"}
PROPERTY DocumentsWhole
