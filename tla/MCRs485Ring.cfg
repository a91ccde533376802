SPECIFICATION FairSpec
CONSTANTS
    RingSize = 4
    Byte = {b1, b2}
    MaxLens <- MCMaxLens
INVARIANTS
    TypeOK
    InFlight
PROPERTIES
    ImplementsFifo
    ReadReturns
