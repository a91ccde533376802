SPECIFICATION Spec
CONSTANTS
    MaxSensors = 2
    MaxPoints = 2
    Counts <- MCCounts
    Word = {0, 1}
    Zero = 0
    Addrs <- MCAddrs
INVARIANTS
    TypeOK
    MapCorrect
    RegsMirrorValues
PROPERTIES
    ImplementsStore
