SPECIFICATION FairSpec
CONSTANTS
    CameraCount = 3
    Unset <- MCUnset
    Value <- MCValue
    Zero <- MCZero
    MinInterval = 1
    HttpTimeout = 2
    Ticks = 16
    Name <- MCName
    Divisor <- MCDivisor
INVARIANTS
    TypeOK
    RateNeverBinds
    ShowsWhatWasNoted
    CamerasTell
PROPERTY ChangesNoticed
