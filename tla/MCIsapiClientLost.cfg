SPECIFICATION FairSpec
CONSTANTS
    CameraCount = 2
    Unset <- MCUnset
    Value <- MCValue
    Zero <- MCZero
    MinInterval = 1
    HttpTimeout = 2
    Ticks = 16
    Name <- MCName
    Divisor <- MCDivisor
PROPERTY LastValueShown
