SPECIFICATION UnusedFlashSpec
CONSTANTS
    Version = {v0, v1}
    Default = v0
    Junk = junk
    Blank = blank
    Size = 1
    PageSize = 1
    MaxCrashes = 2
PROPERTY LoadsLastSaved
