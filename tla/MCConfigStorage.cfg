SPECIFICATION FairSpec
CONSTANTS
    Version = {v0, v1}
    Default = v0
    Junk = junk
    Blank = blank
    Size = 7
    PageSize = 3
    MaxCrashes = 2
INVARIANTS
    TypeOK
    SavedIsFound
    LoopsOnTrack
PROPERTIES
    SteadyLoadsLastSaved
    ImplementsCopies
    SavesEnd
