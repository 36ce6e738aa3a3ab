SPECIFICATION Spec
CONSTANTS
    CommandLines <- MCCommandLines
    Images <- MCImages
    ImageSizes = {0, 3}
    BufSize = 2
    ZeroReads = FALSE
    MaxRecords = 2
INVARIANTS
    TypeOK
    HandlesUsedOpen
    NothingLeftOpen
    DumpTaken
    OverviewIsJson
    MapsFollowWalk
    InodeMapHasRuns
PROPERTY Exits
