SPECIFICATION Spec
CONSTANTS
    Images <- MCTwoVolumes
    Entries <- MCEntries
    UCModes = {"none"}
    MaxUcBlocks = {}
    U64 = 4096
    MaxEntries = 4
    Faults = TRUE
    NoFs = NoFs
    NoMeta = NoMeta
INVARIANTS
    FirstWalkUniqueIds
    ParentNamesPath
    LinksRecorded
PROPERTY NumbersTree
