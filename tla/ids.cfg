SPECIFICATION Spec
CONSTANTS
    Images <- MCImages
    Entries <- MCEntries
    UCModes = {"none"}
    MaxUcBlocks = {}
    U64 = 4096
    MaxEntries = 6
    Faults = FALSE
    NoFs = NoFs
    NoMeta = NoMeta
INVARIANTS
    UniqueIds
    ParentFirst
    ChildrenKey
    DirsAreRecords
    LinksMutual
