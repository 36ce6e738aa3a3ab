SPECIFICATION FairSpec
CONSTANTS
    Images <- MCImages
    Entries <- MCEntries
    UCModes = {"none", "block", "fragment"}
    MaxUcBlocks = {1, 2, 4095}
    U64 = 4096
    MaxEntries = 4
    Faults = FALSE
    NoFs = NoFs
    NoMeta = NoMeta
INVARIANTS
    TypeOK
    UniqueIds
    DirsAreRecords
    UnallocatedIsFree
    UnallocatedComplete
    EntryWithinMax
PROPERTY Termination
PROPERTY HandsOutOnce
