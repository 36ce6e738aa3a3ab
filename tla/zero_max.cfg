SPECIFICATION Spec
CONSTANTS
    Images <- MCImages
    Entries <- MCEntries
    UCModes = {"fragment"}
    MaxUcBlocks = {0}
    U64 = 4096
    MaxEntries = 2
    Faults = FALSE
    NoFs = NoFs
    NoMeta = NoMeta
INVARIANTS
    EntryWithinMax
