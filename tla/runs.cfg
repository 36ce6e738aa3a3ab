SPECIFICATION Spec
CONSTANTS
    Images <- MCImages
    Entries <- MCEntries
    UCModes = {"none"}
    MaxUcBlocks = {}
    U64 = 4096
    MaxEntries = 4
    Faults = FALSE
    NoFs = NoFs
    NoMeta = NoMeta
INVARIANTS
    InodeRunsFaithful
