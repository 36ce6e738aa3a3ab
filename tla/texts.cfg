SPECIFICATION TextsSpec
CONSTANTS
    Names = {"plain"}
    MaxAttrs = 2
    MaxRuns = 2
    Nanoseconds <- MCNanoseconds
    Indexes <- MCIndexes
    Numbers <- MCNumbers
    ByteStrings <- MCByteStrings
    Words <- MCWords
INVARIANTS
    LinesAreJson
    FractionReadsBack
    FlagsReadBack
    TypesAgree
    IdsReadBack
    FsIdsAgree
    VarintsReadBack
    OrderPreserved
CHECK_DEADLOCK FALSE
