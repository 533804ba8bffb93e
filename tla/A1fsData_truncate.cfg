\* The same instance, with the directories' well-formedness: the data path
\* composed with mkdir/create/unlink/rmdir must leave every directory intact.
CONSTANTS
    a = a
    b = b
    v1 = v1
    v2 = v2
    NInodes = 4
    NBlocks = 4
    Names <- MCNames
    MaxDepth = 1
    CounterMod = 16
    Vals <- MCVals
    WOffsets = {0, 256, 4096}
    WLens = {256}
    TSizes = {0, 256, 4352}
    SizeIsUnsigned = TRUE
SPECIFICATION DataSpec
\* The data path never stops by itself: a final state is not an error.
CHECK_DEADLOCK FALSE
INVARIANT DirectoryWellFormed
