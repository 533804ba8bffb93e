\* Files at the root over two names, with mkdir/rmdir/unlink beside them;
\* writes and reads of one chunk at offsets 0, 256 and 4096 (the second
\* block), truncate to 0, 256 and 4352 bytes (two blocks).  Checks that the
\* handlers keep every file's bytes as FileContents says.
CONSTANTS
    a = a
    b = b
    v1 = v1
    v2 = v2
    NInodes = 4
    NBlocks = 4
    Names <- MCNames
    MaxDepth = 1
    CounterMod = 16
    Vals <- MCVals
    WOffsets = {0, 256, 4096}
    WLens = {256}
    TSizes = {0, 256, 4352}
    SizeIsUnsigned = TRUE
SPECIFICATION DataSpec
\* The data path never stops by itself: a final state is not an error.
CHECK_DEADLOCK FALSE
PROPERTY FileSpec
