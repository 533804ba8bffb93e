\* Ten inodes and eight names at the root: the ninth inode (index 8) is the
\* first one in the second byte of the inode bitmap.
CONSTANTS
    a = a
    b = b
    c = c
    d = d
    e = e
    f = f
    g = g
    h = h
    NInodes = 10
    NBlocks = 3
    Names <- MCNames8
    MaxDepth = 1
    CounterMod = 16
SPECIFICATION Spec
ACTION_CONSTRAINT NoRelease
CONSTRAINT FilesOnly
INVARIANT NamespaceMatchesAllocation
