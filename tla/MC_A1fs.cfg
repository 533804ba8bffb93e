\* Namespace operations on a tree of depth 2 over two names: at most 7 live
\* inodes, under the 8 of the inode table.  Three data blocks: the rmdir
\* leak drains free_blocks_count, so the ENOMEM paths of mkdir and create and
\* the wrap of free_inodes_count in create are reached.  Unlink below the
\* root is left out (fs_nested_unlink shows what it does); files are still
\* created in subdirectories, so rmdir meets non-empty directories.
CONSTANTS
    a = a
    b = b
    c = c
    d = d
    e = e
    f = f
    g = g
    h = h
    NInodes = 8
    NBlocks = 3
    Names <- MCNames2
    MaxDepth = 2
    CounterMod = 16
SPECIFICATION SpecRootUnlink
SYMMETRY NameSymmetry2
INVARIANT TypeOK
INVARIANT NamespaceMatchesAllocation
INVARIANT DirectoryWellFormed
INVARIANT DirBlocksExclusive
