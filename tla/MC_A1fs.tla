------------------------------- MODULE MC_A1fs -------------------------------
(* Model-checking instance of A1fs: names are model values.                *)
EXTENDS A1fs, TLC

CONSTANTS a, b, c, d, e, f, g, h

MCNames2 == {a, b}
MCNames3 == {a, b, c}
MCNames8 == {a, b, c, d, e, f, g, h}

\* Names are interchangeable: no property mentions a particular one.
NameSymmetry2 == Permutations(MCNames2)
NameSymmetry3 == Permutations(MCNames3)

\* Restricts a run to regular files at the root: no directory other than
\* the root holds a data block.
FilesOnly == dataMap = {0}

\* Restricts a run to steps that free no inode (no unlink, no rmdir).
NoRelease == inodeMap \subseteq inodeMap'

\* The namespace operations without unlink below the root, whose write
\* through the misaddressed parent (a1fs.c:811) is checked on its own.
NextRootUnlink ==
    \E p \in Paths :
        \/ Mkdir(p)
        \/ Create(p)
        \/ Len(p) = 1 /\ Unlink(p)
        \/ Rmdir(p)

SpecRootUnlink == Init /\ [][NextRootUnlink]_vars
=============================================================================
