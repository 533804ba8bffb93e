-------------------------------- MODULE A1fs --------------------------------
(***************************************************************************)
(* The a1fs image and its namespace operations (src/a1_filesystem).        *)
(*                                                                         *)
(* State is the part of the image these operations read and write: the two *)
(* superblock free counters, the inode and data bitmaps (as the set of     *)
(* indices whose bit is 1), the inode table, slot 0 of every extent block, *)
(* and the directory entries held in the data blocks.  One action per FUSE *)
(* handler (mkdir, create, unlink, rmdir); each runs to completion, as the *)
(* single-threaded FUSE dispatch the spec assumes.  The guard of each      *)
(* action includes what FUSE has checked with getattr() before the call.   *)
(* Init is the image written by mkfs on a zero-filled image file.          *)
(***************************************************************************)
EXTENDS Naturals, Integers, Sequences, SequencesExt

CONSTANTS
    NInodes,     \* inodes_count given to mkfs -i
    NBlocks,     \* blocks_count written by mkfs
    Names,       \* path components (model values)
    MaxDepth,    \* longest path, in components
    CounterMod   \* 2^w for the w-bit unsigned superblock counters

ASSUME /\ NInodes \in 2..63          \* inode table fits its one block
       /\ NBlocks \in 2..60
       /\ MaxDepth \in 1..3
       /\ CounterMod > NInodes + NBlocks

BlockSize        == 4096
DentrySize       == 256
DentriesPerBlock == 16     \* hard-coded "16" in helper, readdir, unlink, rmdir

\* Return codes (negated errno).
OK        == 0
ENOENT    == -2
ENOMEM    == -12
ENOTDIR   == -20
ENOTEMPTY == -39

\* The inode table is one block of 64 slots; slot NInodes is the first slot
\* past inodes_count, which an allocation can reach, as the inode number a mkdir gets after truncate.
InodeSlots == 0..NInodes
\* mkfs reserves 3 more data blocks than blocks_count (mkfs.c:139).
PhysBlocks == 0..NBlocks + 2
SlotIdx    == 0..DentriesPerBlock - 1

Dot == "."
DotDot == ".."
NoName == ""               \* a zeroed entry
ExtentBytes == "<extent>"  \* an extent record written over a directory entry

Slot    == [name : Names \cup {Dot, DotDot, NoName, ExtentBytes}, ino : Nat]
Extent  == [start : Nat, count : Nat]
Inode   == [mode : {"zero", "dir", "reg"}, links : Nat, size : Nat,
            extent_count : Nat]

ZeroSlot   == [name |-> NoName, ino |-> 0]
ZeroExtent == [start |-> 0, count |-> 0]
ZeroInode  == [mode |-> "zero", links |-> 0, size |-> 0, extent_count |-> 0]

Inc(x) == (x + 1) % CounterMod
\* Mutation of Dec: a signed decrement, no wrap-around.
DecNoWrap(x) == x - 1
Dec(x) == (x + CounterMod - 1) % CounterMod

VARIABLES
    freeInodes,   \* sb->free_inodes_count
    freeBlocks,   \* sb->free_blocks_count
    inodeMap,     \* indices of 1 bits in the inode bitmap
    dataMap,      \* indices of 1 bits in the data bitmap
    inode,        \* the inode table
    extent,       \* extent_array[0] of each inode's extent block
    dentry,       \* directory entries: block -> slot -> entry
    ret           \* value returned by the last handler

vars == <<freeInodes, freeBlocks, inodeMap, dataMap, inode, extent, dentry, ret>>

-----------------------------------------------------------------------------
(* Reading the image.                                                      *)

\* Extent slot 0 of inode i.  The extent block of a slot past inodes_count
\* is start_extent + i = start_data + (i - NInodes): a data block.
ExtentOf(i) ==
    IF i < NInodes THEN extent[i]
    ELSE LET s == dentry[i - NInodes][0]
         IN IF s.name = ExtentBytes THEN [start |-> s.ino, count |-> 1]
                                    ELSE ZeroExtent

\* The data blocks of inode i in extent order (only extent 0 exists here).
ExtBlocks(i) ==
    IF inode[i].extent_count = 0 THEN <<>>
    ELSE [j \in 1..ExtentOf(i).count |-> ExtentOf(i).start + j - 1]

\* Every entry position <<block, slot>> of the directory's blocks, in the
\* order helper/unlink/rmdir walk them.
SlotsOf(d) ==
    FlattenSeq([k \in 1..Len(ExtBlocks(d)) |->
                  [x \in 1..DentriesPerBlock |-> <<ExtBlocks(d)[k], x - 1>>]])

\* The first size/256 positions: the entries helper and readdir visit.
LiveSlots(d) ==
    LET s == SlotsOf(d)
    IN SubSeq(s, 1, Min({Len(s), inode[d].size \div DentrySize}))

SlotAt(pos) == dentry[pos[1]][pos[2]]

\* helper(): the inode of the LAST live entry called n, or -ENOENT.
Lookup(d, n) ==
    LET L == LiveSlots(d)
        m == SelectLastInSeq(L, LAMBDA pos : SlotAt(pos).name = n)
    IN IF m = 0 THEN ENOENT ELSE SlotAt(L[m]).ino

IsDir(i) == i \in InodeSlots /\ inode[i].mode = "dir"

\* path_inode(): walk the components; a non-final component must be a
\* directory.  The empty sequence is the path "/".
RECURSIVE Walk(_, _)
Walk(cur, p) ==
    IF p = <<>> THEN cur
    ELSE LET r == Lookup(cur, Head(p))
         IN IF r = ENOENT THEN ENOENT
            ELSE IF Tail(p) # <<>> /\ ~IsDir(r) THEN ENOTDIR
            ELSE Walk(r, Tail(p))

PathInode(p) == Walk(0, p)

Paths == UNION {[1..n -> Names] : n \in 1..MaxDepth}
Parent(p) == SubSeq(p, 1, Len(p) - 1)
Leaf(p) == p[Len(p)]

\* The inline bitmap scans of mkdir/create: bytes from 0, bits MSB first, so
\* the first clear bit in index order, over the whole 4096-byte map (the
\* image's map has a clear bit within Cardinality(map) + 1 bits).
FirstClear(map) == Min({i \in 0..Cardinality(map) : i \notin map})
\* Mutation of ScanSetBit: the byte index taken for the bit index.
ScanSetBitByteIndex(k) == k \div 8

\* ... but the bit they then set is modify(bm, j, 1) with j the bit's
\* position inside its byte, i.e. index j of byte 0.
ScanSetBit(k) == k % 8

-----------------------------------------------------------------------------
(* Writing the image.                                                      *)

WriteSlot(dmap, blk, x, s) ==
    IF blk \in PhysBlocks THEN [dmap EXCEPT ![blk][x] = s] ELSE dmap

\* Mutation of AppendPos: one entry short, over the current last entry.
AppendPosOneShort(par) ==
    LET e == ExtentOf(par)
    IN <<e.start + e.count - 1, (inode[par].size % BlockSize) \div DentrySize - 1>>

\* Position of the entry that follows the last one of directory par: the
\* last block of its last extent at byte size % 4096.
AppendPos(par) ==
    LET e == ExtentOf(par)
    IN <<e.start + e.count - 1, (inode[par].size % BlockSize) \div DentrySize>>

\* Mutation of RemoveEntry: the hole is not filled with the last entry.
RemoveEntryNoCopy(par, n) ==
    LET S == SlotsOf(par)
        m == SelectInSeq(S, LAMBDA pos : SlotAt(pos).name = n)
    IN [found |-> m # 0, dentry |-> dentry]

\* The removal loop shared by unlink and rmdir: find the first entry called
\* n in all 16 slots of every block; if its slot index is the last entry's,
\* just shrink; otherwise copy the last entry over it and shrink.  The last
\* entry is at offset (num_last_entry-1)*256 of the last block, which for
\* num_last_entry = 0 is the final slot of the block before.
\* Returns the new entries and whether the name was found.
RemoveEntry(par, n) ==
    LET S        == SlotsOf(par)
        m        == SelectInSeq(S, LAMBDA pos : SlotAt(pos).name = n)
        numLast  == (inode[par].size \div DentrySize) % DentriesPerBlock
        e        == ExtentOf(par)
        lastBlk  == e.start + e.count - 1
        lastPos  == IF numLast = 0 THEN <<lastBlk - 1, DentriesPerBlock - 1>>
                                   ELSE <<lastBlk, numLast - 1>>
    IN IF m = 0 THEN [found |-> FALSE, dentry |-> dentry]
       ELSE LET pos == S[m]
            IN IF pos[2] = numLast - 1
               THEN [found |-> TRUE, dentry |-> dentry]
               ELSE [found |-> TRUE,
                     dentry |-> WriteSlot(dentry, pos[1], pos[2], SlotAt(lastPos))]

\* Bounds: allocations stop at the end of the inode table block / image.
AllocBoundOK(k, b) == k \in InodeSlots /\ b \in PhysBlocks

-----------------------------------------------------------------------------
Init ==
    /\ freeInodes = NInodes                 \* mkfs.c:140, decrement at :171
    /\ freeBlocks = NBlocks                 \* is made after the memcpy
    /\ inodeMap = {0}
    /\ dataMap = {0}
    /\ inode = [i \in InodeSlots |->
                 IF i = 0 THEN [mode |-> "dir", links |-> 2, size |-> 512,
                                extent_count |-> 1]
                          ELSE ZeroInode]
    /\ extent = [i \in 0..NInodes - 1 |->
                   IF i = 0 THEN [start |-> 0, count |-> 1] ELSE ZeroExtent]
    /\ dentry = [b \in PhysBlocks |-> [x \in SlotIdx |->
                   IF b = 0 /\ x = 0 THEN [name |-> Dot, ino |-> 0]
                   ELSE IF b = 0 /\ x = 1 THEN [name |-> DotDot, ino |-> 0]
                   ELSE ZeroSlot]]
    /\ ret = OK

\* FUSE's getattr checks before mkdir and create: the path does not exist
\* and its parent is a directory.
CanCreate(p) ==
    /\ PathInode(p) = ENOENT
    /\ IsDir(PathInode(Parent(p)))

\* a1fs_mkdir
Mkdir(p) ==
    /\ CanCreate(p)
    /\ \/ /\ freeInodes = 0 \/ freeBlocks = 0
          /\ ret' = ENOMEM
          /\ UNCHANGED <<freeInodes, freeBlocks, inodeMap, dataMap, inode,
                         extent, dentry>>
       \/ /\ freeInodes # 0 /\ freeBlocks # 0
          /\ LET k   == FirstClear(inodeMap)
                 b   == FirstClear(dataMap)
                 par == PathInode(Parent(p))
                 ap  == AppendPos(par)
                 \* the new inode's extent (:538-540), "." and ".." (:551-556),
                 \* then the parent's new entry (:557-559)
                 d1  == IF k < NInodes THEN dentry
                        ELSE WriteSlot(dentry, k - NInodes, 0,
                                       [name |-> ExtentBytes, ino |-> b])
                 d2  == WriteSlot(WriteSlot(d1, b, 0, [name |-> Dot, ino |-> k]),
                                  b, 1, [name |-> DotDot, ino |-> par])
                 d3  == WriteSlot(d2, ap[1], ap[2], [name |-> Leaf(p), ino |-> k])
                 i1  == [inode EXCEPT ![par].size = @ + DentrySize,
                                      ![par].links = @ + 1]
             IN /\ AllocBoundOK(k, b)
                /\ inodeMap' = inodeMap \cup {ScanSetBit(k)}
                /\ dataMap' = dataMap \cup {ScanSetBit(b)}
                /\ inode' = [i1 EXCEPT ![k] = [mode |-> "dir", links |-> 2,
                                               size |-> 512, extent_count |-> 1]]
                /\ extent' = IF k < NInodes
                             THEN [extent EXCEPT ![k] = [start |-> b, count |-> 1]]
                             ELSE extent
                /\ dentry' = d3
                /\ freeBlocks' = freeBlocks - 1
                /\ freeInodes' = freeInodes - 1
                /\ ret' = OK

\* a1fs_create: free_inodes_count is decremented before the ENOMEM check.
Create(p) ==
    /\ CanCreate(p)
    /\ LET fi == Dec(freeInodes) IN
       \/ /\ fi = 0 \/ freeBlocks = 0
          /\ freeInodes' = fi
          /\ ret' = ENOMEM
          /\ UNCHANGED <<freeBlocks, inodeMap, dataMap, inode, extent, dentry>>
       \/ /\ fi # 0 /\ freeBlocks # 0
          /\ LET k   == FirstClear(inodeMap)
                 par == PathInode(Parent(p))
                 ap  == AppendPos(par)
                 i1  == [inode EXCEPT ![par].links = @ + 1,
                                      ![par].size = @ + DentrySize]
             IN /\ AllocBoundOK(k, 0)
                /\ inodeMap' = inodeMap \cup {ScanSetBit(k)}
                /\ inode' = [i1 EXCEPT ![k] = [mode |-> "reg", links |-> 1,
                                               size |-> 0, extent_count |-> 0]]
                /\ dentry' = WriteSlot(dentry, ap[1], ap[2],
                                       [name |-> Leaf(p), ino |-> k])
                /\ freeInodes' = fi
                /\ ret' = OK
                /\ UNCHANGED <<freeBlocks, dataMap, extent>>

\* a1fs_unlink.  The file's inode bit and data bits are cleared first.  The
\* parent is then addressed at block start_inode + parent_ino (:811); for
\* parent_ino = 0 that is the root inode, for parent_ino >= 1 it is the
\* extent block of inode parent_ino - 1 (the inode table is one block).
\* Read as an a1fs_inode (links at offset 4, size at 8, extent_count past
\* extent_array[1], as the course's a1fs.h lays them out), its "links" is
\* extent_array[0].count and its size and extent_count are zero: links--
\* decrements that count and the removal loop never runs, so the real
\* parent keeps its entry, size and link count.  The parent path is taken
\* as NUL-terminated after the strncpy at :809 (as at :510).
Unlink(p) ==
    LET f      == PathInode(p)
        parIno == PathInode(Parent(p))
        blk    == ExtBlocks(f)
    IN /\ f \in InodeSlots /\ inode[f].mode = "reg"      \* FUSE's getattr
       /\ inodeMap' = inodeMap \ {f}
       /\ freeInodes' = Inc(freeInodes)
       /\ dataMap' = dataMap \ Range(blk)
       /\ freeBlocks' = (freeBlocks + Len(blk)) % CounterMod
       /\ ret' = OK
       /\ \/ /\ parIno = 0
             /\ LET i1 == [inode EXCEPT ![0].links = @ - 1]
                    r  == RemoveEntry(0, Leaf(p))
                IN /\ dentry' = r.dentry
                   /\ inode' = IF r.found THEN [i1 EXCEPT ![0].size = @ - DentrySize]
                                          ELSE i1
             /\ UNCHANGED extent
          \/ /\ parIno # 0
             \* the count is a uint32; a zero count wraps (to CounterMod - 1 here)
             /\ extent' = [extent EXCEPT ![parIno - 1].count = Dec(@)]
             /\ UNCHANGED <<inode, dentry>>

\* a1fs_rmdir.  The data bits of the directory are cleared but
\* free_blocks_count is left as it was.
Rmdir(p) ==
    LET d   == PathInode(p)
        par == PathInode(Parent(p))
        r   == RemoveEntry(par, Leaf(p))
    IN /\ IsDir(d) /\ d # 0                               \* FUSE's getattr
       /\ \/ /\ inode[d].links # 2
             /\ ret' = ENOTEMPTY
             /\ UNCHANGED <<freeInodes, freeBlocks, inodeMap, dataMap, inode,
                            extent, dentry>>
          \/ /\ inode[d].links = 2
             /\ inodeMap' = inodeMap \ {d}
             /\ freeInodes' = Inc(freeInodes)
             /\ dataMap' = dataMap \ Range(ExtBlocks(d))
             /\ dentry' = r.dentry
             /\ inode' = IF r.found
                         THEN [inode EXCEPT ![par].size = @ - DentrySize,
                                            ![par].links = @ - 1]
                         ELSE inode
             /\ ret' = OK
             /\ UNCHANGED <<freeBlocks, extent>>

Next ==
    \E p \in Paths :
        \/ Mkdir(p)
        \/ Create(p)
        \/ Unlink(p)
        \/ Rmdir(p)

Spec == Init /\ [][Next]_vars

-----------------------------------------------------------------------------
(* Views used by the properties.                                           *)

\* Live entries of d other than "." and "..", by position.
ChildSlots(d) == {pos \in Range(LiveSlots(d)) : SlotAt(pos).name \notin {Dot, DotDot}}
Children(d) == {SlotAt(pos).ino : pos \in ChildSlots(d)}

RECURSIVE ReachFrom(_, _)
ReachFrom(S, n) ==
    IF n = 0 THEN S
    ELSE ReachFrom(S \cup UNION {Children(d) : d \in {x \in S : IsDir(x)}}, n - 1)

\* Inodes named from the root through live entries; paths are at most
\* MaxDepth components long.
Reachable == ReachFrom({0}, MaxDepth)
ReachDirs == {d \in Reachable : IsDir(d)}

-----------------------------------------------------------------------------
(* Properties.                                                             *)

TypeOK ==
    /\ freeInodes \in 0..CounterMod - 1
    /\ freeBlocks \in 0..CounterMod - 1
    /\ inodeMap \subseteq 0..NInodes
    /\ dataMap \subseteq PhysBlocks
    /\ inode \in [InodeSlots -> Inode]
    /\ extent \in [0..NInodes - 1 -> Extent]
    /\ dentry \in [PhysBlocks -> [SlotIdx -> Slot]]
    /\ ret \in {OK, ENOMEM, ENOTEMPTY}

\* The namespace and the inode bitmap agree after any sequence of mkdir,
\* create, unlink and rmdir: the inodes reachable from the root are exactly
\* those whose bit is set, and each is named by exactly one live entry.
\* This is what the swap-last compaction in unlink/rmdir, the bitmap scans
\* of mkdir/create and the bit clearing of unlink/rmdir must keep.
NamespaceMatchesAllocation ==
    /\ Reachable = inodeMap
    /\ \A i \in Reachable \ {0} :
          Cardinality(UNION {{<<d, pos>> : pos \in {q \in ChildSlots(d) :
                                                       SlotAt(q).ino = i}} :
                             d \in ReachDirs}) = 1

\* Every reachable directory is well formed (spec 3): size is a whole number
\* of entries that fits in its blocks, its first two entries are "." naming
\* itself and ".." naming the directory that holds its entry, and the rest
\* carry distinct names, with no gap.  Written by mkdir's "."/".." and
\* append, kept by the removal loop of unlink and rmdir.
DirectoryWellFormed ==
    \A d \in ReachDirs :
        LET L == LiveSlots(d)
            n == inode[d].size \div DentrySize
        IN /\ inode[d].size % DentrySize = 0
           /\ Len(L) = n
           /\ n >= 2
           /\ SlotAt(L[1]) = [name |-> Dot, ino |-> d]
           /\ SlotAt(L[2]).name = DotDot
           /\ IF d = 0 THEN SlotAt(L[2]).ino = 0
                       ELSE \E q \in ReachDirs : d \in Children(q) /\ SlotAt(L[2]).ino = q
           /\ \A i \in 3..n : SlotAt(L[i]).name \in Names
           /\ \A i, j \in 3..n : i # j => SlotAt(L[i]).name # SlotAt(L[j]).name

\* The data blocks of the reachable directories are marked in the data
\* bitmap and no block belongs to two of them, across allocation by mkdir,
\* release by rmdir and reuse of released blocks.
DirBlocksExclusive ==
    /\ \A d \in ReachDirs : Range(ExtBlocks(d)) \subseteq dataMap
    /\ \A d1, d2 \in ReachDirs :
          d1 # d2 => Range(ExtBlocks(d1)) \cap Range(ExtBlocks(d2)) = {}

=============================================================================
