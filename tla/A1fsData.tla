------------------------------ MODULE A1fsData ------------------------------
(***************************************************************************)
(* The file data path of a1fs (a1fs_truncate, a1fs_write, a1fs_read) over  *)
(* the image of A1fs.tla, composed with its namespace operations.          *)
(*                                                                         *)
(* Data blocks are seen at the granularity of a directory entry: 16 chunks *)
(* of 256 bytes per block, the chunks A1fs.tla already keeps in dentry.    *)
(* A chunk of file data is a Slot whose name is FileBytes and whose ino is *)
(* the value written; memset 0 writes ZeroSlot.  Offsets, lengths and      *)
(* sizes are multiples of 256, so every byte offset of the code lands on a *)
(* chunk boundary and the arithmetic on 4096 is kept exactly.              *)
(*                                                                         *)
(* extent_count is only ever 0 or 1 (mkdir and write set 1, update_extent  *)
(* sets 1, truncate sets 0 or keeps it), so only extent_array[0] is read;  *)
(* the second extent update_extent may write is never read and is left    *)
(* out.  Each handler runs to completion, as FUSE dispatches them.         *)
(***************************************************************************)
EXTENDS A1fs

CONSTANTS
    Vals,      \* values of a written chunk (model values or naturals > 0)
    WOffsets,  \* byte offsets of a write or read (multiples of 256)
    WLens,     \* byte lengths of a write or read (multiples of 256, > 0)
    TSizes,    \* byte sizes given to truncate (multiples of 256)
    SizeIsUnsigned  \* a1fs_inode.size is unsigned (uint64_t): a1fs.h is not
                    \* in the repository, so both readings are kept

VARIABLE out   \* the chunks a1fs_read copied into the caller's buffer

allVars == <<vars, out>>

FileBytes == "<file>"
Chunk(v) == [name |-> FileBytes, ino |-> v]
ZeroChunks(n) == [k \in 1..n |-> ZeroSlot]

\* C division of a signed int, rounding toward zero.
CDiv(x, y) == IF x >= 0 THEN x \div y ELSE -((-x) \div y)

-----------------------------------------------------------------------------
(* Bitmaps and extents.                                                    *)

\* find_next_bit: the first clear bit, bytes from 0 and bits MSB first, but
\* it returns j, the position of the bit inside its byte.
FindNextBit(map) == FirstClear(map) % 8

\* update_extent on extent slot 0 of an inode whose extent_count is ec: a
\* block just past the extent grows it; with no extent, it becomes the
\* extent; any other block goes to extent_array[1], which nothing reads.
UpdateExtent(e, ec, idx) ==
    IF ec = 0 THEN [start |-> idx, count |-> 1]
    ELSE IF e.start + e.count = idx THEN [e EXCEPT !.count = @ + 1]
    ELSE e

\* The chunk at byte off counted from the start of data block blk.
At(blk, off) == <<blk + off \div BlockSize, (off % BlockSize) \div DentrySize>>

\* memcpy / memset of the chunks s to byte off counted from block blk.
Poke(dmap, blk, off, s) ==
    [b \in PhysBlocks |-> [x \in SlotIdx |->
        LET rel == (b - blk) * BlockSize + x * DentrySize - off
        IN IF rel >= 0 /\ rel \div DentrySize < Len(s)
           THEN s[rel \div DentrySize + 1] ELSE dmap[b][x]]]

\* The byte range [off, off+n) from block blk lies in the image: the data
\* region holds PhysBlocks (a bound of the model, as AllocBoundOK).
InImage(blk, off, n) == n <= 0 \/ {blk, blk + (off + n - 1) \div BlockSize} \subseteq PhysBlocks

\* The FUSE guard of the three handlers: path names a regular file.  Inodes
\* past inodes_count keep their extent in a data block and are left out.
IsFile(f) == f \in 0..NInodes - 1 /\ inode[f].mode = "reg"

-----------------------------------------------------------------------------
(* a1fs_truncate(path, size).                                              *)

\* (size - inode->size) > 0 at :928: with an unsigned size the difference
\* is unsigned, and positive whenever the sizes differ.
Grows(size, old) == IF SizeIsUnsigned THEN size # old ELSE size - old > 0

RECURSIVE Grow(_, _, _, _)
\* The growth loop: n blocks, each the next bit of the INODE bitmap, set
\* there, appended by update_extent and zeroed.
Grow(map, e, dmap, n) ==
    IF n <= 0 THEN [map |-> map, ext |-> e, dmap |-> dmap, ok |-> TRUE]
    ELSE LET idx == FindNextBit(map)
         IN IF idx \notin PhysBlocks THEN [ok |-> FALSE]
            ELSE Grow(map \cup {idx}, UpdateExtent(e, 1, idx),
                      Poke(dmap, idx, 0, ZeroChunks(DentriesPerBlock)), n - 1)

Truncate(f, size) ==
    LET old     == inode[f].size
        ec      == inode[f].extent_count
        newSize == size - (old % BlockSize)
        nBlocks == CDiv(newSize, BlockSize)
        byteMore == old % BlockSize
        k0      == FindNextBit(inodeMap)
        map0    == IF ec = 0 THEN inodeMap \cup {k0} ELSE inodeMap
        e0      == IF ec = 0 THEN [start |-> k0, count |-> 1] ELSE extent[f]
        last    == IF ec = 0 THEN k0 ELSE extent[f].start + extent[f].count
        g       == Grow(map0, e0,
                        Poke(dentry, last, byteMore,
                             ZeroChunks((BlockSize - byteMore) \div DentrySize)),
                        nBlocks)
        total   == size \div BlockSize
        cut     == total < e0.count       \* w reaches total inside the extent
    IN /\ IsFile(f)
       /\ freeBlocks' = (freeBlocks - (nBlocks + 1)) % CounterMod
       /\ \/ /\ Grows(size, old)
             /\ last \in PhysBlocks /\ g.ok
             /\ inodeMap' = g.map
             /\ extent' = [extent EXCEPT ![f] = g.ext]
             /\ dentry' = g.dmap
             /\ inode' = [inode EXCEPT ![f].size = size, ![f].extent_count = 1]
             /\ UNCHANGED dataMap
          \/ /\ ~Grows(size, old)
             /\ inodeMap' = map0
             /\ dataMap' = IF cut THEN dataMap \ {j \in PhysBlocks :
                                          e0.start + total < j /\ j < e0.start + e0.count}
                                  ELSE dataMap
             /\ extent' = [extent EXCEPT ![f] =
                             IF cut THEN [e0 EXCEPT !.count = total + 1] ELSE e0]
             /\ inode' = [inode EXCEPT ![f].size = size,
                                       ![f].extent_count = IF cut THEN 0 ELSE 1]
             /\ UNCHANGED dentry
       /\ ret' = OK
       /\ UNCHANGED <<freeInodes, out>>

-----------------------------------------------------------------------------
(* a1fs_write(path, buf, size, offset): data is the sequence of values.    *)

\* The block a write copies to: a new one for a file without blocks, else
\* extent_array[ec-1].start + count.
WriteBlock(f) == extent[f].start + extent[f].count

Write(f, off, data) ==
    LET ec   == inode[f].extent_count
        b0   == FindNextBit(dataMap)
        to   == IF ec = 0 THEN b0 ELSE WriteBlock(f)
        old  == inode[f].size
        n    == Len(data) * DentrySize
        gap  == IF off > old THEN Poke(dentry, to, old, ZeroChunks((off - old) \div DentrySize))
                ELSE dentry
    IN /\ IsFile(f)
       /\ InImage(to, off, n) /\ InImage(to, old, off - old)
       /\ dataMap' = IF ec = 0 THEN dataMap \cup {b0} ELSE dataMap
       /\ extent' = IF ec = 0 THEN [extent EXCEPT ![f] = [start |-> b0, count |-> 1]]
                              ELSE extent
       /\ freeBlocks' = IF ec = 0 THEN Dec(freeBlocks) ELSE freeBlocks
       /\ dentry' = Poke(gap, to, off, [k \in 1..Len(data) |-> Chunk(data[k])])
       /\ inode' = [inode EXCEPT ![f].extent_count = 1,
                                 ![f].size = IF off > old THEN old + n + off
                                             ELSE IF off + n > old THEN off + n ELSE old]
       /\ ret' = n
       /\ UNCHANGED <<freeInodes, inodeMap, out>>

-----------------------------------------------------------------------------
(* a1fs_read(path, buf, size, offset).                                     *)

\* The n bytes at byte off % 4096 of block blk, as chunks.
ChunksAt(blk, off, n) ==
    [k \in 1..n \div DentrySize |-> SlotAt(At(blk, (off % BlockSize) + (k - 1) * DentrySize))]

\* Past the end only for offset > size.  The extent walk leaves start at
\* extent_array[0].start whether it breaks or runs out; with no extent,
\* start is an uninitialised int, taken here as any block of the image.
Read(f, off, n) ==
    /\ IsFile(f)
    /\ \/ /\ off > inode[f].size
          /\ out' = <<>> /\ ret' = 0
       \/ /\ off <= inode[f].size /\ inode[f].extent_count = 1
          /\ InImage(extent[f].start, off % BlockSize, n)
          /\ out' = ChunksAt(extent[f].start, off, n) /\ ret' = n
       \/ /\ off <= inode[f].size /\ inode[f].extent_count = 0
          /\ \E blk \in PhysBlocks : /\ InImage(blk, off % BlockSize, n)
                                     /\ out' = ChunksAt(blk, off, n)
          /\ ret' = n
    /\ UNCHANGED <<freeInodes, freeBlocks, inodeMap, dataMap, inode, extent, dentry>>

-----------------------------------------------------------------------------
(* The file system: the namespace handlers of A1fs.tla and the data path,  *)
(* each called by FUSE on a path with arguments from small sets; FUSE      *)
(* hands write and read a byte range inside one block.                     *)

OneBlock(off, n) == off \div BlockSize = (off + n - 1) \div BlockSize

DataInit == Init /\ out = <<>>

DataNext ==
    \/ Next /\ UNCHANGED out
    \/ \E p \in Paths :
          LET f == PathInode(p) IN
          \/ \E size \in TSizes : Truncate(f, size)
          \/ \E off \in WOffsets, n \in WLens :
                /\ OneBlock(off, n)
                /\ \/ \E data \in [1..n \div DentrySize -> Vals] : Write(f, off, data)
                   \/ Read(f, off, n)

DataSpec == DataInit /\ [][DataNext]_allVars

-----------------------------------------------------------------------------
(* Refinement mapping onto FileContents.                                   *)

NoData == "<no data>"   \* bytes that are not the file's: a directory entry,
                        \* an extent record, or a block the file does not own

\* A chunk of the image read as file data.
ChunkValue(s) ==
    IF s.name = FileBytes THEN s.ino ELSE IF s = ZeroSlot THEN 0 ELSE NoData

\* The size/256 chunks of file f, through extent_array[0].
Stored(f) ==
    [k \in 1..inode[f].size \div DentrySize |->
        IF inode[f].extent_count = 1 /\ (k - 1) \div DentriesPerBlock < extent[f].count
        THEN ChunkValue(SlotAt(At(extent[f].start, (k - 1) * DentrySize)))
        ELSE NoData]

\* The files a path names, with their bytes; every other inode is empty.
Contents == [f \in 0..NInodes - 1 |-> IF IsFile(f) /\ f \in Reachable THEN Stored(f) ELSE <<>>]

File == INSTANCE FileContents
          WITH Files <- 0..NInodes - 1, Vals <- Vals,
               Offsets <- {o \div DentrySize : o \in WOffsets},
               Lens <- {l \div DentrySize : l \in WLens},
               Sizes <- {s \div DentrySize : s \in TSizes},
               content <- Contents,
               out <- [k \in 1..Len(out) |-> ChunkValue(out[k])]

(* The data path and the namespace handlers together keep every file's     *)
(* bytes as the comments of a1fs_read, a1fs_write and a1fs_truncate        *)
(* promise: a read returns what was last written (zeros for gaps and       *)
(* extensions) and nothing past the end, and no handler changes the bytes  *)
(* of a file it was not called on.                                         *)
FileSpec == File!Spec
=============================================================================
