# TLA+ models of the a1fs file system and the a2 message queue

This directory holds TLA+ models of the two programs under `src/`:

* `src/a1_filesystem/` — **a1fs**, a FUSE file system that serves file and
  directory operations directly on a memory-mapped image (`a1fs.c`), and its
  formatting tool (`mkfs.c`);
* `src/a2_message_queue/` — a **blocking message queue** for threads built on a
  byte ring buffer (`msg_queue.c`, `ring_buffer.c`), with a debugging
  "mutex validator" (`mutex_validator.c`) and a list demo (`list_test.c`).

Every module is translated from the C source; each definition that models code
is listed, with its lines, under `"map"` in `PROJECT.json`.

## 1. Inventory

### 1.1 a1fs (src/a1_filesystem)

The image is one byte array, block size 4096. `mkfs` lays it out as: superblock
(block 0), inode bitmap, data bitmap, inode table (64-byte slots), one extent
block per inode (`start_extent + ino`), then the data blocks
(`start_data = start_extent + n_inodes`). Every driver operation re-reads the
image; nothing is cached.

| Component | State it keeps (in the image) | Operations (source) |
|---|---|---|
| Superblock | `free_inodes_count`, `free_blocks_count`, region offsets | written by `mkfs`; counters changed by `mkdir`, `create`, `unlink`, `rmdir`, `truncate`, `write` |
| Bitmap allocator | inode bitmap, data bitmap (MSB-first bits) | `modify`, `modify2`, the inline first-clear-bit scans in `a1fs_mkdir` / `a1fs_create`, `find_next_bit` |
| Inode table | per inode: mode, links, size, mtime, ino_number, extent_count | written by `mkdir`, `create`, `truncate`, `write`, `utimens` |
| Extent store | per inode: array of (start, count) | `update_extent`, writes in `mkdir`, `truncate`, `write`; read by `helper`, `getattr`, `readdir`, `read`, `unlink`, `rmdir` |
| Directory entry store | 256-byte (ino, name) entries, 16 per data block | `helper` (lookup), append in `mkdir`/`create`, swap-last removal in `unlink`/`rmdir`, `readdir` |
| Path resolver | none | `path_inode` (strtok over components, `helper` per component) |
| Mutations | all of the above | `a1fs_mkdir`, `a1fs_create`, `a1fs_unlink`, `a1fs_rmdir`, `a1fs_truncate`, `a1fs_write`, `a1fs_read`, `a1fs_utimens` |
| Format routine | writes everything | `mkfs` in `mkfs.c` |
| Mount/FUSE glue | `fs_ctx` | `a1fs_init`, `a1fs_destroy`, `main`, `a1fs_statfs`, `a1fs_getattr` (read only) |

Interaction: FUSE calls one operation per system call. Before `mkdir`,
`create`, `unlink`, `rmdir`, `truncate`, `read`, `write` FUSE has already
called `getattr` on the path (the comments above each handler list what it
checked); the handler then resolves the parent with `path_inode`, claims bits in
the bitmaps, rewrites inode records, extent arrays and directory entries, and
adjusts the superblock counters, all in place.

What is hard: a handler is a long sequence of in-place writes with no rollback;
the allocation scans, the superblock counters and the bitmaps are three copies
of the same fact kept in step by hand; directory removal relocates the last
entry into the hole; all addressing is offset arithmetic, so an index past a
region silently lands in the next region. Sequences of operations (allocate,
free, reallocate; fill a byte of the bitmap; exhaust the counters) reach states
no single-operation test reaches.

Properties that make it correct (spec §3, §8): the free counters equal the
number of clear bits; every allocated inode is named by exactly one live
directory entry and every live entry names an allocated inode; live entries of
a directory occupy exactly `size/256` slots with "." and ".." first and no
duplicate names; the blocks of live inodes are pairwise disjoint and marked in
the data bitmap; inode numbers stay below `inodes_count`; a directory's link
count is 2 plus its subdirectories; write-then-read returns the data; growth
zero-fills.

### 1.2 Message queue (src/a2_message_queue)

| Component | State | Operations (source) |
|---|---|---|
| Ring buffer | `head`, `tail`, `full`, `size`, bytes | `ring_buffer_init/used/free/read/peek/write` |
| Mutex validator | `owner` thread of the ring buffer | `validator_enter/exit` (asserts single occupancy) |
| Queue backend `mq_backend` | ring buffer, `refs`, `readers`, `writers`, `no_readers`, `no_writers`, `mutex`, condvars `space_full` / `space_empty`, `queue_event`, list of poll waiters | `msg_queue_create`, `msg_queue_open`, `msg_queue_close`, `msg_queue_read`, `msg_queue_write` |
| Poll | per call: array of `waiting_node` (cond, mutex, events) linked into each queue's list | `msg_queue_poll`, `helper_count`, `helper_wakeup` |
| list demo | a local list | `list_test.c` `main` (a test program, not part of the library) |

Interaction: any number of threads call the API on shared handles. The queue
mutex protects the backend; readers sleep on `space_empty`, writers on
`space_full`; `close` broadcasts both when the last reader or writer goes;
`read`/`write` update `queue_event` and call `helper_wakeup`, which signals the
condition variable of every poll waiter whose events intersect it.

What is hard: every interleaving of readers, writers, closers and pollers;
lost wake-ups (a signal that wakes the wrong waiter, a close that wakes nobody,
a poll waiter whose condition variable was never initialised); the non-blocking
paths; the EMSGSIZE path that unlocks the mutex and keeps going; the
uninitialised `queue_event`.

Properties that make it correct (msg_queue.h): the ring buffer is only touched
under the queue mutex (the validator's assertion); messages are delivered
whole, once, in FIFO order; a blocked reader/writer eventually returns once
data/space arrives or the other side has closed (EOF/EPIPE); a non-blocking call
never sleeps; a failed call leaves the queue unchanged; poll reports READABLE
only when the next read will not block (and WRITABLE likewise), and wakes when
such an event arrives.

## 2. Plan

Modules built so far, and the plan for the rest:

1. `A1fs.tla` — the image after `mkfs` and the namespace operations
   `mkdir`, `create`, `unlink`, `rmdir`, with the bitmap scans, the
   superblock counters, the inode table, extent slot 0 of each inode, the
   directory entries and `path_inode`/`helper`. `MC_A1fs.tla` + cfgs. (built)
2. `MsgQueue.tla` — threads running `msg_queue_read` / `msg_queue_write` /
   `msg_queue_close` step by step around the mutex and the two condition
   variables, the ring buffer abstracted to a sequence of messages and its byte
   count. (built)
3. `RingBuffer.tla` — `ring_buffer.c` byte by byte, refining the abstract
   byte FIFO `ByteFifo.tla` (`INSTANCE ... WITH`, checked as a PROPERTY). (built)
4. `MsgQueuePoll.tla` — `msg_queue_poll`, `helper_wakeup` and the
   uninitialised waiter nodes, with writers and readers on several queues. (built,
   READABLE and WRITABLE subscriptions)
5. `A1fsData.tla` — `truncate`, `write`, `read` composed with `A1fs`, checked
   against the abstract file contents `FileContents.tla` by a refinement
   mapping. (built)
6. An abstract specification of the namespace (a tree of names) and a
   refinement mapping from `A1fs`. (not built: see §5)

Runs are listed in `PROJECT.json`; their bounds and what they show are in §4.

## 3. Modules

### 3.1 `A1fs.tla` — the namespace operations of a1fs

State (one variable per on-image structure):

| Variable | Code |
|---|---|
| `freeInodes`, `freeBlocks` | `sb->free_inodes_count`, `sb->free_blocks_count`, wrapping modulo `CounterMod` (they are `uint32_t`; a small modulus keeps the wrap reachable) |
| `inodeMap`, `dataMap` | the set bits of the two bitmaps |
| `inode` | the inode table, slots `0..NInodes` (slot `NInodes` is one past the table and is reachable, see the `fs_truncate_inodes` run) |
| `extent` | `extent_array[0]` of each inode's extent block; the extent block of inode `NInodes` *is* data block 0 |
| `dentry` | directory entries, `block -> slot -> [name, ino]`, 16 per block |
| `ret` | the handler's return value |

Actions: `Init` is `mkfs` (with its counter update applied to the local copy
only, as the code does); `Mkdir`, `Create`, `Unlink`, `Rmdir` are the
handlers, each one atomic step (FUSE runs the handlers of this single-threaded
mount one at a time). They keep every state change and error path of the
code, except `mtime`, which no property reads. A handler's input is a path of at most `MaxDepth` names
from `Names`; its guard adds what FUSE's `getattr` has checked before the call
(parent exists and is a directory, leaf exists / does not exist). The path
walk `PathInode`/`Walk` is `path_inode` + `helper`; `FirstClear` (over the
whole map, as the scans run over all 4096 bytes) +
`ScanSetBit` is the inline bitmap scan with its `modify(bitmap, j, 1)` call,
which sets the bit *inside the byte* (`k % 8`); `AppendPos`/`RemoveEntry` are
the entry append at `size/256` and the swap-last removal.

`Unlink` has two cases, as the code does. For a file at the root
(`parent_ino = 0`) it clears the file's bits, credits the counters and runs
the removal loop on the root. For a file below the root the parent inode is
addressed at block `start_inode + parent_ino` (a1fs.c:811), which with a
one-block inode table is the extent block of inode `parent_ino - 1`. Read as
an inode under the course's `a1fs.h` layout (`links` at offset 4, `size` at
8), `parent->links--` decrements that inode's `extent_array[0].count`, and
the removal loop never runs, because `extent_count` reads 0. The real parent
keeps its entry, its size and its link count. `a1fs.h` is not in the
repository, so this layout is an assumption. With it, mkdir /a, create /a/b,
unlink /a/b leaves /a naming a freed inode, and the root, whose extent is
the one decremented when /a is inode 1, loses its only block.
`A1fs_nested_unlink.cfg` shows this: `NamespaceMatchesAllocation` fails
three steps in. `MC_A1fs.tla` defines `SpecRootUnlink`, the same specification
without that step, which the `fs_namespace` run uses to check the other
handlers in the states past it.

Properties: `TypeOK`; `NamespaceMatchesAllocation` (the allocated inodes are
exactly those named by a reachable entry, each once); `DirectoryWellFormed`
(live slots are `size/256`, "." and ".." first, names unique);
`DirBlocksExclusive` (no two live inodes share a block, and their blocks are
marked in the data bitmap).

### 3.2 `MsgQueue.tla` — threads using one message queue

Each thread of `Readers` / `Writers` holds its own handle (`msg_queue_open`)
and has a program counter `pc` for where it is in `msg_queue_read` /
`msg_queue_write`. Each section of the code run while holding the queue mutex
is one atomic action; the mutex is free between actions, so every
interleaving of the locked sections is explored. `pthread_cond_wait` is a
move to `r_wait`/`w_wait` (mutex released); `Signal` moves one waiter (any
one: POSIX does not say which) to `r_woken`/`w_woken`, `Broadcast` moves
all of them; the woken thread re-tests its `while` loop in `ReadWoken` /
`WriteWoken`.

| Variable | Code |
|---|---|
| `buf` | the ring buffer's content as a sequence of whole messages; `Used` counts the 8-byte `size_t` header of each |
| `refs`, `readers`, `writers`, `noReaders`, `noWriters` | the `mq_backend` fields |
| `queueEvent` | `queue_event`; starts at any value (`mq_init` never sets it) |
| `rbOwner`, `validatorFault` | `validator->owner` and a failed check in `validator_enter` |
| `pc`, `arg`, `ret`, `written` | per thread: position, call argument, return value, messages written |
| `mainOpen`, `destroyed` | the handle the creating thread holds, and `mq_destroy` having run |

`ReadCall`/`ReadLoop` include every exit of `msg_queue_read` (EAGAIN, EOF,
EMSGSIZE, delivery). The EMSGSIZE path unlocks the mutex and then reads
the ring buffer anyway, with two `ring_buffer_read` calls, each inside its
own `validator_enter`/`validator_exit`. It is four steps, so that other
threads can run between them. `ShortReadEnter` is the enter of either read.
`ShortReadHeader` takes the header of the message now at the front and
exits. `ShortReadExit` takes that message's body, exits, and does the
signal, the event update and the second unlock. `HdrTaken` (a reader
between the two reads) makes `Used` leave out the header already taken. A
ring buffer read that no longer starts at a message boundary moves the
thread to `desync`, and the model follows that thread no further. Two
cases reach it: a reader peeking while a header is taken, or a short read
whose header read found the buffer empty. Both need a second reader, so no
pass run reaches them. `RbCall` marks
any locked ring-buffer call made while a short read owns the buffer.
`WriteCall`/`WriteLoop` include EPIPE, EMSGSIZE, the sleep and the
write-then-EAGAIN of a non-blocking writer. `Close`/`CloseHandle` is
`msg_queue_close` + `mq_close`.

Client assumptions (from how a program uses the API): the creating thread
opens every handle before the threads start (`Started`), and closes its own
creation handle once all are open (`MainClose`); a writer closes after
`MaxWrites` writes; a reader closes after end of file (or at any time if it is
one of `QuitReaders`).

Fairness: weak fairness of each thread's step and of `MainClose`. Each
action is a locked section that cannot block once the mutex is free, and
pthread mutexes give every runnable thread the lock eventually, so a thread
that can take a step does. No fairness is assumed for a thread asleep on a
condition variable: it moves only when signalled. Spurious wakeups are not
modelled (they only add re-tests of the loop).

Properties: `TypeOK`; `HandleCountsMatch` (the counters and the
`no_readers`/`no_writers` flags agree with the handles that are open);
`Termination` (every run ends with the queue destroyed: no thread is left
asleep); and two properties the code breaks: `ValidatorNeverFails`,
`BlockedWriteReturns`.

`MC_MsgQueue.tla` defines `ViewWithoutEvents`: no action reads
`queueEvent`, so states that differ only in it behave alike for every
property that does not mention it; runs of those properties use it as VIEW.

### 3.3 `ByteFifo.tla` and `RingBuffer.tla` — the ring buffer and what it promises

`ByteFifo.tla` is the abstract specification: a sequence `q` of at most
`Size` bytes; `Put` appends when the bytes fit, `Take(n, remove)` returns
the `n` oldest (and removes them for a read); a failing call returns FALSE
and changes nothing.

`RingBuffer.tla` is `ring_buffer.c` byte by byte (debug build): `mem`
(`rb->buffer`), `head`, `tail`, `full`, the bytes a read copied out, the
return value, and `checkFailed` for the `assert` in `check_free`. `Used` /
`Free` are `__ring_buffer_used/free`; each branch of
`ring_buffer_read_common` (rejected, contiguous, split) and of
`ring_buffer_write` is one action, with `mark_free` (`MarkFree`) and
`check_free` (`CheckFree`) included. Each call is one step: the callers
serialise them with the queue mutex, and the validator case where they do
not is checked in `MsgQueue.tla`.

The refinement mapping `Stored` reads the `Used` bytes from `head`,
wrapping modulo `Size`; `Fifo == INSTANCE ByteFifo WITH q <- Stored` and
the run checks `FifoSpec == Fifo!Spec` as a PROPERTY. With
`CheckFreeNeverFails` it shows that head/tail wrap-around, split copies and
the full flag are right.

### 3.4 `MsgQueuePoll.tla` — poll over several queues

Threads: blocking writers (each on one queue, writing `MaxWrites`
messages of `MsgLen` bytes, then closing), non-blocking readers, and
pollers, each polling a sequence `Fds[p]` of queues, pollfd `i` asking for
`FdEvents[p][i]`: READABLE (a reader handle) or WRITABLE (a writer handle).
State per queue: `count` of messages (each `Header + MsgLen` of the
`Capacity` bytes), the READABLE and WRITABLE bits of `queue_event` (they
start at either value, since `mq_init` never sets them), the holder of
`mq->mutex`, and the list of waiting nodes; per poller: the holder of node
0's `poll_mutex`, the loop index, the returned count. Actions follow the
code's blocking points: `Write`/`Read` are the locked section up to
`helper_wakeup` (a writer whose message does not fit goes to sleep on
`space_full` instead, and a read's `cond_signal(space_full)` wakes one such
writer, `SignalSpaceFull`; write clears WRITABLE only when the buffer is now
exactly full, read sets it), `Matching` is the nodes whose `events` meet
`queue_event`, `WakeNode` is one iteration of `helper_wakeup` (taking the
node's `poll_mutex` for node 0; the uninitialised nodes `i >= 1` are taken
as unlocked, zeroed mutexes with no waiter on their condition variable),
`WakeDone` unlocks the queue mutex; `PollStart`, `PollRegister` (one loop
iteration), `PollCount` (`helper_count`), `PollWait` (cond_wait or
unlock), `PollWoken` and `PollDeregister` (one loop iteration) are
`msg_queue_poll`. `Close` is the writer's `msg_queue_close` (no
`helper_wakeup`, as in the code). Fairness is weak fairness per thread, as in
`MsgQueue.tla`.

Properties: `TypeOK`; `NoWaitCycle` (the waits-for graph of the queue
mutexes and the `poll_mutex`es has no cycle, `HasCycle` of the Graphs
module); `NoLostWakeup` (a poller asleep while one of its READABLE queues
holds a message, or one of its WRITABLE queues has had WRITABLE set by a read,
always has a `helper_wakeup` on its way to its node 0; it fails if read or
write calls `helper_wakeup` before updating the bits); and
`PollWakesWhenReady` (a poller asleep while one of its queues is ready in the
sense of `msg_queue.h`, a message or all writers closed for READABLE, room for
a header and one byte for WRITABLE, is eventually woken), which the code
breaks. Three causes break it: the second-fd case the run shows; a close of
the last writer, which sets READABLE without `helper_wakeup` (one poller on
`q1` for READABLE and one writer with `MaxWrites = 0` shows it in 38 states);
and the uninitialised `queue_event` (one poller on `q1` for WRITABLE and no
reader sleeps forever on an empty queue when the bit starts clear, 33 states).

`PollReturns` (every poll returns) holds in `mq_poll`: the close of the last
writer sets READABLE without waking anyone, and it is the reader's end-of-file
read, which calls `helper_wakeup` with READABLE still set, that wakes a poller
asleep on the drained queue; a close that did not set READABLE leaves it
asleep for ever.

`mq_poll`'s capacity, 18 bytes, holds exactly two 1-byte messages, so the
third write sleeps and the WRITABLE poller `p3` can sleep on a full queue
until the reader frees room; WRITABLE is then cleared at exactly 0 bytes free.
With a capacity that is not a multiple of 9 the bit would stay set with
too little room (`msg_queue.c:389`): poll returns and the next
write blocks, against the "very next write will not block" of `msg_queue.h`,
which is a promise about the call after poll that no property here states.

### 3.5 `FileContents.tla` and `A1fsData.tla` — the file data path

`FileContents.tla` is what the comments above `a1fs_read`, `a1fs_write` and
`a1fs_truncate` (and spec §5) promise: each file is a sequence of chunks;
write zero-fills a gap and copies, truncate cuts or zero-extends, read returns
the chunks from the offset up to the end (nothing at or past it), a new file is
empty, and nothing else changes a file's bytes.

`A1fsData.tla` EXTENDS `A1fs` and adds the three handlers; its `DataNext` is
the namespace handlers of `A1fs` plus `Truncate`, `Write` and `Read` on any
path, one whole handler per step. The data region is seen at 256-byte
granularity, the chunks `A1fs` already keeps in `dentry`: a chunk of file data
is a slot named `FileBytes` carrying the value written, `memset 0` writes the
zero slot. Offsets, lengths and sizes are multiples of 256, so every byte
offset of the code lands on a chunk and the arithmetic on 4096 is exact; a
write or read covers one block, as FUSE guarantees. The image's data region is
`PhysBlocks`: an access past it is not taken (a bound, like `AllocBoundOK`).

| Definition | Code |
|---|---|
| `FindNextBit` | `find_next_bit`: the first clear bit, returned as its position *inside its byte* |
| `UpdateExtent` | `update_extent`: grow the extent by an adjacent block, or make the first one; any other block goes to `extent_array[1]`, which nothing reads since `extent_count` never exceeds 1 |
| `Truncate`, `Grow`, `Grows`, `CDiv` | `a1fs_truncate`: the counter update with C division, the first block and the growth blocks taken from the **inode** bitmap, the zeroing memsets, and the shrink loop that sets `extent_count` to the extent's index |
| `Write`, `WriteBlock`, `Poke` | `a1fs_write`: a new block for a file without one, else block `start + count` (one past the file); gap zeroing from byte `ori_size`; `size = ori_size + size + offset` past the end |
| `Read`, `ChunksAt` | `a1fs_read`: end of file only for `offset > size`; the extent walk always leaves `start = extent_array[0].start`, and with no extent `start` is uninitialised (any block of the image) |

`a1fs.h` is not in the repository, so the type of `a1fs_inode.size` is the
constant `SizeIsUnsigned`. With the course header's `uint64_t`,
`(size - inode->size) > 0` is an unsigned comparison that is true whenever the
sizes differ, so a shrink runs the growth branch. The runs take TRUE.

The refinement mapping `Contents` reads each reachable regular file's
`size/256` chunks through `extent_array[0]`; a chunk outside the extent, or
holding a directory entry or extent record, is `NoData`, which no abstract
step produces. `FileSpec == File!Spec`, with
`File == INSTANCE FileContents WITH content <- Contents, ...`.

## 4. Runs

| Run | Cfg | Bounds | Shows |
|---|---|---|---|
| `fs_namespace` (pass) | `MC_A1fs.cfg` | 8 inodes, 3 data blocks, names {a,b} (symmetric), depth 2, counters mod 16 | under `SpecRootUnlink`, every sequence of mkdir, create, root-level unlink and rmdir on paths up to depth 2 keeps the namespace, the directories and the block ownership consistent (about 97k states, around 1.5 minutes). Files and directories are created in subdirectories, non-empty directories refuse rmdir, blocks are reallocated, and the block pool is exhausted. Unlink below the root is not in this run (see 3.1). |
| `fs_bitmap_byte` | `A1fs_bitmap_byte.cfg` | 10 inodes, 8 names, files at the root only, nothing freed | once bitmap byte 0 is full, the next allocation reuses an allocated inode (the ninth inode is the first one past byte 0) |
| `fs_data_contents` | `A1fsData_contents.cfg` | 4 inodes, 4 blocks, names {a,b} at the root, one-chunk writes and reads at 0, 256 and 4096, truncate to 0, 256 and 4352 | `FileSpec` fails: a read at the end of a freshly created file returns 256 bytes (from an uninitialised block number) instead of 0 |
| `fs_truncate_inodes` | `A1fsData_truncate.cfg` | as `fs_data_contents` | create, truncate to two blocks, mkdir: truncate took inodes 2 and 3 for its blocks, mkdir gets inode 4 = `inodes_count`, and its extent record overwrites the root's "." |
| `mq_producer_consumer` (pass) | `MC_MsgQueue.cfg` | readers {r1, r2 non-blocking}, writers {w1, w2}, 2 messages each of 1 or 4 bytes, capacity 21 (a 1-byte and a 4-byte message fit exactly, two 4-byte ones do not) | every interleaving, with writers blocked on a full queue and readers on an empty one, keeps the counts and terminates |
| `mq_close_order` (pass) | `MsgQueue_close_order.cfg` | one reader that may quit at any time (so no second reader races a short read), a blocking and a non-blocking writer, 2- and 33-byte messages, read lengths 1 and 4, capacity 40 | the error paths (EPIPE, EMSGSIZE on write, EAGAIN, the short read) and every order of closing; the queue is never full, so no writer is asleep when the reader leaves (the `mq_epipe` run is that case) |
| `mq_short_read` | `MsgQueue_short_read.cfg` | 2 readers, 1 writer | a read with a short buffer touches the ring buffer while another thread holds the mutex |
| `mq_epipe` | `MsgQueue_epipe.cfg` | 1 reader that may quit, 1 writer | a writer asleep when the reader closes never returns |
| `rb_fifo` (pass) | `RingBuffer.cfg` | 4 cells, calls of 1..3 bytes over 2 byte values | the ring buffer implements `ByteFifo`, and `check_free` never fails: every head/tail offset, both split branches, and full versus empty at `head = tail` are reached (3.5k states) |
| `mq_poll` (pass) | `MC_MsgQueuePoll.cfg` | queues q1, q2 of 18 bytes; p1 polls q1 then q2 for READABLE, p3 polls q1 for WRITABLE; w1 writes 3 one-byte messages to q1 (the third waits for room) and closes; r1 reads q1 to end of file | no lock cycle, no lost wakeup and every poll returns (about 19k states), with writes and reads racing every step of the pollers' registration, count, wait and removal |
| `mq_poll_lock_order` | `MsgQueuePoll_lock_order.cfg` | p1 polls (q1, q2), p2 polls (q2, q1), a writer on each queue | a four-thread deadlock between queue mutexes and poll_mutexes |
| `mq_poll_second_fd` | `MsgQueuePoll_second_fd.cfg` | p1 polls (q1, q2), a writer on q2 | the poller is never woken by a write to its second queue |

Bounds: the interesting cases of the file system (a full bitmap byte, an
exhausted pool, reuse after free, the wrap of a counter, the table's last
slot) are reached at these sizes, and each has its own run where it needs a
larger one. For the queue, capacity 21 holds a 1-byte and a 4-byte message
(9 + 12 bytes, an exact fit) but not two 4-byte ones, so both "full" and "fits" happen, and
two writes per writer make a second message queue up behind the first.
The poll runs need two queues and two pollers for a lock-order cycle, and a
second write for a poller that is asleep when data arrives; a 4-byte ring
buffer with 3-byte calls reaches every split and every offset.

The queue's pass runs use `CHECK_DEADLOCK FALSE`: the program stops when the
last handle is closed and the queue is destroyed, which TLC would report as a
deadlock. A thread left asleep is instead reported as a violation of
`Termination`.

## 5. Not modelled (yet)

* Poll subscriptions to NOREADERS and NOWRITERS (close, the event that sets
  them, calls no `helper_wakeup`), the EINVAL checks of `msg_queue_poll`, and
  `revents`; non-blocking writers and reader close in `MsgQueuePoll.tla`. The
  close that wakes no poller, the uninitialised
  `queue_event`, the non-blocking write that skips the event update, the
  `cond_wait` outside a loop and the second unlock of `poll_mutex` are listed
  in `PROJECT.json` with what the model does with them.
* The garbage outcome of locking an uninitialised `poll_mutex` (node
  `i >= 1`): the model takes the zeroed-memory outcome only.
* a1fs `utimens`, `readdir`, `statfs`, `getattr` (the last three are
  read-only; `utimens` only sets a timestamp no property reads).
* The data path at byte granularity (offsets inside a chunk), files whose
  inode is past `inodes_count`, and the 8 data blocks in use after which
  `find_next_bit` hands out a used block (the same scan is `fs_bitmap_byte`).
* The data path has violation runs only. With every allocation of truncate in
  the wrong bitmap and every second write one block past the file, no
  property of file contents or of the image holds for it, so there is no
  passing run of `A1fsData` to state one.
* A refinement of the namespace onto an abstract tree of names: the code
  already breaks it through the bugs above (truncate's inode bits, the
  bit-in-byte scans), and `NamespaceMatchesAllocation` and
  `DirectoryWellFormed` state its content for the handlers where it holds.
* Names longer than `A1FS_NAME_MAX` (the `strncpy` without terminator).
* No run checks unlink below the root: it is modelled, but it breaks the
  namespace at once (3.1, `A1fs_nested_unlink.cfg`), so `fs_namespace`
  leaves it out.
* What a reader does once the ring buffer is no longer read at message
  boundaries (`desync`, 3.2).
* The double `pthread_mutex_unlock` of the EMSGSIZE read path is recorded as a
  fault of the validator; what an unlock of an unlocked mutex does is
  undefined.
* Code disagreements kept as hazards without a run: `mkfs` adjusts the free
  counters after copying the superblock, rmdir never credits
  `free_blocks_count` (a mkdir/rmdir pair shows it), truncate debits it on a
  shrink, create/unlink change a directory's
  link count for regular files, a non-blocking write sleeps when the message
  does not fit, and WRITABLE stays set with 1..8 bytes free.
* `list_test.c`, a demo program.
