----------------------------- MODULE RingBuffer -----------------------------
(* The byte ring buffer of ring_buffer.c in a debug build (NDEBUG unset):  *)
(* head, tail and full index a byte array of Size cells; freed cells hold  *)
(* the poison byte 0xDD, which check_free asserts before every write. One  *)
(* step is one call (the mutex validator keeps calls apart; MsgQueue.tla   *)
(* checks that it does). Data bytes are drawn from a small set Bytes.      *)
EXTENDS Naturals, Sequences, SequencesExt

CONSTANTS Size, Bytes, MaxLen

Poison == 221   \* 0xDD
ASSUME Size > 0 /\ Poison \notin Bytes

Cells == 0..Size - 1

VARIABLES
    mem,          \* rb->buffer
    head,         \* rb->head
    tail,         \* rb->tail
    full,         \* rb->full
    out,          \* the bytes copied to the caller's buffer by the last read or peek
    ok,           \* the boolean the last call returned
    checkFailed   \* an assert in check_free has failed

vars == <<mem, head, tail, full, out, ok, checkFailed>>

-----------------------------------------------------------------------------
(* __ring_buffer_used / __ring_buffer_free.                                *)
\* (as if the full flag were not consulted: a full buffer reads as empty)
UsedIgnoresFull == IF tail >= head THEN tail - head ELSE Size + tail - head
Used == IF full THEN Size ELSE IF tail >= head THEN tail - head ELSE Size + tail - head
Free == Size - Used

\* The cells at..at+n-1.
Span(at, n) == {i \in Cells : at <= i /\ i < at + n}

\* memcpy of data into the buffer at offset at.
CopyIn(m, at, data) == [i \in Cells |-> IF i \in Span(at, Len(data)) THEN data[i - at + 1] ELSE m[i]]

\* memcpy of n bytes out of the buffer from offset at.
CopyOut(m, at, n) == [k \in 1..n |-> m[at + k - 1]]

\* mark_free: poisons n cells from at.
MarkFree(m, at, n) == [i \in Cells |-> IF i \in Span(at, n) THEN Poison ELSE m[i]]

\* check_free: TRUE when all n cells from at hold the poison byte.
CheckFree(m, at, n) == \A i \in Span(at, n) : m[i] = Poison

-----------------------------------------------------------------------------
Init ==
    /\ mem = [i \in Cells |-> Poison]
    /\ head = 0 /\ tail = 0 /\ full = FALSE
    /\ out = <<>> /\ ok = TRUE /\ checkFailed = FALSE

(* ring_buffer_read (remove) and ring_buffer_peek (keep) of n bytes:        *)
(* ring_buffer_read_common, one action per branch.                          *)
ReadRejected(n) ==
    /\ n > Used
    /\ ok' = FALSE
    /\ UNCHANGED <<mem, head, tail, full, out, checkFailed>>

\* (as if the wrap-around of head at the end of the array were missing)
ReadContiguousNoWrap(n, remove) ==
    /\ n <= Used /\ head + n <= Size
    /\ out' = CopyOut(mem, head, n)
    /\ mem' = IF remove THEN MarkFree(mem, head, n) ELSE mem
    /\ head' = IF remove THEN head + n ELSE head
    /\ full' = (full /\ ~remove)
    /\ ok' = TRUE
    /\ UNCHANGED <<tail, checkFailed>>

ReadContiguous(n, remove) ==
    /\ n <= Used /\ head + n <= Size
    /\ out' = CopyOut(mem, head, n)
    /\ mem' = IF remove THEN MarkFree(mem, head, n) ELSE mem
    /\ head' = IF ~remove THEN head ELSE IF head + n = Size THEN 0 ELSE head + n
    /\ full' = (full /\ ~remove)
    /\ ok' = TRUE
    /\ UNCHANGED <<tail, checkFailed>>

\* (as if the second half were poisoned from the old head, before the reset)
ReadSplitMarkOld(n, remove) ==
    LET copyLen == Size - head
        nextLen == n - copyLen
    IN /\ n <= Used /\ head + n > Size
       /\ out' = CopyOut(mem, head, copyLen) \o CopyOut(mem, 0, nextLen)
       /\ mem' = IF remove THEN MarkFree(MarkFree(mem, head, copyLen), head, nextLen) ELSE mem
       /\ head' = IF remove THEN nextLen ELSE head
       /\ full' = (full /\ ~remove)
       /\ ok' = TRUE
       /\ UNCHANGED <<tail, checkFailed>>

ReadSplit(n, remove) ==
    LET copyLen == Size - head
        nextLen == n - copyLen
    IN /\ n <= Used /\ head + n > Size
       /\ out' = CopyOut(mem, head, copyLen) \o CopyOut(mem, 0, nextLen)
       /\ mem' = IF remove THEN MarkFree(MarkFree(mem, head, copyLen), 0, nextLen) ELSE mem
       /\ head' = IF remove THEN nextLen ELSE head
       /\ full' = (full /\ ~remove)
       /\ ok' = TRUE
       /\ UNCHANGED <<tail, checkFailed>>

(* ring_buffer_write of a byte string data, one action per branch.          *)
WriteRejected(data) ==
    /\ Len(data) > Free
    /\ ok' = FALSE
    /\ UNCHANGED <<mem, head, tail, full, out, checkFailed>>

WriteContiguous(data) ==
    LET n == Len(data)
        newTail == IF tail + n = Size THEN 0 ELSE tail + n
    IN /\ n <= Free /\ tail + n <= Size
       /\ checkFailed' = (checkFailed \/ ~CheckFree(mem, tail, n))
       /\ mem' = CopyIn(mem, tail, data)
       /\ tail' = newTail
       /\ full' = (full \/ head = newTail)
       /\ ok' = TRUE
       /\ UNCHANGED <<head, out>>

WriteSplit(data) ==
    LET n == Len(data)
        copyLen == Size - tail
        nextLen == n - copyLen
    IN /\ n <= Free /\ tail + n > Size
       /\ checkFailed' = (checkFailed \/ ~CheckFree(mem, tail, copyLen)
                                      \/ ~CheckFree(mem, 0, nextLen))
       /\ mem' = CopyIn(CopyIn(mem, tail, SubSeq(data, 1, copyLen)),
                        0, SubSeq(data, copyLen + 1, n))
       /\ tail' = nextLen
       /\ full' = (full \/ head = nextLen)
       /\ ok' = TRUE
       /\ UNCHANGED <<head, out>>

Read(n, remove) == ReadRejected(n) \/ ReadContiguous(n, remove) \/ ReadSplit(n, remove)
Write(data) == WriteRejected(data) \/ WriteContiguous(data) \/ WriteSplit(data)

\* Every call the code accepts: length != 0 is asserted by both.
Next ==
    \/ \E data \in BoundedSeq(Bytes, MaxLen) : Len(data) > 0 /\ Write(data)
    \/ \E n \in 1..MaxLen, remove \in BOOLEAN : Read(n, remove)

Spec == Init /\ [][Next]_vars

-----------------------------------------------------------------------------
TypeOK ==
    /\ mem \in [Cells -> Bytes \cup {Poison}]
    /\ head \in Cells /\ tail \in Cells /\ full \in BOOLEAN
    /\ out \in BoundedSeq(Bytes, MaxLen) /\ ok \in BOOLEAN /\ checkFailed \in BOOLEAN

\* The bytes the buffer holds, oldest first: the refinement mapping.
Stored == [k \in 1..Used |-> mem[(head + k - 1) % Size]]

Fifo == INSTANCE ByteFifo WITH q <- Stored

(* ring_buffer_write, ring_buffer_read and ring_buffer_peek together behave *)
(* as a byte FIFO of capacity Size: writes succeed exactly when they fit,   *)
(* reads and peeks return the oldest bytes, across every wrap-around of     *)
(* head and tail and the full flag that tells a full buffer from an empty   *)
(* one.                                                                     *)
FifoSpec == Fifo!Spec

(* The assert in check_free never fails: every cell a write is about to     *)
(* fill was poisoned by mark_free when it was last read (or by              *)
(* ring_buffer_init), including the wrapped second half of a split read.    *)
CheckFreeNeverFails == ~checkFailed
=============================================================================
