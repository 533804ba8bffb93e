------------------------------ MODULE MsgQueue ------------------------------
(***************************************************************************)
(* The blocking message queue of src/a2_message_queue/msg_queue.c: one     *)
(* queue backend shared by reader and writer threads, each with its own    *)
(* handle, and the creating thread ("main") with a handle of no flags.     *)
(*                                                                         *)
(* Every section of msg_queue_open/read/write/close that runs with the     *)
(* queue mutex held is one atomic step: the mutex is free between steps.   *)
(* cond_wait ends a step (the thread joins the wait set of space_empty or  *)
(* space_full); cond_signal moves one waiter, cond_broadcast all waiters,  *)
(* to a "woken" state from which the thread re-takes the mutex and         *)
(* re-tests its loop condition.  The EMSGSIZE path of msg_queue_read       *)
(* unlocks the mutex and carries on: its ring buffer access is split into  *)
(* validator_enter and the access + validator_exit, so that another        *)
(* thread's ring buffer call can fall in between.                          *)
(*                                                                         *)
(* The ring buffer holds messages as a sequence of [len, id] records; each *)
(* occupies Header + len bytes (the size_t length, then the body).         *)
(***************************************************************************)
EXTENDS Naturals, Sequences, SequencesExt, FiniteSets

CONSTANTS
    Readers,        \* threads holding a MSG_QUEUE_READER handle
    Writers,        \* threads holding a MSG_QUEUE_WRITER handle
    NonBlocking,    \* threads whose handle also has MSG_QUEUE_NONBLOCK
    Capacity,       \* capacity given to msg_queue_create
    MsgLens,        \* lengths writers pass to msg_queue_write
    ReadLens,       \* buffer lengths readers pass to msg_queue_read
    MaxWrites,      \* msg_queue_write calls per writer thread
    QuitReaders     \* readers that may close before reading end of file

Threads == Readers \cup Writers
Header == 8                                  \* sizeof(size_t)

ASSUME /\ Readers \cap Writers = {}
       /\ NonBlocking \subseteq Threads
       /\ Capacity >= Header + 1             \* msg_queue_create's check
       /\ MsgLens \subseteq 1..Capacity /\ ReadLens \subseteq 1..Capacity
       /\ MaxWrites \in Nat /\ QuitReaders \subseteq Readers

\* queue_event bits
READABLE == "READABLE"
WRITABLE == "WRITABLE"
NOREADERS == "NOREADERS"
NOWRITERS == "NOWRITERS"
Events == {READABLE, WRITABLE, NOREADERS, NOWRITERS}

\* msg_queue_read/write return a length, 0, or -1 with errno set.
Errnos == {"EAGAIN", "EPIPE", "EMSGSIZE"}
None == "none"
Return(v) == [val |-> v, errno |-> None]
Fail(e) == [val |-> -1, errno |-> e]

Msg == [len : MsgLens, id : Writers \X (1..MaxWrites)]

VARIABLES
    buf,            \* ring buffer contents, oldest first
    refs, readers, writers, noReaders, noWriters,
    queueEvent,     \* mq->queue_event
    mainOpen,       \* the handle msg_queue_create returned is still open
    destroyed,      \* mq_destroy has run
    rbOwner,        \* validator->owner of the ring buffer
    validatorFault, \* a validator_enter or validator_exit has failed
    pc,             \* where each thread is
    arg,            \* the argument of the call in progress
    ret,            \* what the thread's last call returned
    written         \* msg_queue_write calls a writer has completed

vars == <<buf, refs, readers, writers, noReaders, noWriters, queueEvent,
          mainOpen, destroyed, rbOwner, validatorFault, pc, arg, ret,
          written>>

-----------------------------------------------------------------------------
\* A reader past the EMSGSIZE unlock has read the header of the message at
\* the front and not yet its body.
HdrTaken == \E u \in Readers : pc[u] \in {"r_short_hdr", "r_short_body"}

\* ring_buffer_used
Used == FoldSeq(LAMBDA m, acc : acc + Header + m.len, 0, buf)
            - (IF HdrTaken THEN Header ELSE 0)
Free == Capacity - Used                                       \* ring_buffer_free

\* Mutation of Fits: the size_t header is not counted.
FitsNoHeader(len) == Free >= len

\* Enough free space for a message of length len (the write loop's test).
Fits(len) == Free >= len + Header

\* ring_buffer_write of the header and of the body: the message goes in at
\* the tail.
Enqueue(s, m) == Append(s, m)

\* ring_buffer_read of the header and of msg_head bytes: the message at
\* the head comes out.
Dequeue(s) == Tail(s)

\* cond_signal: one waiter, if any, leaves the wait set.  The set of
\* possible pc functions after the call.
Signal(p, waiting, woken) ==
    LET W == {u \in Threads : p[u] = waiting}
    IN IF W = {} THEN {p} ELSE {[p EXCEPT ![u] = woken] : u \in W}

\* Mutation of Broadcast: nobody is woken.
BroadcastNone(p, waiting, woken) == p

\* cond_broadcast: every waiter leaves the wait set.
Broadcast(p, waiting, woken) ==
    [u \in Threads |-> IF p[u] = waiting THEN woken ELSE p[u]]

\* A ring buffer call made under the mutex while the validator is held by
\* another thread: its compare-and-swap fails and the error is reported.
RbCall == validatorFault' = (validatorFault \/ rbOwner # None)

-----------------------------------------------------------------------------
Init ==
    /\ buf = <<>>
    /\ refs = 1 /\ readers = 0 /\ writers = 0      \* msg_queue_create(cap, 0)
    /\ noReaders = FALSE /\ noWriters = FALSE
    /\ queueEvent \in SUBSET Events                \* never initialised
    /\ mainOpen = TRUE /\ destroyed = FALSE
    /\ rbOwner = None /\ validatorFault = FALSE
    /\ pc = [t \in Threads |-> "open"]
    /\ arg = [t \in Threads |-> IF t \in Writers THEN [len |-> 0, id |-> <<t, 0>>]
                                                ELSE 0]
    /\ ret = [t \in Threads |-> Fail(None)]   \* no call made yet
    /\ written = [t \in Writers |-> 0]
-----------------------------------------------------------------------------
(* msg_queue_open(main's handle, flags): lock, mq_open, unlock.            *)
Open(t) ==
    /\ pc[t] = "open" /\ ~destroyed
    /\ refs' = refs + 1
    /\ IF t \in Readers THEN readers' = readers + 1 /\ noReaders' = FALSE
                        ELSE UNCHANGED <<readers, noReaders>>
    /\ IF t \in Writers THEN writers' = writers + 1 /\ noWriters' = FALSE
                        ELSE UNCHANGED <<writers, noWriters>>
    /\ pc' = [pc EXCEPT ![t] = "idle"]
    /\ UNCHANGED <<buf, queueEvent, mainOpen, destroyed, rbOwner,
                   validatorFault, arg, ret, written>>

\* msg_queue_read from the wait loop on, for a thread that holds the mutex:
\* the loop test (non-blocking EAGAIN or cond_wait), the end-of-file test
\* after the loop (it has the effect of the one before the loop), the peek
\* and EMSGSIZE test, the two reads, cond_signal(space_full) and the event
\* update.
ReadLoop(t, len) ==
    \/ /\ ~noWriters /\ buf = <<>> /\ t \in NonBlocking
       /\ ret' = [ret EXCEPT ![t] = Fail("EAGAIN")]
       /\ pc' = [pc EXCEPT ![t] = "idle"]
       /\ UNCHANGED <<buf, queueEvent>>
    \/ /\ ~noWriters /\ buf = <<>> /\ t \notin NonBlocking
       /\ pc' = [pc EXCEPT ![t] = "r_wait"]
       /\ UNCHANGED <<buf, queueEvent, ret>>
    \/ /\ noWriters /\ buf = <<>>
       /\ queueEvent' = queueEvent \cup {NOWRITERS}
       /\ ret' = [ret EXCEPT ![t] = Return(0)]
       /\ pc' = [pc EXCEPT ![t] = "idle"]
       /\ UNCHANGED <<buf>>
    \/ /\ buf # <<>> /\ HdrTaken
       \* the peek reads body bytes as a header: from here on the ring
       \* buffer is no longer read at message boundaries (not followed)
       /\ pc' = [pc EXCEPT ![t] = "desync"]
       /\ UNCHANGED <<buf, queueEvent, ret>>
    \/ /\ buf # <<>> /\ ~HdrTaken /\ len < Head(buf).len
       \* EMSGSIZE: the mutex is unlocked and the function carries on
       /\ ret' = [ret EXCEPT ![t] = Return(Head(buf).len)]
       /\ pc' = [pc EXCEPT ![t] = "r_short"]
       /\ UNCHANGED <<buf, queueEvent>>
    \/ /\ buf # <<>> /\ ~HdrTaken /\ len >= Head(buf).len
       /\ buf' = Dequeue(buf)
       /\ pc' \in Signal([pc EXCEPT ![t] = "idle"], "w_wait", "w_woken")
       /\ queueEvent' = (IF Tail(buf) = <<>> /\ ~noWriters
                         THEN queueEvent \ {READABLE} ELSE queueEvent)
                        \cup {WRITABLE}
       /\ ret' = [ret EXCEPT ![t] = Return(Head(buf).len)]

\* A reader calls msg_queue_read(handle, buffer, len).  The client reads
\* until end of file.
ReadCall(t) ==
    /\ pc[t] = "idle" /\ t \in Readers /\ ret[t].val # 0
    /\ \E len \in ReadLens :
          /\ arg' = [arg EXCEPT ![t] = len]
          /\ ReadLoop(t, len)
    /\ RbCall
    /\ UNCHANGED <<refs, readers, writers, noReaders, noWriters, mainOpen,
                   destroyed, rbOwner, written>>

\* A reader woken from cond_wait(space_empty) re-takes the mutex and
\* re-tests the loop.
ReadWoken(t) ==
    /\ pc[t] = "r_woken"
    /\ ReadLoop(t, arg[t])
    /\ RbCall
    /\ UNCHANGED <<refs, readers, writers, noReaders, noWriters, mainOpen,
                   destroyed, rbOwner, arg, written>>

\* The rest of msg_queue_read after the EMSGSIZE unlock, without the mutex:
\* two ring_buffer_read calls, each inside validator_enter/validator_exit.
ValidatorEnter(t) ==
    /\ rbOwner' = IF rbOwner = None THEN t ELSE rbOwner
    /\ validatorFault' = (validatorFault \/ rbOwner # None)

ValidatorExit(t) ==
    /\ rbOwner' = IF rbOwner = t THEN None ELSE rbOwner
    /\ validatorFault' = (validatorFault \/ rbOwner # t)

\* validator_enter of the read of the header, and of the read of the body.
ShortReadEnter(t) ==
    /\ \/ pc[t] = "r_short" /\ pc' = [pc EXCEPT ![t] = "r_short_rb"]
       \/ pc[t] = "r_short_hdr" /\ pc' = [pc EXCEPT ![t] = "r_short_body"]
       \/ pc[t] = "r_short_miss" /\ pc' = [pc EXCEPT ![t] = "r_short_body_miss"]
    /\ ValidatorEnter(t)
    /\ UNCHANGED <<buf, refs, readers, writers, noReaders, noWriters,
                   queueEvent, mainOpen, destroyed, arg, ret, written>>

\* ring_buffer_read of sizeof(size_t) bytes into msg_head, validator_exit.
\* It takes the header of whatever message is at the front now; with the
\* buffer emptied by another reader it reads nothing and msg_head keeps
\* the peeked length; with a header already taken it reads body bytes.
ShortReadHeader(t) ==
    /\ pc[t] = "r_short_rb"
    /\ \/ /\ buf # <<>> /\ ~HdrTaken
          /\ ret' = [ret EXCEPT ![t] = Return(Head(buf).len)]
          /\ pc' = [pc EXCEPT ![t] = "r_short_hdr"]
       \/ /\ Used < Header
          /\ pc' = [pc EXCEPT ![t] = "r_short_miss"]
          /\ UNCHANGED ret
       \/ /\ HdrTaken /\ Used >= Header
          /\ pc' = [pc EXCEPT ![t] = "desync"]
          /\ UNCHANGED ret
    /\ ValidatorExit(t)
    /\ UNCHANGED <<buf, refs, readers, writers, noReaders, noWriters,
                   queueEvent, mainOpen, destroyed, arg, written>>

\* ring_buffer_read of msg_head bytes and validator_exit, then
\* cond_signal(space_full), the event update and the second mutex_unlock;
\* the call returns msg_head.  After a header it takes that message's
\* body; after a failed header read it reads msg_head bytes of a message
\* written since, if there are that many.
ShortReadExit(t) ==
    /\ \/ /\ pc[t] = "r_short_body"
          /\ buf' = Dequeue(buf)
          /\ pc' \in Signal([pc EXCEPT ![t] = "idle"], "w_wait", "w_woken")
       \/ /\ pc[t] = "r_short_body_miss" /\ Used < ret[t].val
          /\ UNCHANGED buf
          /\ pc' \in Signal([pc EXCEPT ![t] = "idle"], "w_wait", "w_woken")
       \/ /\ pc[t] = "r_short_body_miss" /\ Used >= ret[t].val
          /\ UNCHANGED buf
          /\ pc' = [pc EXCEPT ![t] = "desync"]
    /\ ValidatorExit(t)
    /\ queueEvent' = (IF buf' = <<>> /\ ~noWriters
                      THEN queueEvent \ {READABLE} ELSE queueEvent)
                     \cup {WRITABLE}
    /\ UNCHANGED <<refs, readers, writers, noReaders, noWriters, mainOpen,
                   destroyed, arg, ret, written>>

\* msg_queue_write from the wait loop on, with the mutex held: cond_wait
\* while the message does not fit; otherwise the two ring buffer writes,
\* cond_signal(space_empty), and either EAGAIN (non-blocking handle) or the
\* event update and 0.  The call is complete unless the thread sleeps.
WriteLoop(t, m) ==
    \/ /\ ~Fits(m.len)
       /\ pc' = [pc EXCEPT ![t] = "w_wait"]
       /\ UNCHANGED <<buf, queueEvent, ret, written>>
    \/ /\ Fits(m.len)
       /\ buf' = Enqueue(buf, m)
       /\ pc' \in Signal([pc EXCEPT ![t] = "idle"], "r_wait", "r_woken")
       /\ written' = [written EXCEPT ![t] = @ + 1]
       /\ IF t \in NonBlocking
          THEN /\ ret' = [ret EXCEPT ![t] = Fail("EAGAIN")]
               /\ UNCHANGED queueEvent
          ELSE /\ ret' = [ret EXCEPT ![t] = Return(0)]
               /\ queueEvent' = (IF Capacity - Used - Header - m.len = 0
                                    /\ ~noReaders
                                 THEN queueEvent \ {WRITABLE} ELSE queueEvent)
                                \cup {READABLE}

\* A writer calls msg_queue_write(handle, buffer, len) for its next message.
\* EPIPE and EMSGSIZE are decided before any ring buffer call.
WriteCall(t) ==
    /\ pc[t] = "idle" /\ t \in Writers /\ written[t] < MaxWrites
    /\ \E len \in MsgLens :
          LET m == [len |-> len, id |-> <<t, written[t] + 1>>]
          IN /\ arg' = [arg EXCEPT ![t] = m]
             /\ \/ /\ noReaders
                   /\ ret' = [ret EXCEPT ![t] = Fail("EPIPE")]
                   /\ written' = [written EXCEPT ![t] = @ + 1]
                   /\ UNCHANGED <<buf, queueEvent, pc, validatorFault>>
                \/ /\ ~noReaders /\ Capacity <= len + Header
                   /\ ret' = [ret EXCEPT ![t] = Fail("EMSGSIZE")]
                   /\ written' = [written EXCEPT ![t] = @ + 1]
                   /\ UNCHANGED <<buf, queueEvent, pc, validatorFault>>
                \/ /\ ~noReaders /\ Capacity > len + Header
                   /\ WriteLoop(t, m)
                   /\ RbCall
    /\ UNCHANGED <<refs, readers, writers, noReaders, noWriters, mainOpen,
                   destroyed, rbOwner>>

\* A writer woken from cond_wait(space_full) re-tests the loop; the loop
\* does not look at no_readers.
WriteWoken(t) ==
    /\ pc[t] = "w_woken"
    /\ WriteLoop(t, arg[t])
    /\ RbCall
    /\ UNCHANGED <<refs, readers, writers, noReaders, noWriters, mainOpen,
                   destroyed, rbOwner, arg>>

\* Mutation of CloseHandle: both counts are decremented whatever the flags.
CloseHandleIgnoresFlags(isReader, isWriter, p) ==
    LET r  == readers - 1
        w  == writers - 1
        nr == noReaders \/ r = 0
        nw == noWriters \/ w = 0
    IN /\ readers' = r /\ writers' = w
       /\ noReaders' = nr /\ noWriters' = nw
       /\ refs' = refs - 1
       /\ IF refs - 1 = 0
          THEN destroyed' = TRUE /\ pc' = p /\ UNCHANGED queueEvent
          ELSE /\ destroyed' = FALSE
               /\ queueEvent' = queueEvent
                                \cup (IF nr THEN {WRITABLE, NOREADERS} ELSE {})
                                \cup (IF nw THEN {READABLE, NOWRITERS} ELSE {})
               /\ pc' = LET p1 == IF nr THEN Broadcast(p, "w_wait", "w_woken")
                                        ELSE p
                        IN IF nw THEN Broadcast(p1, "r_wait", "r_woken") ELSE p1

\* mq_close(flags) and the rest of msg_queue_close: the last handle
\* destroys the queue; otherwise, while no_readers (no_writers) holds, set
\* the events and broadcast space_full (space_empty).  p is pc after the
\* caller's own change.
CloseHandle(isReader, isWriter, p) ==
    LET r  == IF isReader THEN readers - 1 ELSE readers
        w  == IF isWriter THEN writers - 1 ELSE writers
        nr == noReaders \/ (isReader /\ r = 0)
        nw == noWriters \/ (isWriter /\ w = 0)
    IN /\ readers' = r /\ writers' = w
       /\ noReaders' = nr /\ noWriters' = nw
       /\ refs' = refs - 1
       /\ IF refs - 1 = 0
          THEN /\ destroyed' = TRUE
               /\ pc' = p
               /\ UNCHANGED queueEvent
          ELSE /\ destroyed' = FALSE
               /\ queueEvent' = queueEvent
                                \cup (IF nr THEN {WRITABLE, NOREADERS} ELSE {})
                                \cup (IF nw THEN {READABLE, NOWRITERS} ELSE {})
               /\ pc' = LET p1 == IF nr THEN Broadcast(p, "w_wait", "w_woken")
                                        ELSE p
                        IN IF nw THEN Broadcast(p1, "r_wait", "r_woken") ELSE p1

\* A thread closes its handle: a reader after end of file (or at any time
\* for one of QuitReaders), a writer after its last write.
Close(t) ==
    /\ pc[t] = "idle"
    /\ \/ t \in Readers /\ (ret[t].val = 0 \/ t \in QuitReaders)
       \/ t \in Writers /\ written[t] = MaxWrites
    /\ CloseHandle(t \in Readers, t \in Writers, [pc EXCEPT ![t] = "done"])
    /\ UNCHANGED <<buf, mainOpen, rbOwner, validatorFault, arg, ret, written>>

\* main closes the handle msg_queue_create returned, once every thread has
\* opened its own.
MainClose ==
    /\ mainOpen /\ \A t \in Threads : pc[t] # "open"
    /\ mainOpen' = FALSE
    /\ CloseHandle(FALSE, FALSE, pc)
    /\ UNCHANGED <<buf, rbOwner, validatorFault, arg, ret, written>>

\* main opens every thread's handle (msg_queue_open on its own handle)
\* before it starts the threads.
Started == \A u \in Threads : pc[u] # "open"

Work(t) ==
    \/ ReadCall(t) \/ ReadWoken(t) \/ ShortReadEnter(t) \/ ShortReadHeader(t)
    \/ ShortReadExit(t)
    \/ WriteCall(t) \/ WriteWoken(t)
    \/ Close(t)

Step(t) ==
    \/ Open(t)
    \/ Started /\ Work(t)

\* Once every handle is closed and the queue destroyed nothing is enabled:
\* the program has ended.
Next == (\E t \in Threads : Step(t)) \/ MainClose

\* Every runnable thread is eventually scheduled; the mutex is free between
\* steps, so a runnable thread's step stays enabled.  main closes its handle
\* after joining.
Fairness == (\A t \in Threads : WF_vars(Step(t))) /\ WF_vars(MainClose)

Spec == Init /\ [][Next]_vars /\ Fairness

-----------------------------------------------------------------------------
(* Properties.                                                             *)

RetVals == [val : Nat, errno : {None}] \cup [val : {-1}, errno : Errnos \cup {None}]

TypeOK ==
    /\ buf \in Seq(Msg) /\ Used <= Capacity
    /\ refs \in Nat /\ readers \in Nat /\ writers \in Nat
    /\ noReaders \in BOOLEAN /\ noWriters \in BOOLEAN
    /\ queueEvent \subseteq Events
    /\ rbOwner \in Threads \cup {None}
    /\ pc \in [Threads -> {"open", "idle", "r_wait", "r_woken", "r_short",
                           "r_short_rb", "r_short_hdr", "r_short_miss",
                           "r_short_body", "r_short_body_miss", "desync",
                           "w_wait", "w_woken", "done"}]
    /\ ret \in [Threads -> RetVals]
    /\ written \in [Writers -> 0..MaxWrites]

\* The handle counts and the no_readers / no_writers flags agree with the
\* threads' handles across open, close and the last close (mq_open,
\* mq_close): readers (writers) counts the open reader (writer) handles,
\* and no_readers (no_writers) holds exactly when none is open and at least
\* one has been closed.
HandleCountsMatch ==
    LET live(S) == {t \in S : pc[t] \notin {"open", "done"}}
        closed(S) == {t \in S : pc[t] = "done"}
    IN ~destroyed =>
         /\ refs = Cardinality(live(Threads)) + (IF mainOpen THEN 1 ELSE 0)
         /\ readers = Cardinality(live(Readers))
         /\ writers = Cardinality(live(Writers))
         /\ noReaders = (live(Readers) = {} /\ closed(Readers) # {})
         /\ noWriters = (live(Writers) = {} /\ closed(Writers) # {})

\* Every client run ends: each writer's calls return, each reader reaches
\* end of file, every handle is closed and the queue destroyed.  Lost
\* wake-ups (cond_signal waking a writer whose message does not fit, a
\* close that wakes nobody) would leave a thread asleep forever.
Termination == <>destroyed

\* The ring buffer's mutex validator never reports two threads inside the
\* ring buffer at once (validator_enter / validator_exit assertions).
ValidatorNeverFails == ~validatorFault

\* A writer blocked in msg_queue_write eventually returns, in particular
\* with EPIPE once the last reader has closed (msg_queue.h).
BlockedWriteReturns ==
    \A t \in Writers : (pc[t] = "w_wait") ~> (pc[t] \in {"idle", "done"})

====
