---------------------------- MODULE MsgQueuePoll ----------------------------
(* msg_queue_poll over several queues, with the threads that write, read   *)
(* and close them (msg_queue.c). Each pollfd of a poller asks for          *)
(* MQPOLL_READABLE (on a reader handle) or MQPOLL_WRITABLE (on a writer    *)
(* handle). A poll allocates one waiting_node per pollfd, links     *)
(* node i into queue fds[i]'s list under that queue's mutex, and sleeps on *)
(* the condition variable of node 0 holding node 0's poll_mutex;           *)
(* helper_wakeup, called by read and write with the queue mutex held,      *)
(* locks each matching node's poll_mutex and signals its condition.        *)
(*                                                                         *)
(* Abstractions: a queue holds `count` messages of MsgLen bytes, each      *)
(* taking Header + MsgLen bytes of the ring buffer; a blocking writer      *)
(* sleeps on space_full while its message does not fit. Of queue_event     *)
(* the READABLE and WRITABLE bits are kept, the ones a node can ask for;   *)
(* readers never close, so no_readers stays false. helper_count reads the  *)
(* flags of all polled queues in one step. Node i >= 1 gets neither cond_init    *)
(* nor mutex_init: its mutex is taken to behave as an unlocked one (the    *)
(* zeroed memory of a fresh allocation) and its condition variable has no  *)
(* waiter, so a signal on it wakes nobody.                                 *)
EXTENDS Naturals, Sequences, FiniteSets, Graphs

CONSTANTS
    Queues,
    Writers, WriterQueue,   \* blocking writer threads, each on one queue
    Readers, ReaderQueue,   \* non-blocking reader threads, each on one queue
    Pollers, Fds,           \* poller threads and the queues each one polls, in fds order
    FdEvents,               \* the event each pollfd asks for, in fds order
    Capacity, MsgLen,       \* ring buffer bytes of every queue; body bytes of a message
    MaxWrites               \* messages each writer writes before closing

Threads == Writers \cup Readers \cup Pollers
None == "none"
READABLE == "READABLE"
WRITABLE == "WRITABLE"
Header == 8                 \* sizeof(size_t)
Node == Pollers \X Nat      \* <<p, i>>: the node of pollfd i (1-based) of poller p
QueueOf(t) == IF t \in Writers THEN WriterQueue[t] ELSE ReaderQueue[t]
WritersOf(q) == {w \in Writers : WriterQueue[w] = q}

VARIABLES
    count,       \* messages in each queue's ring buffer
    readable,    \* the MQPOLL_READABLE bit of each queue's queue_event
    writable,    \* the MQPOLL_WRITABLE bit of each queue's queue_event
    mutex,       \* holder of each queue's mq->mutex
    pollMutex,   \* holder of node 0's poll_mutex, for each poller
    list,        \* each queue's queue_list_head, in list order
    pc,
    toWake,      \* nodes helper_wakeup still has to visit
    idx,         \* loop index of a poller's registration / removal loop
    written,     \* messages written, per writer
    ret          \* value msg_queue_poll returned, per poller

vars == <<count, readable, writable, mutex, pollMutex, list, pc, toWake, idx, written, ret>>

\* mq->no_writers: set by the close of the last writer handle (all writer
\* handles are opened before any thread runs, as in MsgQueue.tla).
NoWriters(q) == WritersOf(q) # {} /\ \A w \in WritersOf(q) : pc[w] = "done"

\* ring_buffer_free of queue q.
Free(q) == Capacity - count[q] * (Header + MsgLen)

\* events & queue_event is non-zero, for a node asking for ev.
Wakes(ev, isReadable, isWritable) ==
    (ev = READABLE /\ isReadable) \/ (ev = WRITABLE /\ isWritable)

\* helper_count: the number of polled queues with the asked-for bit set.
HelperCount(p) ==
    Cardinality({i \in DOMAIN Fds[p] :
                    Wakes(FdEvents[p][i], readable[Fds[p][i]], writable[Fds[p][i]])})

\* The nodes helper_wakeup signals, in list order: those whose events meet
\* queue_event as the caller left it.
Matching(q, isReadable, isWritable) ==
    SelectSeq(list[q], LAMBDA n : Wakes(FdEvents[n[1]][n[2]], isReadable, isWritable))

\* cond_signal(space_full): one writer of q asleep in the wait loop, if
\* any, is woken. The pc functions that may follow from p.
SignalSpaceFull(p, q) ==
    LET W == {w \in WritersOf(q) : p[w] = "w_wait"}
    IN IF W = {} THEN {p} ELSE {[p EXCEPT ![w] = "w_woken"] : w \in W}

Init ==
    /\ count = [q \in Queues |-> 0]
    /\ readable \in [Queues -> BOOLEAN]    \* mq_init never sets queue_event
    /\ writable \in [Queues -> BOOLEAN]
    /\ mutex = [q \in Queues |-> None]
    /\ pollMutex = [p \in Pollers |-> None]
    /\ list = [q \in Queues |-> <<>>]
    /\ pc = [t \in Threads |-> IF t \in Pollers THEN "p_start" ELSE "idle"]
    /\ toWake = [t \in Threads |-> <<>>]
    /\ idx = [p \in Pollers |-> 1]
    /\ written = [w \in Writers |-> 0]
    /\ ret = [p \in Pollers |-> -1]

-----------------------------------------------------------------------------
(* msg_queue_write of a blocking writer, from the mutex_lock on: the wait  *)
(* loop (cond_wait on space_full while header and body do not fit), the    *)
(* store, WRITABLE cleared when the buffer is now exactly full, READABLE   *)
(* set, and the thread keeps the queue mutex while helper_wakeup runs.     *)
(* cond_signal(space_empty) wakes nobody: readers do not block.            *)
Write(w) ==
    LET q == WriterQueue[w]
        fits == Free(q) >= MsgLen + Header
        nowWritable == IF Free(q) - (Header + MsgLen) = 0 THEN FALSE ELSE writable[q]
    IN /\ \/ pc[w] = "idle" /\ written[w] < MaxWrites
          \/ pc[w] = "w_woken"
       /\ mutex[q] = None
       /\ \/ /\ ~fits
             /\ pc' = [pc EXCEPT ![w] = "w_wait"]
             /\ UNCHANGED <<count, readable, writable, mutex, toWake, written>>
          \/ /\ fits
             /\ count' = [count EXCEPT ![q] = @ + 1]
             /\ readable' = [readable EXCEPT ![q] = TRUE]
             /\ writable' = [writable EXCEPT ![q] = nowWritable]
             /\ mutex' = [mutex EXCEPT ![q] = w]
             /\ toWake' = [toWake EXCEPT ![w] = Matching(q, TRUE, nowWritable)]
             /\ written' = [written EXCEPT ![w] = @ + 1]
             /\ pc' = [pc EXCEPT ![w] = "wake"]
       /\ UNCHANGED <<pollMutex, list, idx, ret>>

\* (as if the wait loop's test were missing: a read of an empty queue dequeues)
ReadNoWait(r) ==
    LET q == ReaderQueue[r]
        eof == NoWriters(q) /\ count[q] = 0
    IN /\ pc[r] = "idle" /\ mutex[q] = None
       /\ count' = [count EXCEPT ![q] = IF eof THEN 0 ELSE @ - 1]
       /\ readable' = [readable EXCEPT ![q] = IF ~eof /\ count[q] = 1 THEN FALSE ELSE @]
       /\ writable' = [writable EXCEPT ![q] = TRUE]
       /\ mutex' = [mutex EXCEPT ![q] = r]
       /\ toWake' = [toWake EXCEPT ![r] = Matching(q, readable'[q], TRUE)]
       /\ pc' = [pc EXCEPT ![r] = IF eof THEN "wake_last" ELSE "wake"]
       /\ UNCHANGED <<pollMutex, list, idx, written, ret>>

(* msg_queue_read of a non-blocking reader that does not fail with EAGAIN: *)
(* end of file (NOWRITERS, which no node asks for), or one message         *)
(* consumed, cond_signal(space_full), READABLE cleared when the queue      *)
(* empties with writers left, WRITABLE set; then helper_wakeup under the   *)
(* queue mutex.                                                            *)
Read(r) ==
    LET q == ReaderQueue[r]
        eof == NoWriters(q) /\ count[q] = 0
        nowReadable == IF ~eof /\ count[q] = 1 /\ ~NoWriters(q) THEN FALSE ELSE readable[q]
        nowWritable == IF eof THEN writable[q] ELSE TRUE
    IN /\ pc[r] = "idle" /\ mutex[q] = None /\ (count[q] > 0 \/ eof)
       /\ count' = [count EXCEPT ![q] = IF eof THEN 0 ELSE @ - 1]
       /\ readable' = [readable EXCEPT ![q] = nowReadable]
       /\ writable' = [writable EXCEPT ![q] = nowWritable]
       /\ mutex' = [mutex EXCEPT ![q] = r]
       /\ toWake' = [toWake EXCEPT ![r] = Matching(q, nowReadable, nowWritable)]
       /\ IF eof THEN pc' = [pc EXCEPT ![r] = "wake_last"]
                 ELSE pc' \in SignalSpaceFull([pc EXCEPT ![r] = "wake"], q)
       /\ UNCHANGED <<pollMutex, list, idx, written, ret>>

\* (as if helper_wakeup signalled without taking the node's poll_mutex)
WakeNodeUnlocked(t) ==
    LET n == Head(toWake[t])
        p == n[1]
    IN /\ pc[t] \in {"wake", "wake_last"} /\ toWake[t] # <<>>
       /\ toWake' = [toWake EXCEPT ![t] = Tail(@)]
       /\ pc' = IF n[2] = 1 /\ pc[p] = "p_wait"
                THEN [pc EXCEPT ![p] = "p_woken"] ELSE pc
       /\ UNCHANGED <<count, readable, writable, mutex, pollMutex, list, idx, written, ret>>

(* One iteration of helper_wakeup: lock the node's poll_mutex, cond_signal, *)
(* unlock. Only node 1 (wt_nodes[0]) has a sleeper, its poller.            *)
WakeNode(t) ==
    LET n == Head(toWake[t])
        p == n[1]
    IN /\ pc[t] \in {"wake", "wake_last"} /\ toWake[t] # <<>>
       /\ n[2] = 1 => pollMutex[p] = None
       /\ toWake' = [toWake EXCEPT ![t] = Tail(@)]
       /\ pc' = IF n[2] = 1 /\ pc[p] = "p_wait"
                THEN [pc EXCEPT ![p] = "p_woken"] ELSE pc
       /\ UNCHANGED <<count, readable, writable, mutex, pollMutex, list, idx, written, ret>>

\* The end of read or write: unlock the queue mutex and return.
WakeDone(t) ==
    /\ pc[t] \in {"wake", "wake_last"} /\ toWake[t] = <<>>
    /\ mutex' = [mutex EXCEPT ![QueueOf(t)] = None]
    /\ pc' = [pc EXCEPT ![t] = IF pc[t] = "wake_last" THEN "done" ELSE "idle"]
    /\ UNCHANGED <<count, readable, writable, pollMutex, list, toWake, idx, written, ret>>

\* (as if close did not set READABLE | NOWRITERS for the last writer)
CloseNoEvent(w) ==
    LET q == WriterQueue[w] IN
    /\ pc[w] = "idle" /\ written[w] = MaxWrites /\ mutex[q] = None
    /\ pc' = [pc EXCEPT ![w] = "done"]
    /\ UNCHANGED <<count, readable, writable, mutex, pollMutex, list, toWake, idx, written, ret>>

(* msg_queue_close of a writer handle: when it is the last writer,          *)
(* READABLE | NOWRITERS is set and space_empty broadcast (no reader sleeps  *)
(* here); helper_wakeup is not called.                                      *)
Close(w) ==
    LET q == WriterQueue[w] IN
    /\ pc[w] = "idle" /\ written[w] = MaxWrites /\ mutex[q] = None
    /\ pc' = [pc EXCEPT ![w] = "done"]
    /\ readable' = [readable EXCEPT ![q] = @ \/ NoWriters(q)']
    /\ UNCHANGED <<count, writable, mutex, pollMutex, list, toWake, idx, written, ret>>

-----------------------------------------------------------------------------
(* msg_queue_poll, step by step.                                           *)
\* malloc, cond_init and mutex_init of node 0, mutex_lock of its poll_mutex.
PollStart(p) ==
    /\ pc[p] = "p_start"
    /\ pollMutex' = [pollMutex EXCEPT ![p] = p]
    /\ pc' = [pc EXCEPT ![p] = "p_reg"]
    /\ UNCHANGED <<count, readable, writable, mutex, list, toWake, idx, written, ret>>

\* One iteration of the registration loop: list_add_tail under the queue mutex.
PollRegister(p) ==
    LET q == Fds[p][idx[p]] IN
    /\ pc[p] = "p_reg" /\ idx[p] <= Len(Fds[p]) /\ mutex[q] = None
    /\ list' = [list EXCEPT ![q] = Append(@, <<p, idx[p]>>)]
    /\ idx' = [idx EXCEPT ![p] = @ + 1]
    /\ UNCHANGED <<count, readable, writable, mutex, pollMutex, pc, toWake, written, ret>>

\* helper_count, with node 0's poll_mutex held.
PollCount(p) ==
    /\ pc[p] = "p_reg" /\ idx[p] > Len(Fds[p])
    /\ ret' = [ret EXCEPT ![p] = HelperCount(p)]
    /\ pc' = [pc EXCEPT ![p] = "p_count"]
    /\ UNCHANGED <<count, readable, writable, mutex, pollMutex, list, toWake, idx, written>>

(* With nothing ready, cond_wait on node 0 releases its poll_mutex;         *)
(* otherwise poll_mutex is unlocked and the removal loop starts.            *)
PollWait(p) ==
    /\ pc[p] = "p_count"
    /\ pollMutex' = [pollMutex EXCEPT ![p] = None]
    /\ pc' = [pc EXCEPT ![p] = IF ret[p] = 0 THEN "p_wait" ELSE "p_dereg"]
    /\ idx' = [idx EXCEPT ![p] = 1]
    /\ UNCHANGED <<count, readable, writable, mutex, list, toWake, written, ret>>

\* (as if poll_mutex were unlocked only at the end, after the removal loop)
PollWokenKeepsLock(p) ==
    /\ pc[p] = "p_woken" /\ pollMutex[p] = None
    /\ ret' = [ret EXCEPT ![p] = HelperCount(p)]
    /\ pc' = [pc EXCEPT ![p] = "p_dereg"]
    /\ pollMutex' = [pollMutex EXCEPT ![p] = p]
    /\ UNCHANGED <<count, readable, writable, mutex, list, toWake, idx, written>>

(* Return from cond_wait (poll_mutex re-taken), helper_count once more,     *)
(* unlock of poll_mutex: the wait is not in a loop.                         *)
PollWoken(p) ==
    /\ pc[p] = "p_woken" /\ pollMutex[p] = None
    /\ ret' = [ret EXCEPT ![p] = HelperCount(p)]
    /\ pc' = [pc EXCEPT ![p] = "p_dereg"]
    /\ UNCHANGED <<count, readable, writable, mutex, pollMutex, list, toWake, idx, written>>

\* One iteration of the removal loop: list_del under the queue mutex.
PollDeregister(p) ==
    LET q == Fds[p][idx[p]] IN
    /\ pc[p] = "p_dereg" /\ mutex[q] = None
    /\ list' = [list EXCEPT ![q] = SelectSeq(@, LAMBDA n : n # <<p, idx[p]>>)]
    /\ idx' = [idx EXCEPT ![p] = @ + 1]
    /\ pc' = IF idx[p] = Len(Fds[p]) THEN [pc EXCEPT ![p] = "done"] ELSE pc
    /\ UNCHANGED <<count, readable, writable, mutex, pollMutex, toWake, written, ret>>

-----------------------------------------------------------------------------
Step(t) ==
    \/ t \in Writers /\ (Write(t) \/ Close(t))
    \/ t \in Readers /\ Read(t)
    \/ WakeNode(t) \/ WakeDone(t)
    \/ t \in Pollers /\ (PollStart(t) \/ PollRegister(t) \/ PollCount(t)
                         \/ PollWait(t) \/ PollWoken(t) \/ PollDeregister(t))

Next == \E t \in Threads : Step(t)

(* Every thread that can take a step takes one: each step is a short      *)
(* locked section, and a thread asleep on a condition variable has none.   *)
Fairness == \A t \in Threads : WF_vars(Step(t))

Spec == Init /\ [][Next]_vars /\ Fairness

-----------------------------------------------------------------------------
TypeOK ==
    /\ count \in [Queues -> Nat] /\ \A q \in Queues : Free(q) >= 0
    /\ readable \in [Queues -> BOOLEAN] /\ writable \in [Queues -> BOOLEAN]
    /\ mutex \in [Queues -> Threads \cup {None}]
    /\ pollMutex \in [Pollers -> Pollers \cup {None}]
    /\ \A q \in Queues : \A k \in DOMAIN list[q] : list[q][k] \in Node
    /\ pc \in [Threads -> {"idle", "wake", "wake_last", "done", "w_wait", "w_woken",
                           "p_start", "p_reg", "p_count",
                           "p_wait", "p_woken", "p_dereg"}]
    /\ idx \in [Pollers -> Nat] /\ written \in [Writers -> 0..MaxWrites]
    /\ ret \in [Pollers -> Int]

\* The lock a thread is waiting for, and who holds it: an edge t -> holder.
WaitsFor ==
    LET Wants(t, holder) == holder \notin {None, t}
    IN    {<<t, mutex[QueueOf(t)]>> : t \in {u \in Writers \cup Readers :
               pc[u] \in {"idle", "w_woken"} /\ Wants(u, mutex[QueueOf(u)])}}
       \cup {<<p, mutex[Fds[p][idx[p]]]>> : p \in {u \in Pollers :
               pc[u] \in {"p_reg", "p_dereg"} /\ idx[u] <= Len(Fds[u])
               /\ Wants(u, mutex[Fds[u][idx[u]]])}}
       \cup {<<p, pollMutex[p]>> : p \in {u \in Pollers :
               pc[u] = "p_woken" /\ Wants(u, pollMutex[u])}}
       \cup {<<t, pollMutex[Head(toWake[t])[1]]>> : t \in {u \in Threads :
               pc[u] \in {"wake", "wake_last"} /\ toWake[u] # <<>>
               /\ Head(toWake[u])[2] = 1
               /\ Wants(u, pollMutex[Head(toWake[u])[1]])}}

(* No set of threads waits on each other for the queue mutexes and the    *)
(* poll_mutex of node 0: helper_wakeup takes a poll_mutex while holding a *)
(* queue mutex, and msg_queue_poll takes queue mutexes (to link and       *)
(* unlink its nodes) while it may hold its poll_mutex.                    *)
NoWaitCycle == ~HasCycle([node |-> Threads, edge |-> WaitsFor])

\* Some pollfd of p has what it asks for since it was last signalled:
\* a READABLE fd a message, a WRITABLE fd the WRITABLE bit, which only a
\* read (and the garbage of a new queue) sets.
HasEvent(p) ==
    \E i \in DOMAIN Fds[p] :
        \/ FdEvents[p][i] = READABLE /\ count[Fds[p][i]] > 0
        \/ FdEvents[p][i] = WRITABLE /\ writable[Fds[p][i]]

(* No wakeup is lost: whenever a poller sleeps in msg_queue_poll while a   *)
(* write has queued a message on one of its READABLE queues, or a read has *)
(* made one of its WRITABLE queues writable, a thread inside helper_wakeup *)
(* still has its node 0 to signal. This needs the poll_mutex handshake:    *)
(* helper_count and cond_wait both happen under the poll_mutex that        *)
(* helper_wakeup takes before it signals, and read and write update        *)
(* queue_event before they call helper_wakeup.                             *)
NoLostWakeup ==
    \A p \in Pollers :
        pc[p] = "p_wait" /\ HasEvent(p)
            => \E t \in Threads : \E k \in DOMAIN toWake[t] : toWake[t][k] = <<p, 1>>

\* Some pollfd of p is ready as msg_queue.h defines it: READABLE, a
\* message to read or every writer closed; WRITABLE, room for a header
\* and one byte (no reader ever closes here).
IsReady(p) ==
    \E i \in DOMAIN Fds[p] :
        LET q == Fds[p][i] IN
        \/ FdEvents[p][i] = READABLE /\ (count[q] > 0 \/ NoWriters(q))
        \/ FdEvents[p][i] = WRITABLE /\ Free(q) >= Header + 1

(* A poller asleep in msg_queue_poll while one of its queues is ready is   *)
(* eventually woken (msg_queue.h: poll waits for an event on any of the    *)
(* queues, and an event is a queue being ready in the sense above).        *)
PollWakesWhenReady ==
    \A p \in Pollers : (pc[p] = "p_wait" /\ IsReady(p)) ~> pc[p] # "p_wait"

(* Every msg_queue_poll call returns. A poller asleep on a queue whose last *)
(* writer closed is not woken by msg_queue_close, which calls no           *)
(* helper_wakeup; the reader's end-of-file read, which sets NOWRITERS and  *)
(* calls helper_wakeup with READABLE still set by the close, wakes it.     *)
PollReturns == \A p \in Pollers : <>(pc[p] = "done")
=============================================================================
