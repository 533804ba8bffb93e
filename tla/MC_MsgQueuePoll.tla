--------------------------- MODULE MC_MsgQueuePoll ---------------------------
(* Model-checking instances of MsgQueuePoll: queues and threads are model   *)
(* values; each configuration fixes who uses which queue.                   *)
EXTENDS MsgQueuePoll

CONSTANTS q1, q2, w1, w2, r1, p1, p2, p3

\* A writer and a reader on q1; p1 polls q1 then q2 for READABLE, p3 polls
\* q1 for WRITABLE (a writer handle).
ShareWriterQueue == [w \in {w1} |-> q1]
ShareReaderQueue == [r \in {r1} |-> q1]
ShareFds == [p \in {p1, p3} |-> IF p = p1 THEN <<q1, q2>> ELSE <<q1>>]
ShareFdEvents == [p \in {p1, p3} |-> IF p = p1 THEN <<READABLE, READABLE>> ELSE <<WRITABLE>>]

\* Every pollfd of a two-queue poller asks for READABLE.
ReadableTwice == [p \in {p1, p2} |-> <<READABLE, READABLE>>]

\* Two pollers that list the same two queues in opposite orders, and a
\* writer on each queue.
CrossWriterQueue == [w \in {w1, w2} |-> IF w = w1 THEN q1 ELSE q2]
CrossFds == [p \in {p1, p2} |-> IF p = p1 THEN <<q1, q2>> ELSE <<q2, q1>>]

\* One poller on q1 then q2, and a writer on q2 only.
SecondWriterQueue == [w \in {w1} |-> q2]
SecondFds == [p \in {p1} |-> <<q1, q2>>]

NoReaderQueue == [r \in {} |-> q1]
=============================================================================
