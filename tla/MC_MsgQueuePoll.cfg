\* p1 polls q1 then q2 for READABLE, p3 polls q1 for WRITABLE; w1 writes
\* three 1-byte messages to q1, which holds two (18 bytes), and closes; the
\* non-blocking reader r1 drains q1 and reads end of file.
CONSTANTS
    q1 = q1  q2 = q2  w1 = w1  w2 = w2  r1 = r1  p1 = p1  p2 = p2  p3 = p3
    Queues = {q1, q2}
    Writers = {w1}
    WriterQueue <- ShareWriterQueue
    Readers = {r1}
    ReaderQueue <- ShareReaderQueue
    Pollers = {p1, p3}
    Fds <- ShareFds
    FdEvents <- ShareFdEvents
    Capacity = 18
    MsgLen = 1
    MaxWrites = 3
SPECIFICATION Spec
\* The program stops once every thread is done or idle with nothing left to do.
CHECK_DEADLOCK FALSE
INVARIANT TypeOK
INVARIANT NoWaitCycle
INVARIANT NoLostWakeup
PROPERTY PollReturns
