\* p1 polls q1 then q2, p2 polls q2 then q1; w1 writes to q1, w2 to q2.
CONSTANTS
    q1 = q1  q2 = q2  w1 = w1  w2 = w2  r1 = r1  p1 = p1  p2 = p2  p3 = p3
    Queues = {q1, q2}
    Writers = {w1, w2}
    WriterQueue <- CrossWriterQueue
    Readers = {}
    ReaderQueue <- NoReaderQueue
    Pollers = {p1, p2}
    Fds <- CrossFds
    FdEvents <- ReadableTwice
    Capacity = 18
    MsgLen = 1
    MaxWrites = 1
SPECIFICATION Spec
INVARIANT NoWaitCycle
