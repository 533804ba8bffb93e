\* p1 polls q1 then q2; w1 writes one message to q2 only.
CONSTANTS
    q1 = q1  q2 = q2  w1 = w1  w2 = w2  r1 = r1  p1 = p1  p2 = p2  p3 = p3
    Queues = {q1, q2}
    Writers = {w1}
    WriterQueue <- SecondWriterQueue
    Readers = {}
    ReaderQueue <- NoReaderQueue
    Pollers = {p1}
    Fds <- SecondFds
    FdEvents <- ReadableTwice
    Capacity = 18
    MsgLen = 1
    MaxWrites = 1
SPECIFICATION Spec
CHECK_DEADLOCK FALSE
PROPERTY PollWakesWhenReady
