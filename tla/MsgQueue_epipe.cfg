\* A writer of two 12-byte messages into a 21-byte queue and a reader that
\* may close at any time.  A writer that never returns is a state with no
\* successor: deadlock is left to the property (the program also ends
\* when the queue is destroyed).
CONSTANTS
    r1 = r1
    r2 = r2
    w1 = w1
    w2 = w2
    w3 = w3
    Readers = {r1}
    Writers = {w1}
    NonBlocking = {}
    Capacity = 21
    MsgLens = {4}
    ReadLens = {4}
    MaxWrites = 2
    QuitReaders = {r1}
SPECIFICATION Spec
VIEW ViewWithoutEvents
CHECK_DEADLOCK FALSE
PROPERTY BlockedWriteReturns
