\* Handles closed in any order: readers may close before end of file, and
\* the capacity (40) holds everything the writers write (four messages of
\* at most 10 bytes), so no writer ever waits.  Writers also try a message
\* too large for the queue (33 + 8 > 40); the non-blocking writer returns
\* EAGAIN after writing; a reader with a 1-byte buffer takes the EMSGSIZE
\* path.
CONSTANTS
    r1 = r1
    r2 = r2
    w1 = w1
    w2 = w2
    w3 = w3
    Readers = {r1}
    Writers = {w1, w2}
    NonBlocking = {w2}
    Capacity = 40
    MsgLens = {2, 33}
    ReadLens = {1, 4}
    MaxWrites = 2
    QuitReaders = {r1}
SPECIFICATION Spec
\* The program ends when the queue is destroyed; a hang is caught by
\* Termination.
CHECK_DEADLOCK FALSE
VIEW ViewWithoutEvents
 
INVARIANT HandleCountsMatch
PROPERTY Termination
