\* Producer/consumer: two blocking writers of two messages each (1 or 4
\* bytes: 9 or 12 bytes with the header) into a 21-byte queue, so that two
\* messages fill it and writers sleep; a blocking and a non-blocking reader
\* with a buffer of 4 bytes, reading until end of file.
CONSTANTS
    r1 = r1
    r2 = r2
    w1 = w1
    w2 = w2
    w3 = w3
    Readers = {r1, r2}
    Writers = {w1, w2}
    NonBlocking = {r2}
    Capacity = 21
    MsgLens = {1, 4}
    ReadLens = {4}
    MaxWrites = 2
    QuitReaders = {}
SPECIFICATION Spec
\* The program ends when the queue is destroyed; a hang is caught by
\* Termination.
CHECK_DEADLOCK FALSE
VIEW ViewWithoutEvents
INVARIANT TypeOK
INVARIANT HandleCountsMatch
PROPERTY Termination
