\* Two readers, one with a 1-byte buffer, and a writer of 2-byte messages.
CONSTANTS
    r1 = r1
    r2 = r2
    w1 = w1
    w2 = w2
    w3 = w3
    Readers = {r1, r2}
    Writers = {w1}
    NonBlocking = {}
    Capacity = 21
    MsgLens = {2}
    ReadLens = {1, 4}
    MaxWrites = 2
    QuitReaders = {}
SPECIFICATION Spec
VIEW ViewWithoutEvents
INVARIANT ValidatorNeverFails
