\* A 4-byte ring buffer, calls of 1..3 bytes over two byte values: every
\* offset of head and tail, both split branches and the full flag are reached.
CONSTANTS
    Size = 4
    Bytes = {0, 1}
    MaxLen = 3
SPECIFICATION Spec
INVARIANT TypeOK
INVARIANT CheckFreeNeverFails
PROPERTY FifoSpec
