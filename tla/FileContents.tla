---------------------------- MODULE FileContents ----------------------------
(* What the a1fs data path promises (the comments above a1fs_read,         *)
(* a1fs_write and a1fs_truncate): every file is a sequence of bytes, here  *)
(* counted in 256-byte chunks, each 0 or a value that was written.         *)
(*   - write copies data at an offset, zero-filling any gap between the    *)
(*     old end and the offset, and the size becomes max(old, offset+len);  *)
(*   - truncate cuts the file or extends it with zeros;                    *)
(*   - read returns the chunks from the offset up to the end of the file,  *)
(*     nothing at or past the end;                                         *)
(*   - create, unlink and the directory operations leave every other       *)
(*     file's bytes alone; a newly created file is empty.                  *)
EXTENDS Naturals, Sequences, SequencesExt

CONSTANTS
    Files,     \* file identities (inode numbers)
    Vals,      \* chunk values a write may carry (0 is a zeroed chunk)
    Offsets,   \* offsets of a write or read, in chunks
    Lens,      \* lengths of a write or read, in chunks
    Sizes      \* sizes given to truncate, in chunks

VARIABLES
    content,   \* content[f]: the chunks of file f
    out        \* the chunks the last read returned

Zeros(n) == [k \in 1..n |-> 0]

\* The chunks from off+1 to off+n of s, shortened at the end of s.
Slice(s, off, n) ==
    IF off >= Len(s) THEN <<>>
    ELSE SubSeq(s, off + 1, IF off + n < Len(s) THEN off + n ELSE Len(s))

Init == content = [f \in Files |-> <<>>] /\ out = <<>>

\* A file becomes empty: created, or its inode given to a new file.
Clear(f) == content' = [content EXCEPT ![f] = <<>>] /\ UNCHANGED out

Write(f, off, data) ==
    LET c   == content[f]
        pad == IF off > Len(c) THEN c \o Zeros(off - Len(c)) ELSE c
        len == IF off + Len(data) > Len(pad) THEN off + Len(data) ELSE Len(pad)
    IN /\ content' = [content EXCEPT ![f] =
                        [k \in 1..len |-> IF k > off /\ k <= off + Len(data)
                                          THEN data[k - off] ELSE pad[k]]]
       /\ UNCHANGED out

Truncate(f, n) ==
    LET c == content[f]
    IN /\ content' = [content EXCEPT ![f] =
                        IF n <= Len(c) THEN SubSeq(c, 1, n)
                        ELSE c \o Zeros(n - Len(c))]
       /\ UNCHANGED out

Read(f, off, n) == out' = Slice(content[f], off, n) /\ UNCHANGED content

Next ==
    \E f \in Files :
        \/ Clear(f)
        \/ \E off \in Offsets, data \in UNION {[1..n -> Vals] : n \in Lens} :
              Write(f, off, data)
        \/ \E n \in Sizes : Truncate(f, n)
        \/ \E off \in Offsets, n \in Lens : Read(f, off, n)

Spec == Init /\ [][Next]_<<content, out>>
=============================================================================
