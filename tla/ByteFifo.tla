------------------------------ MODULE ByteFifo ------------------------------
(* What the ring buffer promises its user (msg_queue.c): a first-in      *)
(* first-out queue of at most Size bytes. A write of a byte string         *)
(* succeeds, appending it, exactly when it fits; a read or peek of n bytes *)
(* succeeds exactly when n bytes are stored and returns the n oldest, the  *)
(* read also removing them. A failing call changes nothing.                *)
EXTENDS Naturals, Sequences, SequencesExt

CONSTANTS Size, Bytes, MaxLen   \* MaxLen bounds the length of one call

VARIABLES
    q,     \* the stored bytes, oldest first
    out,   \* the bytes the last read or peek returned
    ok     \* the boolean the last call returned

Init == q = <<>> /\ out = <<>> /\ ok = TRUE

Put(data) ==
    IF Len(q) + Len(data) <= Size
    THEN q' = q \o data /\ ok' = TRUE /\ UNCHANGED out
    ELSE ok' = FALSE /\ UNCHANGED <<q, out>>

Take(n, remove) ==
    IF n <= Len(q)
    THEN /\ out' = SubSeq(q, 1, n)
         /\ q' = IF remove THEN SubSeq(q, n + 1, Len(q)) ELSE q
         /\ ok' = TRUE
    ELSE ok' = FALSE /\ UNCHANGED <<q, out>>

Next ==
    \/ \E data \in BoundedSeq(Bytes, MaxLen) : Len(data) > 0 /\ Put(data)
    \/ \E n \in 1..MaxLen, remove \in BOOLEAN : Take(n, remove)

Spec == Init /\ [][Next]_<<q, out, ok>>
=============================================================================
