----------------------------- MODULE ScullArray -----------------------------
(* What the scull devices promise: an area of bytes that grows as it is      *)
(* written, reads back what was written, and is emptied as a whole.          *)
EXTENDS Integers, Sequences

CONSTANTS Data, Unwritten, MaxPos

VARIABLES
    size,
    contents,   \* by position; Unwritten where no write has been
    got         \* what this step has read: where, and the bytes

Nothing == [at |-> 0, bytes |-> <<>>]

Init ==
    /\ size = 0
    /\ contents = [p \in 0 .. MaxPos - 1 |-> Unwritten]
    /\ got = Nothing

\* A write that fails may have stored bytes, without giving them a size.
Write ==
    /\ \E at \in 0 .. MaxPos, d \in Data : \E end \in at .. MaxPos :
          /\ contents' = [p \in 0 .. MaxPos - 1 |-> IF p \in at .. end - 1 THEN d ELSE contents[p]]
          /\ size' \in {size, IF size < end THEN end ELSE size}
    /\ got' = Nothing

\* A read gives at most what there is, and exactly what there is.
Read ==
    /\ \E at \in 0 .. MaxPos - 1 : \E end \in at .. MaxPos :
          /\ end <= size
          /\ got' = [at |-> at, bytes |-> [i \in 1 .. end - at |-> contents[at + i - 1]]]
    /\ UNCHANGED <<size, contents>>

Empty ==
    /\ size' = 0
    /\ contents' = [p \in 0 .. MaxPos - 1 |-> Unwritten]
    /\ got' = Nothing

Other == got' = Nothing /\ UNCHANGED <<size, contents>>

Spec == Init /\ [][Write \/ Read \/ Empty \/ Other]_<<size, contents, got>>
=============================================================================
