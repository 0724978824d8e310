----------------------------- MODULE ScullFifo -----------------------------
(* What the scull pipe (scull/pipe.c) promises: a bounded first-in first-out *)
(* buffer, which every change in the number of openings may empty.           *)
EXTENDS SequencesExt, Integers

CONSTANTS
    Data,      \* the values of a byte
    Capacity   \* how many fit

VARIABLES
    contents,
    taken,     \* the bytes the last reader got
    opens

Init == contents = <<>> /\ taken = <<>> /\ opens = 0

\* Bytes join at the end ...
Put == /\ contents' \in Seq(Data)
       /\ IsPrefix(contents, contents')
       /\ Len(contents') <= Capacity
       /\ UNCHANGED <<taken, opens>>

\* ... and leave at the front.
Take == contents = taken' \o contents' /\ UNCHANGED opens

Flush == opens' # opens /\ contents' = <<>> /\ UNCHANGED taken

Next == Put \/ Take \/ Flush \/ (opens' # opens /\ UNCHANGED <<contents, taken>>)

Spec == Init /\ [][Next]_<<contents, taken, opens>>
=============================================================================
