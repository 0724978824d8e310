------------------------------- MODULE Sleepy -------------------------------
(***************************************************************************)
(* The device of misc-modules/sleepy.c: readers sleep until a writer has    *)
(* set a flag, which the first of them to go on clears.  Nothing is locked. *)
(* Definitions introduced as a slip serve to test the properties only.      *)
(***************************************************************************)
EXTENDS Naturals

CONSTANTS SlReaders, SlWriters

VARIABLES
    slFlag,    \* flag
    slReader,  \* each reader: out, tests, asleep, passes
    slWriter   \* each writer: out, wakes

slVars == <<slFlag, slReader, slWriter>>

SlInit ==
    /\ slFlag = FALSE
    /\ slReader = [r \in SlReaders |-> "out"]
    /\ slWriter = [w \in SlWriters |-> "out"]

sleepy_read(r) ==
    /\ slReader[r] = "out" /\ slReader' = [slReader EXCEPT ![r] = "tests"]
    /\ UNCHANGED <<slFlag, slWriter>>

\* wait_event_interruptible(): on the queue, the reader tests the flag.
SlTests(r) ==
    /\ slReader[r] = "tests"
    /\ slReader' = [slReader EXCEPT ![r] = IF slFlag THEN "passes" ELSE "asleep"]
    /\ UNCHANGED <<slFlag, slWriter>>

\* A signal: what wait_event_interruptible() returns is not looked at.
SlInterrupted(r) ==
    /\ slReader[r] = "asleep" /\ slReader' = [slReader EXCEPT ![r] = "passes"]
    /\ UNCHANGED <<slFlag, slWriter>>

SlPasses(r) ==
    /\ slReader[r] = "passes" /\ slReader' = [slReader EXCEPT ![r] = "out"]
    /\ slFlag' = FALSE
    /\ UNCHANGED slWriter

sleepy_write(w) ==
    /\ slWriter[w] = "out" /\ slWriter' = [slWriter EXCEPT ![w] = "wakes"]
    /\ slFlag' = TRUE
    /\ UNCHANGED slReader

\* Slip: a wake-up of one.
SlWakesOne(w) ==
    /\ slWriter[w] = "wakes" /\ slWriter' = [slWriter EXCEPT ![w] = "out"]
    /\ slReader' = IF \E r \in SlReaders : slReader[r] = "asleep"
                   THEN [slReader EXCEPT ![CHOOSE r \in SlReaders : slReader[r] = "asleep"] = "tests"]
                   ELSE slReader
    /\ UNCHANGED slFlag

SlWakes(w) ==
    /\ slWriter[w] = "wakes" /\ slWriter' = [slWriter EXCEPT ![w] = "out"]
    /\ slReader' = [r \in SlReaders |-> IF slReader[r] = "asleep" THEN "tests" ELSE slReader[r]]
    /\ UNCHANGED slFlag

SlNext ==
    \/ \E r \in SlReaders : sleepy_read(r) \/ SlTests(r) \/ SlInterrupted(r) \/ SlPasses(r)
    \/ \E w \in SlWriters : sleepy_write(w) \/ SlWakes(w)

SlSpec == SlInit /\ [][SlNext]_slVars

-----------------------------------------------------------------------------
(* No reader stays asleep beside a flag that is set, unless a writer is about *)
(* to wake it: neither the readers that pass together on one write nor the    *)
(* one that clears the flag after a second write break this                   *)
(* (sleepy.c:38-57).                                                          *)
SleepersWoken ==
    \A r \in SlReaders : slReader[r] = "asleep" /\ slFlag =>
        \E w \in SlWriters : slWriter[w] = "wakes"
=============================================================================
