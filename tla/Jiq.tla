-------------------------------- MODULE Jiq ---------------------------------
(***************************************************************************)
(* The /proc files of misc-modules/jiq.c.  A reader starts a task that      *)
(* prints a line, queues itself again and wakes the readers when the page   *)
(* is full:                                                                 *)
(*                                                                          *)
(*   wq, delay   jiqwq and jiqwqdelay: a work item, at once or after a delay *)
(*   tasklet     jiqtasklet                                                 *)
(*   timer       jiqtimer: prints one line, and wakes in any case           *)
(*                                                                          *)
(* All readers and tasks share jiq_data and one wait queue, without a lock: *)
(* one action per access.  The length is counted in lines; the text and the *)
(* address of the page are left out, and so is the second reader of the     *)
(* timer's file that initialises a timer which is pending.                  *)
(* Definitions introduced as a slip serve to test the properties only.      *)
(***************************************************************************)
EXTENDS Integers

CONSTANTS
    JqReaders,
    JqFiles,   \* those of the four files that are read
    JqLimit    \* lines in a page

ASSUME JqAssumption == JqFiles \subseteq {"wq", "delay", "tasklet", "timer"} /\ JqLimit \in Nat

VARIABLES
    jqLoaded,
    jqPc, jqFile,  \* of each reader: where it is, and the file of its read (NoFile outside)
    jqWaits,       \* readers on jiq_wait that have not been woken
    jqLen,         \* jiq_data.len
    jqPending,     \* tasks that are queued, the timer if it is armed
    jqTask         \* what each task does: idle, starts, header, prints, wakes

jqTasks == <<jqPending, jqTask>>
NoFile == "none"

jqVars  == <<jqLoaded, jqPc, jqFile, jqWaits, jqLen, jqTasks>>

JqInit ==
    /\ jqLoaded = FALSE
    /\ jqPc = [r \in JqReaders |-> "out"] /\ jqFile = [r \in JqReaders |-> NoFile]
    /\ jqWaits = {}
    /\ jqLen = 0
    /\ jqPending = {} /\ jqTask = [f \in JqFiles |-> "idle"]

jiq_init ==
    /\ ~ jqLoaded /\ jqLoaded' = TRUE
    /\ UNCHANGED <<jqPc, jqFile, jqWaits, jqLen, jqTasks>>

\* The entries go when nobody reads them.  A task that is left behind by a
\* reader is not stopped; the model ends it.
jiq_cleanup ==
    /\ jqLoaded /\ \A r \in JqReaders : jqPc[r] = "out"
    /\ jqLoaded' = FALSE
    /\ jqPending' = {} /\ jqTask' = [f \in JqFiles |-> "idle"]
    /\ UNCHANGED <<jqPc, jqFile, jqWaits, jqLen>>

JqGoes(r, from, to) == jqPc[r] = from /\ jqPc' = [jqPc EXCEPT ![r] = to]

\* Lengths above the limit are one.
Lines(n) == IF n > JqLimit THEN JqLimit + 1 ELSE n

SleepsOn(f) == f \in {"tasklet", "timer"}

-----------------------------------------------------------------------------
(* Readers                                                                   *)

\* jiq_read_wq(), jiq_read_wq_delayed(), jiq_read_tasklet(),
\* jiq_read_run_timer(): the data are set, and by the timer's reader printed to.
JqRead(r, f) ==
    /\ jqLoaded /\ JqGoes(r, "out", IF SleepsOn(f) THEN "schedules" ELSE "prepares")
    /\ jqFile' = [jqFile EXCEPT ![r] = f]
    /\ jqLen' = IF f = "timer" THEN Lines(2) ELSE 0
    /\ UNCHANGED <<jqLoaded, jqWaits, jqTasks>>

\* prepare_to_wait()
JqPrepares(r) ==
    /\ JqGoes(r, "prepares", "schedules")
    /\ jqWaits' = jqWaits \cup {r}
    /\ UNCHANGED <<jqLoaded, jqFile, jqLen, jqTasks>>

\* Slip: the work is queued only if no task prints already.
JqSchedulesIfIdle(r) ==
    /\ JqGoes(r, "schedules", IF SleepsOn(jqFile[r]) THEN "enters" ELSE "sleeps")
    /\ jqPending' = IF \E f \in JqFiles : jqTask[f] # "idle" THEN jqPending
                    ELSE jqPending \cup {jqFile[r]}
    /\ UNCHANGED <<jqLoaded, jqFile, jqWaits, jqLen, jqTask>>

\* schedule_work(), schedule_delayed_work(), tasklet_schedule(), add_timer().
JqSchedules(r) ==
    /\ JqGoes(r, "schedules", IF SleepsOn(jqFile[r]) THEN "enters" ELSE "sleeps")
    /\ jqPending' = jqPending \cup {jqFile[r]}
    /\ UNCHANGED <<jqLoaded, jqFile, jqWaits, jqLen, jqTask>>

\* interruptible_sleep_on(): the task may have woken the readers already.
JqEnters(r) ==
    /\ JqGoes(r, "enters", "sleeps")
    /\ jqWaits' = jqWaits \cup {r}
    /\ UNCHANGED <<jqLoaded, jqFile, jqLen, jqTasks>>

\* Woken, or interrupted; the timer's reader deletes the timer and waits for
\* its function.
JqReturns(r) ==
    /\ JqGoes(r, "sleeps", "out")
    /\ jqWaits' = jqWaits \ {r}
    /\ IF jqFile[r] = "timer" THEN jqTask["timer"] = "idle" /\ jqPending' = jqPending \ {"timer"}
                              ELSE UNCHANGED jqPending
    /\ jqFile' = [jqFile EXCEPT ![r] = NoFile]
    /\ UNCHANGED <<jqLoaded, jqLen, jqTask>>

-----------------------------------------------------------------------------
(* Tasks                                                                     *)

JqStarts(f) ==
    /\ f \in jqPending /\ jqTask[f] = "idle"
    /\ jqPending' = jqPending \ {f}
    /\ jqTask' = [jqTask EXCEPT ![f] = "starts"]
    /\ UNCHANGED <<jqLoaded, jqPc, jqFile, jqWaits, jqLen>>

\* jiq_print() looks at the length: the readers of a full page are woken.
JqLooks(f) ==
    /\ jqTask[f] = "starts"
    /\ IF jqLen > JqLimit
       THEN /\ jqWaits' = {}
            /\ jqTask' = [jqTask EXCEPT ![f] = IF f = "timer" THEN "wakes" ELSE "idle"]
       ELSE jqTask' = [jqTask EXCEPT ![f] = IF jqLen = 0 THEN "header" ELSE "prints"] /\ UNCHANGED jqWaits
    /\ UNCHANGED <<jqLoaded, jqPc, jqFile, jqLen, jqPending>>

\* A line, the first one below a header.
JqAdds(f) == \/ jqTask[f] = "header" /\ jqLen' = Lines(jqLen + 2)
             \/ jqTask[f] = "prints" /\ jqLen' = Lines(jqLen + 1)

\* Slip: the task ends with the line that fills the page, and wakes nobody.
JqPrintsLast(f) ==
    /\ JqAdds(f)
    /\ jqTask' = [jqTask EXCEPT ![f] = IF f = "timer" THEN "wakes" ELSE "idle"]
    /\ jqPending' = IF f = "timer" \/ jqLen' > JqLimit THEN jqPending ELSE jqPending \cup {f}
    /\ UNCHANGED <<jqLoaded, jqPc, jqFile, jqWaits>>

\* It prints, and all but the timer go on.
JqPrints(f) ==
    /\ JqAdds(f)
    /\ jqTask' = [jqTask EXCEPT ![f] = IF f = "timer" THEN "wakes" ELSE "idle"]
    /\ jqPending' = IF f = "timer" THEN jqPending ELSE jqPending \cup {f}
    /\ UNCHANGED <<jqLoaded, jqPc, jqFile, jqWaits>>

jiq_timedout ==
    /\ "timer" \in JqFiles /\ jqTask["timer"] = "wakes"
    /\ jqWaits' = {}
    /\ jqTask' = [jqTask EXCEPT !["timer"] = "idle"]
    /\ UNCHANGED <<jqLoaded, jqPc, jqFile, jqLen, jqPending>>

-----------------------------------------------------------------------------
JqNext ==
    \/ jiq_init \/ jiq_cleanup \/ jiq_timedout
    \/ \E r \in JqReaders : \/ JqPrepares(r) \/ JqSchedules(r) \/ JqEnters(r) \/ JqReturns(r)
                            \/ \E f \in JqFiles : JqRead(r, f)
    \/ \E f \in JqFiles : JqStarts(f) \/ JqLooks(f) \/ JqPrints(f)

JqSpec == JqInit /\ [][JqNext]_jqVars

-----------------------------------------------------------------------------
(* A reader asleep in jiqwq or jiqwqdelay has its task queued or running,     *)
(* although the wake-up is for whoever waits, the length is reset by every    *)
(* reader and an interrupted one leaves its task behind; the other two files  *)
(* go to sleep after they have started their task, and may sleep for ever     *)
(* (jiq.c:82-226).                                                            *)
JiqReaderServed ==
    \A r \in jqWaits : jqPc[r] = "sleeps" /\ ~ SleepsOn(jqFile[r]) =>
        jqFile[r] \in jqPending \/ jqTask[jqFile[r]] # "idle"
=============================================================================
