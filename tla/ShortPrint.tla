----------------------------- MODULE ShortPrint -----------------------------
(***************************************************************************)
(* The printer driver shortprint: writers fill a circular buffer, a work    *)
(* item strobes one byte to the printer each time it runs, an interrupt     *)
(* queues the work again, and a timer does so when an interrupt got lost.   *)
(* What the work has seen is reported to readers through a second buffer.   *)
(*                                                                          *)
(* One action per section under shortp_out_lock, per wait and per callback. *)
(* Definitions introduced as a slip serve to test the properties only.      *)
(***************************************************************************)
EXTENDS Integers, Sequences

CONSTANTS
    SpWriters, SpReaders,
    SpData,
    SpSize,      \* PAGE_SIZE, bytes of the output buffer
    SpRecords,   \* PAGE_SIZE / 16, records of the input buffer
    SpCounts     \* count of write

ASSUME SpAssumption ==
    /\ SpSize \in Nat \ {0, 1} /\ SpRecords \in Nat \ {0}
    /\ SpCounts \subseteq Nat \ {0}

VARIABLES
    spBuf, spHead, spTail,  \* shortp_out_buffer, _head, _tail
    spActive,     \* shortp_output_active
    spTimer,      \* is shortp_timer pending?
    spCb,         \* its callback: none, fired, missed (an interrupt)
    spQueued,     \* is shortp_work pending?
    spWork,       \* its run: idle, waits
    spStatus,     \* the printer: busy, ack, ready
    spIrq,        \* has it raised an interrupt?
    spPc, spLeft, \* writers, and the bytes each has yet to move
    spIn,         \* shortp_in_head - shortp_in_tail, in records
    spRd,         \* readers: idle, asleep
    spModule,     \* loaded, or a stage of shortp_cleanup()
    spLast        \* history: the last byte strobed

spOut  == <<spBuf, spHead, spTail, spLast>>
spRun  == <<spActive, spTimer, spCb, spQueued, spWork>>
spDev  == <<spStatus, spIrq>>
spUser == <<spPc, spLeft>>
spVars == <<spOut, spRun, spDev, spUser, spIn, spRd, spModule>>

SpInit ==
    /\ spBuf = [i \in 0 .. SpSize - 1 |-> "none"]
    /\ spHead = 0 /\ spTail = 0 /\ spLast = <<>>
    /\ spActive = FALSE /\ spTimer = FALSE /\ spCb = "none"
    /\ spQueued = FALSE /\ spWork = "idle"
    /\ spStatus = "ready" /\ spIrq = FALSE
    /\ spPc = [w \in SpWriters |-> "out"] /\ spLeft = [w \in SpWriters |-> 0]
    /\ spIn = 0
    /\ spRd = [r \in SpReaders |-> "idle"]
    /\ spModule = "loaded"

-----------------------------------------------------------------------------
(* The writer                                                                *)

\* Slip: the space is not contiguous.
OutSpaceTotal == (SpSize + spTail - spHead - 1) % SpSize

\* shortp_out_space(): contiguous, one byte stays free.
OutSpace ==
    IF spHead >= spTail THEN SpSize - spHead - (IF spTail = 0 THEN 1 ELSE 0)
                        ELSE spTail - spHead - 1

SpGoes(w, from, to) == spPc[w] = from /\ spPc' = [spPc EXCEPT ![w] = to]

\* shortp_out_mutex is held for the whole write.
MutexFree == \A w \in SpWriters : spPc[w] \notin {"moves", "asleep", "starts"}

shortp_open(w) ==
    /\ spModule = "loaded" /\ SpGoes(w, "out", "open")
    /\ UNCHANGED <<spOut, spRun, spDev, spLeft, spIn, spRd, spModule>>

shortp_write(w) ==
    /\ MutexFree /\ SpGoes(w, "open", "moves")
    /\ \E n \in SpCounts : spLeft' = [spLeft EXCEPT ![w] = n]
    /\ UNCHANGED <<spOut, spRun, spDev, spIn, spRd, spModule>>

\* Bytes are moved as far as there is space; without any the writer sleeps.
SpMoves(w) ==
    LET n == IF OutSpace < spLeft[w] THEN OutSpace ELSE spLeft[w]
    IN  /\ \/ /\ n <= 0 /\ SpGoes(w, "moves", "asleep")
              /\ UNCHANGED <<spBuf, spHead, spLeft>>
           \/ /\ n > 0 /\ SpGoes(w, "moves", "starts")
              /\ \E d \in SpData : spBuf' = [i \in DOMAIN spBuf |->
                    IF i \in spHead .. spHead + n - 1 THEN d ELSE spBuf[i]]
              /\ spHead' = (spHead + n) % SpSize
              /\ spLeft' = [spLeft EXCEPT ![w] = @ - n]
           \/ /\ n > 0 /\ SpGoes(w, "moves", "open")              \* copy_from_user
              /\ spLeft' = [spLeft EXCEPT ![w] = 0]
              /\ UNCHANGED <<spBuf, spHead>>
        /\ UNCHANGED <<spTail, spLast, spRun, spDev, spIn, spRd, spModule>>

\* Slip: only the writer that has moved its last byte starts the output.
SpStartsLate(w) ==
    IF spActive \/ spLeft[w] # 0 THEN UNCHANGED <<spActive, spTimer, spQueued>>
    ELSE spActive' = TRUE /\ spTimer' = TRUE /\ spQueued' = TRUE

\* shortp_start_output(), if no output is active.
SpStartOutput(w) ==
    IF spActive THEN UNCHANGED <<spActive, spTimer, spQueued>>
    ELSE spActive' = TRUE /\ spTimer' = TRUE /\ spQueued' = TRUE

SpStarts(w) ==
    /\ SpGoes(w, "starts", IF spLeft[w] = 0 THEN "open" ELSE "moves")
    /\ SpStartOutput(w)
    /\ UNCHANGED <<spOut, spCb, spWork, spDev, spLeft, spIn, spRd, spModule>>

\* A signal ends a sleep, of a write or of a release.
SpSignal(w) ==
    /\ \/ SpGoes(w, "asleep", "open") /\ spLeft' = [spLeft EXCEPT ![w] = 0]
       \/ SpGoes(w, "drains", "out") /\ UNCHANGED spLeft
    /\ UNCHANGED <<spOut, spRun, spDev, spIn, spRd, spModule>>

\* Waits until the output is no longer active; a wake-up tests again.
shortp_release(w) ==
    /\ spPc[w] \in {"open", "closes"}
    /\ spPc' = [spPc EXCEPT ![w] = IF spActive THEN "drains" ELSE "out"]
    /\ UNCHANGED <<spOut, spRun, spDev, spLeft, spIn, spRd, spModule>>

-----------------------------------------------------------------------------
(* The work, the interrupt, the timer                                        *)

WorkStarts ==
    /\ spQueued /\ spWork = "idle"
    /\ spQueued' = FALSE /\ spWork' = "waits"
    /\ UNCHANGED <<spOut, spActive, spTimer, spCb, spDev, spUser, spIn, spRd, spModule>>

\* The section of shortp_do_work(): the next byte, or the end of the output,
\* and the wake-ups of either.  What it reports to the readers, after the unlock,
\* overwrites the oldest record when the buffer is full.
shortp_do_work ==
    LET empty == spHead = spTail
        tail  == IF empty THEN spTail ELSE (spTail + 1) % SpSize
        room  == (SpSize + tail - spHead) % SpSize > SpSize \div 2
    IN  /\ spWork = "waits" /\ spStatus # "busy"
        /\ spWork' = "idle"
        /\ spTail' = tail
        /\ spBuf' = IF empty THEN spBuf ELSE [spBuf EXCEPT ![spTail] = "none"]
        /\ spActive' = ~ empty /\ spTimer' = ~ empty
        /\ spStatus' = IF empty THEN spStatus ELSE "busy"
        /\ spLast' = IF empty THEN spLast ELSE <<spBuf[spTail]>>
        /\ spIn' = (spIn + 1) % SpRecords
        /\ spRd' = [r \in SpReaders |-> "idle"]
        /\ spPc' = [w \in SpWriters |->
              CASE spPc[w] = "drains" /\ empty -> "closes"
                [] spPc[w] = "asleep" /\ room  -> "moves"
                [] OTHER -> spPc[w]]
        /\ UNCHANGED <<spHead, spCb, spQueued, spIrq, spLeft, spModule>>

\* The printer takes its time; then it interrupts, or the interrupt is lost.
PrinterAcks ==
    /\ spStatus = "busy" /\ spStatus' = "ack"
    /\ spIrq' \in {spIrq, TRUE}
    /\ UNCHANGED <<spOut, spRun, spUser, spIn, spRd, spModule>>

PrinterReady ==
    /\ spStatus = "ack" /\ spStatus' = "ready"
    /\ UNCHANGED <<spOut, spRun, spIrq, spUser, spIn, spRd, spModule>>

shortp_interrupt ==
    /\ spIrq /\ spIrq' = FALSE /\ spModule = "loaded"
    /\ spQueued' = (spQueued \/ spActive)
    /\ UNCHANGED <<spOut, spActive, spTimer, spCb, spWork, spStatus, spUser, spIn, spRd, spModule>>

\* The first test of the callback is without the lock.
TimerFires ==
    /\ spTimer /\ spCb = "none"
    /\ spTimer' = FALSE
    /\ spCb' = IF spActive THEN "fired" ELSE "none"
    /\ UNCHANGED <<spOut, spActive, spQueued, spWork, spDev, spUser, spIn, spRd, spModule>>

\* Slip: the timer of a printer that is still busy is not started again.
TimerOnce == spTimer

\* add_timer(); of a timer that is pending already it only warns.
TimerAgain == TRUE

\* The printer is still busy, or an interrupt has been dropped.
GetIntrTimerCallback ==
    /\ spCb = "fired"
    /\ \/ spStatus # "ready" /\ spTimer' = TimerAgain /\ spCb' = "none"
       \/ spStatus = "ready" /\ spCb' = "missed" /\ UNCHANGED spTimer
    /\ UNCHANGED <<spOut, spActive, spQueued, spWork, spDev, spUser, spIn, spRd, spModule>>

\* The callback calls the handler of the interrupt that it has missed.
MissedInterrupt ==
    /\ spCb = "missed" /\ spCb' = "none"
    /\ spQueued' = (spQueued \/ spActive)
    /\ UNCHANGED <<spOut, spActive, spTimer, spWork, spDev, spUser, spIn, spRd, spModule>>

-----------------------------------------------------------------------------
(* The reader of the records, and the end of the module                      *)

shortp_read(r) ==
    /\ spRd[r] = "idle" /\ spModule = "loaded"
    /\ \/ spIn = 0 /\ spRd' = [spRd EXCEPT ![r] = "asleep"] /\ UNCHANGED spIn
       \/ (\E n \in 1 .. spIn : spIn' = spIn - n) /\ UNCHANGED spRd
    /\ UNCHANGED <<spOut, spRun, spDev, spUser, spModule>>

SpReadSignal(r) ==
    /\ spRd[r] = "asleep" /\ spRd' = [spRd EXCEPT ![r] = "idle"]
    /\ UNCHANGED <<spOut, spRun, spDev, spUser, spIn, spModule>>

\* No file is open: the interrupt goes, then the timer, if the output is active ...
shortp_cleanup ==
    /\ spModule = "loaded" /\ spModule' = "flushes"
    /\ \A w \in SpWriters : spPc[w] = "out"
    /\ \A r \in SpReaders : spRd[r] = "idle"
    /\ spActive => spCb = "none"
    /\ spTimer' = (spTimer /\ ~ spActive)
    /\ spIrq' = FALSE
    /\ UNCHANGED <<spOut, spActive, spCb, spQueued, spWork, spStatus, spUser, spIn, spRd>>

\* ... then the work is waited for, and its queue destroyed.
SpFlushed ==
    /\ spModule = "flushes" /\ spModule' = "gone"
    /\ ~ spQueued /\ spWork = "idle"
    /\ UNCHANGED <<spOut, spRun, spDev, spUser, spIn, spRd>>

-----------------------------------------------------------------------------
SpWriter(w) == shortp_write(w) \/ SpMoves(w) \/ SpStarts(w) \/ SpSignal(w) \/ shortp_release(w)
SpReader(r) == shortp_read(r) \/ SpReadSignal(r)
SpKernel    == WorkStarts \/ shortp_do_work
SpTimerRun  == TimerFires \/ GetIntrTimerCallback \/ MissedInterrupt
SpPrinter   == PrinterAcks \/ PrinterReady

SpNext == \/ \E w \in SpWriters : shortp_open(w) \/ SpWriter(w)
          \/ \E r \in SpReaders : SpReader(r)
          \/ SpKernel \/ SpTimerRun \/ SpPrinter \/ shortp_interrupt
          \/ shortp_cleanup \/ SpFlushed

\* The workqueue thread and the timer softirq run; the printer gets ready.  No
\* fairness for interrupts, which may all be lost.
SpFairness ==
    /\ WF_spVars(SpKernel) /\ WF_spVars(SpPrinter)
    /\ WF_spVars(TimerFires) /\ WF_spVars(GetIntrTimerCallback \/ MissedInterrupt)
    /\ \A w \in SpWriters : WF_spVars(SpMoves(w) \/ SpStarts(w))

SpSpec == SpInit /\ [][SpNext]_spVars /\ SpFairness

-----------------------------------------------------------------------------
\* The bytes between the tail and the head.
SpContents == [i \in 1 .. (SpSize + spHead - spTail) % SpSize |-> spBuf[(spTail + i - 1) % SpSize]]

SpFifo == INSTANCE ScullFifo WITH Data <- SpData, Capacity <- SpSize - 1,
             contents <- SpContents, taken <- spLast, opens <- 0

(* Every byte accepted is strobed once and in order, although the work may be *)
(* queued by a writer, an interrupt and the timer for the same byte           *)
(* (shortprint.c:280-403).                                                    *)
PrintedInOrder == SpFifo!Spec

(* A byte in the buffer is printed, even if every interrupt is lost: the      *)
(* timer takes their place until the output is empty (shortprint.c:146-150,   *)
(* :380-401).                                                                 *)
PrinterResumes ==
    \A t \in 0 .. SpSize - 1 :
        spTail = t /\ spHead # t ~> spTail # t \/ spModule # "loaded"
=============================================================================
