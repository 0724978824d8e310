------------------------------- MODULE DdkExt -------------------------------
(***************************************************************************)
(* misc-modules/ddk_usb_ext.c: the state a DDK USB device shares between    *)
(* the threads in ddk_write(), the activity timer (softirq), the blink work *)
(* item (kworker), the writers of /proc/ddk_usb_status and the disconnect   *)
(* path.                                                                    *)
(*                                                                          *)
(* A definition introduced as a slip is a change the code might suffer; it   *)
(* is no part of the specification and serves to test the properties.        *)
(*                                                                          *)
(* A section under ext->lock is one step; whatever the code does after it   *)
(* has released the lock is a step of its own.  The kernel's timer and work *)
(* queue are reduced to what the driver relies on:                          *)
(*   armed   timer_pending(); a timer never runs beside itself              *)
(*   queued  the work item is on its queue; the kernel takes it off before  *)
(*           it calls the worker, which never runs beside itself            *)
(* Times have no model: a timer that is armed may expire at any moment, so  *)
(* timer_interval_ms and blink_delay_ms, and the commands that set them,    *)
(* are left out.                                                            *)
(***************************************************************************)
EXTENDS Integers, FiniteSets

CONSTANTS
    Writers,      \* threads that write to open files of the device
    Lens,         \* lengths of their writes
    LongVals,     \* arguments of the /proc commands, a C long
    DefBlinks,    \* DDK_BLINK_DEF_CNT
    IntHalf,      \* 2^31: an int is in -IntHalf .. IntHalf - 1
    ULongMod,     \* 2^64: an unsigned long is in 0 .. ULongMod - 1
    Drained       \* TRUE: no file is open when the device goes away, as on rmmod;
                  \* FALSE: the board is pulled out

ASSUME DdkExtAssumption ==
    /\ IntHalf \in Nat \ {0}
    /\ ULongMod \in Nat \ {0}
    /\ LongVals \subseteq Int
    /\ Lens \subseteq Nat
    /\ 0 \in Lens
    /\ DefBlinks \in 1 .. IntHalf - 1
    /\ Drained \in BOOLEAN

VARIABLES
    timerEnabled, blinkCount, workPending,            \* struct ddk_ext_state
    totalSuccess, totalFail, totalBlinks, lastLen,
    procEntry,
    armed, cb,        \* activity_timer and its callback
    queued, worker,   \* blink_work and its worker
    led,              \* the value last given to ddk_led_ctrl()
    wr,               \* where each writer is in on_write_success
    cleanup,          \* progress of ddk_ext_cleanup
    flashes           \* history: LED switch-ons since the last reset

config  == <<timerEnabled, blinkCount>>
stats   == <<totalSuccess, totalFail, totalBlinks, lastLen, flashes>>
timer   == <<armed, cb>>
work    == <<workPending, queued>>
vars    == <<config, stats, timer, work, worker, led, wr, cleanup, procEntry>>

Int32  == -IntHalf .. IntHalf - 1
ULong  == 0 .. ULongMod - 1

\* (int)val: the low bits of a long.
ToInt(v) == ((v + IntHalf) % (2 * IntHalf)) - IntHalf

\* Slip: a counter wider than the report's.
PlusWide(a, b) == a + b

\* Additions to an unsigned long; the int operand is sign-extended.
Plus(a, b) == (a + b) % ULongMod

\* An invocation of blink_worker(): its place, count and i.
Run   == [pc : {"idle", "entered", "dark", "lit"}, count : Int32, done : Nat]
NoRun == [pc |-> "idle", count |-> 0, done |-> 0]

\* cancel_work_sync() holds the item: schedule_work() does nothing.
Cancelling == cleanup = "cancelling"

\* The extension state exists: ddk_disconnect() frees it after the cleanup.
Live == cleanup # "done"

(***************************************************************************)
(* ddk_ext_init.  ddk_probe() ignores its result: a device whose /proc      *)
(* entry could not be created works without one.                            *)
(***************************************************************************)
Init ==
    /\ timerEnabled = FALSE
    /\ blinkCount = DefBlinks
    /\ workPending = FALSE
    /\ totalSuccess = 0 /\ totalFail = 0 /\ totalBlinks = 0 /\ lastLen = 0
    /\ procEntry \in BOOLEAN
    /\ armed = FALSE /\ cb = "idle"
    /\ queued = FALSE /\ worker = NoRun
    /\ led = 0
    /\ wr = [w \in Writers |-> "idle"]
    /\ cleanup = "no"
    /\ flashes = 0

\* Slip: flush_work() in place of cancel_work_sync(), which holds the item.
RequestBlinkAnyway ==
    /\ workPending' = TRUE
    /\ queued' = (queued \/ ~workPending)

\* Slip: no new work while the worker is busy.
RequestBlinkIfIdle ==
    /\ workPending' = TRUE
    /\ queued' = (queued \/ (~workPending /\ ~Cancelling /\ worker.pc = "idle"))

\* "if (!work_pending) { work_pending = true; schedule_work(); }"
RequestBlink ==
    /\ workPending' = TRUE
    /\ queued' = (queued \/ (~workPending /\ ~Cancelling))

-----------------------------------------------------------------------------
(* The write path of ddk_mem.c.  Open files survive the disconnect, so       *)
(* writes may go on during the cleanup unless Drained.                       *)

MayWrite(w) == Live /\ wr[w] = "idle" /\ (Drained => cleanup = "no")

\* on_write_success, first section: count, and decide on the timer.
WriteSuccess(w) ==
    /\ MayWrite(w)
    /\ totalSuccess' = Plus(totalSuccess, 1)
    /\ \E len \in Lens : lastLen' = len
    /\ wr' = [wr EXCEPT ![w] = IF timerEnabled THEN "arm" ELSE "queue"]
    /\ UNCHANGED <<config, totalFail, totalBlinks, flashes, timer, work, worker,
                   led, cleanup, procEntry>>

\* on_write_success: mod_timer() outside the lock.
ArmTimer(w) ==
    /\ Live /\ wr[w] = "arm"
    /\ armed' = TRUE
    /\ wr' = [wr EXCEPT ![w] = "idle"]
    /\ UNCHANGED <<config, stats, cb, work, worker, led, cleanup, procEntry>>

\* on_write_success, second section.
QueueBlink(w) ==
    /\ Live /\ wr[w] = "queue"
    /\ RequestBlink
    /\ wr' = [wr EXCEPT ![w] = "idle"]
    /\ UNCHANGED <<config, stats, timer, worker, led, cleanup, procEntry>>

WriteFail(w) ==
    /\ MayWrite(w)
    /\ totalFail' = Plus(totalFail, 1)
    /\ UNCHANGED <<config, totalSuccess, totalBlinks, lastLen, flashes, timer,
                   work, worker, led, wr, cleanup, procEntry>>

-----------------------------------------------------------------------------
(* ddk_proc_write.  A command without its argument leaves val uninitialised; *)
(* any v is then possible, as for a command that has one.                    *)

ProcTimer(v) ==
    /\ procEntry
    /\ timerEnabled' = (v # 0)
    /\ armed' = (armed /\ v # 0)           \* timer_delete()
    /\ UNCHANGED <<blinkCount, stats, cb, work, worker, led, wr, cleanup, procEntry>>

ProcBlink(v) ==
    /\ procEntry
    /\ v > 0
    /\ blinkCount' = ToInt(v)
    /\ UNCHANGED <<timerEnabled, stats, timer, work, worker, led, wr, cleanup, procEntry>>

ProcReset ==
    /\ procEntry
    /\ totalSuccess' = 0 /\ totalFail' = 0 /\ totalBlinks' = 0 /\ lastLen' = 0
    /\ flashes' = 0
    /\ UNCHANGED <<config, timer, work, worker, led, wr, cleanup, procEntry>>

-----------------------------------------------------------------------------
(* The activity timer: expiry, then the two halves of activity_timer_cb.     *)

TimerExpires ==
    /\ Live /\ armed /\ cb = "idle"
    /\ armed' = FALSE /\ cb' = "entered"
    /\ UNCHANGED <<config, stats, work, worker, led, wr, cleanup, procEntry>>

\* Slip: re-arms without a look at timer_enabled.
TimerRequestsAlways ==
    /\ Live /\ cb = "entered"
    /\ RequestBlink
    /\ cb' = "rearm"
    /\ UNCHANGED <<config, stats, armed, worker, led, wr, cleanup, procEntry>>

TimerRequests ==
    /\ Live /\ cb = "entered"
    /\ RequestBlink
    /\ cb' = IF timerEnabled THEN "rearm" ELSE "idle"
    /\ UNCHANGED <<config, stats, armed, worker, led, wr, cleanup, procEntry>>

\* Slip: the callback does not re-arm.
TimerFiresOnce ==
    /\ Live /\ cb = "rearm"
    /\ cb' = "idle"
    /\ UNCHANGED <<config, stats, armed, work, worker, led, wr, cleanup, procEntry>>

TimerRearms ==
    /\ Live /\ cb = "rearm"
    /\ armed' = TRUE /\ cb' = "idle"
    /\ UNCHANGED <<config, stats, work, worker, led, wr, cleanup, procEntry>>

-----------------------------------------------------------------------------
(* The kworker and blink_worker.                                             *)

WorkStarts ==
    /\ Live /\ queued /\ worker.pc = "idle"
    /\ queued' = FALSE
    /\ worker' = [worker EXCEPT !.pc = "entered"]
    /\ UNCHANGED <<config, stats, timer, workPending, led, wr, cleanup, procEntry>>

\* Slip: work_pending is not cleared at the start of the run.
WorkKeepsFlag ==
    /\ Live /\ worker.pc = "entered"
    /\ worker' = [pc |-> "dark", count |-> blinkCount, done |-> 0]
    /\ UNCHANGED <<config, stats, timer, work, led, wr, cleanup, procEntry>>

WorkSnapshots ==
    /\ Live /\ worker.pc = "entered"
    /\ workPending' = FALSE
    /\ worker' = [pc |-> "dark", count |-> blinkCount, done |-> 0]
    /\ UNCHANGED <<config, stats, timer, queued, led, wr, cleanup, procEntry>>

LedOn ==
    /\ Live /\ worker.pc = "dark" /\ worker.done < worker.count
    /\ led' = 1
    /\ flashes' = Plus(flashes, 1)
    /\ worker' = [worker EXCEPT !.pc = "lit", !.done = @ + 1]
    /\ UNCHANGED <<config, totalSuccess, totalFail, totalBlinks, lastLen, timer,
                   work, wr, cleanup, procEntry>>

LedOff ==
    /\ Live /\ worker.pc = "lit"
    /\ led' = 0
    /\ worker' = [worker EXCEPT !.pc = "dark"]
    /\ UNCHANGED <<config, stats, timer, work, wr, cleanup, procEntry>>

\* Slip: counts with the configuration of the end of the run.
WorkCountsCurrent ==
    /\ Live /\ worker.pc = "dark" /\ worker.done >= worker.count
    /\ totalBlinks' = Plus(totalBlinks, blinkCount)
    /\ worker' = NoRun
    /\ UNCHANGED <<config, totalSuccess, totalFail, lastLen, flashes, timer, work,
                   led, wr, cleanup, procEntry>>

WorkCounts ==
    /\ Live /\ worker.pc = "dark" /\ worker.done >= worker.count
    /\ totalBlinks' = Plus(totalBlinks, worker.count)
    /\ worker' = NoRun
    /\ UNCHANGED <<config, totalSuccess, totalFail, lastLen, flashes, timer, work,
                   led, wr, cleanup, procEntry>>

-----------------------------------------------------------------------------
(* ddk_ext_cleanup, called by ddk_disconnect, which frees the state next.    *)

RemoveProc ==
    /\ cleanup = "no"
    /\ Drained => \A w \in Writers : wr[w] = "idle"
    /\ cleanup' = "procGone"
    /\ procEntry' = FALSE
    /\ UNCHANGED <<config, stats, timer, work, worker, led, wr>>

\* Slip: timer_delete() does not wait for the callback.
StopTimerNoWait ==
    /\ cleanup = "procGone"
    /\ armed' = FALSE
    /\ cleanup' = "timerStopped"
    /\ UNCHANGED <<config, stats, cb, work, worker, led, wr, procEntry>>

\* timer_delete_sync: the callback is not running and the timer not armed.
StopTimer ==
    /\ cleanup = "procGone"
    /\ cb = "idle"
    /\ armed' = FALSE
    /\ cleanup' = "timerStopped"
    /\ UNCHANGED <<config, stats, cb, work, worker, led, wr, procEntry>>

\* cancel_work_sync: take the item off its queue and hold it ...
CancelWork ==
    /\ cleanup = "timerStopped"
    /\ queued' = FALSE
    /\ cleanup' = "cancelling"
    /\ UNCHANGED <<config, stats, timer, workPending, worker, led, wr, procEntry>>

\* ... until the worker has returned.
FinishCleanup ==
    /\ cleanup = "cancelling"
    /\ worker.pc = "idle"
    /\ cleanup' = "done"
    /\ UNCHANGED <<config, stats, timer, work, worker, led, wr, procEntry>>

-----------------------------------------------------------------------------
Writer(w)   == WriteSuccess(w) \/ ArmTimer(w) \/ QueueBlink(w) \/ WriteFail(w)
ProcWrite   == ProcReset \/ \E v \in LongVals : ProcTimer(v) \/ ProcBlink(v)
TimerRuns   == TimerExpires \/ TimerRequests \/ TimerRearms
WorkerRuns  == WorkStarts \/ WorkSnapshots \/ LedOn \/ LedOff \/ WorkCounts
CleanupRuns == RemoveProc \/ StopTimer \/ CancelWork \/ FinishCleanup

Next ==
    \/ \E w \in Writers : Writer(w)
    \/ ProcWrite
    \/ TimerRuns
    \/ WorkerRuns
    \/ CleanupRuns

Spec == Init /\ [][Next]_vars

-----------------------------------------------------------------------------
(* Every field keeps its C type; the worker's loop counter stays within the  *)
(* count it works from.                                                      *)
TypeOK ==
    /\ timerEnabled \in BOOLEAN
    /\ blinkCount \in Int32
    /\ workPending \in BOOLEAN
    /\ totalSuccess \in ULong
    /\ totalFail \in ULong
    /\ totalBlinks \in ULong
    /\ lastLen \in Lens
    /\ procEntry \in BOOLEAN
    /\ armed \in BOOLEAN
    /\ cb \in {"idle", "entered", "rearm"}
    /\ queued \in BOOLEAN
    /\ worker \in Run
    /\ led \in {0, 1}
    /\ wr \in [Writers -> {"idle", "arm", "queue"}]
    /\ cleanup \in {"no", "procGone", "timerStopped", "cancelling", "done"}
    /\ flashes \in ULong

\* A worker run is still to take its snapshot: it will see every request made.
BlinkAhead == queued \/ worker.pc = "entered"

(* work_pending (set at ddk_usb_ext.c:83 and :252, cleared at :48) says       *)
(* exactly that a run is ahead, and no more than one, until the cleanup takes *)
(* the item away.  A flag left set would suppress every later blink; a flag   *)
(* left clear with the item queued would let schedule_work() drop a request.  *)
PendingFlagExact ==
    cleanup \in {"no", "procGone", "timerStopped"} =>
        /\ workPending <=> BlinkAhead
        /\ ~(queued /\ worker.pc = "entered")

(* When ddk_ext_cleanup() returns, to be followed by the kfree() of the       *)
(* state, the timer, the work item and the worker are at rest and the LED is  *)
(* off: proc entry, timer, work is the right order to take them down.         *)
CleanupQuiescent ==
    cleanup = "done" => /\ ~armed /\ cb = "idle"
                        /\ ~queued /\ worker.pc = "idle" /\ led = 0
                        /\ \A w \in Writers : wr[w] = "idle"

(* total_blinks, published only at the end of a run (:63), and a reset that   *)
(* may come in the middle of one (:205): the statistic never lags behind the  *)
(* flashes since the reset by more than the current run, and never exceeds    *)
(* them by more than the one run the reset fell into.                         *)
BlinkAccounting ==
    (totalBlinks + worker.done - flashes) % ULongMod \in 0 .. IntHalf - 1

(* A write that finds the timer off gets its blink (:251-254): when its       *)
(* second section ends, a run that has yet to read the configuration is       *)
(* ahead, whatever the worker was doing.                                      *)
NoLostBlink ==
    [][\A w \in Writers :
          wr[w] = "queue" /\ wr'[w] = "idle" /\ ~Cancelling => BlinkAhead']_vars

(* The flag is always cleared again, or the device goes away.                 *)
PendingCleared == workPending ~> (~workPending \/ cleanup # "no")

(* Once the timer is disabled for good it falls silent, in spite of the       *)
(* callback and the writers that re-arm it from an old reading of the flag.   *)
DisabledTimerStops ==
    <>[](~timerEnabled /\ Live) => <>[](~armed /\ cb = "idle")

(* A timer armed once and left enabled makes the LED blink for ever           *)
(* (README.md:39, :89-95).                                                    *)
KeepsBlinking ==
    []((armed /\ [](timerEnabled /\ cleanup = "no")) => []<>(led = 1))

(* The disconnect path terminates although the timer re-arms itself and       *)
(* writers go on queueing work: each *_sync call eventually returns.          *)
CleanupTerminates == (cleanup = "procGone") ~> (cleanup = "done")

-----------------------------------------------------------------------------
(* What the comments and the documentation say of the code.                  *)

(* ddk_usb_ext.c:315, "Stop timer": once it is stopped it stays stopped, for  *)
(* the state it lies in is about to be freed.                                 *)
StoppedTimer == cleanup \in {"timerStopped", "cancelling", "done"} => ~armed
=============================================================================
