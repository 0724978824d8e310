------------------------------- MODULE Short --------------------------------
(***************************************************************************)
(* The interrupt node of short/short.c: each interrupt of the parallel port *)
(* leaves a record in a circular page, which readers consume.  The handler  *)
(* that is installed at load time is                                        *)
(*                                                                          *)
(*   plain, shared   one that writes the record itself                      *)
(*   tasklet, wq     a top half, which notes the time in an array and       *)
(*                   schedules the bottom half, which writes the records    *)
(*                                                                          *)
(* One action per access to what two of them share.  Neither ring looks for *)
(* an overrun.  A shared handler that is called for another device returns. *)
(* The nodes that read and write the port directly keep no state and are    *)
(* left out.  Definitions introduced as a slip serve to test the properties *)
(* only.                                                                    *)
(***************************************************************************)
EXTENDS Integers

CONSTANTS
    ShReaders,
    ShPage,      \* the page, in halves of a record
    ShTv,        \* NR_TIMEVAL
    ShMaxCount   \* bound: interrupts before a bottom half

ASSUME ShAssumption ==
    /\ ShPage \in Nat \ {0} /\ ShPage % 2 = 0
    /\ ShTv \in Nat \ {0} /\ ShMaxCount \in Nat \ {0}

VARIABLES
    shMode,     \* none (not loaded), plain, shared, tasklet, wq
    shIrq,      \* is a handler installed?
    shHead, shTail,      \* short_head, short_tail
    shTvHead, shTvTail,  \* tv_head, tv_tail
    shCount,    \* short_wq_count
    shWire,     \* is an interrupt pending in the controller?
    shTop,      \* where the handler is
    shSched,    \* is the bottom half scheduled?
    shBh,       \* where the bottom half is
    shPc,       \* where each reader is
    shCopied    \* how much he is reading

shPage   == <<shHead, shTail>>
shTimes  == <<shTvHead, shTvTail, shCount>>
shLoaded == <<shMode, shIrq>>
shVars   == <<shLoaded, shPage, shTimes, shWire, shTop, shSched, shBh, shPc, shCopied>>

ShInit ==
    /\ shMode = "none" /\ shIrq = FALSE
    /\ shHead = 0 /\ shTail = 0 /\ shTvHead = 0 /\ shTvTail = 0 /\ shCount = 0
    /\ shWire = FALSE /\ shTop = "idle" /\ shSched = FALSE /\ shBh = "idle"
    /\ shPc = [r \in ShReaders |-> "out"]
    /\ shCopied = [r \in ShReaders |-> 0]

-----------------------------------------------------------------------------
(* Load and unload                                                           *)

\* short_irq after a probe of the interrupt line: found; none of them, which
\* the second probe tells as 0; or several.
ShKernelProbe == {"line", "negative"}
ShSelfProbe   == {"line", "zero", "negative"}

\* A line that is negative is the default of the port, if that is known.
ShLines == {"line"} \cup ShKernelProbe \cup ShSelfProbe

\* request_irq() may fail, for the handler or for the one that replaces it.
short_init ==
    /\ shMode = "none" /\ shMode' \in {"plain", "shared", "tasklet", "wq"}
    /\ \E line \in ShLines : shIrq' \in (IF line = "negative" THEN {FALSE} ELSE BOOLEAN)
    /\ shHead' = 0 /\ shTail' = 0
    /\ UNCHANGED <<shTimes, shWire, shTop, shSched, shBh, shPc, shCopied>>

\* free_irq() waits for the handler, flush_scheduled_work() for all that is
\* scheduled, tasklet_disable() only for a tasklet that runs.
short_cleanup ==
    /\ shMode # "none" /\ \A r \in ShReaders : shPc[r] = "out"
    /\ shTop = "idle" /\ shBh = "idle" /\ (shMode = "wq" => ~ shSched)
    /\ shMode' = "none" /\ shIrq' = FALSE
    /\ shTvHead' = 0 /\ shTvTail' = 0 /\ shCount' = 0 /\ shSched' = FALSE /\ shWire' = FALSE
    /\ UNCHANGED <<shPage, shTop, shBh, shPc, shCopied>>

\* The data bit is toggled; a loopback wire makes it an interrupt.
short_i_write ==
    /\ shIrq /\ ~ shWire /\ shWire' = TRUE
    /\ UNCHANGED <<shLoaded, shPage, shTimes, shTop, shSched, shBh, shPc, shCopied>>

-----------------------------------------------------------------------------
(* Interrupts                                                                *)

short_incr_bp(i, delta) == IF i + delta >= ShPage THEN 0 ELSE i + delta
short_incr_tv(i) == IF i = ShTv - 1 THEN 0 ELSE i + 1

\* wake_up_interruptible()
ShWakes == shPc' = [r \in ShReaders |-> IF shPc[r] = "asleep" THEN "tests" ELSE shPc[r]]

\* short_interrupt(), short_sh_interrupt()
short_interrupt ==
    /\ shMode \in {"plain", "shared"}
    /\ \/ /\ shIrq /\ shWire /\ shTop = "idle"
          /\ shWire' = FALSE
          /\ shHead' = short_incr_bp(shHead, 2)
          /\ shTop' = "wakes" /\ UNCHANGED shPc
       \/ /\ shTop = "wakes" /\ ShWakes
          /\ shTop' = "idle" /\ UNCHANGED <<shWire, shHead>>
    /\ UNCHANGED <<shLoaded, shTail, shTimes, shSched, shBh, shCopied>>

\* Slip: only the first interrupt schedules.
ShSchedulesFirst == shCount = 0 \/ shSched

ShSchedules == TRUE

\* short_wq_interrupt(), short_tl_interrupt()
ShTopHalf ==
    /\ shMode \in {"tasklet", "wq"}
    /\ \/ /\ shIrq /\ shWire /\ shTop = "idle" /\ shCount < ShMaxCount
          /\ shWire' = FALSE
          /\ shTvHead' = short_incr_tv(shTvHead)
          /\ shTop' = "schedules" /\ UNCHANGED <<shSched, shCount>>
       \/ /\ shTop = "schedules" /\ shSched' = ShSchedules
          /\ shTop' = "counts" /\ UNCHANGED <<shWire, shTvHead, shCount>>
       \/ /\ shTop = "counts" /\ shCount' = shCount + 1
          /\ shTop' = "idle" /\ UNCHANGED <<shWire, shTvHead, shSched>>
    /\ UNCHANGED <<shLoaded, shPage, shTvTail, shBh, shPc, shCopied>>

\* One at a time.  The count is saved and reset, then printed; the times are
\* printed until the tail has caught up, and at least one.
short_do_tasklet ==
    /\ \/ /\ shSched /\ shBh = "idle"
          /\ shSched' = FALSE /\ shCount' = 0
          /\ shBh' = "count" /\ UNCHANGED <<shHead, shTvTail, shPc>>
       \/ /\ shBh = "count"
          /\ shHead' = short_incr_bp(shHead, 2)
          /\ shBh' = "times" /\ UNCHANGED <<shSched, shCount, shTvTail, shPc>>
       \/ /\ shBh = "times"
          /\ shHead' = short_incr_bp(shHead, 2)
          /\ shTvTail' = short_incr_tv(shTvTail)
          /\ shBh' = (IF shTvTail' = shTvHead THEN "wakes" ELSE "times")
          /\ UNCHANGED <<shSched, shCount, shPc>>
       \/ /\ shBh = "wakes" /\ ShWakes
          /\ shBh' = "idle" /\ UNCHANGED <<shSched, shCount, shHead, shTvTail>>
    /\ UNCHANGED <<shLoaded, shTail, shTvHead, shWire, shTop, shCopied>>

-----------------------------------------------------------------------------
(* Readers                                                                   *)

ShGoes(r, from, to) == shPc[r] = from /\ shPc' = [shPc EXCEPT ![r] = to]

\* The loop; a reader is on the queue when he tests the second time.
ShWaits(r) ==
    /\ \/ shMode # "none" /\ ShGoes(r, "out", "tests")
       \/ shHead # shTail /\ ShGoes(r, "tests", "counts")
       \/ shHead = shTail /\ ShGoes(r, "tests", "queued")
       \/ shHead # shTail /\ ShGoes(r, "queued", "tests")
       \/ shHead = shTail /\ ShGoes(r, "queued", "asleep")
       \/ ShGoes(r, "asleep", "out")    \* a signal
    /\ UNCHANGED <<shLoaded, shPage, shTimes, shWire, shTop, shSched, shBh, shCopied>>

\* Not past the end of the page.
ShReadable == IF shHead >= shTail THEN shHead - shTail ELSE ShPage - shTail

short_i_read(r) ==
    /\ \/ /\ ShGoes(r, "counts", "copies")
          /\ \E n \in {0, 1, 2, ShPage} :
                shCopied' = [shCopied EXCEPT ![r] = IF n < ShReadable THEN n ELSE ShReadable]
          /\ UNCHANGED shTail
       \/ /\ ShGoes(r, "copies", "out")
          /\ shTail' = short_incr_bp(shTail, shCopied[r])
          /\ shCopied' = [shCopied EXCEPT ![r] = 0]
    /\ UNCHANGED <<shLoaded, shHead, shTimes, shWire, shTop, shSched, shBh>>

-----------------------------------------------------------------------------
ShNext == \/ short_init \/ short_cleanup \/ short_i_write
          \/ short_interrupt \/ ShTopHalf \/ short_do_tasklet
          \/ \E r \in ShReaders : ShWaits(r) \/ short_i_read(r)

ShSpec == ShInit /\ [][ShNext]_shVars

-----------------------------------------------------------------------------
(* An interrupt reaches the readers: while times are to be printed the bottom *)
(* half is scheduled or at work, or the handler is about to schedule it, and  *)
(* nobody sleeps on records for which no wake-up is on its way, if there is   *)
(* one reader (short.c:268-291, :323-429).                                    *)
InterruptsReachReaders ==
    /\ shTvHead # shTvTail => shSched \/ shBh \in {"count", "times"} \/ shTop = "schedules"
    /\ \A r \in ShReaders : shPc[r] = "asleep" /\ shHead # shTail =>
          shTop = "wakes" \/ shBh \in {"times", "wakes"}
=============================================================================
