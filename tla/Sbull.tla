------------------------------- MODULE Sbull --------------------------------
(***************************************************************************)
(* The RAM disk of sbull/sbull.c: requests in one of its three modes, and   *)
(* the media that changes, in simulation, when the disk has been closed for *)
(* INVALIDATE_DELAY: a timer sets media_change, and the next first open     *)
(* erases the data.                                                         *)
(*                                                                          *)
(* The block layer holds bd_mutex over open and release, and lets a file go *)
(* only when its requests are done.  One action per section under dev->lock *)
(* (which a request function is called with) and per segment of a bio that  *)
(* has no queue.  Definitions introduced as a slip serve to test the        *)
(* properties only.                                                         *)
(***************************************************************************)
EXTENDS Integers, Sequences, SequencesExt

CONSTANTS
    SbProcs,
    SbSectors,   \* of the device; requests may reach beyond
    SbSegments   \* the segments of a request: sequences of sectors

ASSUME SbAssumption == SbSectors \in Nat \ {0} /\ \A q \in SbSegments : q \in Seq(Nat) /\ q # <<>>

VARIABLES
    sbModule,   \* none, disk, failed: not loaded, loaded, loaded without a disk
    sbMode,     \* request_mode: simple, full, noqueue
    sbPc,       \* each process: out, opens, open
    sbUsers,    \* dev->users
    sbChange,   \* dev->media_change
    sbTimer,    \* is dev->timer pending?
    sbCb,       \* is sbull_invalidate() about to run?
    sbData,     \* dev->data: the sectors that hold something
    sbQueue,    \* the request queue, by process
    sbReq,      \* the request of each process
    sbIdle      \* history: expiries of the timer that have not erased the data

sbMedia == <<sbUsers, sbChange, sbTimer, sbCb, sbIdle>>
sbVars  == <<sbModule, sbMode, sbPc, sbMedia, sbData, sbQueue, sbReq>>

NoRequest == [state |-> "none", fs |-> FALSE, write |-> FALSE, segs |-> <<>>, left |-> <<>>, moved |-> {}]

SbInit ==
    /\ sbModule = "none"
    /\ sbMode \in {"simple", "full", "noqueue"}
    /\ sbPc = [p \in SbProcs |-> "out"]
    /\ sbUsers = 0 /\ sbChange = FALSE /\ sbTimer = FALSE /\ sbCb = FALSE /\ sbIdle = 0
    /\ sbData = {} /\ sbQueue = <<>>
    /\ sbReq = [p \in SbProcs |-> NoRequest]

-----------------------------------------------------------------------------
(* The module                                                                *)

\* sbull_init(): a device that cannot be set up is skipped.
setup_device ==
    /\ sbModule = "none" /\ sbModule' \in {"disk", "failed"}
    /\ UNCHANGED <<sbMode, sbPc, sbMedia, sbData, sbQueue, sbReq>>

\* Slip: the disk goes with its timer armed.
ExitKeepsTimer ==
    /\ sbModule # "none" /\ \A p \in SbProcs : sbPc[p] = "out"
    /\ sbModule' = "none"
    /\ sbChange' = FALSE /\ sbIdle' = 0 /\ sbData' = {}
    /\ UNCHANGED <<sbMode, sbPc, sbUsers, sbTimer, sbCb, sbQueue, sbReq>>

\* No file is open; del_timer_sync() waits for the callback.
sbull_exit ==
    /\ sbModule # "none" /\ \A p \in SbProcs : sbPc[p] = "out"
    /\ ~ sbCb /\ sbTimer' = FALSE
    /\ sbModule' = "none"
    /\ sbChange' = FALSE /\ sbIdle' = 0 /\ sbData' = {}
    /\ UNCHANGED <<sbMode, sbPc, sbUsers, sbCb, sbQueue, sbReq>>

-----------------------------------------------------------------------------
(* Open, release and the media                                               *)

BdMutexFree == \A p \in SbProcs : sbPc[p] # "opens"

\* del_timer_sync() waits for the callback.
sbull_open(p) ==
    /\ sbModule = "disk" /\ sbPc[p] = "out" /\ BdMutexFree
    /\ ~ sbCb /\ sbTimer' = FALSE
    /\ sbPc' = [sbPc EXCEPT ![p] = "opens"]
    /\ UNCHANGED <<sbModule, sbMode, sbUsers, sbChange, sbCb, sbIdle, sbData, sbQueue, sbReq>>

\* Slip: the flag stays set.
RevalidateKeeps == IF sbChange THEN sbData' = {} /\ sbIdle' = 0 /\ UNCHANGED sbChange
                               ELSE UNCHANGED <<sbData, sbIdle, sbChange>>

sbull_revalidate == IF sbChange THEN sbData' = {} /\ sbIdle' = 0 /\ sbChange' = FALSE
                                ELSE UNCHANGED <<sbData, sbIdle, sbChange>>

\* check_disk_change(), for the first user.
SbOpens(p) ==
    /\ sbPc[p] = "opens" /\ sbPc' = [sbPc EXCEPT ![p] = "open"]
    /\ IF sbUsers = 0 THEN sbull_revalidate ELSE UNCHANGED <<sbData, sbIdle, sbChange>>
    /\ sbUsers' = sbUsers + 1
    /\ UNCHANGED <<sbModule, sbMode, sbTimer, sbCb, sbQueue, sbReq>>

sbull_release(p) ==
    /\ sbPc[p] = "open" /\ BdMutexFree
    /\ sbReq[p].state # "queued"
    /\ sbPc' = [sbPc EXCEPT ![p] = "out"]
    /\ sbReq' = [sbReq EXCEPT ![p] = NoRequest]
    /\ sbUsers' = sbUsers - 1
    /\ sbTimer' = (sbTimer \/ sbUsers = 1)
    /\ UNCHANGED <<sbModule, sbMode, sbChange, sbCb, sbIdle, sbData, sbQueue>>

SbTimerFires ==
    /\ sbTimer /\ sbTimer' = FALSE /\ sbCb' = TRUE
    /\ UNCHANGED <<sbModule, sbMode, sbPc, sbUsers, sbChange, sbIdle, sbData, sbQueue, sbReq>>

sbull_invalidate ==
    /\ sbCb /\ sbCb' = FALSE
    /\ IF sbUsers # 0 THEN UNCHANGED <<sbChange, sbIdle>> ELSE sbChange' = TRUE /\ sbIdle' = 1
    /\ UNCHANGED <<sbModule, sbMode, sbPc, sbUsers, sbTimer, sbData, sbQueue, sbReq>>

-----------------------------------------------------------------------------
(* Requests                                                                  *)

SbSubmits(p) ==
    /\ sbPc[p] = "open" /\ sbReq[p].state # "queued"
    /\ \E q \in SbSegments, fs \in BOOLEAN, write \in BOOLEAN :
          sbReq' = [sbReq EXCEPT ![p] = [state |-> "queued", fs |-> fs, write |-> write,
                                         segs |-> q, left |-> q, moved |-> {}]]
    /\ sbQueue' = IF sbMode = "noqueue" THEN sbQueue ELSE Append(sbQueue, p)
    /\ UNCHANGED <<sbModule, sbMode, sbPc, sbMedia, sbData>>

\* What lies beyond the end is left out, and counted as done.
InDevice(s) == s < SbSectors

\* sbull_transfer() of the first n segments of the request of p, which is
\* completed with the last one.
Transfers(p, n) ==
    LET r == sbReq[p]
        m == {s \in ToSet(SubSeq(r.left, 1, n)) : InDevice(s)}
        l == SubSeq(r.left, n + 1, Len(r.left))
    IN  /\ sbReq' = [sbReq EXCEPT ![p] = [r EXCEPT !.left = l, !.moved = @ \cup m,
                                          !.state = IF l = <<>> THEN "done" ELSE "queued"]]
        /\ sbData' = IF r.write THEN sbData \cup m ELSE sbData
        /\ sbQueue' = IF sbQueue # <<>> /\ l = <<>> THEN Tail(sbQueue) ELSE sbQueue

\* A request of another kind is ended as it is.
Skips(p) ==
    /\ sbReq' = [sbReq EXCEPT ![p].state = "done"]
    /\ sbQueue' = Tail(sbQueue)
    /\ UNCHANGED sbData

Head0 == sbQueue[1]

\* One segment at a time.
sbull_request ==
    /\ sbMode = "simple" /\ sbQueue # <<>>
    /\ \/ sbReq[Head0].fs /\ Transfers(Head0, 1)
       \/ ~ sbReq[Head0].fs /\ Skips(Head0)
    /\ UNCHANGED <<sbModule, sbMode, sbPc, sbMedia>>

\* sbull_xfer_request(): every segment of every bio.
XferRequest(r) == Len(r.left)

sbull_full_request ==
    /\ sbMode = "full" /\ sbQueue # <<>>
    /\ \/ sbReq[Head0].fs /\ Transfers(Head0, XferRequest(sbReq[Head0]))
       \/ ~ sbReq[Head0].fs /\ Skips(Head0)
    /\ UNCHANGED <<sbModule, sbMode, sbPc, sbMedia>>

\* In the process that submits the bio, without the lock.
sbull_make_request(p) ==
    /\ sbMode = "noqueue" /\ sbReq[p].state = "queued"
    /\ Transfers(p, 1)
    /\ UNCHANGED <<sbModule, sbMode, sbPc, sbMedia>>

-----------------------------------------------------------------------------
SbNext == \/ \E p \in SbProcs : \/ sbull_open(p) \/ SbOpens(p) \/ sbull_release(p)
                                \/ SbSubmits(p) \/ sbull_make_request(p)
          \/ setup_device \/ sbull_exit \/ SbTimerFires \/ sbull_invalidate \/ sbull_request \/ sbull_full_request

SbSpec == SbInit /\ [][SbNext]_sbVars

-----------------------------------------------------------------------------
(* The data is erased only if the disk has been closed for the delay, once    *)
(* for each time, and never under a user, although revalidate takes no lock   *)
(* and the timer races the open; and a module that goes takes the timer of    *)
(* the last release with it (sbull.c:206-275, :427-451).                      *)
MediaKept ==
    [][/\ ~ (sbData \subseteq sbData') => sbModule' = "none" \/ (sbUsers = 0 /\ sbIdle = 1)
       /\ sbModule' = "none" => ~ sbTimer' /\ ~ sbCb']_sbVars
=============================================================================
