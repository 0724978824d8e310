----------------------------- MODULE ScullAccess ----------------------------
(***************************************************************************)
(* The access control of scull/access.c: one of four devices is used by     *)
(* processes that open it, read or write it under its mutex, and close it.  *)
(*                                                                          *)
(*   scullsingle   an atomic counter lets one file in                       *)
(*   sculluid      files of one user                                        *)
(*   scullwuid     the same, and the others wait                            *)
(*   scullpriv     a device of its own for each terminal, made by the first *)
(*                 open and kept until the module goes                      *)
(*                                                                          *)
(* One action per section under a spinlock, or per atomic operation.        *)
(* Definitions introduced as a slip serve to test the properties only.      *)
(***************************************************************************)
EXTENDS Integers, FiniteSets

CONSTANTS
    AcProcs, AcTtys,
    AcUsers, AcUserZero,   \* user ids, and the one that is 0
    AcUid, AcEuid, AcTty,  \* of each process
    AcRoot,                \* processes with CAP_DAC_OVERRIDE
    AcWronly, AcNonblock   \* processes that open O_WRONLY, and O_NONBLOCK

ASSUME AcAssumption ==
    /\ IsFiniteSet(AcProcs)
    /\ AcUid \in [AcProcs -> AcUsers] /\ AcEuid \in [AcProcs -> AcUsers]
    /\ AcUserZero \in AcUsers
    /\ AcTty \in [AcProcs -> AcTtys]
    /\ AcRoot \subseteq AcProcs
    /\ AcWronly \subseteq AcProcs /\ AcNonblock \subseteq AcProcs

AcDevices == {"single", "uid", "wuid", "priv"}

VARIABLES
    acDev,      \* which of the devices this is
    acPc,       \* where each process is
    acAvail,    \* scull_s_available
    acCount,    \* scull_u_count, scull_w_count
    acOwner,    \* scull_u_owner, scull_w_owner
    acList,     \* keys of scull_c_list
    acHurt      \* history: has an open trimmed data that another process was using?

acVars == <<acDev, acPc, acAvail, acCount, acOwner, acList, acHurt>>

AcInit ==
    /\ acDev \in AcDevices
    /\ acPc = [p \in AcProcs |-> "out"]
    /\ acAvail = 1
    /\ acCount = 0 /\ acOwner = AcUserZero
    /\ acList = {}
    /\ acHurt = FALSE

\* trim: open, on the way to the trim of O_WRONLY; section: under dev->mutex.
AcInside == {"trim", "open", "section"}
AcHolders == {p \in AcProcs : acPc[p] \in AcInside}

AcGoes(p, from, to) == acPc[p] = from /\ acPc' = [acPc EXCEPT ![p] = to]
AcEnters(p) == acPc' = [acPc EXCEPT ![p] = IF p \in AcWronly THEN "trim" ELSE "open"]

AcSameDevice(p, r) == acDev = "priv" => AcTty[p] = AcTty[r]

\* scull_trim() of an open that is write-only; it takes no mutex.
AcTrim(p) ==
    /\ AcGoes(p, "trim", "open")
    /\ acHurt' = (acHurt \/ \E r \in AcProcs \ {p} : acPc[r] = "section" /\ AcSameDevice(p, r))
    /\ UNCHANGED <<acDev, acAvail, acCount, acOwner, acList>>

\* scull_read(), scull_write() of the bare device.
AcUse(p) ==
    /\ \/ /\ AcGoes(p, "open", "section")
          /\ ~ \E r \in AcProcs : acPc[r] = "section" /\ AcSameDevice(p, r)
       \/ AcGoes(p, "section", "open")
    /\ UNCHANGED <<acDev, acAvail, acCount, acOwner, acList, acHurt>>

-----------------------------------------------------------------------------
(* scullsingle                                                               *)

AcSingleOpen(p) ==
    /\ acDev = "single" /\ acPc[p] = "out"
    /\ acAvail' = acAvail - 1
    /\ \/ acAvail' = 0 /\ AcEnters(p)
       \/ acAvail' # 0 /\ AcGoes(p, "out", "busy")
    /\ UNCHANGED <<acDev, acCount, acOwner, acList, acHurt>>

\* Slip: the loser resets the counter.
AcSingleBusyResets(p) ==
    /\ AcGoes(p, "busy", "out")
    /\ acAvail' = 1
    /\ UNCHANGED <<acDev, acCount, acOwner, acList, acHurt>>

AcSingleBusy(p) ==
    /\ AcGoes(p, "busy", "out")
    /\ acAvail' = acAvail + 1
    /\ UNCHANGED <<acDev, acCount, acOwner, acList, acHurt>>

AcSingleRelease(p) ==
    /\ acDev = "single" /\ AcGoes(p, "open", "out")
    /\ acAvail' = acAvail + 1
    /\ UNCHANGED <<acDev, acCount, acOwner, acList, acHurt>>

-----------------------------------------------------------------------------
(* sculluid                                                                  *)

\* Slip: the owner is whoever has opened it last.
AcGrabAlways(p) == AcUid[p]

AcGrab(p) == IF acCount = 0 THEN AcUid[p] ELSE acOwner

AcAllowed(p) == acCount = 0 \/ acOwner \in {AcUid[p], AcEuid[p]} \/ p \in AcRoot

\* A process of another user gets -EBUSY.
AcUserOpen(p) ==
    /\ acDev = "uid" /\ acPc[p] = "out"
    /\ AcAllowed(p)
    /\ acOwner' = AcGrab(p)
    /\ acCount' = acCount + 1
    /\ AcEnters(p)
    /\ UNCHANGED <<acDev, acAvail, acList, acHurt>>

AcUserRelease(p) ==
    /\ acDev = "uid" /\ AcGoes(p, "open", "out")
    /\ acCount' = acCount - 1
    /\ UNCHANGED <<acDev, acAvail, acOwner, acList, acHurt>>

-----------------------------------------------------------------------------
(* scullwuid                                                                 *)

\* A section under scull_w_lock.
AcWaitOpen(p) ==
    /\ acDev = "wuid" /\ acPc[p] \in {"out", "awake"}
    /\ \/ /\ AcAllowed(p)
          /\ acOwner' = AcGrab(p)
          /\ acCount' = acCount + 1
          /\ AcEnters(p)
       \/ /\ ~ AcAllowed(p) /\ p \notin AcNonblock
          /\ acPc' = [acPc EXCEPT ![p] = "wait"]
          /\ UNCHANGED <<acCount, acOwner>>
    /\ UNCHANGED <<acDev, acAvail, acList, acHurt>>

\* wait_event_interruptible(): the process is on the queue before it tests.
AcWait(p) ==
    /\ \/ AcAllowed(p) /\ AcGoes(p, "wait", "awake")
       \/ ~ AcAllowed(p) /\ AcGoes(p, "wait", "asleep")
    /\ UNCHANGED <<acDev, acAvail, acCount, acOwner, acList, acHurt>>

\* A signal.
AcInterrupted(p) ==
    /\ AcGoes(p, "asleep", "out")
    /\ UNCHANGED <<acDev, acAvail, acCount, acOwner, acList, acHurt>>

\* Slip: the count is looked at before it is decremented.
AcLastEarly == acCount = 0

\* Was this the last file?  (acCount is the count of before.)
AcLast == acCount = 1

AcWaitRelease(p) ==
    /\ acDev = "wuid" /\ AcGoes(p, "open", IF AcLast THEN "wakes" ELSE "out")
    /\ acCount' = acCount - 1
    /\ UNCHANGED <<acDev, acAvail, acOwner, acList, acHurt>>

AcWakes(p) ==
    /\ acPc[p] = "wakes"
    /\ acPc' = [r \in AcProcs |-> CASE r = p -> "out"
                                    [] acPc[r] = "asleep" -> "wait"
                                    [] OTHER -> acPc[r]]
    /\ UNCHANGED <<acDev, acAvail, acCount, acOwner, acList, acHurt>>

-----------------------------------------------------------------------------
(* scullpriv: the list is searched, and extended, under scull_c_lock; a      *)
(* kmalloc() that fails ends the open.                                       *)

AcPrivOpen(p) ==
    /\ acDev = "priv" /\ acPc[p] = "out"
    /\ acList' = acList \cup {AcTty[p]}
    /\ AcEnters(p)
    /\ UNCHANGED <<acDev, acAvail, acCount, acOwner, acHurt>>

AcPrivRelease(p) ==
    /\ acDev = "priv" /\ AcGoes(p, "open", "out")
    /\ UNCHANGED <<acDev, acAvail, acCount, acOwner, acList, acHurt>>

\* scull_access_cleanup(), and the next load: no file is open.
AcCleanup ==
    /\ acList # {} /\ \A p \in AcProcs : acPc[p] = "out"
    /\ acList' = {}
    /\ UNCHANGED <<acDev, acPc, acAvail, acCount, acOwner, acHurt>>

-----------------------------------------------------------------------------
AcSingle(p) == AcSingleOpen(p) \/ AcSingleBusy(p) \/ AcSingleRelease(p)
AcUser(p)   == AcUserOpen(p) \/ AcUserRelease(p)
AcWuid(p)   == AcWaitOpen(p) \/ AcWait(p) \/ AcInterrupted(p) \/ AcWaitRelease(p) \/ AcWakes(p)
AcPriv(p)   == AcPrivOpen(p) \/ AcPrivRelease(p)

AcNext == \/ \E p \in AcProcs : \/ AcTrim(p) \/ AcUse(p)
                                \/ AcSingle(p) \/ AcUser(p) \/ AcWuid(p) \/ AcPriv(p)
          \/ AcCleanup

AcSpec == AcInit /\ [][AcNext]_acVars

-----------------------------------------------------------------------------
(* The single-open device is never open twice, although losers count too     *)
(* until they have given back what they took (access.c:59-62), so its trim   *)
(* needs no mutex.                                                           *)
OneAtATime == acDev = "single" => Cardinality(AcHolders) <= 1 /\ ~ acHurt

(* While files are open the owner is not replaced: everyone inside is the    *)
(* owner, has become the owner with su, or is root (access.c:103-128,        *)
(* :165-196).                                                                *)
OwnersOnly ==
    acDev \in {"uid", "wuid"} =>
        /\ acCount = Cardinality(AcHolders)
        /\ \A p \in AcHolders : acOwner \in {AcUid[p], AcEuid[p]} \/ p \in AcRoot

(* Nobody sleeps before a device that is free for him, unless the wake-up is *)
(* on its way; only the last release wakes, and after the unlock             *)
(* (access.c:198-210).                                                       *)
BlockedOpenServed ==
    \A p \in AcProcs : acPc[p] = "asleep" /\ AcAllowed(p) =>
        \E r \in AcProcs : acPc[r] = "wakes"
=============================================================================
