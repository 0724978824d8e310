----------------------------- MODULE DdkDevice -----------------------------
(***************************************************************************)
(* The life of a DDK memory device: ddk_probe, ddk_open, ddk_close and      *)
(* ddk_disconnect of misc-modules/ddk_mem.c, around the extension state of  *)
(* DdkExt.  The writers of DdkExt are the open files of the device: a file  *)
(* may call on_write_success and on_write_fail while it is open, and the    *)
(* cleanup of DdkExt is the one ddk_disconnect calls.                       *)
(*                                                                          *)
(* From the USB core the driver gets: a lock (minor_rwsem) that an open     *)
(* holds from the look-up of the minor to its end and that                  *)
(* usb_deregister_dev() takes exclusively; probe and disconnect of one      *)
(* interface never overlap; and, as fops.owner is THIS_MODULE, no rmmod     *)
(* while a file is open.                                                    *)
(*                                                                          *)
(* Definitions introduced as a slip serve to test the properties only.      *)
(***************************************************************************)
EXTENDS DdkExt

CONSTANTS
    Unplug,       \* TRUE: the board may be pulled out; FALSE: only rmmod
    Faults        \* may registration, allocation and messages fail?

ASSUME DdkDeviceAssumption ==
    /\ IsFiniteSet(Writers)
    /\ Unplug \in BOOLEAN
    /\ Faults \in BOOLEAN
    /\ ~Drained          \* whether writers leave first is for this module to say

VARIABLES
    life,      \* progress of ddk_probe, then of ddk_disconnect
    minor,     \* the minor is registered
    intfdata,  \* usb_get_intfdata() # NULL
    inBuf,     \* in_buf_size # 0: the interface has the IN endpoint
    mutex,     \* dev->m: "free", "probe", or "leaked"
    file,      \* where each file is
    openCnt

lifeVars == <<life, minor, intfdata, inBuf, mutex, file, openCnt>>
allVars  == <<lifeVars, vars>>

DeviceInit ==
    /\ Init
    /\ life = "absent"
    /\ minor = FALSE /\ intfdata = FALSE /\ inBuf \in BOOLEAN
    /\ mutex = "free"
    /\ file = [w \in Writers |-> "closed"]
    /\ openCnt = 0

Opening(w) == file[w] \in {"found", "opening"}

-----------------------------------------------------------------------------
(* ddk_probe                                                                 *)

\* Slip: the mutex is not held while the device is published.
ProbeRegisterUnlocked ==
    /\ life = "absent"
    /\ life' = "registered" /\ minor' = TRUE
    /\ UNCHANGED <<intfdata, inBuf, mutex, file, openCnt, vars>>

\* The mutex is taken before the minor becomes visible.
ProbeRegister ==
    /\ life = "absent"
    /\ \/ life' = "registered" /\ minor' = TRUE /\ mutex' = "probe"
       \/ Faults /\ life' = "gone" /\ UNCHANGED <<minor, mutex>>
    /\ UNCHANGED <<intfdata, inBuf, file, openCnt, vars>>

ProbeSetData ==
    /\ life = "registered"
    /\ life' = "bound" /\ intfdata' = TRUE
    /\ UNCHANGED <<minor, inBuf, mutex, file, openCnt, vars>>

\* Slip: probe returns with the mutex held.
ProbeInitLocked ==
    /\ life = "bound"
    /\ life' = "live"
    /\ UNCHANGED <<minor, intfdata, inBuf, mutex, file, openCnt, vars>>

\* ddk_ext_init() has run: DdkExt is in its initial state.
ProbeInit ==
    /\ life = "bound"
    /\ life' = "live" /\ mutex' = "free"
    /\ UNCHANGED <<minor, intfdata, inBuf, file, openCnt, vars>>

-----------------------------------------------------------------------------
(* ddk_open and ddk_close                                                    *)

\* Slip: the interface data are not tested for NULL.
OpenFindUnchecked(w) ==
    /\ file[w] = "closed"
    /\ minor
    /\ file' = [file EXCEPT ![w] = "found"]
    /\ UNCHANGED <<life, minor, intfdata, inBuf, mutex, openCnt, vars>>

\* usb_find_interface() and usb_get_intfdata().  A module on its way out
\* takes no new file.
OpenFind(w) ==
    /\ file[w] = "closed"
    /\ minor /\ intfdata
    /\ Unplug \/ life \in {"registered", "bound", "live"}
    /\ file' = [file EXCEPT ![w] = "found"]
    /\ UNCHANGED <<life, minor, intfdata, inBuf, mutex, openCnt, vars>>

\* The locked section; without memory it returns with the mutex held.
OpenLock(w) ==
    /\ file[w] = "found" /\ mutex = "free"
    /\ \/ inBuf /\ file' = [file EXCEPT ![w] = "opening"] /\ UNCHANGED mutex
       \/ ~inBuf /\ file' = [file EXCEPT ![w] = "closed"] /\ UNCHANGED mutex
       \/ inBuf /\ Faults /\ file' = [file EXCEPT ![w] = "closed"] /\ mutex' = "leaked"
    /\ UNCHANGED <<life, minor, intfdata, inBuf, openCnt, vars>>

\* Slip: the open is counted before it has succeeded.
OpenEndCounted(w) ==
    /\ file[w] = "opening"
    /\ \/ file' = [file EXCEPT ![w] = "open"]
       \/ Faults /\ file' = [file EXCEPT ![w] = "closed"]
    /\ openCnt' = openCnt + 1
    /\ UNCHANGED <<life, minor, intfdata, inBuf, mutex, vars>>

\* The two set_off() messages, then atomic_inc().
OpenEnd(w) ==
    /\ file[w] = "opening"
    /\ \/ file' = [file EXCEPT ![w] = "open"] /\ openCnt' = openCnt + 1
       \/ Faults /\ file' = [file EXCEPT ![w] = "closed"] /\ UNCHANGED openCnt
    /\ UNCHANGED <<life, minor, intfdata, inBuf, mutex, vars>>

\* Slip: a close does not give its count back.
CloseUncounted(w) ==
    /\ file[w] = "open" /\ wr[w] = "idle"
    /\ life # "gone"
    /\ file' = [file EXCEPT ![w] = "closed"]
    /\ UNCHANGED <<life, minor, intfdata, inBuf, mutex, openCnt, vars>>

Close(w) ==
    /\ file[w] = "open" /\ wr[w] = "idle"
    /\ life # "gone"                \* dev is freed: open_cnt is gone
    /\ file' = [file EXCEPT ![w] = "closed"]
    /\ openCnt' = openCnt - 1
    /\ UNCHANGED <<life, minor, intfdata, inBuf, mutex, vars>>

-----------------------------------------------------------------------------
(* ddk_disconnect                                                            *)

\* Slip: fops.owner is not set, rmmod does not wait for the files.
UnbindAnyTime ==
    /\ life = "live"
    /\ life' = "unbound" /\ intfdata' = FALSE
    /\ UNCHANGED <<minor, inBuf, mutex, file, openCnt, vars>>

Unbind ==
    /\ life = "live"
    /\ Unplug \/ \A w \in Writers : file[w] = "closed"
    /\ life' = "unbound" /\ intfdata' = FALSE
    /\ UNCHANGED <<minor, inBuf, mutex, file, openCnt, vars>>

\* usb_deregister_dev() waits for the opens in progress.
Deregister ==
    /\ life = "unbound"
    /\ \A w \in Writers : ~Opening(w)
    /\ life' = "noMinor" /\ minor' = FALSE
    /\ UNCHANGED <<intfdata, inBuf, mutex, file, openCnt, vars>>

\* mutex_lock(); mutex_unlock()
PassMutex ==
    /\ life = "noMinor" /\ mutex = "free"
    /\ life' = "cleaning"
    /\ UNCHANGED <<minor, intfdata, inBuf, mutex, file, openCnt, vars>>

\* kfree() after ddk_ext_cleanup()
Free ==
    /\ life = "cleaning" /\ cleanup = "done"
    /\ life' = "gone"
    /\ UNCHANGED <<minor, intfdata, inBuf, mutex, file, openCnt, vars>>

-----------------------------------------------------------------------------
(* The extension at work.                                                    *)
ExtReady == life \notin {"absent", "registered", "bound", "gone"}

FileWrites(w) ==
    /\ file[w] = "open" /\ ExtReady
    /\ Writer(w)
    /\ UNCHANGED lifeVars

ExtRuns ==
    /\ ExtReady
    /\ ProcWrite \/ TimerRuns \/ WorkerRuns
    /\ UNCHANGED lifeVars

Cleans == life = "cleaning" /\ CleanupRuns /\ UNCHANGED lifeVars

Probe      == ProbeRegister \/ ProbeSetData \/ ProbeInit
Opens(w)   == OpenFind(w) \/ OpenLock(w) \/ OpenEnd(w) \/ Close(w)
Disconnect == Unbind \/ Deregister \/ PassMutex \/ Free

DeviceNext ==
    \/ Probe \/ Disconnect \/ Cleans \/ ExtRuns
    \/ \E w \in Writers : Opens(w) \/ FileWrites(w)

DeviceSpec == DeviceInit /\ [][DeviceNext]_allVars

(***************************************************************************)
(* A thread inside the driver runs on: probe, an open, on_write_success, a   *)
(* disconnect that has begun.  An armed timer expires and a queued item is   *)
(* picked up.  Nobody has to open, write, give a command or unplug the board. *)
(* StopTimer is strongly fair: a timer that re-arms itself is pending for a  *)
(* jiffy at least each time, and timer_delete_sync() spins until it finds it *)
(* so.                                                                       *)
(***************************************************************************)
Fairness ==
    /\ WF_allVars(Probe)
    /\ WF_allVars(Deregister \/ PassMutex \/ Free)
    /\ WF_allVars(ExtRuns /\ TimerRuns)
    /\ WF_allVars(ExtRuns /\ WorkerRuns)
    /\ SF_allVars(Cleans /\ StopTimer)
    /\ WF_allVars(Cleans)
    /\ \A w \in Writers : /\ WF_allVars(OpenLock(w) \/ OpenEnd(w))
                          /\ WF_allVars(FileWrites(w) /\ (ArmTimer(w) \/ QueueBlink(w)))

DeviceFairSpec == DeviceSpec /\ Fairness

-----------------------------------------------------------------------------
(* The life cycle's variables keep their types.                               *)
DeviceTypeOK ==
    /\ life \in {"absent", "registered", "bound", "live", "unbound", "noMinor",
                 "cleaning", "gone"}
    /\ minor \in BOOLEAN /\ intfdata \in BOOLEAN /\ inBuf \in BOOLEAN
    /\ mutex \in {"free", "probe", "leaked"}
    /\ file \in [Writers -> {"closed", "found", "opening", "open"}]
    /\ openCnt \in 0 .. Cardinality(Writers)

(* An open never works on a device that is not there yet or no more, although *)
(* it looks the pointer up without a lock (:105; the TODO of :491): it has to *)
(* end before usb_deregister_dev(), and the pointer is published last.        *)
OpenerSafe ==
    \A w \in Writers : Opening(w) => life \in {"bound", "live", "unbound"}

(* No file gets past the locked section of ddk_open before ddk_ext_init() has *)
(* run, although probe publishes the device first (:451-467; TODO of :447).   *)
NoUseBeforeInit ==
    \A w \in Writers : file[w] \in {"opening", "open"} =>
        life \notin {"absent", "registered", "bound"}

(* Removing the module finds every file closed when it takes the extension    *)
(* down and frees the device.                                                 *)
FilesClosedFirst ==
    life \in {"cleaning", "gone"} =>
        openCnt = 0 /\ \A w \in Writers : file[w] = "closed"

(* A disconnect comes to its end, unless an open that found no memory has     *)
(* kept the mutex (:118-121).                                                 *)
DisconnectEnds == (life = "unbound") ~> (life = "gone" \/ mutex = "leaked")

(* When only rmmod ends the device, it gives the extension the environment    *)
(* its cleanup relies on: it implements DdkExt with the writers Drained.      *)
DrainedExt == INSTANCE DdkExt WITH Drained <- TRUE
ImplementsDrainedExt == DrainedExt!Spec
=============================================================================
