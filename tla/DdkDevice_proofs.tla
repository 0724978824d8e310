-------------------------- MODULE DdkDevice_proofs --------------------------
(* Theorems about DdkDevice, for any number of files.                        *)
EXTENDS DdkDevice, FiniteSetTheorems, TLAPS

(* Who may be where during the life of the device: by itself inductive.       *)
LifeInv ==
    /\ file \in [Writers -> {"closed", "found", "opening", "open"}]
    /\ life \in {"absent", "registered", "bound", "live", "unbound", "noMinor",
                 "cleaning", "gone"}
    /\ mutex \in {"free", "probe", "leaked"}
    /\ intfdata => life \in {"bound", "live"}
    /\ life \in {"registered", "bound"} => mutex = "probe"
    /\ life = "absent" => \A w \in Writers : file[w] = "closed"
    /\ life = "registered" => \A w \in Writers : file[w] = "closed"
    /\ life = "bound" => \A w \in Writers : file[w] \in {"closed", "found"}
    /\ \A w \in Writers : Opening(w) => life \in {"bound", "live", "unbound"}

(* Probe, opens and disconnect (ddk_mem.c:90-150, :402-500) keep the order of *)
(* life: what each may find, the others have set before.                      *)
LEMMA LifeStep ==
  ASSUME LifeInv, [DeviceNext]_allVars
  PROVE  LifeInv'
<1> USE DEF LifeInv, Opening
<1>1. CASE Probe
  BY <1>1 DEF Probe, ProbeRegister, ProbeSetData, ProbeInit
<1>2. CASE Disconnect
  BY <1>2 DEF Disconnect, Unbind, Deregister, PassMutex, Free
<1>3. CASE Cleans \/ ExtRuns
  BY <1>3 DEF Cleans, ExtRuns, lifeVars
<1>4. ASSUME NEW w \in Writers, Opens(w) PROVE LifeInv'
  BY <1>4 DEF Opens, OpenFind, OpenLock, OpenEnd, Close
<1>5. ASSUME NEW w \in Writers, FileWrites(w) PROVE LifeInv'
  BY <1>5 DEF FileWrites, lifeVars
<1>6. CASE UNCHANGED allVars
  BY <1>6 DEF allVars, lifeVars
<1> QED
  BY <1>1, <1>2, <1>3, <1>4, <1>5, <1>6 DEF DeviceNext

(* LifeInv holds of every run of ddk_probe, ddk_open and ddk_disconnect.      *)
THEOREM LifeCorrect == DeviceSpec => []LifeInv
<1>1. DeviceInit => LifeInv
  BY DEF DeviceInit, LifeInv, Opening
<1> QED
  BY <1>1, LifeStep, PTL DEF DeviceSpec

(* ddk_open is safe against ddk_probe and ddk_disconnect, whatever the TODO   *)
(* of ddk_mem.c:491 leaves open.                                              *)
THEOREM OpensSafe == DeviceSpec => []OpenerSafe
<1>1. LifeInv => OpenerSafe
  BY DEF LifeInv, OpenerSafe
<1> QED
  BY <1>1, LifeCorrect, PTL

(* No file is past the mutex before ddk_ext_init(), which the TODO of         *)
(* ddk_mem.c:447 asks for: the mutex is probe's until then.                   *)
THEOREM InitBeforeUse == DeviceSpec => []NoUseBeforeInit
<1>1. LifeInv => NoUseBeforeInit
  BY DEF LifeInv, NoUseBeforeInit, Opening
<1> QED
  BY <1>1, LifeCorrect, PTL

-----------------------------------------------------------------------------
(* The files that count in open_cnt.                                          *)
OpenFiles == {w \in Writers : file[w] = "open"}

DeviceInv ==
    /\ LifeInv
    /\ minor \in BOOLEAN /\ intfdata \in BOOLEAN /\ inBuf \in BOOLEAN
    /\ openCnt = Cardinality(OpenFiles)

(* An open that succeeds and a close count one file each (ddk_mem.c:139,      *)
(* :147); everything else leaves the files that are open.                     *)
LEMMA CountStep ==
  ASSUME DeviceInv, [DeviceNext]_allVars
  PROVE  openCnt' = Cardinality(OpenFiles')
<1> USE DEF DeviceInv
<1>0. IsFiniteSet(OpenFiles)
  BY DdkDeviceAssumption, FS_Subset DEF DdkDeviceAssumption, OpenFiles
<1>1. ASSUME OpenFiles' = OpenFiles, UNCHANGED openCnt
      PROVE  openCnt' = Cardinality(OpenFiles')
  BY <1>1
<1>2. CASE Probe \/ Disconnect
  BY <1>1, <1>2 DEF Probe, ProbeRegister, ProbeSetData, ProbeInit,
                    Disconnect, Unbind, Deregister, PassMutex, Free, OpenFiles
<1>3. CASE Cleans \/ ExtRuns
  BY <1>1, <1>3 DEF Cleans, ExtRuns, lifeVars, OpenFiles
<1>4. ASSUME NEW w \in Writers, OpenFind(w) \/ OpenLock(w) PROVE openCnt' = Cardinality(OpenFiles')
  BY <1>1, <1>4 DEF OpenFind, OpenLock, LifeInv, OpenFiles
<1>5. ASSUME NEW w \in Writers, OpenEnd(w) PROVE openCnt' = Cardinality(OpenFiles')
  <2>1. CASE file' = [file EXCEPT ![w] = "closed"] /\ UNCHANGED openCnt
    BY <1>1, <1>5, <2>1 DEF OpenEnd, LifeInv, OpenFiles
  <2>2. CASE file' = [file EXCEPT ![w] = "open"] /\ openCnt' = openCnt + 1
    <3>1. OpenFiles' = OpenFiles \cup {w} /\ w \notin OpenFiles
      BY <1>5, <2>2 DEF OpenEnd, LifeInv, OpenFiles
    <3> QED
      BY <1>0, <2>2, <3>1, FS_AddElement
  <2> QED
    BY <1>5, <2>1, <2>2 DEF OpenEnd
<1>6. ASSUME NEW w \in Writers, Close(w) PROVE openCnt' = Cardinality(OpenFiles')
  <2>1. OpenFiles' = OpenFiles \ {w} /\ w \in OpenFiles
    BY <1>6 DEF Close, LifeInv, OpenFiles
  <2> QED
    BY <1>0, <1>6, <2>1, FS_RemoveElement DEF Close
<1>7. ASSUME NEW w \in Writers, FileWrites(w) PROVE openCnt' = Cardinality(OpenFiles')
  BY <1>1, <1>7 DEF FileWrites, lifeVars, OpenFiles
<1>8. CASE UNCHANGED allVars
  BY <1>1, <1>8 DEF allVars, lifeVars, OpenFiles
<1> QED
  BY <1>2, <1>3, <1>4, <1>5, <1>6, <1>7, <1>8 DEF DeviceNext, Opens

(* The life cycle is well typed and open_cnt counts the open files, whatever  *)
(* fails in an open and whenever the device goes.                             *)
LEMMA DeviceCounted == DeviceSpec => []DeviceInv
<1>1. DeviceInit => DeviceInv
  <2> SUFFICES ASSUME DeviceInit PROVE DeviceInv
    OBVIOUS
  <2>1. LifeInv
    BY DEF DeviceInit, LifeInv, Opening
  <2>2. OpenFiles = {}
    BY DEF DeviceInit, OpenFiles
  <2> QED
    BY <2>1, <2>2, FS_EmptySet DEF DeviceInit, DeviceInv
<1>2. DeviceInv /\ [DeviceNext]_allVars => DeviceInv'
  <2> SUFFICES ASSUME DeviceInv, [DeviceNext]_allVars PROVE DeviceInv'
    OBVIOUS
  <2>1. LifeInv'
    BY LifeStep DEF DeviceInv
  <2>2. openCnt' = Cardinality(OpenFiles')
    BY CountStep
  <2>3. (minor \in BOOLEAN /\ intfdata \in BOOLEAN /\ inBuf \in BOOLEAN)'
    BY DEF DeviceInv, DeviceNext, allVars, lifeVars, Probe, ProbeRegister, ProbeSetData, ProbeInit,
           Disconnect, Unbind, Deregister, PassMutex, Free, Cleans, ExtRuns,
           Opens, OpenFind, OpenLock, OpenEnd, Close, FileWrites
  <2> QED
    BY <2>1, <2>2, <2>3 DEF DeviceInv
<1> QED
  BY <1>1, <1>2, PTL DEF DeviceSpec

(* The types of the life cycle; the bound of open_cnt is what takes counting. *)
THEOREM DeviceTyped == DeviceSpec => []DeviceTypeOK
<1>1. DeviceInv => DeviceTypeOK
  <2> SUFFICES ASSUME DeviceInv PROVE DeviceTypeOK
    OBVIOUS
  <2>1. OpenFiles \subseteq Writers /\ IsFiniteSet(Writers)
    BY DdkDeviceAssumption DEF DdkDeviceAssumption, OpenFiles
  <2>2. /\ Cardinality(OpenFiles) \in Nat /\ Cardinality(Writers) \in Nat
        /\ Cardinality(OpenFiles) <= Cardinality(Writers)
    BY <2>1, FS_Subset, FS_CardinalityType
  <2> QED
    BY <2>2 DEF DeviceInv, LifeInv, DeviceTypeOK
<1> QED
  BY <1>1, DeviceCounted, PTL

-----------------------------------------------------------------------------
(* With rmmod as the only end, files are closed before the device goes, and   *)
(* only an open file is ever inside on_write_success.                         *)
ClosedInv ==
    /\ life \in {"unbound", "noMinor", "cleaning", "gone"} =>
          \A w \in Writers : file[w] = "closed"
    /\ cleanup # "no" => life \in {"cleaning", "gone"}
    /\ wr \in [Writers -> {"idle", "arm", "queue"}]
    /\ \A w \in Writers : wr[w] # "idle" => file[w] = "open"

(* fops.owner (ddk_mem.c:389) keeps the files and the removal apart.          *)
LEMMA ClosedStep ==
  ASSUME ~Unplug, LifeInv, ClosedInv, [DeviceNext]_allVars
  PROVE  ClosedInv'
<1> USE DEF ClosedInv
<1>1. CASE Probe
  BY <1>1 DEF Probe, ProbeRegister, ProbeSetData, ProbeInit, LifeInv, vars
<1>2. CASE Disconnect
  BY <1>2 DEF Disconnect, Unbind, Deregister, PassMutex, Free, vars
<1>3. CASE Cleans
  BY <1>3 DEF Cleans, CleanupRuns, RemoveProc, StopTimer, CancelWork, FinishCleanup, lifeVars
<1>4. CASE ExtRuns
  BY <1>4 DEF ExtRuns, ProcWrite, ProcTimer, ProcBlink, ProcReset,
              TimerRuns, TimerExpires, TimerRequests, TimerRearms,
              WorkerRuns, WorkStarts, WorkSnapshots, LedOn, LedOff, WorkCounts, lifeVars
<1>5. ASSUME NEW w \in Writers, Opens(w) PROVE ClosedInv'
  BY <1>5 DEF Opens, OpenFind, OpenLock, OpenEnd, Close, LifeInv, Opening, vars
<1>6. ASSUME NEW w \in Writers, FileWrites(w) PROVE ClosedInv'
  BY <1>6 DEF FileWrites, Writer, WriteSuccess, ArmTimer, QueueBlink, WriteFail, lifeVars
<1>7. CASE UNCHANGED allVars
  BY <1>7 DEF allVars, lifeVars, vars
<1> QED
  BY <1>1, <1>2, <1>3, <1>4, <1>5, <1>6, <1>7 DEF DeviceNext

(* Nobody has the device open, or is counted as if he had, when rmmod takes   *)
(* the extension down and frees the device (ddk_mem.c:485-497).               *)
THEOREM RmmodAfterFiles ==
  ASSUME ~Unplug
  PROVE  DeviceSpec => []FilesClosedFirst
<1>1. DeviceInit => ClosedInv
  BY DEF DeviceInit, ClosedInv, Init
<1>2. DeviceInv /\ ClosedInv => FilesClosedFirst
  <2> SUFFICES ASSUME DeviceInv, ClosedInv, life \in {"cleaning", "gone"}
               PROVE  openCnt = 0 /\ \A w \in Writers : file[w] = "closed"
    BY DEF FilesClosedFirst
  <2>1. \A w \in Writers : file[w] = "closed"
    BY DEF ClosedInv
  <2>2. OpenFiles = {}
    BY <2>1 DEF OpenFiles
  <2> QED
    BY <2>1, <2>2, FS_EmptySet DEF DeviceInv
<1> QED
  BY <1>1, <1>2, LifeCorrect, DeviceCounted, ClosedStep, PTL DEF DeviceSpec

(* Removing the module gives the extension exactly the environment in which   *)
(* ddk_ext_cleanup() leaves nothing behind: the device implements DdkExt with *)
(* its writers drained.                                                       *)
THEOREM RmmodDrains ==
  ASSUME ~Unplug
  PROVE  DeviceSpec => ImplementsDrainedExt
<1>1. DeviceInit => ClosedInv /\ DrainedExt!Init
  BY DEF DeviceInit, ClosedInv, Init, NoRun, DrainedExt!Init, DrainedExt!NoRun
<1>2. UNCHANGED vars => UNCHANGED DrainedExt!vars
  BY DEF vars, config, stats, timer, work,
         DrainedExt!vars, DrainedExt!config, DrainedExt!stats, DrainedExt!timer,
         DrainedExt!work
<1>3. ASSUME NEW w \in Writers, Writer(w), cleanup = "no"
      PROVE  DrainedExt!Writer(w)
  BY <1>3 DEF Writer, WriteSuccess, ArmTimer, QueueBlink, WriteFail, MayWrite, RequestBlink,
         Plus, Live, Cancelling, config, stats, timer, work,
         DrainedExt!Writer, DrainedExt!WriteSuccess, DrainedExt!ArmTimer,
         DrainedExt!QueueBlink, DrainedExt!WriteFail, DrainedExt!MayWrite,
         DrainedExt!RequestBlink, DrainedExt!Plus, DrainedExt!Live, DrainedExt!Cancelling,
         DrainedExt!config, DrainedExt!stats, DrainedExt!timer, DrainedExt!work
<1>4. ProcWrite => DrainedExt!ProcWrite
  BY DEF ProcWrite, ProcTimer, ProcBlink, ProcReset, ToInt, config, stats, timer, work,
         DrainedExt!ProcWrite, DrainedExt!ProcTimer, DrainedExt!ProcBlink,
         DrainedExt!ProcReset, DrainedExt!ToInt,
         DrainedExt!config, DrainedExt!stats, DrainedExt!timer, DrainedExt!work
<1>5. TimerRuns => DrainedExt!TimerRuns
  BY DEF TimerRuns, TimerExpires, TimerRequests, TimerRearms, RequestBlink, Live, Cancelling,
         config, stats, timer, work,
         DrainedExt!TimerRuns, DrainedExt!TimerExpires, DrainedExt!TimerRequests,
         DrainedExt!TimerRearms, DrainedExt!RequestBlink, DrainedExt!Live,
         DrainedExt!Cancelling,
         DrainedExt!config, DrainedExt!stats, DrainedExt!timer, DrainedExt!work
<1>6. WorkerRuns => DrainedExt!WorkerRuns
  BY DEF WorkerRuns, WorkStarts, WorkSnapshots, LedOn, LedOff, WorkCounts, Plus, Live, NoRun,
         config, stats, timer, work,
         DrainedExt!WorkerRuns, DrainedExt!WorkStarts, DrainedExt!WorkSnapshots,
         DrainedExt!LedOn, DrainedExt!LedOff, DrainedExt!WorkCounts, DrainedExt!Plus,
         DrainedExt!Live, DrainedExt!NoRun,
         DrainedExt!config, DrainedExt!stats, DrainedExt!timer, DrainedExt!work
<1>7. ASSUME CleanupRuns, \A w \in Writers : wr[w] = "idle"
      PROVE  DrainedExt!CleanupRuns
  BY <1>7 DEF CleanupRuns, RemoveProc, StopTimer, CancelWork, FinishCleanup,
         config, stats, timer, work,
         DrainedExt!CleanupRuns, DrainedExt!RemoveProc, DrainedExt!StopTimer,
         DrainedExt!CancelWork, DrainedExt!FinishCleanup,
         DrainedExt!config, DrainedExt!stats, DrainedExt!timer, DrainedExt!work
<1>8. LifeInv /\ ClosedInv /\ [DeviceNext]_allVars => [DrainedExt!Next]_(DrainedExt!vars)
  <2> SUFFICES ASSUME LifeInv, ClosedInv, [DeviceNext]_allVars
               PROVE  DrainedExt!Next \/ UNCHANGED DrainedExt!vars
    OBVIOUS
  <2>1. CASE Probe \/ Disconnect
    BY <2>1, <1>2 DEF Probe, ProbeRegister, ProbeSetData, ProbeInit,
                      Disconnect, Unbind, Deregister, PassMutex, Free
  <2>2. ASSUME NEW w \in Writers, Opens(w) PROVE UNCHANGED DrainedExt!vars
    BY <2>2, <1>2 DEF Opens, OpenFind, OpenLock, OpenEnd, Close
  <2>3. ASSUME NEW w \in Writers, FileWrites(w) PROVE DrainedExt!Next
    <3>1. Writer(w) /\ cleanup = "no"
      BY <2>3 DEF FileWrites, ExtReady, ClosedInv
    <3> QED
      BY <3>1, <1>3 DEF DrainedExt!Next
  <2>4. CASE ExtRuns
    BY <2>4, <1>4, <1>5, <1>6 DEF ExtRuns, DrainedExt!Next
  <2>5. CASE Cleans
    <3>1. CleanupRuns /\ \A w \in Writers : wr[w] = "idle"
      BY <2>5 DEF Cleans, ClosedInv
    <3> QED
      BY <3>1, <1>7 DEF DrainedExt!Next
  <2>6. CASE UNCHANGED allVars
    BY <2>6, <1>2 DEF allVars
  <2> QED
    BY <2>1, <2>2, <2>3, <2>4, <2>5, <2>6 DEF DeviceNext
<1> QED
  BY <1>1, <1>8, LifeCorrect, ClosedStep, PTL
     DEF DeviceSpec, ImplementsDrainedExt, DrainedExt!Spec

-----------------------------------------------------------------------------
(* The theorems of DdkExt, for writers that are drained.                      *)
Ext == INSTANCE DdkExt_proofs WITH Drained <- TRUE

(* Together: removing the module leaves no timer, no work and no writer       *)
(* behind when the state of the extension is freed (ddk_mem.c:495-496).       *)
THEOREM RmmodQuiescent ==
  ASSUME ~Unplug
  PROVE  DeviceSpec => []CleanupQuiescent
<1>1. Ext!DdkExtAssumption
  BY DdkExtAssumption DEF DdkExtAssumption, Ext!DdkExtAssumption
<1>2. DrainedExt!Spec => Ext!Spec
  <2>1. DrainedExt!Init => Ext!Init
    BY DEF DrainedExt!Init, DrainedExt!NoRun, Ext!Init, Ext!NoRun
  <2>2. [DrainedExt!Next]_(DrainedExt!vars) => [Ext!Next]_(Ext!vars)
    BY DEF
         DrainedExt!Next, DrainedExt!Writer, DrainedExt!WriteSuccess,
         DrainedExt!ArmTimer, DrainedExt!QueueBlink, DrainedExt!WriteFail,
         DrainedExt!MayWrite, DrainedExt!RequestBlink, DrainedExt!Plus,
         DrainedExt!Live, DrainedExt!Cancelling, DrainedExt!ProcWrite,
         DrainedExt!ProcTimer, DrainedExt!ProcBlink, DrainedExt!ProcReset,
         DrainedExt!ToInt, DrainedExt!TimerRuns, DrainedExt!TimerExpires,
         DrainedExt!TimerRequests, DrainedExt!TimerRearms, DrainedExt!WorkerRuns,
         DrainedExt!WorkStarts, DrainedExt!WorkSnapshots, DrainedExt!LedOn,
         DrainedExt!LedOff, DrainedExt!WorkCounts, DrainedExt!NoRun,
         DrainedExt!CleanupRuns, DrainedExt!RemoveProc, DrainedExt!StopTimer,
         DrainedExt!CancelWork, DrainedExt!FinishCleanup, DrainedExt!vars,
         DrainedExt!config, DrainedExt!stats, DrainedExt!timer, DrainedExt!work,
         Ext!Next, Ext!Writer, Ext!WriteSuccess, Ext!ArmTimer, Ext!QueueBlink,
         Ext!WriteFail, Ext!MayWrite, Ext!RequestBlink, Ext!Plus, Ext!Live,
         Ext!Cancelling, Ext!ProcWrite, Ext!ProcTimer, Ext!ProcBlink, Ext!ProcReset,
         Ext!ToInt, Ext!TimerRuns, Ext!TimerExpires, Ext!TimerRequests,
         Ext!TimerRearms, Ext!WorkerRuns, Ext!WorkStarts, Ext!WorkSnapshots, Ext!LedOn,
         Ext!LedOff, Ext!WorkCounts, Ext!NoRun, Ext!CleanupRuns, Ext!RemoveProc,
         Ext!StopTimer, Ext!CancelWork, Ext!FinishCleanup, Ext!vars, Ext!config,
         Ext!stats, Ext!timer, Ext!work
  <2> QED
    BY <2>1, <2>2, PTL DEF DrainedExt!Spec, Ext!Spec
<1>3. Ext!Spec => []Ext!CleanupQuiescent
  BY <1>1, Ext!Quiescence
<1>4. Ext!CleanupQuiescent => CleanupQuiescent
  BY DEF Ext!CleanupQuiescent, CleanupQuiescent
<1> QED
  BY <1>3, <1>4, <1>2, RmmodDrains, PTL DEF ImplementsDrainedExt
=============================================================================
