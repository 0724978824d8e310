------------------------ MODULE SmallDrivers_proofs -------------------------
(* Theorems about the wait queues of sleepy.c and jiq.c, for any number of   *)
(* readers and writers, any of the jiq files and any page; about the port of *)
(* the two terminal drivers, for any files; about the interrupts of short.c, *)
(* the media of sbull.c and the references of usb-skeleton.c.                *)
EXTENDS Sleepy, Jiq, TinyTty, Short, Sbull, UsbSkel, FiniteSetTheorems, TLAPS

SlTypeOK ==
    /\ slReader \in [SlReaders -> {"out", "tests", "asleep", "passes"}]
    /\ slWriter \in [SlWriters -> {"out", "wakes"}]

SlInv == SlTypeOK /\ SleepersWoken

(* sleepy: no reader stays asleep beside a flag that is set (sleepy.c:40, :51, *)
(* :52): the test comes after the reader is on the queue, and who clears the   *)
(* flag can only make the statement easier.                                    *)
THEOREM SleepersServed == SlSpec => []SleepersWoken
<1>1. SlInit => SlInv
  BY DEF SlInit, SlInv, SlTypeOK, SleepersWoken
<1>2. SlInv /\ [SlNext]_slVars => SlInv'
  <2> SUFFICES ASSUME SlInv, [SlNext]_slVars PROVE SlInv'
    OBVIOUS
  <2> USE DEF SlInv, SlTypeOK, SleepersWoken
  <2>1. ASSUME NEW r \in SlReaders, sleepy_read(r) \/ SlInterrupted(r) PROVE SlInv'
    BY <2>1 DEF sleepy_read, SlInterrupted
  <2>2. ASSUME NEW r \in SlReaders, SlTests(r) PROVE SlInv'
    BY <2>2 DEF SlTests
  <2>3. ASSUME NEW r \in SlReaders, SlPasses(r) PROVE SlInv'
    BY <2>3 DEF SlPasses
  <2>4. ASSUME NEW w \in SlWriters, sleepy_write(w) PROVE SlInv'
    BY <2>4 DEF sleepy_write
  <2>5. ASSUME NEW w \in SlWriters, SlWakes(w) PROVE SlInv'
    BY <2>5 DEF SlWakes
  <2>6. CASE UNCHANGED slVars
    BY <2>6 DEF slVars
  <2> QED
    BY <2>1, <2>2, <2>3, <2>4, <2>5, <2>6 DEF SlNext
<1>3. SlInv => SleepersWoken
  BY DEF SlInv
<1> QED
  BY <1>1, <1>2, <1>3, PTL DEF SlSpec

-----------------------------------------------------------------------------
(* A reader inside reads one of the files, and one that enters the queue     *)
(* late reads a file that does so.                                           *)
JqInv ==
    /\ jqPc \in [JqReaders -> {"out", "prepares", "schedules", "enters", "sleeps"}]
    /\ jqFile \in [JqReaders -> JqFiles \cup {NoFile}]
    /\ jqWaits \subseteq JqReaders
    /\ jqTask \in [JqFiles -> {"idle", "starts", "header", "prints", "wakes"}]
    /\ \A r \in JqReaders : jqPc[r] # "out" => jqFile[r] \in JqFiles
    /\ \A r \in JqReaders : jqPc[r] = "enters" => SleepsOn(jqFile[r])
    /\ JiqReaderServed

(* jiq: who sleeps in jiqwq or jiqwqdelay has its task on the way (jiq.c:139, *)
(* :159): it is on the queue before it starts the task, and a task that ends  *)
(* wakes everybody (:84).                                                     *)
THEOREM JiqServed == JqSpec => []JiqReaderServed
<1>1. JqInit => JqInv
  BY DEF JqInit, JqInv, JiqReaderServed
<1>2. JqInv /\ [JqNext]_jqVars => JqInv'
  <2> SUFFICES ASSUME JqInv, [JqNext]_jqVars PROVE JqInv'
    OBVIOUS
  <2> USE DEF JqInv, JiqReaderServed, SleepsOn, jqTasks
  <2>1. CASE jiq_init
    BY <2>1 DEF jiq_init
  <2>2. CASE jiq_cleanup
    BY <2>2 DEF jiq_cleanup
  <2>3. CASE jiq_timedout
    BY <2>3 DEF jiq_timedout
  <2>4. ASSUME NEW r \in JqReaders, NEW f \in JqFiles, JqRead(r, f) PROVE JqInv'
    BY <2>4 DEF JqRead, JqGoes
  <2>5. ASSUME NEW r \in JqReaders, JqPrepares(r) PROVE JqInv'
    BY <2>5 DEF JqPrepares, JqGoes
  <2>6. ASSUME NEW r \in JqReaders, JqSchedules(r) PROVE JqInv'
    BY <2>6 DEF JqSchedules, JqGoes
  <2>7. ASSUME NEW r \in JqReaders, JqEnters(r) PROVE JqInv'
    BY <2>7 DEF JqEnters, JqGoes
  <2>8. ASSUME NEW r \in JqReaders, JqReturns(r) PROVE JqInv'
    BY <2>8 DEF JqReturns, JqGoes
  <2>9. ASSUME NEW f \in JqFiles, JqStarts(f) PROVE JqInv'
    BY <2>9 DEF JqStarts
  <2>10. ASSUME NEW f \in JqFiles, JqLooks(f) PROVE JqInv'
    <3>1. CASE jqLen > JqLimit
      BY <2>10, <3>1 DEF JqLooks
    <3>2. CASE ~ (jqLen > JqLimit)
      <4>1. /\ jqTask' \in [JqFiles -> {"idle", "starts", "header", "prints", "wakes"}]
            /\ jqTask'[f] # "idle" /\ \A g \in JqFiles \ {f} : jqTask'[g] = jqTask[g]
        BY <2>10, <3>2 DEF JqLooks
      <4> QED
        BY <2>10, <3>2, <4>1 DEF JqLooks
    <3> QED
      BY <3>1, <3>2
  <2>11. ASSUME NEW f \in JqFiles, JqPrints(f) PROVE JqInv'
    BY <2>11 DEF JqPrints, JqAdds
  <2>12. CASE UNCHANGED jqVars
    BY <2>12 DEF jqVars
  <2> QED
    BY <2>1, <2>2, <2>3, <2>4, <2>5, <2>6, <2>7, <2>8, <2>9, <2>10, <2>11, <2>12 DEF JqNext
<1>3. JqInv => JiqReaderServed
  BY DEF JqInv
<1> QED
  BY <1>1, <1>2, <1>3, PTL DEF JqSpec
-----------------------------------------------------------------------------
(* Files of a port that is counted: opened, or to be closed though the open  *)
(* failed.  Without a driver there are none.                                 *)
TyTypeOK ==
    /\ tyCount \in Nat
    /\ tyTimer \in {"none", "idle", "pending"}
    /\ tyOpen \subseteq TyFiles /\ tyFailed \subseteq TyFiles
    /\ tyOpen \cap tyFailed = {}
    /\ tyDriver = "serial" => tyFailed = {}
    /\ tyDriver = "none" => tyOpen = {} /\ tyFailed = {}

TyInv == TyTypeOK /\ PortRuns

\* What is used of the cardinality of a set of files.
TyCounted(S, f) ==
    /\ Cardinality(S) \in Nat /\ (Cardinality(S) = 0 <=> S = {})
    /\ f \notin S => Cardinality(S \cup {f}) = Cardinality(S) + 1 /\ S \ {f} = S
    /\ f \in S => Cardinality(S \ {f}) = Cardinality(S) - 1

(* One file more, one file less.                                             *)
LEMMA TyCounts == \A S \in SUBSET TyFiles, f \in TyFiles : TyCounted(S, f)
<1> SUFFICES ASSUME NEW S \in SUBSET TyFiles, NEW f \in TyFiles PROVE TyCounted(S, f)
  OBVIOUS
<1>1. IsFiniteSet(S)
  BY TyAssumption, FS_Subset DEF TyAssumption
<1>2. f \notin S => S \ {f} = S
  OBVIOUS
<1> QED
  BY <1>1, <1>2, FS_CardinalityType, FS_EmptySet, FS_AddElement, FS_RemoveElement DEF TyCounted

(* tty: characters keep coming while a file is open, and the count is right  *)
(* for the opens that have failed too (tiny_tty.c:89-164, tiny_serial.c:104, *)
(* :191-216).  The count falls to 0 with the only close that stops the timer. *)
THEOREM PortsRun == TySpec => []PortRuns
<1>1. TyInit => TyInv
  BY FS_EmptySet DEF TyInit, TyInv, TyTypeOK, PortRuns
<1>2. TyInv /\ [TyNext]_tyVars => TyInv'
  <2> SUFFICES ASSUME TyInv, [TyNext]_tyVars PROVE TyInv'
    OBVIOUS
  <2> USE DEF TyInv, TyTypeOK, PortRuns, TyAdds
  <2>1. CASE tiny_init
    BY <2>1 DEF tiny_init
  <2>2. CASE tiny_exit
    BY <2>2, FS_EmptySet DEF tiny_exit
  <2>3. CASE TyTimerFires
    BY <2>3 DEF TyTimerFires
  <2>4. CASE tiny_timer
    BY <2>4 DEF tiny_timer
  <2>5. CASE TsInit
    BY <2>5 DEF TsInit
  <2>6. CASE TsTimer
    BY <2>6 DEF TsTimer
  <2>7. ASSUME NEW f \in TyFiles, tiny_open(f) PROVE TyInv'
    <3>0. TyCounted(tyOpen, f) /\ TyCounted(tyFailed, f)
      <4>1. tyOpen \in SUBSET TyFiles /\ tyFailed \in SUBSET TyFiles
        OBVIOUS
      <4> QED
        BY <4>1, TyCounts, Zenon
    <3>1. tyCount' = Cardinality(tyOpen') + Cardinality(tyFailed')
      <4>1. /\ f \notin tyOpen /\ f \notin tyFailed /\ tyCount' = tyCount + 1
            /\ \/ tyOpen' = tyOpen \cup {f} /\ tyFailed' = tyFailed
               \/ tyFailed' = tyFailed \cup {f} /\ tyOpen' = tyOpen
        BY <2>7 DEF tiny_open
      <4>2. CASE tyOpen' = tyOpen \cup {f} /\ tyFailed' = tyFailed
        BY <3>0, <4>1, <4>2 DEF TyCounted
      <4>3. CASE tyFailed' = tyFailed \cup {f} /\ tyOpen' = tyOpen
        BY <3>0, <4>1, <4>3 DEF TyCounted
      <4> QED
        BY <4>1, <4>2, <4>3
    <3>2. TyTypeOK'
      BY <2>7 DEF tiny_open
    <3> QED
      BY <2>7, <3>1, <3>2 DEF tiny_open
  <2>8. ASSUME NEW f \in TyFiles, tiny_close(f) PROVE TyInv'
    <3>0. TyCounted(tyOpen, f) /\ TyCounted(tyFailed, f)
      <4>1. tyOpen \in SUBSET TyFiles /\ tyFailed \in SUBSET TyFiles
        OBVIOUS
      <4> QED
        BY <4>1, TyCounts, Zenon
    <3>1. tyCount >= 1
      BY <2>8, <3>0 DEF TyCounted, tiny_close
    <3>2. /\ tyCount' = tyCount - 1
          /\ IF tyCount <= 1 THEN TyDeletes ELSE UNCHANGED <<tyTimer, tyOops>>
      BY <2>8, <3>1 DEF tiny_close, do_close, TyLastUser
    <3>3. tyCount' = Cardinality(tyOpen') + Cardinality(tyFailed')
      <4>1. CASE f \in tyOpen
        <5>1. tyOpen' = tyOpen \ {f} /\ tyFailed' = tyFailed
          BY <2>8, <4>1 DEF tiny_close
        <5> QED
          BY <3>0, <3>2, <4>1, <5>1 DEF TyCounted
      <4>2. CASE f \notin tyOpen
        <5>1. f \in tyFailed /\ tyOpen' = tyOpen /\ tyFailed' = tyFailed \ {f}
          BY <2>8, <4>2 DEF tiny_close
        <5> QED
          BY <3>0, <3>2, <5>1 DEF TyCounted
      <4> QED
        BY <4>1, <4>2
    <3> QED
      BY <2>8, <3>1, <3>2, <3>3 DEF tiny_close, TyDeletes
  <2>9. ASSUME NEW f \in TyFiles, tiny_tiocmset(f) PROVE TyInv'
    BY <2>9 DEF tiny_tiocmset
  <2>10. ASSUME NEW f \in TyFiles, tiny_startup(f) PROVE TyInv'
    <3>0. TyCounted(tyOpen, f) /\ TyCounted(tyFailed, f)
      <4>1. tyOpen \in SUBSET TyFiles /\ tyFailed \in SUBSET TyFiles
        OBVIOUS
      <4> QED
        BY <4>1, TyCounts, Zenon
    <3>1. tyCount' = Cardinality(tyOpen') + Cardinality(tyFailed')
      BY <2>10, <3>0 DEF TyCounted, tiny_startup
    <3>2. TyTypeOK'
      BY <2>10 DEF tiny_startup
    <3> QED
      BY <2>10, <3>1, <3>2, <3>0 DEF TyCounted, tiny_startup
  <2>11. ASSUME NEW f \in TyFiles, tiny_shutdown(f) PROVE TyInv'
    <3>0. TyCounted(tyOpen, f) /\ TyCounted(tyFailed, f)
      <4>1. tyOpen \in SUBSET TyFiles /\ tyFailed \in SUBSET TyFiles
        OBVIOUS
      <4> QED
        BY <4>1, TyCounts, Zenon
    <3>1. tyCount >= 1 /\ tyCount' = Cardinality(tyOpen') + Cardinality(tyFailed')
      BY <2>11, <3>0 DEF TyCounted, tiny_shutdown
    <3> QED
      BY <2>11, <3>1 DEF tiny_shutdown, TyLastUser, TyDeletes
  <2>12. ASSUME NEW f \in TyFiles, TsWrite(f) PROVE TyInv'
    BY <2>12 DEF TsWrite
  <2>13. CASE UNCHANGED tyVars
    BY <2>13 DEF tyVars, tyLine
  <2> QED
    BY <2>1, <2>2, <2>3, <2>4, <2>5, <2>6, <2>7, <2>8, <2>9, <2>10, <2>11, <2>12, <2>13 DEF TyNext
<1>3. TyInv => PortRuns
  BY DEF TyInv
<1> QED
  BY <1>1, <1>2, <1>3, PTL DEF TySpec

-----------------------------------------------------------------------------
ShTypeOK == shPc \in [ShReaders -> {"out", "tests", "queued", "asleep", "counts", "copies"}]

ShInv == ShTypeOK /\ InterruptsReachReaders

(* short: with one reader every interrupt reaches him (short.c:268-291,        *)
(* :323-429): what has been noted has a bottom half ahead of it, and who sleeps *)
(* has a wake-up ahead of him when there is something to read.  With two       *)
(* readers one could move the tail while the other sleeps.                     *)
THEOREM ReaderReached ==
  ASSUME \A r, s \in ShReaders : r = s
  PROVE  ShSpec => []InterruptsReachReaders
<1>1. ShInit => ShInv
  BY DEF ShInit, ShInv, ShTypeOK, InterruptsReachReaders
<1>2. ShInv /\ [ShNext]_shVars => ShInv'
  <2> SUFFICES ASSUME ShInv, [ShNext]_shVars PROVE ShInv'
    OBVIOUS
  <2> USE DEF ShInv, ShTypeOK, InterruptsReachReaders, shPage, shTimes, shLoaded
  <2>1. CASE short_init \/ short_cleanup
    BY <2>1 DEF short_init, short_cleanup
  <2>2. CASE short_i_write
    BY <2>2 DEF short_i_write
  <2>3. CASE short_interrupt
    BY <2>3 DEF short_interrupt, ShWakes
  <2>4. CASE ShTopHalf
    BY <2>4 DEF ShTopHalf, ShSchedules
  <2>5. CASE short_do_tasklet
    <3>1. CASE shBh = "wakes"
      BY <2>5, <3>1 DEF short_do_tasklet, ShWakes
    <3>2. CASE shBh # "wakes"
      BY <2>5, <3>2 DEF short_do_tasklet
    <3> QED
      BY <3>1, <3>2
  <2>6. ASSUME NEW r \in ShReaders, ShWaits(r) PROVE ShInv'
    BY <2>6 DEF ShWaits, ShGoes
  <2>7. ASSUME NEW r \in ShReaders, short_i_read(r) PROVE ShInv'
    <3>1. shPc'[r] # "asleep" /\ shPc' \in [ShReaders -> {"out", "tests", "queued", "asleep", "counts", "copies"}]
      BY <2>7 DEF short_i_read, ShGoes
    <3>2. UNCHANGED <<shTimes, shSched, shBh, shTop>>
      BY <2>7 DEF short_i_read
    <3> QED
      BY <3>1, <3>2
  <2>8. CASE UNCHANGED shVars
    BY <2>8 DEF shVars
  <2> QED
    BY <2>1, <2>2, <2>3, <2>4, <2>5, <2>6, <2>7, <2>8 DEF ShNext
<1>3. ShInv => InterruptsReachReaders
  BY DEF ShInv
<1> QED
  BY <1>1, <1>2, <1>3, PTL DEF ShSpec

(* What the media history rests on: an expiry that has not erased the data is *)
(* one that the disk knows of, and a module that has gone left nothing behind. *)
SbInv ==
    /\ sbPc \in [SbProcs -> {"out", "opens", "open"}]
    /\ sbChange => sbIdle = 1
    /\ sbModule = "none" => ~ sbTimer /\ ~ sbCb /\ \A p \in SbProcs : sbPc[p] = "out"

(* sbull: the data is erased only when the disk has been closed for its delay, *)
(* and the module takes its timer with it (sbull.c:206-275, :427-451): the     *)
(* flag that makes an open erase is set only by an expiry nobody has used.     *)
THEOREM MediaSafe == SbSpec => MediaKept
<1>1. SbInit => SbInv
  BY DEF SbInit, SbInv
<1>2. SbInv /\ [SbNext]_sbVars => SbInv'
  <2> SUFFICES ASSUME SbInv, [SbNext]_sbVars PROVE SbInv'
    OBVIOUS
  <2> USE DEF SbInv, sbMedia
  <2>1. CASE setup_device \/ sbull_exit
    BY <2>1 DEF setup_device, sbull_exit
  <2>2. ASSUME NEW p \in SbProcs, sbull_open(p) \/ SbOpens(p) \/ sbull_release(p) PROVE SbInv'
    BY <2>2 DEF sbull_open, SbOpens, sbull_release, sbull_revalidate
  <2>3. CASE SbTimerFires \/ sbull_invalidate
    BY <2>3 DEF SbTimerFires, sbull_invalidate
  <2>4. ASSUME NEW p \in SbProcs, SbSubmits(p) \/ sbull_make_request(p) PROVE SbInv'
    BY <2>4 DEF SbSubmits, sbull_make_request
  <2>5. CASE sbull_request \/ sbull_full_request
    BY <2>5 DEF sbull_request, sbull_full_request
  <2>6. CASE UNCHANGED sbVars
    BY <2>6 DEF sbVars
  <2> QED
    BY <2>1, <2>2, <2>3, <2>4, <2>5, <2>6 DEF SbNext
<1>3. ASSUME SbInv, SbInv', [SbNext]_sbVars
      PROVE  /\ ~ (sbData \subseteq sbData') => sbModule' = "none" \/ (sbUsers = 0 /\ sbIdle = 1)
             /\ sbModule' = "none" => ~ sbTimer' /\ ~ sbCb'
  <2> USE DEF SbInv, sbMedia
  <2>1. sbModule' = "none" => ~ sbTimer' /\ ~ sbCb'
    BY <1>3
  <2>2. ASSUME ~ (sbData \subseteq sbData') PROVE sbModule' = "none" \/ (sbUsers = 0 /\ sbIdle = 1)
    <3>1. CASE setup_device \/ sbull_exit
      BY <2>2, <3>1 DEF setup_device, sbull_exit
    <3>2. ASSUME NEW p \in SbProcs, SbOpens(p) PROVE sbUsers = 0 /\ sbIdle = 1
      BY <2>2, <3>2, <1>3 DEF SbOpens, sbull_revalidate
    <3>3. ASSUME NEW p \in SbProcs, sbull_open(p) \/ sbull_release(p) \/ SbSubmits(p) PROVE FALSE
      BY <2>2, <3>3 DEF sbull_open, sbull_release, SbSubmits
    <3>4. ASSUME NEW p, NEW n, Transfers(p, n) PROVE FALSE
      BY <2>2, <3>4 DEF Transfers
    <3>5. ASSUME NEW p \in SbProcs, sbull_make_request(p) PROVE FALSE
      BY <3>4, <3>5 DEF sbull_make_request
    <3>6. CASE sbull_request \/ sbull_full_request
      BY <2>2, <3>4, <3>6 DEF sbull_request, sbull_full_request, Skips
    <3>7. CASE SbTimerFires \/ sbull_invalidate \/ UNCHANGED sbVars
      BY <2>2, <3>7 DEF SbTimerFires, sbull_invalidate, sbVars
    <3> QED
      BY <1>3, <3>1, <3>2, <3>3, <3>5, <3>6, <3>7 DEF SbNext
  <2> QED
    BY <2>1, <2>2
<1>4. SbInv /\ SbInv' /\ [SbNext]_sbVars =>
        [/\ ~ (sbData \subseteq sbData') => sbModule' = "none" \/ (sbUsers = 0 /\ sbIdle = 1)
         /\ sbModule' = "none" => ~ sbTimer' /\ ~ sbCb']_sbVars
  BY <1>3
<1> QED
  BY <1>1, <1>2, <1>4, PTL DEF SbSpec, MediaKept

-----------------------------------------------------------------------------
(* The references of a usb_skel structure, for any files and any number of   *)
(* devices plugged in one after the other.                                   *)
SkTypeOK ==
    /\ skIntf \in SkDevs \cup {NoSkel} /\ skLeaving \in SkDevs \cup {NoSkel}
    /\ skMinor \in BOOLEAN
    /\ skRef \in [SkDevs -> Int] /\ skFreed \subseteq SkDevs
    /\ skPc \in [SkFiles -> {"closed", "found", "open", "reads", "writes"}]
    /\ skData \in [SkFiles -> SkDevs \cup {NoSkel}]
    /\ skUrbs \subseteq SkFiles \X SkDevs

(* Where the structure of a file, an interface or a write can be found: an   *)
(* open that has not counted itself yet works on the interface that is       *)
(* bound, and so do the writes in flight.                                    *)
SkPlaces ==
    /\ skIntf # NoSkel => skMinor /\ skLeaving = NoSkel
    /\ skMinor => skIntf # NoSkel
    /\ \A f \in SkFiles : /\ skPc[f] = "closed" <=> skData[f] = NoSkel
                          /\ skPc[f] = "found" => skData[f] = skIntf
    /\ \A u \in skUrbs : u[2] = skIntf

SkInv == SkTypeOK /\ SkPlaces /\ SkelRefs

(* Files are finitely many.                                                  *)
LEMMA UsersFinite ==
  ASSUME NEW d
  PROVE  /\ IsFiniteSet(SkUsers(d)) /\ Cardinality(SkUsers(d)) \in Nat
         /\ Cardinality(SkUsers(d)) = 0 <=> SkUsers(d) = {}
<1>1. IsFiniteSet(SkUsers(d))
  BY SkAssumption, FS_Subset DEF SkAssumption, SkUsers
<1> QED
  BY <1>1, FS_CardinalityType, FS_EmptySet

(* A structure that is bound is not freed, nor is one without references     *)
(* used by anyone.                                                           *)
LEMMA RefsMean ==
  ASSUME SkInv, NEW d \in SkDevs
  PROVE  /\ d \in {skIntf, skLeaving} => skRef[d] >= 1 /\ d \notin skFreed
         /\ skRef[d] = 0 => \A f \in SkFiles : skData[f] # d
         /\ skRef[d] \in Nat
<1>1. skRef[d] = Cardinality(SkUsers(d)) + SkBound(d) /\ (d \in skFreed => skRef[d] = 0)
  BY DEF SkInv, SkelRefs
<1>2. /\ Cardinality(SkUsers(d)) \in Nat
      /\ Cardinality(SkUsers(d)) = 0 <=> SkUsers(d) = {}
  BY UsersFinite
<1>3. SkBound(d) \in {0, 1} /\ (SkBound(d) = 1 <=> d \in {skIntf, skLeaving})
  BY DEF SkBound
<1>4. skRef[d] \in Nat /\ (d \in {skIntf, skLeaving} => skRef[d] >= 1)
  BY <1>1, <1>2, <1>3
<1>5. d \in {skIntf, skLeaving} => d \notin skFreed
  BY <1>1, <1>4
<1>6. ASSUME skRef[d] = 0, NEW f \in SkFiles PROVE skData[f] # d
  <2>1. Cardinality(SkUsers(d)) = 0 /\ d # skIntf
    BY <1>1, <1>2, <1>3, <1>6
  <2>2. f \notin SkUsers(d)
    BY <1>2, <2>1
  <2> QED
    BY <2>1, <2>2, SkAssumption DEF SkAssumption, SkUsers, SkInv, SkTypeOK, SkPlaces
<1> QED
  BY <1>4, <1>5, <1>6

(* A usb_skel structure lives exactly as long as an interface or a file has  *)
(* it, and no write in flight outlives it (usb-skeleton.c:57-64, :66-97,     *)
(* :305-325): the lock keeps an open that has found the structure, and not   *)
(* yet counted itself, apart from the disconnect.                            *)
THEOREM RefsCounted == SkSpec => []SkelRefs
<1> USE SkAssumption DEF SkAssumption
<1>1. SkInit => SkInv
  <2> SUFFICES ASSUME SkInit PROVE SkInv
    OBVIOUS
  <2>1. ASSUME NEW d \in SkDevs PROVE SkUsers(d) = {} /\ SkBound(d) = 0
    BY DEF SkInit, SkUsers, SkBound
  <2>2. \A d \in SkDevs : skRef[d] = Cardinality(SkUsers(d)) + SkBound(d)
    BY <2>1, FS_EmptySet DEF SkInit
  <2>3. SkTypeOK
    <3>1. skMinor \in BOOLEAN
      BY Zenon DEF SkInit
    <3>2. /\ skRef \in [SkDevs -> Int] /\ skFreed \subseteq SkDevs
          /\ skUrbs \subseteq SkFiles \X SkDevs
      BY DEF SkInit
    <3>3. /\ skPc \in [SkFiles -> {"closed", "found", "open", "reads", "writes"}]
          /\ skData \in [SkFiles -> SkDevs \cup {NoSkel}]
      BY DEF SkInit
    <3> QED
      BY <3>1, <3>2, <3>3 DEF SkInit, SkTypeOK
  <2>4. SkPlaces
    BY DEF SkInit, SkPlaces
  <2> QED
    BY <2>2, <2>3, <2>4 DEF SkInit, SkInv, SkelRefs
<1>2. SkInv /\ [SkNext]_skVars => SkInv'
  <2> SUFFICES ASSUME SkInv, [SkNext]_skVars PROVE SkInv'
    OBVIOUS
  <2>1. SkTypeOK /\ SkPlaces /\ SkelRefs
    BY DEF SkInv
  \* Steps that neither count nor change who uses what.
  <2>2. ASSUME SkTypeOK', SkPlaces', UNCHANGED skCount,
               \A d \in SkDevs : SkUsers(d)' = SkUsers(d) /\ SkBound(d)' = SkBound(d),
               \A f \in SkFiles : skData'[f] \in {skData[f], NoSkel, skIntf'}
        PROVE  SkInv'
    <3>1. ASSUME NEW d \in SkDevs
          PROVE  /\ skRef'[d] = Cardinality(SkUsers(d)') + SkBound(d)'
                 /\ d \in skFreed' => skRef'[d] = 0 /\ d # skIntf'
      <4>1. skRef'[d] = Cardinality(SkUsers(d)') + SkBound(d)'
        BY <2>1, <2>2 DEF SkelRefs, skCount
      <4>2. SkBound(d)' = 1 <=> d \in {skIntf', skLeaving'}
        BY DEF SkBound
      <4>3. SkBound(d) = 1 <=> d \in {skIntf, skLeaving}
        BY DEF SkBound
      <4> QED
        BY <2>1, <2>2, <4>1, <4>2, <4>3, RefsMean DEF SkelRefs, skCount
    <3>2. ASSUME NEW d \in SkDevs, d \in skFreed', NEW f \in SkFiles PROVE skData'[f] # d
      BY <2>1, <2>2, <3>1, <3>2 DEF SkelRefs, skCount
    <3> QED
      BY <2>2, <3>1, <3>2 DEF SkInv, SkelRefs, SkPlaces
  <2>3. CASE usb_skel_init \/ usb_skel_exit \/ UNCHANGED skVars
    <3>1. UNCHANGED <<skIntf, skMinor, skLeaving, skCount, skPc, skData, skUrbs>>
      BY <2>3 DEF usb_skel_init, usb_skel_exit, skVars, skPlug
    <3> QED
      BY <2>1, <2>2, <3>1 DEF SkTypeOK, SkPlaces, SkUsers, SkBound, skCount
  <2>4. CASE skel_write_bulk_callback
    BY <2>1, <2>2, <2>4 DEF skel_write_bulk_callback, skPlug, SkTypeOK, SkPlaces, SkUsers, SkBound, skCount
  <2>5. CASE skel_disconnect
    <3>1. skLeaving = NoSkel
      BY <2>1, <2>5 DEF skel_disconnect, SkDisconnects, SkPlaces
    <3>2. \A f \in SkFiles : skPc[f] # "found"
      BY <2>5 DEF skel_disconnect, SkDisconnects, SkLockFree
    <3> QED
      BY <2>1, <2>2, <2>5, <3>1, <3>2 DEF skel_disconnect, SkTypeOK, SkPlaces, SkUsers, SkBound, skCount
  <2>6. ASSUME NEW f \in SkFiles, skel_open(f) PROVE SkInv'
    BY <2>1, <2>2, <2>6 DEF skel_open, SkTypeOK, SkPlaces, SkUsers, SkBound, skCount, skPlug
  <2>7. ASSUME NEW f \in SkFiles, skel_read(f) PROVE SkInv'
    BY <2>1, <2>2, <2>7 DEF skel_read, SkTypeOK, SkPlaces, SkUsers, SkBound, skCount, skPlug
  <2>8. ASSUME NEW f \in SkFiles, skel_write(f) PROVE SkInv'
    BY <2>1, <2>2, <2>8 DEF skel_write, SkTypeOK, SkPlaces, SkUsers, SkBound, skCount, skPlug
  \* Steps that count for one structure x.
  <2>9. ASSUME NEW x \in SkDevs, SkTypeOK', SkPlaces',
               skRef'[x] = Cardinality(SkUsers(x)') + SkBound(x)',
               \A d \in SkDevs \ {x} : /\ skRef'[d] = skRef[d] /\ (d \in skFreed' <=> d \in skFreed)
                                       /\ SkUsers(d)' = SkUsers(d) /\ SkBound(d)' = SkBound(d),
               \A d \in SkDevs \ {x} : \A f \in SkFiles : skData'[f] = d => skData[f] = d,
               x \in skFreed' => skRef'[x] = 0 /\ x # skIntf' /\ \A f \in SkFiles : skData'[f] # x
        PROVE  SkInv'
    <3>1. ASSUME NEW d \in SkDevs \ {x}
          PROVE  /\ skRef'[d] = Cardinality(SkUsers(d)') + SkBound(d)'
                 /\ d \in skFreed' => /\ skRef'[d] = 0 /\ d # skIntf'
                                      /\ \A f \in SkFiles : skData'[f] # d
      <4>1. skRef'[d] = Cardinality(SkUsers(d)') + SkBound(d)'
        BY <2>1, <2>9 DEF SkelRefs
      <4>2. SkBound(d)' = 1 <=> d \in {skIntf', skLeaving'}
        BY DEF SkBound
      <4>3. SkBound(d) = 1 <=> d \in {skIntf, skLeaving}
        BY DEF SkBound
      <4> QED
        BY <2>1, <2>9, <4>1, <4>2, <4>3, RefsMean DEF SkelRefs
    <3> QED
      BY <2>9, <3>1 DEF SkInv, SkelRefs, SkPlaces, SkTypeOK
  <2>10. ASSUME NEW f \in SkFiles, SkOpened(f) PROVE SkInv'
    <3> DEFINE x == skData[f]
    <3>1. x \in SkDevs /\ x = skIntf
      BY <2>1, <2>10 DEF SkOpened, SkTypeOK, SkPlaces
    <3>2. x \notin skFreed /\ skRef[x] = Cardinality(SkUsers(x)) + SkBound(x)
      BY <2>1, <3>1, RefsMean DEF SkelRefs
    <3>3. f \notin SkUsers(x) /\ SkUsers(x)' = SkUsers(x) \cup {f} /\ SkBound(x)' = SkBound(x)
      BY <2>1, <2>10 DEF SkOpened, SkUsers, SkBound, SkTypeOK, skPlug
    <3>4. Cardinality(SkUsers(x)') = Cardinality(SkUsers(x)) + 1
      BY <3>3, UsersFinite, FS_AddElement
    <3>5. /\ skRef' = [skRef EXCEPT ![x] = @ + 1] /\ skFreed' = skFreed
          /\ UNCHANGED <<skPlug, skData, skUrbs>> /\ skPc' = [skPc EXCEPT ![f] = "open"]
          /\ skPc[f] = "found"
      BY <2>10 DEF SkOpened, SkGet
    <3>6. SkTypeOK' /\ SkPlaces'
      BY <2>1, <3>1, <3>5 DEF SkTypeOK, SkPlaces, skPlug
    <3>7. skRef'[x] = Cardinality(SkUsers(x)') + SkBound(x)'
      <4>1. skRef'[x] = skRef[x] + 1
        BY <2>1, <3>1, <3>5 DEF SkTypeOK
      <4>2. Cardinality(SkUsers(x)) \in Nat /\ SkBound(x) \in Nat
        BY UsersFinite DEF SkBound
      <4> QED
        BY <3>2, <3>3, <3>4, <4>1, <4>2
    <3>8. ASSUME NEW d \in SkDevs \ {x}
          PROVE  /\ skRef'[d] = skRef[d]
                 /\ SkUsers(d)' = SkUsers(d) /\ SkBound(d)' = SkBound(d)
      BY <2>1, <3>1, <3>5 DEF SkTypeOK, SkUsers, SkBound, skPlug
    <3> QED
      BY <2>9, <3>1, <3>2, <3>5, <3>6, <3>7, <3>8
  \* Steps that put a structure x and leave nobody who has found it.
  <2>11. ASSUME NEW x \in SkDevs, SkTypeOK', SkPlaces', SkPut(x),
                skRef[x] - 1 = Cardinality(SkUsers(x)') + SkBound(x)',
                \A d \in SkDevs \ {x} : SkUsers(d)' = SkUsers(d) /\ SkBound(d)' = SkBound(d),
                \A f \in SkFiles : skData'[f] # NoSkel => skData'[f] = skData[f]
         PROVE  SkInv'
    <3>1. /\ skRef'[x] = skRef[x] - 1 /\ \A d \in SkDevs \ {x} : skRef'[d] = skRef[d]
          /\ \A d \in SkDevs \ {x} : d \in skFreed' <=> d \in skFreed
          /\ x \in skFreed' => x \in skFreed \/ skRef[x] = 1
      BY <2>1, <2>11 DEF SkPut, SkTypeOK
    <3>2. Cardinality(SkUsers(x)') \in Nat
      <4>1. IsFiniteSet(SkUsers(x)')
        BY FS_Subset DEF SkUsers
      <4> QED
        BY <4>1, FS_CardinalityType
    <3>3. SkBound(x)' \in {0, 1} /\ (SkBound(x)' = 1 <=> x \in {skIntf', skLeaving'})
      BY DEF SkBound
    <3>4. skRef[x] >= 1 /\ x \notin skFreed
      <4>1. skRef[x] \in Int
        BY <2>1 DEF SkTypeOK
      <4>2. skRef[x] >= 1
        BY <2>11, <3>2, <3>3, <4>1
      <4> QED
        BY <2>1, <4>2 DEF SkelRefs
    <3>5. ASSUME x \in skFreed'
          PROVE  skRef'[x] = 0 /\ x # skIntf' /\ \A f \in SkFiles : skData'[f] # x
      <4>1. skRef[x] = 1
        BY <3>1, <3>4, <3>5
      <4>2. Cardinality(SkUsers(x)') = 0 /\ SkBound(x)' = 0
        BY <2>11, <3>2, <3>3, <4>1
      <4>3. SkUsers(x)' = {}
        <5>1. IsFiniteSet(SkUsers(x)')
          BY FS_Subset DEF SkUsers
        <5> QED
          BY <4>2, <5>1, FS_EmptySet
      <4>4. x # skIntf'
        BY <3>3, <4>2
      <4>5. ASSUME NEW f \in SkFiles, skData'[f] = x PROVE FALSE
        BY <2>11, <4>3, <4>4, <4>5 DEF SkUsers, SkPlaces, SkTypeOK
      <4> QED
        BY <3>1, <4>1, <4>4, <4>5
    <3>6. skRef'[x] = Cardinality(SkUsers(x)') + SkBound(x)'
      BY <2>11, <3>1
    <3>7. \A d \in SkDevs \ {x} : \A f \in SkFiles : skData'[f] = d => skData[f] = d
      BY <2>11
    <3> QED
      BY <2>9, <2>11, <3>1, <3>5, <3>6, <3>7
  <2>12. ASSUME NEW f \in SkFiles, skel_release(f) PROVE SkInv'
    <3>1. PICK x \in SkDevs : x = skData[f]
      BY <2>1, <2>12 DEF skel_release, SkTypeOK, SkPlaces
    <3>2. skRef[x] = Cardinality(SkUsers(x)) + SkBound(x)
      BY <2>1, <3>1 DEF SkelRefs
    <3>3. /\ f \in SkUsers(x) /\ SkUsers(x)' = SkUsers(x) \ {f} /\ SkBound(x)' = SkBound(x)
          /\ \A d \in SkDevs \ {x} : SkUsers(d)' = SkUsers(d) /\ SkBound(d)' = SkBound(d)
      BY <2>1, <2>12, <3>1 DEF skel_release, SkUsers, SkBound, SkTypeOK, skPlug
    <3>4. Cardinality(SkUsers(x)') = Cardinality(SkUsers(x)) - 1
      BY <3>3, UsersFinite, FS_RemoveElement
    <3>5. skRef[x] - 1 = Cardinality(SkUsers(x)') + SkBound(x)'
      <4>1. Cardinality(SkUsers(x)) \in Nat /\ SkBound(x) \in Nat
        BY UsersFinite DEF SkBound
      <4> QED
        BY <3>2, <3>3, <3>4, <4>1
    <3>6. SkPut(x)
      BY <2>12, <3>1 DEF skel_release
    <3>7. SkTypeOK' /\ SkPlaces'
      BY <2>1, <2>12, <3>1, <3>6 DEF skel_release, SkPut, SkTypeOK, SkPlaces, skPlug
    <3>8. \A g \in SkFiles : skData'[g] # NoSkel => skData'[g] = skData[g]
      BY <2>1, <2>12 DEF skel_release, SkTypeOK
    <3> QED
      BY <2>11, <3>1, <3>3, <3>5, <3>6, <3>7, <3>8
  <2>13. CASE SkDisconnected
    <3>1. PICK x \in SkDevs : x = skLeaving
      BY <2>1, <2>13 DEF SkDisconnected, SkTypeOK
    <3>0. skIntf = NoSkel
      BY <2>1, <3>1 DEF SkPlaces
    <3>2. skRef[x] = Cardinality(SkUsers(x)) + SkBound(x)
      BY <2>1, <3>1 DEF SkelRefs
    <3>3. /\ SkUsers(x)' = SkUsers(x) /\ SkBound(x) = 1 /\ SkBound(x)' = 0
          /\ \A d \in SkDevs \ {x} : SkUsers(d)' = SkUsers(d) /\ SkBound(d)' = SkBound(d)
      BY <2>1, <2>13, <3>0, <3>1 DEF SkDisconnected, SkUsers, SkBound
    <3>4. skRef[x] - 1 = Cardinality(SkUsers(x)') + SkBound(x)'
      BY <3>2, <3>3, UsersFinite
    <3>5. SkPut(x)
      BY <2>13, <3>1 DEF SkDisconnected
    <3>6. SkTypeOK' /\ SkPlaces'
      BY <2>1, <2>13, <3>0, <3>1, <3>5 DEF SkDisconnected, SkPut, SkTypeOK, SkPlaces
    <3>7. \A g \in SkFiles : skData'[g] # NoSkel => skData'[g] = skData[g]
      BY <2>13 DEF SkDisconnected
    <3> QED
      BY <2>11, <3>1, <3>3, <3>4, <3>5, <3>6, <3>7
  <2>14. ASSUME NEW x \in SkDevs, skel_probe(x) PROVE SkInv'
    <3>1. /\ skIntf = NoSkel /\ skLeaving = NoSkel /\ skRef[x] = 0 /\ x \notin skFreed
          /\ UNCHANGED <<skLeaving, skPc, skData, skUrbs>>
      BY <2>14 DEF skel_probe
    <3>2. \A f \in SkFiles : skData[f] # x
      BY <3>1, RefsMean
    <3>3. skRef[x] = Cardinality(SkUsers(x)) + SkBound(x) /\ SkBound(x) = 0
      BY <2>1, <3>1 DEF SkelRefs, SkBound
    <3>4. Cardinality(SkUsers(x)) = 0
      BY <3>1, <3>3, UsersFinite
    <3>5. \A d \in SkDevs : SkUsers(d)' = SkUsers(d)
      BY <3>1 DEF SkUsers
    <3>6. CASE skIntf' = x /\ skMinor' = TRUE /\ skRef' = [skRef EXCEPT ![x] = 1] /\ skFreed' = skFreed
      <4>1. SkTypeOK' /\ SkPlaces'
        BY <2>1, <3>1, <3>6 DEF SkTypeOK, SkPlaces
      <4>2. SkBound(x)' = 1 /\ \A d \in SkDevs \ {x} : SkBound(d)' = SkBound(d)
        BY <3>1, <3>6 DEF SkBound
      <4>3. skRef'[x] = 1 /\ \A d \in SkDevs \ {x} : skRef'[d] = skRef[d]
        BY <2>1, <3>6 DEF SkTypeOK
      <4>4. skRef'[x] = Cardinality(SkUsers(x)') + SkBound(x)'
        BY <3>4, <3>5, <4>2, <4>3
      <4> QED
        BY <2>9, <3>1, <3>5, <3>6, <4>1, <4>2, <4>3, <4>4
    <3>7. CASE skFreed' = skFreed \cup {x} /\ UNCHANGED <<skRef, skIntf, skMinor>>
      <4>1. SkTypeOK' /\ SkPlaces'
        BY <2>1, <3>1, <3>7 DEF SkTypeOK, SkPlaces
      <4>2. \A d \in SkDevs : SkBound(d)' = SkBound(d)
        BY <3>1, <3>7 DEF SkBound
      <4>3. skRef'[x] = Cardinality(SkUsers(x)') + SkBound(x)'
        BY <3>3, <3>5, <3>7, <4>2
      <4> QED
        BY <2>9, <3>1, <3>2, <3>5, <3>7, <4>1, <4>2, <4>3
    <3> QED
      BY <2>14, <3>6, <3>7 DEF skel_probe
  <2> QED
    BY <2>3, <2>4, <2>5, <2>6, <2>7, <2>8, <2>10, <2>12, <2>13, <2>14 DEF SkNext
<1>3. SkInv => SkelRefs
  BY DEF SkInv
<1> QED
  BY <1>1, <1>2, <1>3, PTL DEF SkSpec
=============================================================================
