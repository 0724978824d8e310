---------------------------- MODULE DdkExt_proofs ----------------------------
(* Theorems about DdkExt, for any writers, any arguments of the commands and *)
(* any width of the C types.                                                 *)
EXTENDS DdkExt, TLAPS

(* An int made of a long is an int (the cast of ddk_usb_ext.c:194).           *)
LEMMA ToIntType == \A v \in Int : ToInt(v) \in Int32
  BY DdkExtAssumption DEF DdkExtAssumption, ToInt, Int32

(* An unsigned long stays one when an int is added to it (:239, :263, :264).  *)
LEMMA PlusType == \A a \in ULong, b \in Int : Plus(a, b) \in ULong
  BY DdkExtAssumption DEF DdkExtAssumption, Plus, ULong

(* Every reachable state is well typed.                                       *)
THEOREM TypeCorrect == Spec => []TypeOK
<1>1. ASSUME Init PROVE TypeOK
  <2>1. 0 \in ULong /\ 0 \in Int32 /\ DefBlinks \in Int32
    BY DdkExtAssumption DEF DdkExtAssumption, ULong, Int32
  <2>2. NoRun \in Run
    BY <2>1 DEF NoRun, Run
  <2> QED
    BY <1>1, <2>1, <2>2, DdkExtAssumption DEF DdkExtAssumption, Init, TypeOK
<1>2. TypeOK /\ [Next]_vars => TypeOK'
  <2> SUFFICES ASSUME TypeOK, [Next]_vars PROVE TypeOK'
    OBVIOUS
  <2> USE DEF TypeOK
  <2>1. ASSUME NEW w \in Writers, WriteSuccess(w) PROVE TypeOK'
    BY <2>1, PlusType DEF WriteSuccess, config, timer, work
  <2>2. ASSUME NEW w \in Writers, ArmTimer(w) PROVE TypeOK'
    BY <2>2 DEF ArmTimer, config, stats, work
  <2>3. ASSUME NEW w \in Writers, QueueBlink(w) PROVE TypeOK'
    BY <2>3 DEF QueueBlink, RequestBlink, config, stats, timer
  <2>4. ASSUME NEW w \in Writers, WriteFail(w) PROVE TypeOK'
    BY <2>4, PlusType DEF WriteFail, config, timer, work
  <2>5. ASSUME NEW v \in LongVals, ProcTimer(v) PROVE TypeOK'
    BY <2>5 DEF ProcTimer, stats, work
  <2>6. ASSUME NEW v \in LongVals, ProcBlink(v) PROVE TypeOK'
    BY <2>6, ToIntType, DdkExtAssumption DEF DdkExtAssumption, ProcBlink, stats, timer, work
  <2>7. CASE ProcReset
    BY <2>7, DdkExtAssumption DEF DdkExtAssumption, ProcReset, ULong, config, timer, work
  <2>8. CASE TimerRuns
    <3>1. CASE TimerExpires
      BY <3>1 DEF TimerExpires, config, stats, work
    <3>2. CASE TimerRequests
      BY <3>2 DEF TimerRequests, RequestBlink, config, stats
    <3>3. CASE TimerRearms
      BY <3>3 DEF TimerRearms, config, stats, work
    <3> QED
      BY <2>8, <3>1, <3>2, <3>3 DEF TimerRuns
  <2>9. CASE WorkStarts \/ WorkSnapshots
    <3>1. worker' \in Run
      BY <2>9 DEF WorkStarts, WorkSnapshots, Run
    <3>2. CASE WorkStarts
      BY <3>1, <3>2 DEF WorkStarts, config, stats, timer
    <3>3. CASE WorkSnapshots
      BY <3>1, <3>3 DEF WorkSnapshots, config, stats, timer
    <3> QED
      BY <2>9, <3>2, <3>3
  <2>10. CASE LedOn
    <3>1. worker' \in Run
      <4>1. worker.count \in Int32 /\ worker.done + 1 \in Nat
        BY DEF Run
      <4>2. worker' = [pc |-> "lit", count |-> worker.count, done |-> worker.done + 1]
        BY <2>10 DEF LedOn, Run
      <4> QED
        BY <4>1, <4>2 DEF Run
    <3>2. flashes' \in ULong
      BY <2>10, PlusType DEF LedOn
    <3> QED
      BY <2>10, <3>1, <3>2 DEF LedOn, config, timer, work
  <2>11. CASE LedOff
    BY <2>11 DEF LedOff, Run, config, stats, timer, work
  <2>12. CASE WorkCounts
    <3>1. totalBlinks' \in ULong
      <4>1. worker.count \in Int
        BY DdkExtAssumption DEF DdkExtAssumption, Run, Int32
      <4> QED
        BY <2>12, <4>1, PlusType DEF WorkCounts
    <3>2. worker' \in Run
      BY <2>12, DdkExtAssumption DEF DdkExtAssumption, WorkCounts, NoRun, Int32, Run
    <3> QED
      BY <2>12, <3>1, <3>2 DEF WorkCounts, config, timer, work
  <2>13. CASE CleanupRuns
    <3>1. CASE RemoveProc
      BY <3>1 DEF RemoveProc, config, stats, timer, work
    <3>2. CASE StopTimer
      BY <3>2 DEF StopTimer, config, stats, work
    <3>3. CASE CancelWork
      BY <3>3 DEF CancelWork, config, stats, timer
    <3>4. CASE FinishCleanup
      BY <3>4 DEF FinishCleanup, config, stats, timer, work
    <3> QED
      BY <2>13, <3>1, <3>2, <3>3, <3>4 DEF CleanupRuns
  <2>14. CASE UNCHANGED vars
    BY <2>14 DEF vars, config, stats, timer, work
  <2> QED
    BY <2>1, <2>2, <2>3, <2>4, <2>5, <2>6, <2>7, <2>8, <2>9, <2>10, <2>11, <2>12,
       <2>13, <2>14 DEF Next, Writer, ProcWrite, WorkerRuns
<1> QED
  BY <1>1, <1>2, PTL DEF Spec

-----------------------------------------------------------------------------
(* RequestBlink, as on_write_success and the timer callback make it, always   *)
(* leaves exactly one run ahead.                                              *)
LEMMA RequestHonoured ==
  ASSUME PendingFlagExact, RequestBlink, workPending \in BOOLEAN, queued \in BOOLEAN,
         cleanup \in {"no", "procGone", "timerStopped"}, worker' = worker
  PROVE  /\ workPending' /\ BlinkAhead'
         /\ ~(queued' /\ worker'.pc = "entered")
  BY DEF PendingFlagExact, RequestBlink, BlinkAhead, Cancelling

(* work_pending (ddk_usb_ext.c:48, :83, :252) mirrors the work item exactly,  *)
(* until ddk_ext_cleanup cancels it: by itself an inductive invariant.        *)
THEOREM FlagCorrect == Spec => []PendingFlagExact
<1>1. Init => PendingFlagExact
  BY DEF Init, PendingFlagExact, BlinkAhead, NoRun
<1>2. TypeOK /\ PendingFlagExact /\ [Next]_vars => PendingFlagExact'
  <2> SUFFICES ASSUME TypeOK, PendingFlagExact, [Next]_vars,
                      (cleanup \in {"no", "procGone", "timerStopped"})'
               PROVE  /\ workPending' <=> BlinkAhead'
                      /\ ~(queued' /\ worker'.pc = "entered")
    BY DEF PendingFlagExact
  <2>1. cleanup \in {"no", "procGone", "timerStopped"}
    BY DEF TypeOK, Next, vars, Writer, WriteSuccess, ArmTimer, QueueBlink, WriteFail,
           ProcWrite, ProcTimer, ProcBlink, ProcReset,
           TimerRuns, TimerExpires, TimerRequests, TimerRearms,
           WorkerRuns, WorkStarts, WorkSnapshots, LedOn, LedOff, WorkCounts,
           CleanupRuns, RemoveProc, StopTimer, CancelWork, FinishCleanup
  <2>2. /\ workPending <=> BlinkAhead
        /\ ~(queued /\ worker.pc = "entered")
    BY <2>1 DEF PendingFlagExact
  <2>3. ASSUME UNCHANGED <<work, worker>>
        PROVE  /\ workPending' <=> BlinkAhead'
               /\ ~(queued' /\ worker'.pc = "entered")
    BY <2>2, <2>3 DEF work, BlinkAhead
  <2>4. ASSUME NEW w \in Writers, Writer(w)
        PROVE  /\ workPending' <=> BlinkAhead'
               /\ ~(queued' /\ worker'.pc = "entered")
    <3>1. CASE QueueBlink(w)
      BY <2>1, <3>1, RequestHonoured DEF QueueBlink, TypeOK
    <3>2. CASE WriteSuccess(w) \/ ArmTimer(w) \/ WriteFail(w)
      BY <3>2, <2>3 DEF WriteSuccess, ArmTimer, WriteFail
    <3> QED
      BY <2>4, <3>1, <3>2 DEF Writer
  <2>5. CASE ProcWrite \/ LedOff
    BY <2>5, <2>2, <2>3 DEF ProcWrite, ProcTimer, ProcBlink, ProcReset, LedOff, work,
                      BlinkAhead, TypeOK, Run
  <2>6. CASE TimerRuns
    <3>1. CASE TimerRequests
      BY <2>1, <3>1, RequestHonoured DEF TimerRequests, TypeOK
    <3>2. CASE TimerExpires \/ TimerRearms
      BY <3>2, <2>3 DEF TimerExpires, TimerRearms
    <3> QED
      BY <2>6, <3>1, <3>2 DEF TimerRuns
  <2>7. CASE WorkStarts
    BY <2>7, <2>2 DEF WorkStarts, BlinkAhead, TypeOK, Run
  <2>8. CASE WorkSnapshots
    BY <2>8, <2>2 DEF WorkSnapshots, BlinkAhead
  <2>9. CASE LedOn \/ WorkCounts
    <3>1. worker.pc = "dark" /\ worker'.pc # "entered"
      <4>1. CASE LedOn
        <5>1. worker' = [pc |-> "lit", count |-> worker.count, done |-> worker.done + 1]
          BY <4>1 DEF LedOn, TypeOK, Run
        <5> QED
          BY <4>1, <5>1 DEF LedOn
      <4>2. CASE WorkCounts
        BY <4>2 DEF WorkCounts, NoRun
      <4> QED
        BY <2>9, <4>1, <4>2
    <3> QED
      BY <2>9, <3>1, <2>2 DEF LedOn, WorkCounts, work, BlinkAhead
  <2>10. CASE CleanupRuns
    BY <2>10, <2>3 DEF CleanupRuns, RemoveProc, StopTimer, CancelWork, FinishCleanup
  <2>11. CASE UNCHANGED vars
    BY <2>11, <2>3 DEF vars
  <2> QED
    BY <2>4, <2>5, <2>6, <2>7, <2>8, <2>9, <2>10, <2>11 DEF Next, WorkerRuns
<1> QED
  BY <1>1, <1>2, TypeCorrect, PTL DEF Spec

(* No write that found the timer off loses its blink (:249-255).              *)
THEOREM NoBlinkLost == Spec => NoLostBlink
<1>1. ASSUME TypeOK, PendingFlagExact, [Next]_vars, NEW w \in Writers,
             wr[w] = "queue", wr'[w] = "idle", ~Cancelling
      PROVE  BlinkAhead'
  <2>1. QueueBlink(w)
    BY <1>1 DEF TypeOK, Next, vars, Writer, WriteSuccess, ArmTimer, QueueBlink, WriteFail,
           ProcWrite, ProcTimer, ProcBlink, ProcReset,
           TimerRuns, TimerExpires, TimerRequests, TimerRearms,
           WorkerRuns, WorkStarts, WorkSnapshots, LedOn, LedOff, WorkCounts,
           CleanupRuns, RemoveProc, StopTimer, CancelWork, FinishCleanup
  <2>2. cleanup \in {"no", "procGone", "timerStopped"}
    BY <1>1, <2>1 DEF QueueBlink, Live, TypeOK, Cancelling
  <2> QED
    BY <1>1, <2>1, <2>2, RequestHonoured DEF QueueBlink, TypeOK
<1>2. TypeOK /\ PendingFlagExact /\ [Next]_vars =>
        [\A w \in Writers :
            wr[w] = "queue" /\ wr'[w] = "idle" /\ ~Cancelling => BlinkAhead']_vars
  BY <1>1
<1> QED
  BY <1>2, TypeCorrect, FlagCorrect, PTL DEF Spec, NoLostBlink

-----------------------------------------------------------------------------
(* What makes the order of ddk_ext_cleanup() right (:307-320): each stage has *)
(* silenced one source, and the sources still alive cannot wake it again.     *)
Silenced ==
    /\ cleanup # "no" => \A w \in Writers : wr[w] = "idle"
    /\ cleanup \in {"timerStopped", "cancelling", "done"} => ~armed /\ cb = "idle"
    /\ cleanup \in {"cancelling", "done"} => ~queued
    /\ cleanup = "done" => worker.pc = "idle"
    /\ led = 1 => worker.pc = "lit"

(* If the writers have left before the device goes away, nothing of the       *)
(* extension is active when its state is freed.                               *)
THEOREM Quiescence ==
  ASSUME Drained
  PROVE  Spec => []CleanupQuiescent
<1>1. Init => Silenced
  BY DEF Init, Silenced
<1>2. TypeOK /\ Silenced /\ [Next]_vars => Silenced'
  <2> SUFFICES ASSUME TypeOK, Silenced, [Next]_vars PROVE Silenced'
    OBVIOUS
  <2> USE DEF Silenced
  <2>1. ASSUME NEW w \in Writers, Writer(w) PROVE Silenced'
    BY <2>1 DEF Writer, WriteSuccess, ArmTimer, QueueBlink, WriteFail, MayWrite,
                RequestBlink, Cancelling, Live, timer, work, TypeOK
  <2>2. CASE ProcWrite
    <3>1. /\ armed' => armed
          /\ UNCHANGED <<cb, queued, worker, led, wr, cleanup>>
      BY <2>2 DEF ProcWrite, ProcTimer, ProcBlink, ProcReset, timer, work, TypeOK
    <3> QED
      BY <3>1, Zenon DEF TypeOK
  <2>3. CASE TimerRuns
    BY <2>3 DEF TimerRuns, TimerExpires, TimerRequests, TimerRearms, RequestBlink,
                Cancelling, work, TypeOK
  <2>4. CASE WorkStarts \/ WorkSnapshots
    BY <2>4 DEF WorkStarts, WorkSnapshots, Live, timer, TypeOK, Run
  <2>5. CASE LedOn
    <3>1. worker' = [pc |-> "lit", count |-> worker.count, done |-> worker.done + 1]
      BY <2>5 DEF LedOn, TypeOK, Run
    <3> QED
      BY <2>5, <3>1 DEF LedOn, Live, timer, work
  <2>6. CASE LedOff \/ WorkCounts
    BY <2>6 DEF LedOff, WorkCounts, NoRun, Live, timer, work, TypeOK, Run
  <2>7. CASE CleanupRuns
    BY <2>7 DEF CleanupRuns, RemoveProc, StopTimer, CancelWork, FinishCleanup,
                timer, work
  <2>8. CASE UNCHANGED vars
    BY <2>8 DEF vars, timer, work
  <2> QED
    BY <2>1, <2>2, <2>3, <2>4, <2>5, <2>6, <2>7, <2>8 DEF Next, WorkerRuns
<1>3. TypeOK /\ Silenced => CleanupQuiescent
  BY DEF TypeOK, Silenced, CleanupQuiescent
<1> QED
  BY <1>1, <1>2, <1>3, TypeCorrect, PTL DEF Spec

LEMMA MulSmall ==
  ASSUME NEW m \in Nat \ {0}, NEW k \in Int, - m < k * m, k * m < m
  PROVE  k = 0
<1>1. CASE k >= 1
  BY <1>1, k * m >= m
<1>2. CASE k <= -1
  BY <1>2, k * m <= -m
<1> QED
  BY <1>1, <1>2

LEMMA ModOf ==
  ASSUME NEW m \in Nat \ {0}, NEW a \in Int
  PROVE  a % m \in 0 .. m - 1 /\ \E q \in Int : a = q * m + (a % m)
<1>1. a = (a \div m) * m + (a % m) /\ a % m \in 0 .. m - 1 /\ a \div m \in Int
  OBVIOUS
<1> QED
  BY <1>1

LEMMA ModUnique ==
  ASSUME NEW m \in Nat \ {0}, NEW a \in Int, NEW q \in Int, NEW r \in 0 .. m - 1, a = q * m + r
  PROVE  a % m = r
<1>1. PICK p \in Int : a = p * m + (a % m)
  BY ModOf
<1>2. a % m \in 0 .. m - 1
  BY ModOf
<1> DEFINE s == a % m
<1>3. p * m \in Int /\ q * m \in Int /\ (q - p) * m = q * m - p * m
  OBVIOUS
<1>4. (q - p) * m = s - r
  BY <1>1, <1>2, <1>3
<1>5. - m < (q - p) * m /\ (q - p) * m < m
  BY <1>2, <1>4
<1>6. q - p = 0
  BY <1>5, MulSmall
<1> QED
  BY <1>2, <1>4, <1>6

LEMMA ModShift ==
  ASSUME NEW m \in Nat \ {0}, NEW a \in Int, NEW k \in Int, NEW b \in Int, b = a + k * m
  PROVE  b % m = a % m
<1>1. PICK q \in Int : a = q * m + (a % m)
  BY ModOf
<1>2. a % m \in 0 .. m - 1
  BY ModOf
<1>3. q * m \in Int /\ k * m \in Int /\ (q + k) * m = q * m + k * m
  OBVIOUS
<1> DEFINE n == q + k
<1>4. n \in Int /\ b = n * m + (a % m)
  BY <1>1, <1>2, <1>3
<1> HIDE DEF n
<1> QED
  BY <1>2, <1>4, ModUnique

LEMMA ModInner ==
  ASSUME NEW m \in Nat \ {0}, NEW a \in Int, NEW b \in Int
  PROVE  ((a % m) + b) % m = (a + b) % m /\ (b - (a % m)) % m = (b - a) % m
<1>1. PICK q \in Int : a = q * m + (a % m)
  BY ModOf
<1>2. a % m \in Int
  BY ModOf
<1> DEFINE s == a % m
<1> DEFINE k == - q
<1>3. k \in Int /\ q * m \in Int /\ k * m = - (q * m)
  OBVIOUS
<1>4. s + b = (a + b) + k * m /\ b - s = (b - a) + q * m /\ s \in Int
  BY <1>1, <1>2, <1>3
<1> HIDE DEF s, k
<1> DEFINE ab == a + b
<1> DEFINE ba == b - a
<1> DEFINE sb == s + b
<1> DEFINE bs == b - s
<1>5. ab \in Int /\ ba \in Int /\ sb \in Int /\ bs \in Int /\ sb = ab + k * m /\ bs = ba + q * m
  BY <1>4
<1> HIDE DEF ab, ba, sb, bs
<1>6. sb % m = ab % m /\ bs % m = ba % m
  BY <1>3, <1>5, ModShift
<1> QED
  BY <1>6 DEF ab, ba, sb, bs, s

LEMMA ModSmall ==
  ASSUME NEW m \in Nat \ {0}, NEW a \in Nat
  PROVE  a % m <= a
<1>1. CASE a < m
  BY <1>1
<1>2. CASE a >= m
  BY <1>2, ModOf
<1> QED
  BY <1>1, <1>2

-----------------------------------------------------------------------------
(* What keeps the accounts of blink_worker() (ddk_usb_ext.c:40-66) straight:  *)
(* the loop ends exactly at the count it works from, and only the loop leaves *)
(* flashes that are not in total_blinks yet.                                  *)
Counting ==
    /\ blinkCount \in 0 .. IntHalf - 1
    /\ worker.count \in 0 .. IntHalf - 1
    /\ worker.done \in 0 .. worker.count
    /\ worker.pc \in {"idle", "entered"} => worker.done = 0

(* An addition on each side of an account that is kept modulo 2^64.           *)
LEMMA FlashCounted ==
  ASSUME NEW t \in ULong, NEW f \in ULong, NEW n \in Int
  PROVE  (t + (n + 1) - Plus(f, 1)) % ULongMod = (t + n - f) % ULongMod
<1> DEFINE m == ULongMod
<1> DEFINE a == f + 1
<1> DEFINE b == t + (n + 1)
<1>1. m \in Nat \ {0} /\ a \in Int /\ b \in Int /\ t \in Int /\ f \in Int
  BY DdkExtAssumption DEF DdkExtAssumption, ULong
<1>2. (b - (a % m)) % m = (b - a) % m
  BY <1>1, ModInner
<1>3. b - a = t + n - f
  BY <1>1
<1>4. Plus(f, 1) = a % m /\ Plus(f, 1) \in Int
  BY <1>1, ModOf DEF Plus
<1>5. (b - Plus(f, 1)) % m = (b - a) % m
  BY <1>2, <1>4
<1> QED
  BY <1>1, <1>3, <1>4, <1>5

(* The run that ends adds what it has flashed.                                *)
LEMMA RunCounted ==
  ASSUME NEW t \in ULong, NEW f \in ULong, NEW n \in Int
  PROVE  (Plus(t, n) + 0 - f) % ULongMod = (t + n - f) % ULongMod
<1> DEFINE m == ULongMod
<1> DEFINE a == t + n
<1> DEFINE b == - f
<1>1. m \in Nat \ {0} /\ a \in Int /\ b \in Int /\ f \in Int
  BY DdkExtAssumption DEF DdkExtAssumption, ULong
<1>2. ((a % m) + b) % m = (a + b) % m
  BY <1>1, ModInner
<1>3. a % m \in Int
  BY <1>1, ModOf
<1>4. a + b = t + n - f /\ (a % m) + b = (a % m) + 0 - f
  BY <1>1, <1>3
<1>5. Plus(t, n) = a % m
  BY DEF Plus
<1> QED
  BY <1>1, <1>2, <1>3, <1>4, <1>5

(* The statistic and the LED agree up to the current run (:55-64, :205), as    *)
(* long as the arguments of the commands fit into an int: one that does not   *)
(* may become a negative count, which a run without a flash adds.              *)
THEOREM BlinksAccounted ==
  ASSUME LongVals \subseteq Int32
  PROVE  Spec => []BlinkAccounting
<1>0. IntHalf \in Nat \ {0} /\ ULongMod \in Nat \ {0}
  BY DdkExtAssumption DEF DdkExtAssumption
<1> DEFINE Acc == Counting /\ BlinkAccounting
<1>1. Init => Acc
  <2> SUFFICES ASSUME Init PROVE Acc
    OBVIOUS
  <2>1. totalBlinks + worker.done - flashes = 0 /\ 0 % ULongMod = 0
    BY <1>0 DEF Init, NoRun
  <2>2. Counting
    BY <1>0, DdkExtAssumption DEF DdkExtAssumption, Init, NoRun, Counting
  <2> QED
    BY <1>0, <2>1, <2>2 DEF BlinkAccounting
<1>2. TypeOK /\ Acc /\ [Next]_vars => Acc'
  <2> SUFFICES ASSUME TypeOK, Counting, BlinkAccounting, [Next]_vars PROVE Acc'
    OBVIOUS
  <2>1. ASSUME UNCHANGED <<config, totalBlinks, flashes, worker>> PROVE Acc'
    BY <2>1 DEF Counting, BlinkAccounting, config
  <2>2. ASSUME NEW w \in Writers, Writer(w) PROVE Acc'
    BY <2>1, <2>2 DEF Writer, WriteSuccess, ArmTimer, QueueBlink, WriteFail, stats
  <2>3. ASSUME NEW v \in LongVals, ProcTimer(v) \/ ProcBlink(v) PROVE Acc'
    <3>1. UNCHANGED <<totalBlinks, flashes, worker>>
      BY <2>3 DEF ProcTimer, ProcBlink, stats
    <3>2. blinkCount' \in 0 .. IntHalf - 1
      <4>1. CASE ProcTimer(v)
        BY <4>1 DEF ProcTimer, Counting
      <4>2. CASE ProcBlink(v)
        <5>1. v \in 1 .. IntHalf - 1 /\ blinkCount' = ToInt(v)
          BY <4>2 DEF ProcBlink, Int32
        <5>2. (v + IntHalf) % (2 * IntHalf) = v + IntHalf
          BY <5>1, <1>0
        <5> QED
          BY <5>1, <5>2, <1>0 DEF ToInt
      <4> QED
        BY <2>3, <4>1, <4>2
    <3> QED
      BY <3>1, <3>2 DEF Counting, BlinkAccounting
  <2>4. CASE ProcReset
    <3>1. worker' = worker /\ config' = config /\ totalBlinks' = 0 /\ flashes' = 0
      BY <2>4 DEF ProcReset
    <3>2. worker.done \in Nat /\ worker.done <= IntHalf - 1
      BY <1>0 DEF Counting
    <3>3. worker.done % ULongMod \in Nat /\ worker.done % ULongMod <= worker.done
      BY <1>0, <3>2, ModSmall
    <3>4. 0 + worker.done - 0 = worker.done
      BY <3>2
    <3> QED
      BY <1>0, <3>1, <3>2, <3>3, <3>4 DEF Counting, BlinkAccounting, config
  <2>5. CASE TimerRuns
    BY <2>1, <2>5 DEF TimerRuns, TimerExpires, TimerRequests, TimerRearms, stats
  <2>6. CASE WorkStarts
    <3>1. worker' = [pc |-> "entered", count |-> worker.count, done |-> worker.done]
      BY <2>6 DEF WorkStarts, TypeOK, Run
    <3> QED
      BY <2>6, <3>1 DEF WorkStarts, Counting, BlinkAccounting, config, stats
  <2>7. CASE WorkSnapshots
    BY <1>0, <2>7 DEF WorkSnapshots, Counting, BlinkAccounting, config, stats
  <2>8. CASE LedOn
    <3>1. worker' = [pc |-> "lit", count |-> worker.count, done |-> worker.done + 1]
      BY <2>8 DEF LedOn, TypeOK, Run
    <3>2. worker.done < worker.count /\ config' = config
      BY <2>8 DEF LedOn
    <3>3. Counting'
      BY <1>0, <3>1, <3>2 DEF Counting, config
    <3>4. totalBlinks' = totalBlinks /\ flashes' = Plus(flashes, 1) /\ worker'.done = worker.done + 1
      BY <2>8, <3>1 DEF LedOn
    <3>5. totalBlinks \in ULong /\ flashes \in ULong /\ worker.done \in Int
      BY DEF TypeOK, Run
    <3>6. (totalBlinks + (worker.done + 1) - Plus(flashes, 1)) % ULongMod
             = (totalBlinks + worker.done - flashes) % ULongMod
      BY <3>5, FlashCounted
    <3> QED
      BY <3>3, <3>4, <3>6 DEF BlinkAccounting
  <2>9. CASE LedOff
    <3>1. worker' = [pc |-> "dark", count |-> worker.count, done |-> worker.done]
      BY <2>9 DEF LedOff, TypeOK, Run
    <3> QED
      BY <2>9, <3>1 DEF LedOff, Counting, BlinkAccounting, config, stats
  <2>10. CASE WorkCounts
    <3>1. worker.done = worker.count
      BY <2>10, <1>0 DEF WorkCounts, Counting
    <3>2. totalBlinks' = Plus(totalBlinks, worker.done) /\ flashes' = flashes /\ worker'.done = 0
      BY <2>10, <3>1 DEF WorkCounts, NoRun
    <3>3. Counting'
      BY <2>10, <1>0 DEF WorkCounts, NoRun, Counting, config
    <3>4. totalBlinks \in ULong /\ flashes \in ULong /\ worker.done \in Int
      BY DEF TypeOK, Run
    <3>5. (Plus(totalBlinks, worker.done) + 0 - flashes) % ULongMod
             = (totalBlinks + worker.done - flashes) % ULongMod
      BY <3>4, RunCounted
    <3> QED
      BY <3>2, <3>3, <3>5 DEF BlinkAccounting
  <2>11. CASE CleanupRuns
    BY <2>1, <2>11 DEF CleanupRuns, RemoveProc, StopTimer, CancelWork, FinishCleanup, stats
  <2>12. CASE UNCHANGED vars
    BY <2>1, <2>12 DEF vars, stats
  <2> QED
    BY <2>2, <2>3, <2>4, <2>5, <2>6, <2>7, <2>8, <2>9, <2>10, <2>11, <2>12
       DEF Next, ProcWrite, WorkerRuns
<1> QED
  BY <1>1, <1>2, TypeCorrect, PTL DEF Spec
=============================================================================
