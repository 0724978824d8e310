---------------------------- MODULE DdkMem_proofs ----------------------------
(* Theorems about DdkMem, for any files, sizes, counts and offsets.          *)
EXTENDS DdkMem, TLAPS

Pcs  == {"closed", "idle", "openWr", "wrMsg", "wrSync", "rdMsg", "rdSync", "skRd", "skWr"}
Held == [at : Int, len : Int]
Ops  == [pc : Pcs, n : Int, done : Int, got : Held]

\* As much of the types as the arithmetic of the offsets needs.
IntTypes ==
    /\ rdOff \in Int /\ wrOff \in Int
    /\ pos \in [Files -> Int]
    /\ held \in [Files -> Held]
    /\ op \in [Files -> Ops]

(* The smaller of two numbers, as MIN() of ddk_mem.c:166 computes it.         *)
LEMMA MinType == \A a, b \in Int : Min(a, b) \in Int
  BY DEF Min

(* An operation is what its constructor is given.                             *)
LEMMA OpType ==
  /\ NoBytes \in Held
  /\ Idle \in Ops /\ Closed \in Ops
  /\ \A pc \in Pcs, n \in Int, done \in Int : Op(pc, n, done, NoBytes) \in Ops
<1>1. NoBytes \in Held
  BY DEF NoBytes, Held
<1>2. \A pc \in Pcs, n \in Int, done \in Int : Op(pc, n, done, NoBytes) \in Ops
  BY <1>1 DEF Op, Ops
<1> QED
  BY <1>1, <1>2 DEF Idle, Closed, Pcs

(* Left-over bytes are where a run of bytes may be (:246-262).                *)
LEMMA DeliverType ==
  ASSUME IntTypes, NEW f \in Files, NEW bytes \in Held, NEW n \in Int, Deliver(f, bytes, n)
  PROVE  /\ pos' \in [Files -> Int] /\ held' \in [Files -> Held]
         /\ op' = [op EXCEPT ![f] = Idle]
<1>1. Min(n, bytes.len) \in Int /\ bytes.at \in Int /\ bytes.len \in Int
  BY MinType DEF Held
<1>2. NoBytes \in Held
  BY OpType
<1>3. [at |-> bytes.at + Min(n, bytes.len), len |-> bytes.len - Min(n, bytes.len)] \in Held
  BY <1>1 DEF Held
<1> QED
  BY <1>1, <1>2, <1>3 DEF Deliver, Returns, Goto, IntTypes

(* No call leaves the integers (:159-184, :218-233, :297-313).                *)
LEMMA TypeStep ==
  ASSUME IntTypes, NEW f \in Files, Step(f)
  PROVE  IntTypes'
<1> USE DEF IntTypes
<1>1. CASE OpenRd(f) \/ OpenWr(f) \/ Close(f)
  <2>1. Op("openWr", 0, 0, NoBytes) \in Ops
    BY OpType DEF Pcs
  <2> QED
    BY <1>1, <2>1, OpType DEF OpenRd, OpenWr, Close, Goto
<1>2. ASSUME NEW n \in WriteCounts, WriteBegins(f, n) PROVE IntTypes'
  <2>1. n \in Int
    BY DdkMemAssumption DEF DdkMemAssumption
  <2>2. Op("wrSync", 0, 0, NoBytes) \in Ops /\ Op("wrMsg", n, 0, NoBytes) \in Ops
    BY <2>1, OpType DEF Pcs
  <2> QED
    BY <1>2, <2>1, <2>2, OpType
       DEF WriteBegins, Written, WriteFails, Enters, Returns, Goto
<1>3. CASE WriteChunk(f)
  <2> DEFINE size == Min(OutBuf, op[f].n - op[f].done)
             done == op[f].done + size
  <2>1. op[f] \in Ops /\ op[f].n \in Int /\ op[f].done \in Int /\ OutBuf \in Int
    BY DdkMemAssumption DEF DdkMemAssumption, Ops
  <2>2. size \in Int /\ done \in Int
    <3>1. op[f].n - op[f].done \in Int
      BY <2>1
    <3>2. size \in Int
      BY <2>1, <3>1, MinType
    <3> QED
      BY <2>1, <3>2
  <2>3. [op[f] EXCEPT !.done = done] \in Ops
    BY <2>1, <2>2 DEF Ops
  <2>4. Op("wrSync", 0, done, NoBytes) \in Ops
    <3> HIDE DEF done
    <3> QED
      BY <2>2, OpType DEF Pcs
  <2> QED
    BY <1>3, <2>1, <2>2, <2>3, <2>4, OpType DEF WriteChunk, Written, WriteFails, Returns, Goto
<1>4. CASE WriteSync(f)
  BY <1>4, OpType DEF WriteSync, WriteFails, Returns, Goto
<1>5. ASSUME NEW n \in ReadCounts, ReadLeftOver(f, n) PROVE IntTypes'
  <2>1. n \in Int /\ held[f] \in Held
    BY DdkMemAssumption DEF DdkMemAssumption
  <2> QED
    BY <1>5, <2>1, DeliverType, OpType DEF ReadLeftOver
<1>6. ASSUME NEW n \in ReadCounts, ReadBegins(f, n) PROVE IntTypes'
  <2>1. n \in Int
    BY DdkMemAssumption DEF DdkMemAssumption
  <2>2. Op("rdMsg", n, 0, NoBytes) \in Ops
    BY <2>1, OpType DEF Pcs
  <2> QED
    BY <1>6, <2>2, OpType DEF ReadBegins, Enters, Fails, Returns, Goto
<1>7. CASE ReadTransfer(f)
  <2> DEFINE size == IF rdOff < Size THEN Min(InBuf, Size - rdOff) ELSE 0
  <2>1. size \in Int
    BY MinType, DdkMemAssumption DEF DdkMemAssumption
  <2>2. Op("rdSync", op[f].n, 0, [at |-> rdOff, len |-> size]) \in Ops
    BY <2>1 DEF Op, Ops, Pcs, Held
  <2> QED
    BY <1>7, <2>1, <2>2, OpType DEF ReadTransfer, Fails, Returns, Goto
<1>8. CASE ReadSync(f)
  <2>1. op[f].got \in Held /\ op[f].n \in Int /\ op[f].got.len \in Int
    BY DEF Ops, Held
  <2> QED
    BY <1>8, <2>1, DeliverType, OpType DEF ReadSync, Fails, Returns, Goto
<1>9. CASE Seek(f)
  <2>1. PICK offset \in SeekOffsets, base \in {0, rdOff, Size} : SeekBegins(f, offset, base)
    BY <1>9 DEF Seek
  <2> DEFINE n == IF offset + base < 0 THEN 0 ELSE Min(offset + base, Size)
  <2>2. n \in Int
    BY MinType, DdkMemAssumption DEF DdkMemAssumption
  <2>3. Op("skRd", n, 0, NoBytes) \in Ops
    BY <2>2, OpType DEF Pcs
  <2> QED
    BY <2>1, <2>3 DEF SeekBegins, Enters, Goto
<1>10. CASE SeekRd(f) \/ SeekWr(f)
  <2>1. op[f].n \in Int /\ [op[f] EXCEPT !.pc = "skWr"] \in Ops
    BY DEF Ops, Pcs
  <2> QED
    BY <1>10, <2>1, OpType DEF SeekRd, SeekWr, Fails, Returns, Goto
<1>11. ASSUME NEW v \in IoctlOffsets, IoctlSet(f, v) PROVE IntTypes'
  BY <1>11, DdkMemAssumption DEF DdkMemAssumption, IoctlSet
<1> QED
  BY <1>1, <1>2, <1>3, <1>4, <1>5, <1>6, <1>7, <1>8, <1>9, <1>10, <1>11 DEF Step
(* A step of one file leaves the calls of the others alone.                   *)
LEMMA StepLocal ==
  ASSUME IntTypes, NEW f \in Files, Step(f)
  PROVE  \A g \in Files : g # f => op'[g] = op[g]
BY DEF IntTypes, Step, OpenRd, OpenWr, Close, WriteBegins, Written, WriteChunk, WriteSync,
       WriteFails, ReadLeftOver, ReadBegins, ReadTransfer, ReadSync, Deliver, Fails, Seek,
       SeekBegins, SeekRd, SeekWr, IoctlSet, Enters, Returns, Goto

-----------------------------------------------------------------------------
(* How a call may end: as a write that ddk_ext knows of, or not as a write.   *)
Ends == [result : {"none", "written", "notWritten", "done", "failed"},
         reported : {"none", "success", "fail"}]
Truthful(end) ==
    /\ end \in Ends
    /\ end.result = "written" => end.reported = "success"
    /\ end.reported = "fail" => end.result = "notWritten"

\* A write past its last packet has been reported, and as a success.
Reported ==
    /\ last \in [Files -> Ends]
    /\ \A f \in Files : /\ Truthful(last[f])
                        /\ op[f].pc = "wrSync" => last[f] = End("none", "success")

(* A step leaves a truthful record of its call, and ddk_write() reaches its   *)
(* last set_off() only by way of ddk_ext_on_write_success() (:185, :193).     *)
LEMMA Outcome ==
  ASSUME IntTypes, Reported, NEW f \in Files, Step(f)
  PROVE  \E end \in Ends : /\ Truthful(end)
                           /\ last' = [last EXCEPT ![f] = end]
                           /\ op'[f].pc = "wrSync" => end = End("none", "success")
<1> DEFINE Goal(end) == /\ last' = [last EXCEPT ![f] = end]
                        /\ op'[f].pc = "wrSync" => end = End("none", "success")
<1>1. /\ Truthful(NoCall) /\ Truthful(End("none", "success")) /\ Truthful(End("written", "success"))
      /\ Truthful(End("done", "none")) /\ Truthful(End("failed", "none"))
      /\ \A reported \in {"none", "success", "fail"} : Truthful(End("notWritten", reported))
  BY DEF Truthful, Ends, End, NoCall
<1>2. ASSUME NEW end, Truthful(end), Goal(end)
      PROVE  \E e \in Ends : Truthful(e) /\ Goal(e)
  BY <1>2 DEF Truthful
<1>3. ASSUME UNCHANGED last, op'[f].pc # "wrSync"
      PROVE  Truthful(last[f]) /\ Goal(last[f])
  BY <1>3 DEF Reported
<1>4. CASE OpenRd(f) \/ OpenWr(f)
  <2>1. UNCHANGED last /\ op'[f].pc # "wrSync"
    BY <1>4 DEF OpenRd, OpenWr, Goto, Op, Idle, Closed, IntTypes
  <2> QED
    BY <2>1, <1>2, <1>3
<1>5. CASE Close(f)
  <2>1. Goal(NoCall)
    BY <1>5 DEF Close, Goto, Op, Closed, IntTypes
  <2> QED
    BY <2>1, <1>1, <1>2
<1>6. ASSUME NEW n \in WriteCounts, WriteBegins(f, n)
      PROVE  \E e \in Ends : Truthful(e) /\ Goal(e)
  <2>1. Goal(End("none", "success")) \/ Goal(NoCall) \/ Goal(End("notWritten", "none"))
    BY <1>6 DEF WriteBegins, Written, WriteFails, Enters, Returns, Goto, Op, Idle, IntTypes
  <2> QED
    BY <2>1, <1>1, <1>2
<1>7. CASE WriteChunk(f)
  <2>1. \/ Goal(End("none", "success"))
        \/ Goal(End("notWritten", "fail")) \/ Goal(End("notWritten", "none"))
        \/ UNCHANGED last /\ op'[f].pc # "wrSync"
    BY <1>7 DEF WriteChunk, Written, WriteFails, Returns, Goto, Op, Idle, IntTypes, Ops
  <2> QED
    BY <2>1, <1>1, <1>2, <1>3
<1>8. CASE WriteSync(f)
  <2>1. last[f].reported = "success"
    BY <1>8 DEF WriteSync, Reported, End
  <2>2. Goal(End("written", "success")) \/ Goal(End("notWritten", "success"))
    BY <1>8, <2>1 DEF WriteSync, WriteFails, Returns, Goto, Op, Idle, IntTypes
  <2> QED
    BY <2>2, <1>1, <1>2
<1>9. ASSUME NEW n \in ReadCounts, ReadLeftOver(f, n) \/ ReadBegins(f, n)
      PROVE  \E e \in Ends : Truthful(e) /\ Goal(e)
  <2>1. Goal(End("done", "none")) \/ Goal(End("failed", "none")) \/ Goal(NoCall)
    BY <1>9 DEF ReadLeftOver, ReadBegins, Deliver, Fails, Enters, Returns, Goto, Op, Idle,
                IntTypes
  <2> QED
    BY <2>1, <1>1, <1>2
<1>10. CASE ReadTransfer(f) \/ ReadSync(f) \/ Seek(f) \/ SeekRd(f) \/ SeekWr(f)
  <2>1. \/ Goal(End("done", "none")) \/ Goal(End("failed", "none")) \/ Goal(NoCall)
        \/ UNCHANGED last /\ op'[f].pc # "wrSync"
    BY <1>10 DEF ReadTransfer, ReadSync, Deliver, Seek, SeekBegins, SeekRd, SeekWr, Fails,
                 Enters, Returns, Goto, Op, Idle, IntTypes, Ops
  <2> QED
    BY <2>1, <1>1, <1>2, <1>3
<1>11. ASSUME NEW v \in IoctlOffsets, IoctlSet(f, v)
       PROVE  \E e \in Ends : Truthful(e) /\ Goal(e)
  BY <1>11, <1>2, <1>3 DEF IoctlSet, Begins
<1> QED
  BY <1>4, <1>5, <1>6, <1>7, <1>8, <1>9, <1>10, <1>11 DEF Step

(* A step leaves the records of all calls truthful.                           *)
LEMMA ReportedStep ==
  ASSUME IntTypes, Reported, NEW f \in Files, Step(f)
  PROVE  Reported'
<1>1. \A g \in Files : g # f => op'[g] = op[g]
  BY StepLocal
<1>2. ASSUME NEW end \in Ends, Truthful(end), last' = [last EXCEPT ![f] = end],
             op'[f].pc = "wrSync" => end = End("none", "success")
      PROVE  Reported'
  <2>1. last' \in [Files -> Ends]
    BY <1>2 DEF Reported
  <2>2. Truthful(last'[f]) /\ (op'[f].pc = "wrSync" => last'[f] = End("none", "success"))
    BY <1>2 DEF Reported
  <2>3. ASSUME NEW g \in Files, g # f
        PROVE  /\ Truthful(last'[g])
               /\ op'[g].pc = "wrSync" => last'[g] = End("none", "success")
    BY <2>3, <1>1, <1>2 DEF Reported
  <2> QED
    BY <2>1, <2>2, <2>3 DEF Reported, Truthful
<1> QED
  BY <1>2, Outcome

(* What a write returns and what the statistics have been told of it agree,   *)
(* with any faults and any other files (:171-185).                            *)
THEOREM WritesReported == Spec => []SuccessReported
<1>1. Init => IntTypes /\ Reported
  BY OpType DEF Init, IntTypes, Reported, Truthful, Ends, NoCall, End, Closed, Op
<1>2. IntTypes /\ Reported /\ [Next]_vars => (IntTypes /\ Reported)'
  <2> SUFFICES ASSUME IntTypes, Reported, [Next]_vars PROVE (IntTypes /\ Reported)'
    OBVIOUS
  <2>1. CASE Next
    BY <2>1, TypeStep, ReportedStep DEF Next
  <2>2. CASE UNCHANGED vars
    BY <2>2 DEF vars, IntTypes, Reported, Truthful
  <2> QED
    BY <2>1, <2>2
<1>3. Reported => SuccessReported
  BY DEF Reported, Truthful, SuccessReported
<1> QED
  BY <1>1, <1>2, <1>3, PTL DEF Spec

-----------------------------------------------------------------------------
(* Callers that serialize, as a mutex around each call (:158, :217) would make *)
(* them: no two calls are in progress at once.                                *)
OneBusy == \A f, g \in Files : Busy(f) /\ Busy(g) => f = g

(* With serialized callers it finds none in progress: it begins a call, or it *)
(* goes on with the only one.                                                 *)
LEMMA StepAlone ==
  ASSUME Serial, OneBusy, NEW f \in Files, Step(f)
  PROVE  \A g \in Files : g # f => ~Busy(g)
<1>1. Busy(f) \/ \A g \in Files : ~Busy(g)
  BY DEF Step, OpenRd, OpenWr, Close, WriteBegins, WriteChunk, WriteSync, ReadLeftOver,
         ReadBegins, ReadTransfer, ReadSync, Seek, SeekBegins, SeekRd, SeekWr, IoctlSet,
         Begins, Busy
<1> QED
  BY <1>1 DEF OneBusy

(* The message due next on f finds the board where the driver expects it.     *)
AtPosition(f) ==
    /\ op[f].pc = "wrMsg" => wrOff = pos[f] + op[f].done
    /\ op[f].pc = "rdMsg" => rdOff = pos[f]
    /\ op[f].pc = "rdSync" => op[f].got.at = pos[f]

(* Each step of a call leaves the board where its next message expects it.    *)
LEMMA PositionStep ==
  ASSUME IntTypes, NEW f \in Files, AtPosition(f), Step(f)
  PROVE  AtPosition(f)'
<1> USE DEF IntTypes, AtPosition
<1>1. CASE OpenRd(f) \/ OpenWr(f) \/ Close(f) \/ SeekRd(f) \/ SeekWr(f) \/ WriteSync(f)
  BY <1>1 DEF OpenRd, OpenWr, Close, SeekRd, SeekWr, WriteSync, WriteFails, Fails, Returns,
              Goto, Op, Idle, Closed, Ops, Pcs
<1>2. ASSUME NEW n \in WriteCounts, WriteBegins(f, n) PROVE AtPosition(f)'
  BY <1>2 DEF WriteBegins, Written, WriteFails, Enters, Returns, Goto, Op, Idle
<1>3. CASE WriteChunk(f)
  <2> DEFINE size == Min(OutBuf, op[f].n - op[f].done)
  <2>1. op[f].done \in Int /\ wrOff = pos[f] + op[f].done
    BY <1>3 DEF WriteChunk, Ops
  <2>2. size \in Int
    <3>1. OutBuf \in Int /\ op[f].n - op[f].done \in Int
      BY <2>1, DdkMemAssumption DEF DdkMemAssumption, Ops
    <3> QED
      BY <3>1, MinType
  <2>3. CASE op' = [op EXCEPT ![f] = [op[f] EXCEPT !.done = op[f].done + size]]
             /\ wrOff' = wrOff + size /\ UNCHANGED pos
    <3>1. op'[f].pc = op[f].pc /\ op'[f].done = op[f].done + size
      BY <2>3 DEF Ops
    <3>2. op[f].pc = "wrMsg"
      BY <1>3 DEF WriteChunk
    <3> HIDE DEF size
    <3> QED
      BY <2>1, <2>2, <2>3, <3>1, <3>2
  <2>4. CASE op'[f].pc \in {"idle", "wrSync"}
    BY <2>4
  <2> QED
    BY <1>3, <2>3, <2>4 DEF WriteChunk, Written, WriteFails, Returns, Goto, Op, Idle
<1>4. ASSUME NEW n \in ReadCounts, ReadLeftOver(f, n) \/ ReadBegins(f, n)
      PROVE  AtPosition(f)'
  BY <1>4 DEF ReadLeftOver, ReadBegins, Deliver, Fails, Enters, Returns, Goto, Op, Idle
<1>5. CASE ReadTransfer(f) \/ ReadSync(f)
  BY <1>5 DEF ReadTransfer, ReadSync, Deliver, Fails, Returns, Goto, Op, Idle
<1>6. CASE Seek(f)
  BY <1>6 DEF Seek, SeekBegins, Enters, Goto, Op
<1>7. ASSUME NEW v \in IoctlOffsets, IoctlSet(f, v) PROVE AtPosition(f)'
  BY <1>7 DEF IoctlSet, Begins
<1> QED
  BY <1>1, <1>2, <1>3, <1>4, <1>5, <1>6, <1>7 DEF Step

(* Between two messages of a call the board and the driver agree on what the  *)
(* first of them has done; a call that reads has found no left-over bytes     *)
(* (:201-213), and an open that is not over has no call behind it.            *)
Settled(f) ==
    /\ op[f].pc \in {"closed", "openWr"} => last[f] = NoCall
    /\ op[f].pc = "wrSync" => wrOff = pos[f]
    /\ op[f].pc = "rdSync" => rdOff = pos[f] + op[f].got.len
    /\ op[f].pc = "skWr" => rdOff = op[f].n
    /\ op[f].pc \in {"rdMsg", "rdSync"} => held[f].len = 0

(* Each step of a call leaves them in agreement.                              *)
LEMMA SettledStep ==
  ASSUME IntTypes, Reported, NEW f \in Files, AtPosition(f), Settled(f), Step(f)
  PROVE  Settled(f)'
<1> USE DEF IntTypes, Settled
<1>0. last \in [Files -> Ends]
  BY DEF Reported
<1>1. CASE OpenRd(f) \/ OpenWr(f) \/ Close(f)
  <2>1. CASE OpenRd(f)
    BY <2>1 DEF OpenRd, Begins, Goto, Op
  <2>2. CASE OpenWr(f)
    BY <2>2 DEF OpenWr, Goto, Op, Idle, Closed
  <2>3. CASE Close(f)
    BY <1>0, <2>3 DEF Close, Goto, Op, Closed
  <2> QED
    BY <1>1, <2>1, <2>2, <2>3
<1>2. ASSUME NEW n \in WriteCounts, WriteBegins(f, n) PROVE Settled(f)'
  <2>1. CASE op'[f].pc \in {"idle", "wrMsg"}
    BY <2>1
  <2>2. CASE n = 0 /\ wrOff' = pos[f] /\ Written(f, 0)
    BY <2>2 DEF Written, Goto, Op
  <2> QED
    BY <1>2, <2>1, <2>2 DEF WriteBegins, WriteFails, Enters, Returns, Goto, Op, Idle
<1>3. CASE WriteChunk(f)
  <2> DEFINE size == Min(OutBuf, op[f].n - op[f].done)
             done == op[f].done + size
  <2>1. op[f].done \in Int /\ wrOff = pos[f] + op[f].done
    BY <1>3 DEF WriteChunk, Ops, AtPosition
  <2>2. size \in Int
    <3>1. OutBuf \in Int /\ op[f].n - op[f].done \in Int
      BY <2>1, DdkMemAssumption DEF DdkMemAssumption, Ops
    <3> QED
      BY <3>1, MinType
  <2>3. CASE wrOff' = wrOff + size /\ Written(f, done)
    <3>1. pos'[f] = pos[f] + (op[f].done + size) /\ op'[f].pc = "wrSync"
      BY <2>3 DEF Written, Goto, Op
    <3> HIDE DEF size
    <3> QED
      BY <2>1, <2>2, <2>3, <3>1
  <2>4. CASE op'[f].pc \in {"idle", "wrMsg"}
    BY <2>4
  <2>5. CASE Goto(f, [op[f] EXCEPT !.done = done])
    <3>1. op'[f].pc = op[f].pc
      BY <2>5 DEF Goto, Ops
    <3> QED
      BY <1>3, <2>4, <3>1 DEF WriteChunk
  <2>6. CASE Goto(f, Idle)
    BY <2>4, <2>6 DEF Goto, Op, Idle
  <2>7. \/ wrOff' = wrOff + size /\ Written(f, done)
        \/ Goto(f, [op[f] EXCEPT !.done = done])
        \/ Goto(f, Idle)
    BY <1>3 DEF WriteChunk, WriteFails, Returns
  <2> QED
    BY <2>3, <2>5, <2>6, <2>7
<1>4. CASE WriteSync(f)
  BY <1>4 DEF WriteSync, WriteFails, Returns, Goto, Op, Idle
<1>5. ASSUME NEW n \in ReadCounts, ReadLeftOver(f, n) \/ ReadBegins(f, n) PROVE Settled(f)'
  BY <1>5 DEF ReadLeftOver, ReadBegins, Deliver, Fails, Enters, Returns, Goto, Op, Idle
<1>6. CASE ReadTransfer(f)
  <2> DEFINE size == IF rdOff < Size THEN Min(InBuf, Size - rdOff) ELSE 0
             o == Op("rdSync", op[f].n, 0, [at |-> rdOff, len |-> size])
  <2>1. CASE op'[f] = o /\ rdOff' = rdOff + size /\ UNCHANGED <<pos, held>>
    <3>1. o.pc = "rdSync" /\ o.got.len = size
      BY DEF Op
    <3>2. rdOff = pos[f] /\ held[f].len = 0
      BY <1>6 DEF ReadTransfer, AtPosition
    <3> HIDE DEF o, size
    <3> QED
      BY <2>1, <3>1, <3>2
  <2>2. CASE op'[f].pc = "idle"
    BY <2>2
  <2> QED
    BY <1>6, <2>1, <2>2 DEF ReadTransfer, Fails, Returns, Goto, Op, Idle
<1>7. CASE ReadSync(f)
  BY <1>7 DEF ReadSync, Deliver, Fails, Returns, Goto, Op, Idle
<1>8. CASE Seek(f)
  BY <1>8 DEF Seek, SeekBegins, Enters, Goto, Op
<1>9. CASE SeekRd(f) \/ SeekWr(f)
  BY <1>9 DEF SeekRd, SeekWr, Fails, Returns, Goto, Op, Idle, Ops
<1>10. ASSUME NEW v \in IoctlOffsets, IoctlSet(f, v) PROVE Settled(f)'
  BY <1>10 DEF IoctlSet, Begins
<1> QED
  BY <1>1, <1>2, <1>3, <1>4, <1>5, <1>6, <1>7, <1>8, <1>9, <1>10 DEF Step

(* What a call may rely on when callers serialize.                            *)
SerialInv ==
    /\ IntTypes
    /\ Reported
    /\ OneBusy
    /\ \A f \in Files : AtPosition(f) /\ Settled(f)

\* A file without a call in progress is not affected by the others' steps.
LEMMA OthersKept ==
  ASSUME IntTypes, Reported, NEW f \in Files, Step(f)
  PROVE  \A g \in Files : g # f => /\ op'[g] = op[g] /\ last'[g] = last[g]
                                  /\ pos'[g] = pos[g] /\ held'[g] = held[g]
<1> USE DEF IntTypes
<1>1. \A g \in Files : g # f => op'[g] = op[g] /\ last'[g] = last[g]
  BY StepLocal, Outcome DEF Reported
<1>2. ASSUME NEW n, NEW bytes, Deliver(f, bytes, n), NEW g \in Files, g # f
      PROVE  pos'[g] = pos[g] /\ held'[g] = held[g]
  BY <1>2 DEF Deliver
<1>3. \A g \in Files : g # f => pos'[g] = pos[g] /\ held'[g] = held[g]
  BY <1>2 DEF Step, OpenRd, OpenWr, Close, WriteBegins, Written, WriteChunk, WriteSync,
              WriteFails, ReadLeftOver, ReadBegins, ReadTransfer, ReadSync, Fails, Seek,
              SeekBegins, SeekRd, SeekWr, IoctlSet
<1> QED
  BY <1>1, <1>3

(* It stays true: the call in progress keeps it for its own file, and no      *)
(* other file has one.                                                        *)
LEMMA SerialSafe == ASSUME Serial PROVE Spec => []SerialInv
<1>1. Init => SerialInv
  <2> SUFFICES ASSUME Init PROVE SerialInv
    OBVIOUS
  <2>1. IntTypes
    BY OpType DEF Init, IntTypes
  <2>2. Reported
    BY DEF Init, Reported, Truthful, Ends, NoCall, End, Closed, Op
  <2>3. \A f \in Files : op[f].pc = "closed" /\ last[f] = NoCall
    BY DEF Init, Closed, Op
  <2> QED
    BY <2>1, <2>2, <2>3 DEF SerialInv, OneBusy, Busy, AtPosition, Settled
<1>2. SerialInv /\ [Next]_vars => SerialInv'
  <2> SUFFICES ASSUME SerialInv, [Next]_vars PROVE SerialInv'
    OBVIOUS
  <2>1. ASSUME NEW f \in Files, Step(f) PROVE SerialInv'
    <3>1. IntTypes' /\ Reported'
      BY <2>1, TypeStep, ReportedStep DEF SerialInv
    <3>2. \A g \in Files : g # f => /\ ~ Busy(g)
                                    /\ op'[g] = op[g] /\ last'[g] = last[g]
      BY <2>1, StepAlone, OthersKept DEF SerialInv
    <3>3. OneBusy'
      BY <3>2 DEF OneBusy, Busy
    <3>4. AtPosition(f)' /\ Settled(f)'
      BY <2>1, PositionStep, SettledStep DEF SerialInv
    <3>5. ASSUME NEW g \in Files, g # f PROVE AtPosition(g)' /\ Settled(g)'
      <4>1. op'[g].pc \in {"idle", "closed"} /\ (op'[g].pc = "closed" => last'[g] = NoCall)
        BY <3>2, <3>5 DEF SerialInv, Settled, Busy
      <4> QED
        BY <4>1 DEF AtPosition, Settled
    <3> QED
      BY <3>1, <3>3, <3>4, <3>5 DEF SerialInv
  <2>2. CASE UNCHANGED vars
    BY <2>2 DEF vars, SerialInv, IntTypes, Reported, Truthful, OneBusy, Busy, AtPosition, Settled
  <2> QED
    BY <2>1, <2>2 DEF Next
<1> QED
  BY <1>1, <1>2, PTL DEF Spec

(* With serialized callers every transfer takes place at the file's position, *)
(* whatever seeks, ioctls, failures and other files have done in between: the *)
(* set_off() at ddk_mem.c:159 and :218 is enough.                             *)
THEOREM TransfersInPlace ==
  ASSUME Serial
  PROVE  Spec => []TransferAtPosition
<1>1. SerialInv => TransferAtPosition
  BY DEF SerialInv, AtPosition, TransferAtPosition
<1> QED
  BY <1>1, SerialSafe, PTL

(* A call that ends well and leaves no bytes over has brought both offsets of *)
(* the board to the file's position (:193, :233, :305-313): the second        *)
(* message of each call adds what the first did not do.                       *)
THEOREM OffsetsInStep ==
  ASSUME Serial
  PROVE  Spec => OffsetsSynced
<1> DEFINE Ended(f) == Busy(f) /\ last'[f].result \in {"written", "done"}
                         /\ held'[f].len = 0 /\ op'[f].pc = "idle"
           InStep(f) == rdOff' = pos'[f] /\ wrOff' = pos'[f]
<1>1. SerialInv /\ [Next]_vars => [\A f \in Files : Ended(f) => InStep(f)]_vars
  <2> SUFFICES ASSUME SerialInv, NEW g \in Files, Step(g), NEW f \in Files, Ended(f)
               PROVE  InStep(f)
    BY DEF Next
  <2>1. f = g
    BY StepAlone DEF SerialInv
  <2>2. /\ IntTypes /\ last \in [Files -> Ends] /\ AtPosition(f) /\ Settled(f)
        /\ Busy(f) /\ op'[f].pc = "idle" /\ held'[f].len = 0
        /\ last'[f].result \in {"written", "done"}
    BY DEF SerialInv, Reported
  <2> HIDE DEF Ended
  <2> USE <2>1, <2>2 DEF IntTypes
  <2>3. CASE OpenWr(f)
    BY <2>3 DEF OpenWr, Settled, NoCall, End
  <2>4. CASE WriteChunk(f)
    <3>1. ASSUME NEW done, Goto(f, [op[f] EXCEPT !.done = done]) \/ Written(f, done)
          PROVE  op'[f].pc \in {"wrMsg", "wrSync"}
      BY <2>4, <3>1 DEF WriteChunk, Written, Goto, Op, Ops
    <3>2. ~ \E done : Goto(f, [op[f] EXCEPT !.done = done]) \/ Written(f, done)
      BY <3>1
    <3>3. ASSUME NEW reported, WriteFails(f, reported) PROVE FALSE
      BY <3>3 DEF WriteFails, Returns, End
    <3> QED
      BY <2>4, <3>2, <3>3 DEF WriteChunk
  <2>5. CASE WriteSync(f)
    BY <2>5 DEF WriteSync, WriteFails, Returns, End, Settled
  <2>6. CASE ReadTransfer(f)
    BY <2>6 DEF ReadTransfer, Fails, Returns, Goto, Op, End
  <2>7. CASE ReadSync(f)
    <3> DEFINE sent == Min(op[f].n, op[f].got.len)
    <3>1. op[f].got.len \in Int /\ sent \in Int
      BY MinType DEF Ops, Held
    <3>2. CASE pos'[f] = pos[f] + sent /\ rdOff' = rdOff /\ wrOff' = pos[f] + op[f].got.len
               /\ held'[f] = IF sent = op[f].got.len THEN NoBytes
                             ELSE [at |-> op[f].got.at + sent, len |-> op[f].got.len - sent]
      <4>1. sent = op[f].got.len
        BY <3>1, <3>2
      <4>2. rdOff = pos[f] + op[f].got.len
        BY <2>7 DEF ReadSync, Settled
      <4> QED
        BY <3>2, <4>1, <4>2
    <3> QED
      BY <2>7, <3>2 DEF ReadSync, Deliver, Fails, Returns, End
  <2>8. CASE SeekRd(f)
    BY <2>8 DEF SeekRd, Fails, Returns, Goto, End, Ops
  <2>9. CASE SeekWr(f)
    BY <2>9 DEF SeekWr, Fails, Returns, End, Settled
  <2>10. ~ Begins(f, "idle") /\ ~ Begins(f, "closed")
    BY DEF Begins, Busy
  <2> QED
    BY <2>3, <2>4, <2>5, <2>6, <2>7, <2>8, <2>9, <2>10
       DEF Step, OpenRd, Close, WriteBegins, ReadLeftOver, ReadBegins, Seek, SeekBegins, IoctlSet
<1> QED
  BY <1>1, SerialSafe, PTL DEF Spec, OffsetsSynced

(* The bytes of a packet are delivered in order, none twice and none lost,    *)
(* through any short reads and failing copies (:246-262).                     *)
THEOREM LeftOversInOrder ==
  ASSUME Serial
  PROVE  Spec => LeftOverInOrder
<1> DEFINE Kept(f) == held'[f] # held[f] /\ held'[f].len > 0
           InOrder(f) == held'[f].at - pos'[f]
                            = IF held[f].len = 0 THEN 0 ELSE held[f].at - pos[f]
<1>1. ASSUME IntTypes, NEW f \in Files, NEW bytes \in Held, NEW n \in Int,
             Deliver(f, bytes, n), held'[f].len > 0
      PROVE  held'[f].at - pos'[f] = bytes.at - pos[f]
  <2> DEFINE sent == Min(n, bytes.len)
  <2>1. sent \in Int /\ bytes.at \in Int /\ pos[f] \in Int
    BY <1>1, MinType DEF Held, IntTypes
  <2>2. CASE held'[f] = [at |-> bytes.at + sent, len |-> bytes.len - sent]
             /\ pos'[f] = pos[f] + sent
    <3> HIDE DEF sent
    <3> QED
      BY <2>1, <2>2
  <2>3. CASE held'[f] = bytes /\ pos'[f] = pos[f]
    BY <2>3
  <2> QED
    BY <1>1, <2>2, <2>3 DEF Deliver, IntTypes, NoBytes
<1>2. SerialInv /\ [Next]_vars => [\A f \in Files : Kept(f) => InOrder(f)]_vars
  <2> SUFFICES ASSUME SerialInv, NEW g \in Files, Step(g), NEW f \in Files, Kept(f)
               PROVE  InOrder(f)
    BY DEF Next
  <2>1. f = g
    BY OthersKept DEF SerialInv
  <2>2. /\ IntTypes /\ AtPosition(f) /\ Settled(f)
        /\ held'[f] # held[f] /\ held'[f].len > 0
    BY DEF SerialInv
  <2> HIDE DEF Kept
  <2>3. ASSUME NEW n \in ReadCounts, ReadLeftOver(f, n) PROVE InOrder(f)
    <3>1. n \in Int /\ held[f] \in Held /\ held[f].len # 0
      BY <2>2, <2>3, DdkMemAssumption DEF DdkMemAssumption, IntTypes, ReadLeftOver
    <3> QED
      BY <1>1, <2>2, <2>3, <3>1 DEF ReadLeftOver
  <2>4. CASE ReadSync(f)
    <3>1. /\ op[f].n \in Int /\ op[f].got \in Held /\ held[f].len = 0
          /\ op[f].got.at = pos[f] /\ pos[f] \in Int
      BY <2>2, <2>4 DEF IntTypes, Ops, ReadSync, AtPosition, Settled
    <3>2. Deliver(f, op[f].got, op[f].n)
      BY <2>2, <2>4 DEF ReadSync, Fails
    <3>3. held'[f].at - pos'[f] = op[f].got.at - pos[f]
      BY <1>1, <2>2, <3>1, <3>2
    <3> QED
      BY <3>1, <3>3
  <2>5. CASE Close(f)
    BY <2>2, <2>5 DEF Close, NoBytes, IntTypes
  <2>6. CASE UNCHANGED held
    BY <2>2, <2>6
  <2> QED
    BY <2>1, <2>3, <2>4, <2>5, <2>6
       DEF Step, OpenRd, OpenWr, WriteBegins, WriteChunk, WriteSync, WriteFails, ReadBegins,
           ReadTransfer, Fails, Seek, SeekBegins, SeekRd, SeekWr, IoctlSet
<1> QED
  BY <1>2, SerialSafe, PTL DEF Spec, LeftOverInOrder

-----------------------------------------------------------------------------
(* Offsets and positions stay within in_buf_size of the memory               *)

(* A run of bytes that in_buf can hold and that the board can have sent.      *)
Run(bytes) ==
    /\ bytes.at \in Nat
    /\ bytes.len \in 0 .. InBuf
    /\ bytes.at + bytes.len <= Size + InBuf

OffsetsFit == rdOff \in Offsets /\ wrOff \in Offsets

\* The bytes left over end within the bound, and would if they were at f_pos.
MemFits(f) ==
    /\ pos[f] \in Nat
    /\ Run(held[f])
    /\ pos[f] + held[f].len <= Size + InBuf

OpFits(o) ==
    /\ o.n \in Nat /\ o.done \in Nat /\ Run(o.got)
    /\ o.pc = "wrMsg" => o.done <= o.n
    /\ o.pc \in {"skRd", "skWr"} => o.n <= Size

Fits(f) == MemFits(f) /\ OpFits(op[f])

(* Operations without bytes fit, and so does a file without any left over.    *)
LEMMA NoBytesFit ==
  /\ Run(NoBytes)
  /\ OpFits(Idle) /\ OpFits(Closed)
  /\ \A pc \in Pcs, n \in Nat, done \in Nat :
        (pc = "wrMsg" => done <= n) /\ (pc \in {"skRd", "skWr"} => n <= Size)
            => OpFits(Op(pc, n, done, NoBytes))
<1>1. Run(NoBytes)
  BY DdkMemAssumption DEF DdkMemAssumption, Run, NoBytes
<1> QED
  BY <1>1 DEF OpFits, Op, Idle, Closed

(* What is sent and what is left over add up (:248-262).                      *)
LEMMA DeliverFits ==
  ASSUME IntTypes, NEW f \in Files, NEW bytes \in Held, NEW n \in Nat, Run(bytes),
         pos[f] \in Nat, pos[f] + bytes.len <= Size + InBuf, Deliver(f, bytes, n)
  PROVE  MemFits(f)' /\ op'[f] = Idle
<1> DEFINE sent == Min(n, bytes.len)
<1>0. sent \in 0 .. bytes.len /\ Size \in Nat /\ InBuf \in Nat
  BY DdkMemAssumption DEF DdkMemAssumption, Min, Run
<1>1. \/ /\ pos'[f] = pos[f] + sent
         /\ held'[f] \in {NoBytes, [at |-> bytes.at + sent, len |-> bytes.len - sent]}
      \/ pos'[f] = pos[f] /\ held'[f] = bytes
  BY DEF Deliver, IntTypes
<1>2. op'[f] = Idle
  BY DEF Deliver, Returns, Goto, IntTypes
<1> HIDE DEF sent
<1>3. CASE held'[f] = [at |-> bytes.at + sent, len |-> bytes.len - sent]
           /\ pos'[f] = pos[f] + sent
  BY <1>0, <1>2, <1>3 DEF Run, MemFits
<1>4. CASE held'[f] = NoBytes /\ pos'[f] = pos[f] + sent
  BY <1>0, <1>2, <1>4 DEF Run, NoBytes, MemFits
<1>5. CASE held'[f] = bytes /\ pos'[f] = pos[f]
  BY <1>2, <1>5 DEF MemFits
<1> QED
  BY <1>1, <1>3, <1>4, <1>5

(* Each step of a call keeps within the bounds: the board refuses a packet    *)
(* that does not fit and sends none from beyond its memory, and a seek is     *)
(* clamped (:297-304).                                                        *)
LEMMA FitsStep ==
  ASSUME SerialInv, OffsetsFit, NEW f \in Files, Fits(f), Step(f)
  PROVE  OffsetsFit' /\ Fits(f)'
<1> DEFINE Goal == OffsetsFit' /\ Fits(f)'
           Still == UNCHANGED <<pos, held>>
<1>0. Size \in Nat /\ InBuf \in Nat \ {0} /\ OutBuf \in Nat \ {0} /\ 0 \in Offsets
  BY DdkMemAssumption DEF DdkMemAssumption, Offsets
<1>1. IntTypes /\ AtPosition(f) /\ Settled(f) /\ MemFits(f) /\ OpFits(op[f])
  BY DEF SerialInv, Fits
<1>2. pos[f] \in Offsets
  BY <1>0, <1>1 DEF MemFits, Run, Offsets
<1>3. ASSUME Still PROVE MemFits(f)'
  BY <1>1, <1>3 DEF MemFits
<1>4. ASSUME NEW o, Goto(f, o) PROVE op'[f] = o
  BY <1>1, <1>4 DEF Goto, IntTypes
<1>5. ASSUME Fails(f) PROVE Goal
  <2>1. op'[f] = Idle /\ Still /\ OffsetsFit'
    BY <1>4, <1>5 DEF Fails, Returns, OffsetsFit
  <2> QED
    BY <1>3, <2>1, NoBytesFit DEF Fits
<1>6. ASSUME NEW reported, WriteFails(f, reported) PROVE Fits(f)'
  <2>1. op'[f] = Idle /\ Still
    BY <1>4, <1>6 DEF WriteFails, Returns
  <2> QED
    BY <1>3, <2>1, NoBytesFit DEF Fits
<1>7. CASE OpenRd(f) \/ OpenWr(f)
  <2>1. OffsetsFit' /\ Still
    BY <1>0, <1>7 DEF OpenRd, OpenWr, OffsetsFit
  <2>2. op'[f] \in {Op("openWr", 0, 0, NoBytes), Idle, Closed}
    BY <1>4, <1>7 DEF OpenRd, OpenWr
  <2>3. OpFits(Op("openWr", 0, 0, NoBytes))
    BY NoBytesFit DEF Pcs
  <2> QED
    BY <1>3, <2>1, <2>2, <2>3, NoBytesFit DEF Fits
<1>8. CASE Close(f)
  <2>1. pos'[f] = 0 /\ held'[f] = NoBytes /\ op'[f] = Closed /\ OffsetsFit'
    BY <1>1, <1>4, <1>8 DEF Close, IntTypes, OffsetsFit
  <2>2. MemFits(f)'
    BY <1>0, <2>1, NoBytesFit DEF MemFits, NoBytes
  <2> QED
    BY <2>1, <2>2, NoBytesFit DEF Fits
<1>9. ASSUME NEW n \in WriteCounts, WriteBegins(f, n) PROVE Goal
  <2>1. n \in Nat
    BY DdkMemAssumption DEF DdkMemAssumption
  <2>2. OffsetsFit'
    BY <1>2, <1>9 DEF WriteBegins, WriteFails, OffsetsFit
  <2>3. CASE Enters(f, Op("wrMsg", n, 0, NoBytes)) /\ Still
    <3>1. op'[f] = Op("wrMsg", n, 0, NoBytes)
      BY <1>4, <2>3 DEF Enters
    <3>2. OpFits(Op("wrMsg", n, 0, NoBytes))
      BY <2>1, NoBytesFit DEF Pcs
    <3> QED
      BY <1>3, <2>2, <2>3, <3>1, <3>2 DEF Fits
  <2>4. CASE Written(f, 0) /\ UNCHANGED held
    <3>1. op'[f] = Op("wrSync", 0, 0, NoBytes)
      BY <1>4, <2>4 DEF Written
    <3>2. OpFits(Op("wrSync", 0, 0, NoBytes))
      BY NoBytesFit DEF Pcs
    <3>3. pos'[f] = pos[f] /\ held'[f] = held[f]
      BY <1>1, <2>4 DEF Written, IntTypes
    <3> QED
      BY <1>1, <2>2, <3>1, <3>2, <3>3 DEF Fits, MemFits
  <2> QED
    BY <1>6, <1>9, <2>2, <2>3, <2>4 DEF WriteBegins
<1>10. CASE WriteChunk(f)
  <2> DEFINE size == Min(OutBuf, op[f].n - op[f].done)
             done == op[f].done + size
  <2>1. /\ op[f].n \in Nat /\ op[f].done \in Nat /\ op[f].done <= op[f].n
        /\ wrOff = pos[f] + op[f].done /\ pos[f] \in Nat
    BY <1>1, <1>10 DEF WriteChunk, OpFits, AtPosition, MemFits
  <2>2. size \in Nat /\ done \in Nat /\ done <= op[f].n
    BY <1>0, <2>1 DEF Min
  <2> HIDE DEF size
  <2>3. CASE /\ wrOff + size <= Size /\ wrOff' = wrOff + size /\ UNCHANGED <<rdOff, held>>
             /\ Goto(f, [op[f] EXCEPT !.done = done]) /\ Still
    <3>1. OffsetsFit'
      BY <1>0, <2>1, <2>2, <2>3 DEF OffsetsFit, Offsets
    <3>2. op'[f] = [op[f] EXCEPT !.done = done] /\ op[f] \in Ops
      BY <1>1, <1>4, <2>3 DEF IntTypes
    <3>3. OpFits(op'[f])
      BY <1>1, <2>1, <2>2, <3>2 DEF OpFits, Ops
    <3> QED
      BY <1>3, <2>3, <3>1, <3>3 DEF Fits
  <2>4. CASE /\ wrOff + size <= Size /\ wrOff' = wrOff + size /\ UNCHANGED <<rdOff, held>>
             /\ Written(f, done)
    <3>1. OffsetsFit'
      BY <1>0, <2>1, <2>2, <2>4 DEF OffsetsFit, Offsets
    <3>2. op'[f] = Op("wrSync", 0, done, NoBytes)
      BY <1>4, <2>4 DEF Written
    <3>3. OpFits(Op("wrSync", 0, done, NoBytes))
      BY <2>2, NoBytesFit DEF Pcs
    <3>4. pos'[f] = wrOff + size /\ held'[f] = held[f]
      BY <1>1, <2>1, <2>2, <2>4 DEF Written, IntTypes
    <3>5. MemFits(f)'
      BY <1>0, <1>1, <2>1, <2>2, <2>4, <3>4 DEF MemFits, Run
    <3> QED
      BY <3>1, <3>2, <3>3, <3>5 DEF Fits
  <2>5. ASSUME NEW reported, WriteFails(f, reported) PROVE Goal
    BY <1>6, <2>5 DEF WriteFails, OffsetsFit
  <2> QED
    BY <1>10, <2>3, <2>4, <2>5 DEF WriteChunk, size
<1>11. CASE WriteSync(f)
  <2>1. OffsetsFit' /\ Still /\ op'[f] = Idle
    BY <1>2, <1>4, <1>11 DEF WriteSync, WriteFails, Returns, OffsetsFit
  <2> QED
    BY <1>3, <2>1, NoBytesFit DEF Fits
<1>12. ASSUME NEW n \in ReadCounts, ReadLeftOver(f, n) PROVE Goal
  <2>1. n \in Nat /\ held[f] \in Held
    BY <1>1, DdkMemAssumption DEF DdkMemAssumption, IntTypes
  <2>2. MemFits(f)' /\ op'[f] = Idle
    BY <1>1, <1>12, <2>1, DeliverFits DEF ReadLeftOver, MemFits
  <2> QED
    BY <1>12, <2>2, NoBytesFit DEF ReadLeftOver, OffsetsFit, Fits
<1>13. ASSUME NEW n \in ReadCounts, ReadBegins(f, n) PROVE Goal
  <2>1. OpFits(Op("rdMsg", n, 0, NoBytes))
    BY NoBytesFit, DdkMemAssumption DEF DdkMemAssumption, Pcs
  <2>2. CASE rdOff' = pos[f] /\ Enters(f, Op("rdMsg", n, 0, NoBytes))
             /\ UNCHANGED <<wrOff, pos, held>>
    BY <1>2, <1>3, <1>4, <2>1, <2>2 DEF Enters, OffsetsFit, Fits
  <2> QED
    BY <1>5, <1>13, <2>2 DEF ReadBegins
<1>14. CASE ReadTransfer(f)
  <2> DEFINE size == IF rdOff < Size THEN Min(InBuf, Size - rdOff) ELSE 0
             o == Op("rdSync", op[f].n, 0, [at |-> rdOff, len |-> size])
  <2>1. rdOff \in Nat /\ rdOff <= Size + InBuf
    BY <1>0 DEF OffsetsFit, Offsets
  <2>2. size \in 0 .. InBuf /\ rdOff + size <= Size + InBuf
    BY <1>0, <2>1 DEF Min
  <2>3. OpFits(o)
    <3>1. o.pc = "rdSync" /\ o.n = op[f].n /\ o.done = 0 /\ o.got.at = rdOff /\ o.got.len = size
      BY DEF Op
    <3> HIDE DEF o, size
    <3> QED
      BY <1>1, <2>1, <2>2, <3>1 DEF OpFits, Run
  <2>4. CASE rdOff' = rdOff + size /\ Goto(f, o) /\ UNCHANGED <<wrOff, pos, held>>
    <3>1. op'[f] = o
      BY <1>4, <2>4
    <3> HIDE DEF o, size
    <3>2. OffsetsFit'
      BY <1>0, <2>1, <2>2, <2>4 DEF OffsetsFit, Offsets
    <3> QED
      BY <1>3, <2>3, <2>4, <3>1, <3>2 DEF Fits
  <2> QED
    BY <1>5, <1>14, <2>4 DEF ReadTransfer
<1>15. CASE ReadSync(f)
  <2>1. /\ op[f].got \in Held /\ op[f].n \in Nat /\ Run(op[f].got) /\ pos[f] \in Nat
        /\ rdOff = pos[f] + op[f].got.len
    BY <1>1, <1>15 DEF IntTypes, Ops, OpFits, MemFits, ReadSync, Settled
  <2>2. rdOff \in Offsets /\ rdOff <= Size + InBuf
    BY <1>0 DEF OffsetsFit, Offsets
  <2>3. CASE /\ wrOff' = pos[f] + op[f].got.len
             /\ Deliver(f, op[f].got, op[f].n)
             /\ UNCHANGED rdOff
    <3>1. MemFits(f)' /\ op'[f] = Idle
      BY <1>1, <2>1, <2>2, <2>3, DeliverFits
    <3> QED
      BY <2>1, <2>2, <2>3, <3>1, NoBytesFit DEF OffsetsFit, Fits
  <2> QED
    BY <1>5, <1>15, <2>3 DEF ReadSync
<1>16. CASE Seek(f)
  <2>1. PICK offset \in SeekOffsets, base \in {0, rdOff, Size} : SeekBegins(f, offset, base)
    BY <1>16 DEF Seek
  <2> DEFINE n == IF offset + base < 0 THEN 0 ELSE Min(offset + base, Size)
  <2>2. n \in Nat /\ n <= Size
    BY <1>0, <1>1, DdkMemAssumption DEF DdkMemAssumption, Min, IntTypes
  <2>3. OpFits(Op("skRd", n, 0, NoBytes))
    <3> HIDE DEF n
    <3> QED
      BY <2>2, NoBytesFit DEF Pcs
  <2>4. op'[f] = Op("skRd", n, 0, NoBytes) /\ Still /\ OffsetsFit'
    BY <1>4, <2>1 DEF SeekBegins, Enters, OffsetsFit
  <2> QED
    BY <1>3, <2>3, <2>4 DEF Fits
<1>17. CASE SeekRd(f)
  <2>1. op[f].n \in Offsets /\ op[f].n <= Size /\ op[f] \in Ops
    BY <1>0, <1>1, <1>17 DEF SeekRd, OpFits, Offsets, IntTypes
  <2>2. CASE rdOff' = op[f].n /\ Goto(f, [op[f] EXCEPT !.pc = "skWr"])
             /\ UNCHANGED <<wrOff, pos, held>>
    <3>1. op'[f] = [op[f] EXCEPT !.pc = "skWr"]
      BY <1>4, <2>2
    <3>2. OpFits(op'[f])
      BY <1>1, <2>1, <3>1 DEF OpFits, Ops
    <3> QED
      BY <1>3, <2>1, <2>2, <3>2 DEF OffsetsFit, Fits
  <2> QED
    BY <1>5, <1>17, <2>2 DEF SeekRd
<1>18. CASE SeekWr(f)
  <2>1. op[f].n \in Offsets /\ op[f].n \in Nat /\ op[f].n <= Size
    BY <1>0, <1>1, <1>18 DEF SeekWr, OpFits, Offsets
  <2>2. CASE /\ wrOff' = op[f].n /\ pos' = [pos EXCEPT ![f] = op[f].n] /\ Goto(f, Idle)
             /\ UNCHANGED <<rdOff, held>>
    <3>1. op'[f] = Idle /\ pos'[f] = op[f].n /\ held'[f] = held[f]
      BY <1>1, <1>4, <2>2 DEF IntTypes
    <3>2. MemFits(f)'
      BY <1>0, <1>1, <2>1, <3>1 DEF MemFits, Run
    <3> QED
      BY <2>1, <2>2, <3>1, <3>2, NoBytesFit DEF OffsetsFit, Fits
  <2> QED
    BY <1>5, <1>18, <2>2 DEF SeekWr, Returns
<1>19. ASSUME NEW v \in IoctlOffsets, IoctlSet(f, v) PROVE Goal
  <2>1. v \in Offsets
    BY <1>0, DdkMemAssumption DEF DdkMemAssumption, Offsets
  <2> QED
    BY <1>1, <1>19, <2>1 DEF IoctlSet, OffsetsFit, Fits, MemFits
<1> QED
  BY <1>7, <1>8, <1>9, <1>10, <1>11, <1>12, <1>13, <1>14, <1>15, <1>16, <1>17, <1>18, <1>19
     DEF Step

(* With serialized callers no offset and no f_pos leaves the memory by more   *)
(* than the bytes left over of one packet, and these always fit into in_buf.  *)
THEOREM MemTyped ==
  ASSUME Serial
  PROVE  Spec => []TypeOK
<1> DEFINE FitInv == OffsetsFit /\ \A f \in Files : Fits(f)
<1>1. Init => FitInv
  <2> SUFFICES ASSUME Init PROVE FitInv
    OBVIOUS
  <2>1. OffsetsFit
    BY DdkMemAssumption DEF DdkMemAssumption, Init, OffsetsFit, Offsets
  <2>2. \A f \in Files : pos[f] = 0 /\ held[f] = NoBytes /\ op[f] = Closed
    BY DEF Init
  <2>3. 0 + NoBytes.len <= Size + InBuf
    BY DdkMemAssumption DEF DdkMemAssumption, NoBytes
  <2> QED
    BY <2>1, <2>2, <2>3, NoBytesFit DEF Fits, MemFits
<1>2. SerialInv /\ FitInv /\ [Next]_vars => FitInv'
  <2> SUFFICES ASSUME SerialInv, FitInv, [Next]_vars PROVE FitInv'
    OBVIOUS
  <2>1. ASSUME NEW f \in Files, Step(f) PROVE FitInv'
    <3>1. OffsetsFit' /\ Fits(f)'
      BY <2>1, FitsStep
    <3>2. ASSUME NEW g \in Files, g # f PROVE Fits(g)'
      BY <2>1, <3>2, OthersKept DEF SerialInv, Fits, MemFits
    <3> QED
      BY <3>1, <3>2
  <2>2. CASE UNCHANGED vars
    BY <2>2 DEF vars, OffsetsFit, Fits, MemFits
  <2> QED
    BY <2>1, <2>2 DEF Next
<1>3. SerialInv /\ FitInv => TypeOK
  <2> SUFFICES ASSUME SerialInv, FitInv PROVE TypeOK
    OBVIOUS
  <2>0. Size \in Nat /\ InBuf \in Nat
    BY DdkMemAssumption DEF DdkMemAssumption
  <2>1. ASSUME NEW bytes \in Held, Run(bytes) PROVE bytes \in Bytes
    BY <2>0, <2>1 DEF Held, Run, Bytes, Offsets
  <2>2. ASSUME NEW f \in Files
        PROVE  /\ pos[f] \in Offsets /\ held[f] \in Bytes
               /\ op[f].n \in Nat /\ op[f].done \in Nat /\ op[f].got \in Bytes
    <3>1. held[f] \in Held /\ op[f].got \in Held
      BY DEF SerialInv, IntTypes, Ops
    <3>2. pos[f] \in Offsets
      BY <2>0 DEF Fits, MemFits, Run, Offsets
    <3> QED
      BY <2>1, <3>1, <3>2 DEF Fits, MemFits, OpFits
  <2>3. pos \in [Files -> Offsets] /\ held \in [Files -> Bytes]
    BY <2>2 DEF SerialInv, IntTypes
  <2>4. op \in [Files -> [pc : Pcs, n : Nat, done : Nat, got : Bytes]]
    BY <2>2 DEF SerialInv, IntTypes, Ops
  <2> QED
    BY <2>3, <2>4 DEF SerialInv, Reported, Ends, Pcs, OffsetsFit, TypeOK
<1> QED
  BY <1>1, <1>2, <1>3, SerialSafe, PTL DEF Spec
=============================================================================
