----------------------------- MODULE ScullPipe -----------------------------
(***************************************************************************)
(* scull/pipe.c: one pipe device, a circular buffer between readers and     *)
(* writers that sleep on two wait queues.  A section under dev->mutex is one *)
(* step; the tests made without it (:135, :176) and the wake-ups after it   *)
(* (:156, :226) are steps of their own.  Each file is used by one thread.   *)
(*                                                                          *)
(* rp and wp are offsets into the buffer.  A sleeper puts itself on its     *)
(* queue before it tests the condition, so that test and sleep are one step. *)
(*                                                                          *)
(* Definitions introduced as a slip serve to test the properties only.      *)
(***************************************************************************)
EXTENDS Integers, Sequences, FiniteSets

CONSTANTS
    ReadFiles, WriteFiles, \* files open(2)ed with FMODE_READ, with FMODE_WRITE
    NonBlock,              \* files with O_NONBLOCK
    Pollers,               \* files that are polled
    Data,                  \* the values of a byte
    BufSizes,              \* values of the parameter scull_p_buffer
    Counts,                \* count of read and write
    LateOpens,             \* may a file be opened while another one is used?
    Faults                 \* may kmalloc and user copies fail, signals arrive?

Files == ReadFiles \cup WriteFiles

ASSUME ScullPipeAssumption ==
    /\ IsFiniteSet(Files)
    /\ NonBlock \subseteq Files /\ Pollers \subseteq Files
    /\ BufSizes \subseteq Nat \ {0} /\ BufSizes # {}
    /\ Counts \subseteq Nat
    /\ LateOpens \in BOOLEAN /\ Faults \in BOOLEAN

VARIABLES
    param,               \* scull_p_buffer
    alloc,               \* bytes kmalloc()ed for dev->buffer, 0 when NULL
    buffer,              \* its contents
    buffersize, rp, wp,
    nreaders, nwriters,
    pc,                  \* where each file's thread is
    count,               \* the count of its call, 0 outside of one
    taken                \* history: the bytes delivered by the last read

dev  == <<alloc, buffer, buffersize, rp, wp, nreaders, nwriters>>
vars == <<param, dev, pc, count, taken>>

Min(a, b) == IF a < b THEN a ELSE b

Init ==
    /\ param \in BufSizes
    /\ alloc = 0 /\ buffer = <<>>
    /\ buffersize = 0 /\ rp = 0 /\ wp = 0
    /\ nreaders = 0 /\ nwriters = 0
    /\ pc = [f \in Files |-> "closed"]
    /\ count = [f \in Files |-> 0]
    /\ taken = <<>>

\* Slip: the slot that tells full from empty is given away.
SpaceFreeAll == IF rp = wp THEN buffersize
                ELSE (rp + buffersize - wp) % buffersize

SpaceFree == IF rp = wp THEN buffersize - 1
             ELSE ((rp + buffersize - wp) % buffersize) - 1

Goto(f, l) == pc' = [pc EXCEPT ![f] = l]

\* A call on f ends without having touched the device.
Returns(f) == /\ Goto(f, "idle")
              /\ count' = [count EXCEPT ![f] = 0]
              /\ UNCHANGED <<param, dev, taken>>

One(b) == IF b THEN 1 ELSE 0

-----------------------------------------------------------------------------
\* scull_p_open: every open starts the buffer afresh.
Open(f) ==
    /\ pc[f] = "closed"
    /\ LateOpens \/ \A g \in Files : pc[g] \in {"closed", "idle"}
    /\ alloc' = IF alloc = 0 THEN param ELSE alloc
    /\ buffer' = IF alloc = 0 THEN [i \in 0 .. param - 1 |-> CHOOSE d \in Data : TRUE]
                 ELSE buffer
    /\ buffersize' = param
    /\ rp' = 0 /\ wp' = 0
    /\ nreaders' = nreaders + One(f \in ReadFiles)
    /\ nwriters' = nwriters + One(f \in WriteFiles)
    /\ Goto(f, "idle")
    /\ UNCHANGED <<param, count, taken>>

\* Slip: a file open for both counts as a reader only when it goes.
ReleaseOne(f) ==
    /\ pc[f] = "idle"
    /\ nreaders' = nreaders - One(f \in ReadFiles)
    /\ nwriters' = nwriters - One(f \in WriteFiles \ ReadFiles)
    /\ alloc' = IF nreaders' + nwriters' = 0 THEN 0 ELSE alloc
    /\ buffer' = IF alloc' = 0 THEN <<>> ELSE buffer
    /\ Goto(f, "closed")
    /\ UNCHANGED <<param, buffersize, rp, wp, count, taken>>

\* scull_p_release: the last file to go frees the buffer.
Release(f) ==
    /\ pc[f] = "idle"
    /\ nreaders' = nreaders - One(f \in ReadFiles)
    /\ nwriters' = nwriters - One(f \in WriteFiles)
    /\ alloc' = IF nreaders' + nwriters' = 0 THEN 0 ELSE alloc
    /\ buffer' = IF alloc' = 0 THEN <<>> ELSE buffer
    /\ Goto(f, "closed")
    /\ UNCHANGED <<param, buffersize, rp, wp, count, taken>>

\* SCULL_P_IOCTSIZE (main.c).
Resize(f, n) ==
    /\ pc[f] = "idle"
    /\ param' = n
    /\ UNCHANGED <<dev, pc, count, taken>>

-----------------------------------------------------------------------------
(* scull_p_read                                                              *)

Read(f, n) ==
    /\ pc[f] = "idle"
    /\ Goto(f, "read")
    /\ count' = [count EXCEPT ![f] = n]
    /\ UNCHANGED <<param, dev, taken>>

\* Locked, with nothing to read.
ReadEmpty(f) ==
    /\ pc[f] = "read" /\ rp = wp
    /\ \/ f \in NonBlock /\ Returns(f)
       \/ f \notin NonBlock /\ Goto(f, "readWait") /\ UNCHANGED <<param, dev, count, taken>>

\* wait_event_interruptible(inq, rp != wp), before and after each sleep.
ReadWait(f) ==
    /\ pc[f] = "readWait"
    /\ Goto(f, IF rp # wp THEN "read" ELSE "readAsleep")
    /\ UNCHANGED <<param, dev, count, taken>>

\* Slip: the reader returns without a wake-up.
ReadNoWake(f) ==
    LET n == Min(count[f], IF wp > rp THEN wp - rp ELSE buffersize - rp)
    IN  /\ pc[f] = "read" /\ rp # wp
        /\ taken' = [i \in 1 .. n |-> buffer[rp + i - 1]]
        /\ rp' = IF rp + n = buffersize THEN 0 ELSE rp + n
        /\ Goto(f, "idle")
        /\ count' = [count EXCEPT ![f] = 0]
        /\ UNCHANGED <<param, alloc, buffer, buffersize, wp, nreaders, nwriters>>

\* Locked, with data: up to wp, or to the end of the buffer if wp has wrapped.
ReadSome(f) ==
    LET n == Min(count[f], IF wp > rp THEN wp - rp ELSE buffersize - rp)
    IN  /\ pc[f] = "read" /\ rp # wp
        /\ \/ /\ taken' = [i \in 1 .. n |-> buffer[rp + i - 1]]
              /\ rp' = IF rp + n = buffersize THEN 0 ELSE rp + n
              /\ Goto(f, "wakeWriters")
              /\ UNCHANGED <<param, alloc, buffer, buffersize, wp, nreaders, nwriters, count>>
           \/ Faults /\ Returns(f)                     \* copy_to_user

\* wake_up_interruptible(): the sleepers of a queue go on to test again, and
\* the pollers, who are on both.
WakeUp(f, asleep, awake) ==
    /\ pc' = [g \in Files |-> CASE g = f -> "idle"
                                [] pc[g] = asleep -> awake
                                [] pc[g] = "pollInAsleep" -> "pollIn"
                                [] pc[g] = "pollOutAsleep" -> "pollOut"
                                [] OTHER -> pc[g]]
    /\ count' = [count EXCEPT ![f] = 0]
    /\ UNCHANGED <<param, dev, taken>>

WakeWriters(f) == pc[f] = "wakeWriters" /\ WakeUp(f, "writeAsleep", "write")

-----------------------------------------------------------------------------
(* scull_p_write and scull_getwritespace                                     *)

Write(f, n) ==
    /\ pc[f] = "idle"
    /\ Goto(f, "write")
    /\ count' = [count EXCEPT ![f] = n]
    /\ UNCHANGED <<param, dev, taken>>

\* Locked, with the buffer full.
WriteFull(f) ==
    /\ pc[f] = "write" /\ SpaceFree = 0
    /\ \/ f \in NonBlock /\ Returns(f)
       \/ f \notin NonBlock /\ Goto(f, "writeWait") /\ UNCHANGED <<param, dev, count, taken>>

\* prepare_to_wait(); if (spacefree() == 0) schedule().
WriteWait(f) ==
    /\ pc[f] = "writeWait"
    /\ Goto(f, IF SpaceFree = 0 THEN "writeAsleep" ELSE "write")
    /\ UNCHANGED <<param, dev, count, taken>>

\* Locked, with space: up to the end of the buffer, or to rp - 1.
WriteSome(f) ==
    LET n == Min(Min(count[f], SpaceFree),
                 IF wp >= rp THEN buffersize - wp ELSE rp - wp - 1)
    IN  /\ pc[f] = "write" /\ SpaceFree # 0
        /\ \/ /\ \E bytes \in [wp .. wp + n - 1 -> Data] :
                   buffer' = [i \in DOMAIN buffer \cup DOMAIN bytes |->
                                 IF i \in DOMAIN bytes THEN bytes[i] ELSE buffer[i]]
              /\ wp' = IF wp + n = buffersize THEN 0 ELSE wp + n
              /\ Goto(f, "wakeReaders")
              /\ UNCHANGED <<param, alloc, buffersize, rp, nreaders, nwriters, count,
                             taken>>
           \/ Faults /\ Returns(f)                     \* copy_from_user

\* Slip: the writer wakes the wrong queue.
WakeWrongQueue(f) == pc[f] = "wakeReaders" /\ WakeUp(f, "writeAsleep", "write")

WakeReaders(f) == pc[f] = "wakeReaders" /\ WakeUp(f, "readAsleep", "readWait")

-----------------------------------------------------------------------------
(* scull_p_poll, for input or for output                                     *)

Poll(f) ==
    /\ f \in Pollers /\ pc[f] = "idle"
    /\ \E l \in {"pollIn", "pollOut"} : Goto(f, l)
    /\ UNCHANGED <<param, dev, count, taken>>

\* Locked, and on both queues by then.
PollTest(f) ==
    /\ \/ pc[f] = "pollIn" /\ Goto(f, IF rp # wp THEN "idle" ELSE "pollInAsleep")
       \/ pc[f] = "pollOut" /\ Goto(f, IF SpaceFree # 0 THEN "idle" ELSE "pollOutAsleep")
    /\ UNCHANGED <<param, dev, count, taken>>

-----------------------------------------------------------------------------
\* A signal ends a wait, or a wait for the mutex: -ERESTARTSYS.
Interrupted(f) ==
    /\ Faults
    /\ pc[f] \in {"read", "write", "readAsleep", "writeAsleep", "pollInAsleep", "pollOutAsleep"}
    /\ Returns(f)

Reader(f) == ReadEmpty(f) \/ ReadWait(f) \/ ReadSome(f) \/ WakeWriters(f)
Writer(f) == WriteFull(f) \/ WriteWait(f) \/ WriteSome(f) \/ WakeReaders(f)

Next ==
    \/ \E f \in Files : \/ Open(f) \/ Release(f) \/ Interrupted(f) \/ Poll(f) \/ PollTest(f)
                        \/ \E n \in BufSizes : Resize(f, n)
    \/ \E f \in ReadFiles : Reader(f) \/ \E n \in Counts : Read(f, n)
    \/ \E f \in WriteFiles : Writer(f) \/ \E n \in Counts : Write(f, n)

Spec == Init /\ [][Next]_vars

\* A thread inside a call that is not asleep runs on.
FairSpec == Spec /\ \A f \in Files : WF_vars(Reader(f) \/ Writer(f) \/ PollTest(f))

-----------------------------------------------------------------------------
Used == IF alloc = 0 THEN 0 ELSE (wp + buffersize - rp) % buffersize
Contents == [i \in 1 .. Used |-> buffer[(rp + i - 1) % buffersize]]

Fifo == INSTANCE ScullFifo WITH contents <- Contents, opens <- nreaders + nwriters,
                                Capacity <- (CHOOSE n \in BufSizes : \A m \in BufSizes : m <= n) - 1

(* Offsets stay inside the buffer and the opens are counted.                  *)
TypeOK ==
    /\ param \in BufSizes
    /\ alloc \in BufSizes \cup {0}
    /\ buffersize \in BufSizes \cup {0}
    /\ buffersize # 0 => rp \in 0 .. buffersize - 1 /\ wp \in 0 .. buffersize - 1
    /\ DOMAIN buffer \subseteq Nat
    /\ pc \in [Files -> {"closed", "idle", "read", "readWait", "readAsleep", "wakeWriters",
                         "write", "writeWait", "writeAsleep", "wakeReaders",
                         "pollIn", "pollInAsleep", "pollOut", "pollOutAsleep"}]
    /\ count \in [Files -> Counts \cup {0}]

(* nreaders and nwriters count the open files and the buffer lives exactly as *)
(* long as there is one (:86-87, :102-109): no thread works on a freed one.   *)
OpensCounted ==
    LET open == {f \in Files : pc[f] # "closed"}
    IN  /\ nreaders = Cardinality(open \cap ReadFiles)
        /\ nwriters = Cardinality(open \cap WriteFiles)
        /\ (alloc # 0) <=> (open # {})

(* The pipe refines a bounded FIFO that opening it flushes.                   *)
IsFifo == Fifo!Spec

(* No wake-up is lost: whoever sleeps beside data, or beside free space, in a *)
(* read, a write or a poll, has a wake-up on its way (:156 and :226 follow the unlock).                    *)
ReadersAwake ==
    \A f \in Files : pc[f] \in {"readAsleep", "pollInAsleep"} /\ rp # wp =>
        \E g \in WriteFiles : pc[g] = "wakeReaders"
WritersAwake ==
    \A f \in Files : pc[f] \in {"writeAsleep", "pollOutAsleep"} /\ SpaceFree # 0 =>
        \E g \in ReadFiles : pc[g] = "wakeWriters"

(* A blocked reader gets on once there is data (:127-140).                    *)
ReaderServed == \A f \in ReadFiles : pc[f] = "readAsleep" /\ rp # wp ~> pc[f] # "readAsleep"

-----------------------------------------------------------------------------
(* What the comments say of the code.                                        *)

(* pipe.c:36, "begin of buf, end of buf": dev->end is the end of the memory   *)
(* that was allocated.                                                        *)
EndOfBuffer == buffersize <= alloc \/ alloc = 0
=============================================================================
