--------------------------- MODULE Buffers_proofs ---------------------------
(* Theorems about the two circular buffers: the pipe of scull and the output *)
(* of shortprint, for any files, sizes, bytes and counts.                    *)
EXTENDS ScullPipe, ShortPrint, FiniteSetTheorems, TLAPS

Places == {"closed", "idle", "read", "readWait", "readAsleep", "wakeWriters",
           "write", "writeWait", "writeAsleep", "wakeReaders",
           "pollIn", "pollInAsleep", "pollOut", "pollOutAsleep"}

-----------------------------------------------------------------------------
(* The opens are counted                                                     *)

OpenFiles == {f \in Files : pc[f] # "closed"}

(* A file that comes is counted if it is of the kind counted (:86, :87).     *)
LEMMA OneMore ==
  ASSUME NEW S, IsFiniteSet(S), NEW f, f \notin S, NEW K
  PROVE  Cardinality((S \cup {f}) \cap K) = Cardinality(S \cap K) + One(f \in K)
<1>1. IsFiniteSet(S \cap K)
  BY FS_Subset
<1>2. CASE f \in K
  <2>1. (S \cup {f}) \cap K = (S \cap K) \cup {f}
    BY <1>2
  <2> QED
    BY <1>1, <1>2, <2>1, FS_AddElement DEF One
<1>3. CASE f \notin K
  <2>1. (S \cup {f}) \cap K = S \cap K
    BY <1>3
  <2>2. Cardinality(S \cap K) \in Nat
    BY <1>1, FS_CardinalityType
  <2>3. One(f \in K) = 0
    BY <1>3 DEF One
  <2>4. Cardinality(S \cap K) + 0 = Cardinality(S \cap K)
    BY <2>2
  <2> QED
    BY <2>1, <2>3, <2>4
<1> QED
  BY <1>2, <1>3

(* A file that goes is uncounted the same way (:102-105).                    *)
LEMMA OneLess ==
  ASSUME NEW S, IsFiniteSet(S), NEW f \in S, NEW K
  PROVE  Cardinality((S \ {f}) \cap K) = Cardinality(S \cap K) - One(f \in K)
<1>1. IsFiniteSet(S \ {f}) /\ f \notin S \ {f} /\ (S \ {f}) \cup {f} = S
  BY FS_RemoveElement
<1>2. Cardinality(S \cap K) = Cardinality((S \ {f}) \cap K) + One(f \in K)
  BY <1>1, OneMore
<1>3. Cardinality((S \ {f}) \cap K) \in Nat /\ Cardinality(S \cap K) \in Nat
  BY FS_Subset, FS_CardinalityType
<1> QED
  BY <1>2, <1>3 DEF One

CountInv ==
    /\ param \in BufSizes
    /\ pc \in [Files -> Places]
    /\ nreaders = Cardinality(OpenFiles \cap ReadFiles)
    /\ nwriters = Cardinality(OpenFiles \cap WriteFiles)
    /\ alloc # 0 <=> OpenFiles # {}

(* Files are finitely many.                                                  *)
LEMMA OpenFilesFinite == IsFiniteSet(OpenFiles)
  BY ScullPipeAssumption, FS_Subset DEF ScullPipeAssumption, OpenFiles

(* No file is open at first.                                                 *)
LEMMA CountInit ==
  ASSUME Init
  PROVE  CountInv
<1>1. OpenFiles = {} /\ {} \cap ReadFiles = {} /\ {} \cap WriteFiles = {}
  BY DEF Init, OpenFiles
<1> QED
  BY <1>1, FS_EmptySet DEF Init, CountInv, Places

(* Each open counts its file, each release uncounts it, and nothing else     *)
(* changes the count.                                                        *)
LEMMA CountStep ==
  ASSUME CountInv, [Next]_vars
  PROVE  CountInv'
<1>1. ASSUME NEW f \in Files, Open(f) PROVE CountInv'
  <2>1. OpenFiles' = OpenFiles \cup {f} /\ f \notin OpenFiles
    BY <1>1 DEF Open, Goto, CountInv, Places, OpenFiles
  <2>2. /\ Cardinality(OpenFiles' \cap ReadFiles)
              = Cardinality(OpenFiles \cap ReadFiles) + One(f \in ReadFiles)
        /\ Cardinality(OpenFiles' \cap WriteFiles)
              = Cardinality(OpenFiles \cap WriteFiles) + One(f \in WriteFiles)
    BY <2>1, OneMore, OpenFilesFinite
  <2>3. pc' \in [Files -> Places]
    BY <1>1 DEF Open, Goto, CountInv, Places
  <2>4. alloc' # 0
    BY <1>1, ScullPipeAssumption DEF ScullPipeAssumption, Open, CountInv
  <2> QED
    BY <1>1, <2>1, <2>2, <2>3, <2>4 DEF Open, CountInv
<1>2. ASSUME NEW f \in Files, Release(f) PROVE CountInv'
  <2>1. OpenFiles' = OpenFiles \ {f} /\ f \in OpenFiles
    BY <1>2 DEF Release, Goto, CountInv, Places, OpenFiles
  <2>2. /\ Cardinality(OpenFiles' \cap ReadFiles)
              = Cardinality(OpenFiles \cap ReadFiles) - One(f \in ReadFiles)
        /\ Cardinality(OpenFiles' \cap WriteFiles)
              = Cardinality(OpenFiles \cap WriteFiles) - One(f \in WriteFiles)
    BY <2>1, OneLess, OpenFilesFinite
  <2>3. pc' \in [Files -> Places]
    BY <1>2 DEF Release, Goto, CountInv, Places
  <2>4. /\ nreaders' = Cardinality(OpenFiles' \cap ReadFiles)
        /\ nwriters' = Cardinality(OpenFiles' \cap WriteFiles)
    BY <1>2, <2>2 DEF Release, CountInv
  <2>5. nreaders' + nwriters' = 0 <=> OpenFiles' = {}
    <3>1. IsFiniteSet(OpenFiles')
      BY <2>1, OpenFilesFinite, FS_RemoveElement
    <3>2. /\ IsFiniteSet(OpenFiles' \cap ReadFiles) /\ IsFiniteSet(OpenFiles' \cap WriteFiles)
          /\ nreaders' \in Nat /\ nwriters' \in Nat
      BY <2>4, <3>1, FS_Subset, FS_CardinalityType
    <3>3. nreaders' = 0 <=> OpenFiles' \cap ReadFiles = {}
      BY <2>4, <3>2, FS_EmptySet
    <3>4. nwriters' = 0 <=> OpenFiles' \cap WriteFiles = {}
      BY <2>4, <3>2, FS_EmptySet
    <3>5. OpenFiles' \subseteq ReadFiles \cup WriteFiles
      BY <2>1 DEF OpenFiles, Files
    <3>6. \A m, n \in Nat : m + n = 0 <=> m = 0 /\ n = 0
      OBVIOUS
    <3> QED
      BY <3>2, <3>3, <3>4, <3>5, <3>6
  <2>6. alloc # 0
    BY <2>1 DEF CountInv
  <2> QED
    BY <1>2, <2>3, <2>4, <2>5, <2>6 DEF Release, CountInv
<1>3. ASSUME param' \in BufSizes, UNCHANGED <<alloc, nreaders, nwriters>>,
             pc' \in [Files -> Places], \A f \in Files : pc'[f] = "closed" <=> pc[f] = "closed"
      PROVE  CountInv'
  <2>1. OpenFiles' = OpenFiles
    BY <1>3 DEF OpenFiles
  <2> QED
    BY <1>3, <2>1 DEF CountInv
<1> USE DEF CountInv, Places, Goto, Returns, dev
<1>4. ASSUME NEW f \in Files, Interrupted(f) \/ Poll(f) \/ PollTest(f) PROVE CountInv'
  BY <1>3, <1>4 DEF Interrupted, Poll, PollTest
<1>5. ASSUME NEW f \in Files, NEW n \in BufSizes, Resize(f, n) PROVE CountInv'
  BY <1>3, <1>5 DEF Resize
<1>6. ASSUME NEW f \in ReadFiles, ReadEmpty(f) \/ ReadWait(f) \/ (\E n \in Counts : Read(f, n))
      PROVE  CountInv'
  BY <1>3, <1>6 DEF ReadEmpty, ReadWait, Read, Files
<1>7. ASSUME NEW f \in ReadFiles, ReadSome(f) PROVE CountInv'
  BY <1>3, <1>7 DEF ReadSome, Files
<1>8. ASSUME NEW f \in ReadFiles, WakeWriters(f) PROVE CountInv'
  BY <1>3, <1>8 DEF WakeWriters, WakeUp, Files
<1>9. ASSUME NEW f \in WriteFiles, WriteFull(f) \/ WriteWait(f) \/ (\E n \in Counts : Write(f, n))
      PROVE  CountInv'
  BY <1>3, <1>9 DEF WriteFull, WriteWait, Write, Files
<1>10. ASSUME NEW f \in WriteFiles, WriteSome(f) PROVE CountInv'
  BY <1>3, <1>10 DEF WriteSome, Files
<1>11. ASSUME NEW f \in WriteFiles, WakeReaders(f) PROVE CountInv'
  BY <1>3, <1>11 DEF WakeReaders, WakeUp, Files
<1>12. CASE UNCHANGED vars
  BY <1>3, <1>12 DEF vars
<1> QED
  BY <1>1, <1>2, <1>4, <1>5, <1>6, <1>7, <1>8, <1>9, <1>10, <1>11, <1>12
     DEF Next, Reader, Writer

(* nreaders and nwriters count the files that are open and the buffer lives  *)
(* as long as one is: a file open for both is counted twice, and the last of *)
(* all to go frees the buffer (:86-87, :102-109).                            *)
THEOREM PipeCounted == Spec => []OpensCounted
<1>1. CountInv => OpensCounted
  BY DEF CountInv, OpensCounted, OpenFiles
<1> QED
  BY <1>1, CountInit, CountStep, PTL DEF Spec

-----------------------------------------------------------------------------
(* No wake-up is lost                                                        *)

ReadersInv == pc \in [Files -> Places] /\ ReadersAwake
WritersInv == pc \in [Files -> Places] /\ WritersAwake

(* Readers and pollers that sleep beside data have a wake-up coming (:156,   *)
(* :226), with files opened and closed, calls failing and interrupted at any *)
(* time: the statement is inductive, since only a writer, who then wakes,    *)
(* makes an empty buffer one with data.                                      *)
THEOREM NoReaderMissed == Spec => []ReadersAwake
<1>1. Init => ReadersInv
  BY DEF Init, ReadersInv, ReadersAwake, Places
<1>2. ReadersInv /\ [Next]_vars => ReadersInv'
  <2> SUFFICES ASSUME ReadersInv, [Next]_vars PROVE ReadersInv'
    OBVIOUS
  <2> USE DEF ReadersInv, ReadersAwake, Places, Goto, Returns, dev
  <2>1. ASSUME NEW f \in Files, Open(f) PROVE ReadersInv'
    BY <2>1 DEF Open
  <2>2. ASSUME NEW f \in Files, Release(f) PROVE ReadersInv'
    BY <2>2 DEF Release
  <2>3. ASSUME NEW f \in Files, Interrupted(f) PROVE ReadersInv'
    BY <2>3 DEF Interrupted
  <2>4. ASSUME NEW f \in Files, Poll(f) \/ PollTest(f) PROVE ReadersInv'
    <3>1. CASE Poll(f)
      BY <3>1 DEF Poll, Files
    <3>2. CASE PollTest(f)
      <4>1. CASE pc[f] = "pollIn"
        BY <3>2, <4>1 DEF PollTest, Files
      <4>2. CASE pc[f] = "pollOut"
        BY <3>2, <4>2 DEF PollTest, Files
      <4> QED
        BY <3>2, <4>1, <4>2 DEF PollTest
    <3> QED
      BY <2>4, <3>1, <3>2
  <2>5. ASSUME NEW f \in Files, NEW n \in BufSizes, Resize(f, n) PROVE ReadersInv'
    BY <2>5 DEF Resize
  <2>6. ASSUME NEW f \in ReadFiles, ReadEmpty(f) \/ ReadWait(f) \/ (\E n \in Counts : Read(f, n))
        PROVE  ReadersInv'
    BY <2>6 DEF ReadEmpty, ReadWait, Read, Files
  <2>7. ASSUME NEW f \in ReadFiles, ReadSome(f) PROVE ReadersInv'
    BY <2>7 DEF ReadSome, Files
  <2>8. ASSUME NEW f \in ReadFiles, WakeWriters(f) PROVE ReadersInv'
    BY <2>8 DEF WakeWriters, WakeUp, Files
  <2>9. ASSUME NEW f \in WriteFiles, WriteFull(f) \/ WriteWait(f) \/ (\E n \in Counts : Write(f, n))
        PROVE  ReadersInv'
    BY <2>9 DEF WriteFull, WriteWait, Write, Files
  <2>10. ASSUME NEW f \in WriteFiles, WriteSome(f) PROVE ReadersInv'
    BY <2>10 DEF WriteSome, Files
  <2>11. ASSUME NEW f \in WriteFiles, WakeReaders(f) PROVE ReadersInv'
    BY <2>11 DEF WakeReaders, WakeUp, Files
  <2>12. CASE UNCHANGED vars
    BY <2>12 DEF vars
  <2> QED
    BY <2>1, <2>2, <2>3, <2>4, <2>5, <2>6, <2>7, <2>8, <2>9, <2>10, <2>11, <2>12
       DEF Next, Reader, Writer
<1>3. ReadersInv => ReadersAwake
  BY DEF ReadersInv
<1> QED
  BY <1>1, <1>2, <1>3, PTL DEF Spec

(* The same of writers and space, as long as nobody opens the pipe while     *)
(* another call is in progress: an open makes space and wakes nobody.        *)
THEOREM NoWriterMissed == ASSUME ~ LateOpens PROVE Spec => []WritersAwake
<1>1. Init => WritersInv
  BY DEF Init, WritersInv, WritersAwake, Places
<1>2. WritersInv /\ [Next]_vars => WritersInv'
  <2> SUFFICES ASSUME WritersInv, [Next]_vars PROVE WritersInv'
    OBVIOUS
  <2> USE DEF WritersInv, WritersAwake, Places, Goto, Returns, dev
  <2>0. ASSUME UNCHANGED <<buffersize, rp, wp>> PROVE SpaceFree' = SpaceFree
    BY <2>0 DEF SpaceFree
  <2>1. ASSUME NEW f \in Files, Open(f) PROVE WritersInv'
    BY <2>1 DEF Open
  <2>2. ASSUME NEW f \in Files, Release(f) PROVE WritersInv'
    BY <2>0, <2>2 DEF Release
  <2>3. ASSUME NEW f \in Files, Interrupted(f) PROVE WritersInv'
    BY <2>0, <2>3 DEF Interrupted
  <2>4. ASSUME NEW f \in Files, Poll(f) \/ PollTest(f) PROVE WritersInv'
    <3>1. CASE Poll(f)
      BY <2>0, <3>1 DEF Poll, Files
    <3>2. CASE PollTest(f)
      <4>1. CASE pc[f] = "pollIn"
        BY <2>0, <3>2, <4>1 DEF PollTest, Files
      <4>2. CASE pc[f] = "pollOut"
        BY <2>0, <3>2, <4>2 DEF PollTest, Files
      <4> QED
        BY <3>2, <4>1, <4>2 DEF PollTest
    <3> QED
      BY <2>4, <3>1, <3>2
  <2>5. ASSUME NEW f \in Files, NEW n \in BufSizes, Resize(f, n) PROVE WritersInv'
    BY <2>0, <2>5 DEF Resize
  <2>6. ASSUME NEW f \in ReadFiles, ReadEmpty(f) \/ ReadWait(f) \/ (\E n \in Counts : Read(f, n))
        PROVE  WritersInv'
    BY <2>0, <2>6 DEF ReadEmpty, ReadWait, Read, Files
  <2>7. ASSUME NEW f \in ReadFiles, ReadSome(f) PROVE WritersInv'
    BY <2>0, <2>7 DEF ReadSome, Files
  <2>8. ASSUME NEW f \in ReadFiles, WakeWriters(f) PROVE WritersInv'
    BY <2>8 DEF WakeWriters, WakeUp, Files
  <2>9. ASSUME NEW f \in WriteFiles, WriteFull(f) \/ WriteWait(f) \/ (\E n \in Counts : Write(f, n))
        PROVE  WritersInv'
    BY <2>0, <2>9 DEF WriteFull, WriteWait, Write, Files
  <2>10. ASSUME NEW f \in WriteFiles, WriteSome(f) PROVE WritersInv'
    BY <2>0, <2>10 DEF WriteSome, Files
  <2>11. ASSUME NEW f \in WriteFiles, WakeReaders(f) PROVE WritersInv'
    BY <2>0, <2>11 DEF WakeReaders, WakeUp, Files
  <2>12. CASE UNCHANGED vars
    BY <2>0, <2>12 DEF vars
  <2> QED
    BY <2>1, <2>2, <2>3, <2>4, <2>5, <2>6, <2>7, <2>8, <2>9, <2>10, <2>11, <2>12
       DEF Next, Reader, Writer
<1>3. WritersInv => WritersAwake
  BY DEF WritersInv
<1> QED
  BY <1>1, <1>2, <1>3, PTL DEF Spec
-----------------------------------------------------------------------------
(* Circular buffers                                                          *)

\* n bytes of a buffer of B, from r on.
Ring(buf, B, r, n) == [i \in 1 .. n |-> buf[(r + i - 1) % B]]

\* IsPrefix() of the community modules, under a name of its own.
Prefix(s, t) == Len(s) <= Len(t) /\ SubSeq(s, 1, Len(s)) = SubSeq(t, 1, Len(s))

\* An offset into it, up to once around.
Around(B, a) == IF a < B THEN a ELSE a - B

(* Up to once around, a remainder is a subtraction.                           *)
LEMMA OnceAround ==
  ASSUME NEW B \in Nat \ {0}, NEW a \in 0 .. 2 * B - 1
  PROVE  (a % B) = Around(B, a)
  BY DEF Around

(* Where the bytes of a buffer are.                                           *)
LEMMA RingSlot ==
  ASSUME NEW buf, NEW B \in Nat \ {0}, NEW r \in 0 .. B - 1, NEW n \in 0 .. B,
         NEW i \in 1 .. n
  PROVE  Ring(buf, B, r, n)[i] = buf[Around(B, r + i - 1)]
<1> DEFINE a == r + i - 1
<1>1. a \in 0 .. 2 * B - 1
  OBVIOUS
<1> HIDE DEF a
<1>2. (a % B) = Around(B, a)
  BY <1>1, OnceAround
<1> QED
  BY <1>2 DEF a, Ring

(* They are those at its front and those behind them.                         *)
LEMMA RingTake ==
  ASSUME NEW buf, NEW B \in Nat \ {0}, NEW r \in 0 .. B - 1, NEW n \in 0 .. B - 1,
         NEW k \in 0 .. n
  PROVE  Ring(buf, B, r, n) = Ring(buf, B, r, k) \o Ring(buf, B, Around(B, r + k), n - k)
<1> DEFINE s == Around(B, r + k)
           a == Ring(buf, B, r, k)
           b == Ring(buf, B, s, n - k)
<1>1. Len(a) = k /\ Len(b) = n - k
  BY DEF Ring
<1>2. a \o b = [i \in 1 .. n |-> IF i <= k THEN a[i] ELSE b[i - k]]
  BY <1>1 DEF Ring
<1>3. ASSUME NEW i \in 1 .. n, i <= k
      PROVE  a[i] = Ring(buf, B, r, n)[i]
  BY <1>3 DEF Ring
<1>4. ASSUME NEW i \in 1 .. n, i > k
      PROVE  b[i - k] = Ring(buf, B, r, n)[i]
  <2> DEFINE j == i - k
  <2>1. s \in 0 .. B - 1 /\ j \in 1 .. n - k /\ n - k \in 0 .. B /\ n \in 0 .. B
    BY <1>4 DEF Around
  <2>2. Around(B, r + i - 1) = Around(B, s + j - 1)
    BY <1>4 DEF Around
  <2> DEFINE m == n - k
  <2>3. m \in 0 .. B /\ j \in 1 .. m /\ Ring(buf, B, s, m) = b
    BY <2>1
  <2> HIDE DEF s, j, m, b
  <2>4. b[j] = buf[Around(B, s + j - 1)]
    BY <2>1, <2>3, RingSlot
  <2>5. Ring(buf, B, r, n)[i] = buf[Around(B, r + i - 1)]
    BY <2>1, RingSlot
  <2> QED
    BY <2>2, <2>4, <2>5 DEF j
<1>5. Ring(buf, B, r, n) = [i \in 1 .. n |-> Ring(buf, B, r, n)[i]]
  BY DEF Ring
<1>6. [i \in 1 .. n |-> IF i <= k THEN a[i] ELSE b[i - k]] = Ring(buf, B, r, n)
  <2> HIDE DEF a, b
  <2>1. \A i \in 1 .. n : (IF i <= k THEN a[i] ELSE b[i - k]) = Ring(buf, B, r, n)[i]
    BY <1>3, <1>4
  <2> QED
    BY <1>5, <2>1
<1> QED
  BY <1>2, <1>6

(* Bytes that stay where they are.                                            *)
LEMMA RingSame ==
  ASSUME NEW old, NEW new, NEW B \in Nat \ {0}, NEW r \in 0 .. B - 1, NEW n \in 0 .. B,
         \A i \in 1 .. n : new[Around(B, r + i - 1)] = old[Around(B, r + i - 1)]
  PROVE  Ring(old, B, r, n) = Ring(new, B, r, n)
<1>1. ASSUME NEW i \in 1 .. n PROVE Ring(old, B, r, n)[i] = Ring(new, B, r, n)[i]
  <2>1. Ring(old, B, r, n)[i] = old[Around(B, r + i - 1)]
    BY RingSlot
  <2>2. Ring(new, B, r, n)[i] = new[Around(B, r + i - 1)]
    BY RingSlot
  <2> QED
    BY <2>1, <2>2
<1>2. /\ Ring(old, B, r, n) = [i \in 1 .. n |-> Ring(old, B, r, n)[i]]
      /\ Ring(new, B, r, n) = [i \in 1 .. n |-> Ring(new, B, r, n)[i]]
  BY DEF Ring
<1> QED
  BY <1>1, <1>2

(* Bytes that are added behind leave those in front alone.                    *)
LEMMA RingPut ==
  ASSUME NEW old, NEW new, NEW B \in Nat \ {0}, NEW r \in 0 .. B - 1,
         NEW n \in 0 .. B - 1, NEW m \in n .. B - 1,
         \A i \in 1 .. n : new[Around(B, r + i - 1)] = old[Around(B, r + i - 1)]
  PROVE  Prefix(Ring(old, B, r, n), Ring(new, B, r, m))
<1> DEFINE a == Ring(old, B, r, n)
           b == Ring(new, B, r, m)
<1>1. Len(a) = n /\ Len(b) = m
  BY DEF Ring
<1>2. SubSeq(a, 1, n) = [i \in 1 .. n |-> a[i]] /\ SubSeq(b, 1, n) = [i \in 1 .. n |-> b[i]]
  BY <1>1 DEF Ring
<1>3. ASSUME NEW i \in 1 .. n PROVE a[i] = b[i]
  <2>1. i \in 1 .. m /\ n \in 0 .. B /\ m \in 0 .. B
    OBVIOUS
  <2>2. a[i] = old[Around(B, r + i - 1)]
    BY <2>1, RingSlot
  <2>3. b[i] = new[Around(B, r + i - 1)]
    BY <2>1, RingSlot
  <2> QED
    BY <2>2, <2>3
<1> HIDE DEF a, b
<1> QED
  BY <1>1, <1>2, <1>3 DEF Prefix, a, b

-----------------------------------------------------------------------------
(* The pipe is a bounded FIFO                                                *)

(* How far one offset is behind another.                                      *)
LEMMA Behind ==
  ASSUME NEW B \in Nat \ {0}, NEW r \in 0 .. B - 1, NEW w \in 0 .. B - 1
  PROVE  ((w + B - r) % B) = IF w >= r THEN w - r ELSE w + B - r
<1> DEFINE a == w + B - r
<1>1. a \in 0 .. 2 * B - 1
  OBVIOUS
<1> HIDE DEF a
<1>2. (a % B) = Around(B, a)
  BY <1>1, OnceAround
<1> QED
  BY <1>2 DEF Around, a

\* There is a buffer, and its offsets are inside.
PipeTyped ==
    /\ alloc # 0
    /\ buffersize \in Nat \ {0}
    /\ rp \in 0 .. buffersize - 1 /\ wp \in 0 .. buffersize - 1

(* An empty buffer and a full one differ: what is free is what is not used,   *)
(* but for one byte (spacefree(), :202).                                      *)
LEMMA UsedFree ==
  ASSUME PipeTyped
  PROVE  /\ Used = IF wp >= rp THEN wp - rp ELSE wp + buffersize - rp
         /\ Used \in 0 .. buffersize - 1
         /\ SpaceFree = buffersize - 1 - Used
<1> USE DEF PipeTyped
<1>1. Used = IF wp >= rp THEN wp - rp ELSE wp + buffersize - rp
  BY Behind DEF Used
<1>2. ((rp + buffersize - wp) % buffersize)
        = IF rp >= wp THEN rp - wp ELSE rp + buffersize - wp
  BY Behind
<1> QED
  BY <1>1, <1>2 DEF SpaceFree

(* Bytes that are taken from the front leave those behind them.               *)
LEMMA Dequeue ==
  ASSUME PipeTyped, NEW n \in 0 .. Used, rp' = Around(buffersize, rp + n),
         UNCHANGED <<alloc, buffer, buffersize, wp>>
  PROVE  /\ PipeTyped' /\ Used' = Used - n
         /\ Contents = Ring(buffer, buffersize, rp, n) \o Contents'
<1> USE DEF PipeTyped
<1>1. Used \in 0 .. buffersize - 1 /\ Used = IF wp >= rp THEN wp - rp ELSE wp + buffersize - rp
  BY UsedFree
<1>2. PipeTyped'
  BY <1>1 DEF Around
<1>3. Used' = IF wp' >= rp' THEN wp' - rp' ELSE wp' + buffersize' - rp'
  BY <1>2, Behind DEF Used
<1>4. Used' = Used - n
  BY <1>1, <1>3 DEF Around
<1>5. Contents = Ring(buffer, buffersize, rp, Used)
  BY DEF Contents, Ring
<1>6. Contents' = Ring(buffer, buffersize, Around(buffersize, rp + n), Used - n)
  BY <1>4 DEF Contents, Ring
<1>7. Ring(buffer, buffersize, rp, Used)
        = Ring(buffer, buffersize, rp, n)
             \o Ring(buffer, buffersize, Around(buffersize, rp + n), Used - n)
  <2>1. buffersize \in Nat \ {0} /\ rp \in 0 .. buffersize - 1 /\ Used \in 0 .. buffersize - 1
    BY <1>1
  <2> HIDE DEF PipeTyped
  <2> QED
    BY <2>1, RingTake, Zenon
<1> QED
  BY <1>2, <1>4, <1>5, <1>6, <1>7

(* Bytes that join at the end leave those in front of them.                   *)
LEMMA Enqueue ==
  ASSUME PipeTyped, NEW n \in 0 .. buffersize - 1 - Used,
         wp' = Around(buffersize, wp + n),
         UNCHANGED <<alloc, buffersize, rp>>,
         \A i \in 1 .. Used : buffer'[Around(buffersize, rp + i - 1)]
                                = buffer[Around(buffersize, rp + i - 1)]
  PROVE  /\ PipeTyped' /\ Used' = Used + n
         /\ Prefix(Contents, Contents')
<1> USE DEF PipeTyped
<1>1. Used \in 0 .. buffersize - 1 /\ Used = IF wp >= rp THEN wp - rp ELSE wp + buffersize - rp
  BY UsedFree
<1>2. PipeTyped'
  BY <1>1 DEF Around
<1>3. Used' = IF wp' >= rp' THEN wp' - rp' ELSE wp' + buffersize' - rp'
  BY <1>2, Behind DEF Used
<1>4. Used' = Used + n
  BY <1>1, <1>3 DEF Around
<1>5. Contents = Ring(buffer, buffersize, rp, Used)
  BY DEF Contents, Ring
<1>6. Contents' = Ring(buffer', buffersize, rp, Used + n)
  BY <1>4 DEF Contents, Ring
<1>7. Used + n \in Used .. buffersize - 1
  BY <1>1
<1> QED
  BY <1>1, <1>2, <1>4, <1>5, <1>6, <1>7, RingPut

\* The bytes between rp and wp have been written.
PipeInv ==
    /\ CountInv
    /\ count \in [Files -> Nat]
    /\ alloc # 0 =>
          /\ buffersize \in BufSizes
          /\ rp \in 0 .. buffersize - 1 /\ wp \in 0 .. buffersize - 1
          /\ \A i \in 1 .. Used : LET slot == Around(buffersize, rp + i - 1)
                                  IN  slot \in DOMAIN buffer /\ buffer[slot] \in Data

FifoVars == <<Contents, taken, nreaders + nwriters>>

(* A thread inside a call has a buffer, with its offsets inside.              *)
LEMMA InCall ==
  ASSUME PipeInv, NEW f \in Files, pc[f] # "closed"
  PROVE  PipeTyped /\ buffersize \in BufSizes
<1>1. alloc # 0
  BY DEF PipeInv, CountInv, OpenFiles
<1> QED
  BY <1>1, ScullPipeAssumption DEF ScullPipeAssumption, PipeInv, PipeTyped

(* The bytes of the pipe are bytes of the data.                               *)
LEMMA ContentsData ==
  PipeInv => Contents \in Seq(Data) /\ (alloc # 0 => Len(Contents) <= buffersize - 1)
<1> SUFFICES ASSUME PipeInv
             PROVE  Contents \in Seq(Data) /\ (alloc # 0 => Len(Contents) <= buffersize - 1)
  OBVIOUS
<1>1. CASE alloc = 0
  BY <1>1 DEF Contents, Used
<1>2. CASE alloc # 0
  <2>1. PipeTyped
    BY <1>2, ScullPipeAssumption DEF ScullPipeAssumption, PipeInv, PipeTyped
  <2>2. Used \in 0 .. buffersize - 1 /\ buffersize \in Nat \ {0} /\ rp \in 0 .. buffersize - 1
    BY <2>1, UsedFree DEF PipeTyped
  <2>3. Contents = Ring(buffer, buffersize, rp, Used)
    BY DEF Contents, Ring
  <2>4. ASSUME NEW i \in 1 .. Used PROVE Contents[i] \in Data
    <3>1. Used \in 0 .. buffersize
      BY <2>2
    <3>2. Contents[i] = buffer[Around(buffersize, rp + i - 1)]
      BY <2>2, <2>3, <3>1, RingSlot
    <3> QED
      BY <1>2, <3>2 DEF PipeInv
  <2> QED
    BY <2>2, <2>4 DEF Contents
<1> QED
  BY <1>1, <1>2

(* copy_to_user() of what is there up to the end of the buffer (:143-153).    *)
LEMMA ReadStep ==
  ASSUME PipeInv, NEW f \in ReadFiles, ReadSome(f)
  PROVE  PipeInv' /\ (Fifo!Take \/ UNCHANGED FifoVars)
<1> DEFINE n == Min(count[f], IF wp > rp THEN wp - rp ELSE buffersize - rp)
<1>1. f \in Files /\ pc[f] = "read" /\ rp # wp /\ count[f] \in Nat
  BY DEF ReadSome, Files, PipeInv
<1>2. PipeTyped /\ buffersize \in BufSizes
  BY <1>1, InCall
<1>3. /\ Used = IF wp >= rp THEN wp - rp ELSE wp + buffersize - rp
      /\ Used \in 0 .. buffersize - 1
  BY <1>2, UsedFree
<1>4. n \in 0 .. Used /\ rp + n <= buffersize
  BY <1>1, <1>2, <1>3 DEF Min, PipeTyped
<1> HIDE DEF n
<1>5. CountInv'
  <2>1. /\ UNCHANGED <<param, alloc, nreaders, nwriters>>
        /\ pc' \in [Files -> Places]
        /\ \A g \in Files : pc'[g] = "closed" <=> pc[g] = "closed"
    BY <1>1 DEF ReadSome, Returns, Goto, dev, PipeInv, CountInv, Places
  <2> QED
    BY <2>1 DEF PipeInv, CountInv, OpenFiles
<1>6. count' \in [Files -> Nat]
  BY DEF ReadSome, Returns, PipeInv
<1>7. CASE /\ taken' = [i \in 1 .. n |-> buffer[rp + i - 1]]
           /\ rp' = IF rp + n = buffersize THEN 0 ELSE rp + n
           /\ UNCHANGED <<param, alloc, buffer, buffersize, wp, nreaders, nwriters>>
  <2>1. rp' = Around(buffersize, rp + n)
    BY <1>2, <1>4, <1>7 DEF Around, PipeTyped
  <2>2. PipeTyped' /\ Used' = Used - n /\ Contents = Ring(buffer, buffersize, rp, n) \o Contents'
    BY <1>2, <1>4, <1>7, <2>1, Dequeue
  <2>3. taken' = Ring(buffer, buffersize, rp, n)
    <3>1. ASSUME NEW i \in 1 .. n PROVE ((rp + i - 1) % buffersize) = rp + i - 1
      <4> DEFINE a == rp + i - 1
      <4>1. a \in 0 .. buffersize - 1 /\ a \in 0 .. 2 * buffersize - 1 /\ buffersize \in Nat \ {0}
        BY <1>2, <1>3, <1>4 DEF PipeTyped
      <4> HIDE DEF a
      <4> QED
        BY <4>1, OnceAround DEF a, Around
    <3> QED
      BY <1>7, <3>1 DEF Ring
  <2>4. Fifo!Take
    BY <1>7, <2>2, <2>3 DEF Fifo!Take
  <2>5. ASSUME NEW i \in 1 .. Used'
        PROVE  LET slot == Around(buffersize', rp' + i - 1)
               IN  slot \in DOMAIN buffer' /\ buffer'[slot] \in Data
    <3>1. i + n \in 1 .. Used
      BY <1>3, <1>4, <2>2
    <3>2. Around(buffersize', rp' + i - 1) = Around(buffersize, rp + (i + n) - 1)
      BY <1>2, <1>3, <1>4, <1>7, <2>1, <3>1 DEF Around, PipeTyped
    <3> QED
      BY <1>2, <1>7, <3>1, <3>2 DEF PipeInv, PipeTyped
  <2> QED
    BY <1>2, <1>5, <1>6, <1>7, <2>2, <2>4, <2>5 DEF PipeInv, PipeTyped
<1>8. CASE UNCHANGED <<dev, taken>>
  BY <1>5, <1>6, <1>8 DEF PipeInv, dev, FifoVars, Contents, Used
<1> QED
  BY <1>7, <1>8 DEF ReadSome, Returns, n

(* copy_from_user() of what fits up to the end of the buffer (:211-222).      *)
LEMMA WriteStep ==
  ASSUME PipeInv, NEW f \in WriteFiles, WriteSome(f)
  PROVE  /\ PipeInv'
         /\ \/ /\ Prefix(Contents, Contents') /\ alloc' # 0
               /\ UNCHANGED <<taken, nreaders, nwriters>>
            \/ UNCHANGED FifoVars
<1> DEFINE n == Min(Min(count[f], SpaceFree),
                    IF wp >= rp THEN buffersize - wp ELSE rp - wp - 1)
<1>1. f \in Files /\ pc[f] = "write" /\ count[f] \in Nat
  BY DEF WriteSome, Files, PipeInv
<1>2. PipeTyped /\ buffersize \in BufSizes
  BY <1>1, InCall
<1>3. /\ Used = IF wp >= rp THEN wp - rp ELSE wp + buffersize - rp
      /\ Used \in 0 .. buffersize - 1 /\ SpaceFree = buffersize - 1 - Used
  BY <1>2, UsedFree
<1>4. n \in 0 .. buffersize - 1 - Used /\ wp + n <= buffersize
  BY <1>1, <1>2, <1>3 DEF Min, PipeTyped
<1> HIDE DEF n
<1>5. CountInv'
  <2>1. /\ UNCHANGED <<param, alloc, nreaders, nwriters>>
        /\ pc' \in [Files -> Places]
        /\ \A g \in Files : pc'[g] = "closed" <=> pc[g] = "closed"
    BY <1>1 DEF WriteSome, Returns, Goto, dev, PipeInv, CountInv, Places
  <2> QED
    BY <2>1 DEF PipeInv, CountInv, OpenFiles
<1>6. count' \in [Files -> Nat]
  BY DEF WriteSome, Returns, PipeInv
<1>7. ASSUME NEW bytes \in [wp .. wp + n - 1 -> Data],
             buffer' = [i \in DOMAIN buffer \cup DOMAIN bytes |->
                           IF i \in DOMAIN bytes THEN bytes[i] ELSE buffer[i]],
             wp' = IF wp + n = buffersize THEN 0 ELSE wp + n,
             UNCHANGED <<param, alloc, buffersize, rp, nreaders, nwriters, taken>>
      PROVE  PipeInv' /\ Prefix(Contents, Contents')
  <2>1. wp' = Around(buffersize, wp + n)
    BY <1>2, <1>4, <1>7 DEF Around, PipeTyped
  <2>2. ASSUME NEW i \in 1 .. Used
        PROVE  LET slot == Around(buffersize, rp + i - 1)
               IN  /\ slot \in DOMAIN buffer' /\ buffer'[slot] \in Data
                   /\ buffer'[slot] = buffer[slot]
    <3> DEFINE slot == Around(buffersize, rp + i - 1)
    <3>1. slot \in DOMAIN buffer /\ buffer[slot] \in Data
      BY <1>2 DEF PipeInv, PipeTyped
    <3>2. slot \notin wp .. wp + n - 1
      BY <1>2, <1>3, <1>4 DEF Around, PipeTyped
    <3> HIDE DEF slot
    <3>3. slot \in DOMAIN buffer' /\ buffer'[slot] = buffer[slot]
      BY <1>7, <3>1, <3>2
    <3> QED
      BY <3>1, <3>3 DEF slot
  <2>3. PipeTyped' /\ Used' = Used + n /\ Prefix(Contents, Contents')
    BY <1>2, <1>4, <1>7, <2>1, <2>2, Enqueue
  <2>4. ASSUME NEW i \in 1 .. Used', i > Used
        PROVE  LET slot == Around(buffersize', rp' + i - 1)
               IN  slot \in DOMAIN buffer' /\ buffer'[slot] \in Data
    <3> DEFINE slot == Around(buffersize, rp + i - 1)
    <3>1. slot \in wp .. wp + n - 1
      BY <1>2, <1>3, <1>4, <2>3, <2>4 DEF Around, PipeTyped
    <3> HIDE DEF slot
    <3>2. slot \in DOMAIN buffer' /\ buffer'[slot] \in Data
      BY <1>7, <3>1
    <3> QED
      BY <1>7, <3>2 DEF slot
  <2>5. \A i \in 1 .. Used' : LET slot == Around(buffersize', rp' + i - 1)
                              IN  slot \in DOMAIN buffer' /\ buffer'[slot] \in Data
    <3> SUFFICES ASSUME NEW i \in 1 .. Used'
                 PROVE  LET slot == Around(buffersize', rp' + i - 1)
                        IN  slot \in DOMAIN buffer' /\ buffer'[slot] \in Data
      OBVIOUS
    <3>1. i \in 1 .. Used \/ i > Used
      BY <1>3, <1>4, <2>3
    <3> QED
      BY <1>7, <2>2, <2>4, <3>1
  <2> QED
    BY <1>2, <1>5, <1>6, <1>7, <2>3, <2>5 DEF PipeInv, PipeTyped
<1>8. CASE UNCHANGED <<dev, taken>>
  BY <1>5, <1>6, <1>8 DEF PipeInv, dev, FifoVars, Contents, Used
<1> QED
  BY <1>2, <1>7, <1>8 DEF WriteSome, Returns, PipeTyped, n

(* Every step keeps the bytes between rp and wp, and is a step of the FIFO or *)
(* none that it sees.                                                         *)
LEMMA PipeStep ==
  ASSUME NEW largest \in BufSizes, \A m \in BufSizes : m <= largest,
         PipeInv, [Next]_vars
  PROVE  PipeInv' /\ [Fifo!Next]_FifoVars
<1> DEFINE Goal == PipeInv' /\ [Fifo!Next]_FifoVars
           top == CHOOSE n \in BufSizes : \A m \in BufSizes : m <= n
<1>0. top \in BufSizes /\ \A m \in BufSizes : m <= top /\ m \in Nat \ {0}
  BY ScullPipeAssumption DEF ScullPipeAssumption
<1> HIDE DEF top
<1>1. nreaders \in Nat /\ nwriters \in Nat
  BY OpenFilesFinite, FS_Subset, FS_CardinalityType DEF PipeInv, CountInv
<1>2. CountInv'
  BY CountStep DEF PipeInv
<1>3. ASSUME NEW f \in Files, Open(f) PROVE Goal
  <2>1. /\ alloc' # 0 /\ buffersize' \in BufSizes /\ buffersize' \in Nat \ {0}
        /\ rp' = 0 /\ wp' = 0 /\ UNCHANGED <<count, taken>>
    BY <1>3, ScullPipeAssumption DEF ScullPipeAssumption, Open, PipeInv, CountInv
  <2>2. Used' = 0
    <3>1. \A B \in Nat \ {0} : ((0 + B - 0) % B) = 0
      BY Behind
    <3>2. ((0 + buffersize' - 0) % buffersize') = 0
      BY <2>1, <3>1
    <3> QED
      BY <2>1, <3>2 DEF Used
  <2>3. Contents' = <<>>
    BY <2>2 DEF Contents
  <2>4. nreaders' + nwriters' # nreaders + nwriters
    BY <1>1, <1>3 DEF Open, One, Files
  <2>5. Fifo!Flush
    BY <2>1, <2>3, <2>4 DEF Fifo!Flush
  <2>6. PipeInv'
    BY <1>2, <2>1, <2>2 DEF PipeInv
  <2> QED
    BY <2>5, <2>6 DEF Fifo!Next
<1>4. ASSUME NEW f \in Files, Release(f) PROVE Goal
  <2>1. /\ alloc' \in {0, alloc} /\ (alloc' = alloc /\ alloc' # 0 => buffer' = buffer)
        /\ UNCHANGED <<buffersize, rp, wp, count, taken>>
    BY <1>4 DEF Release
  <2>2. nreaders' + nwriters' # nreaders + nwriters
    BY <1>1, <1>4 DEF Release, One, Files
  <2>3. CASE alloc' = 0
    <3>1. Contents' = <<>>
      BY <2>3 DEF Contents, Used
    <3>2. Fifo!Flush
      BY <2>1, <2>2, <3>1 DEF Fifo!Flush
    <3> QED
      BY <1>2, <2>1, <2>3, <3>2 DEF PipeInv, Fifo!Next
  <2>4. CASE alloc' # 0
    <3>1. UNCHANGED <<alloc, buffer, buffersize, rp, wp, count, taken>>
      BY <2>1, <2>4
    <3>2. UNCHANGED <<Contents, taken, Used>>
      BY <3>1 DEF Contents, Used
    <3> QED
      BY <1>2, <2>2, <3>1, <3>2 DEF PipeInv, Fifo!Next
  <2> QED
    BY <2>3, <2>4
<1>5. ASSUME UNCHANGED <<dev, taken>>, count' \in [Files -> Nat] PROVE Goal
  BY <1>2, <1>5 DEF dev, PipeInv, FifoVars, Contents, Used
<1> USE DEF Goto, Returns
<1>6. ASSUME NEW f \in Files, \/ Interrupted(f) \/ Poll(f) \/ PollTest(f)
                              \/ \E n \in BufSizes : Resize(f, n)
      PROVE  Goal
  <2>1. UNCHANGED <<dev, taken>> /\ count' \in [Files -> Nat]
    BY <1>6 DEF Interrupted, Poll, PollTest, Resize, PipeInv
  <2> QED
    BY <1>5, <2>1
<1>7. ASSUME NEW f \in ReadFiles, Reader(f) \/ \E n \in Counts : Read(f, n) PROVE Goal
  <2>1. CASE ReadSome(f)
    BY <2>1, ReadStep DEF Fifo!Next
  <2>2. CASE \/ ReadEmpty(f) \/ ReadWait(f) \/ WakeWriters(f)
             \/ \E n \in Counts : Read(f, n)
    <3>1. UNCHANGED <<dev, taken>> /\ count' \in [Files -> Nat]
      BY <2>2, ScullPipeAssumption DEF ScullPipeAssumption, ReadEmpty, ReadWait, WakeWriters,
            WakeUp, Read, PipeInv
    <3> QED
      BY <1>5, <3>1
  <2> QED
    BY <1>7, <2>1, <2>2 DEF Reader
<1>8. ASSUME NEW f \in WriteFiles, Writer(f) \/ \E n \in Counts : Write(f, n) PROVE Goal
  <2>1. CASE WriteSome(f)
    <3>1. PipeInv'
      BY <2>1, WriteStep
    <3>2. CASE /\ Prefix(Contents, Contents') /\ alloc' # 0
               /\ UNCHANGED <<taken, nreaders, nwriters>>
      <4>0. PipeInv' => (Contents \in Seq(Data) /\ (alloc # 0 => Len(Contents) <= buffersize - 1))'
        BY ContentsData, PTL
      <4>1. Contents' \in Seq(Data) /\ Len(Contents') <= buffersize' - 1
        BY <3>1, <3>2, <4>0
      <4>2. buffersize' <= top /\ buffersize' \in Nat /\ top \in Nat
        BY <1>0, <3>1, <3>2 DEF PipeInv
      <4>3. Len(Contents') <= top - 1
        <5>1. Len(Contents') \in Nat
          BY <4>1
        <5> HIDE DEF Contents
        <5> QED
          BY <4>1, <4>2, <5>1
      <4>4. Fifo!Put
        BY <3>2, <4>1, <4>3 DEF Fifo!Put, Fifo!IsPrefix, Prefix, top
      <4> QED
        BY <3>1, <4>4 DEF Fifo!Next
    <3> QED
      BY <2>1, <3>1, <3>2, WriteStep
  <2>2. CASE \/ WriteFull(f) \/ WriteWait(f) \/ WakeReaders(f)
             \/ \E n \in Counts : Write(f, n)
    <3>1. UNCHANGED <<dev, taken>> /\ count' \in [Files -> Nat]
      BY <2>2, ScullPipeAssumption DEF ScullPipeAssumption, WriteFull, WriteWait, WakeReaders,
            WakeUp, Write, PipeInv
    <3> QED
      BY <1>5, <3>1
  <2> QED
    BY <1>8, <2>1, <2>2 DEF Writer
<1>9. CASE UNCHANGED vars
  <2>1. UNCHANGED <<dev, taken>> /\ count' \in [Files -> Nat]
    BY <1>9 DEF vars, PipeInv
  <2> QED
    BY <1>5, <2>1
<1> QED
  BY <1>3, <1>4, <1>6, <1>7, <1>8, <1>9 DEF Next

(* The pipe is a bounded first-in first-out buffer: whoever reads gets the    *)
(* bytes in the order in which they were written, each once, whatever readers *)
(* and writers do at once, whatever calls fail and wherever wp has wrapped;   *)
(* only an open, or the last release, throws bytes away.  scull_p_buffer is   *)
(* an int, so there is a largest buffer.                                      *)
THEOREM PipeIsFifo ==
  ASSUME NEW largest \in BufSizes, \A m \in BufSizes : m <= largest
  PROVE  Spec => IsFifo
<1>1. Init => PipeInv /\ Fifo!Init
  <2> SUFFICES ASSUME Init PROVE PipeInv /\ Fifo!Init
    OBVIOUS
  <2>1. CountInv
    BY CountInit
  <2>2. Contents = <<>>
    BY DEF Init, Contents, Used
  <2> QED
    BY <2>1, <2>2 DEF Init, PipeInv, Fifo!Init
<1>2. PipeInv /\ [Next]_vars => PipeInv' /\ [Fifo!Next]_FifoVars
  BY PipeStep
<1> QED
  BY <1>1, <1>2, PTL DEF Spec, IsFifo, Fifo!Spec, FifoVars

-----------------------------------------------------------------------------
(* The output of shortprint is printed in order                              *)

SpUsed == (SpSize + spHead - spTail) % SpSize

\* The bytes between the tail and the head have been written.
SpInv ==
    /\ spHead \in 0 .. SpSize - 1 /\ spTail \in 0 .. SpSize - 1
    /\ DOMAIN spBuf = 0 .. SpSize - 1
    /\ spLeft \in [SpWriters -> Nat]
    /\ \A i \in 1 .. SpUsed : spBuf[Around(SpSize, spTail + i - 1)] \in SpData

SpFifoVars == <<SpContents, spLast, 0>>

(* How many bytes there are, and where.                                       *)
LEMMA SpBetween ==
  SpInv => /\ SpUsed = IF spHead >= spTail THEN spHead - spTail ELSE spHead + SpSize - spTail
           /\ SpUsed \in 0 .. SpSize - 1
           /\ SpContents = Ring(spBuf, SpSize, spTail, SpUsed)
           /\ SpContents \in Seq(SpData) /\ Len(SpContents) = SpUsed
<1> SUFFICES ASSUME SpInv
             PROVE  /\ SpUsed = IF spHead >= spTail THEN spHead - spTail
                                ELSE spHead + SpSize - spTail
                    /\ SpUsed \in 0 .. SpSize - 1
                    /\ SpContents = Ring(spBuf, SpSize, spTail, SpUsed)
                    /\ SpContents \in Seq(SpData) /\ Len(SpContents) = SpUsed
  OBVIOUS
<1>0. SpSize \in Nat \ {0} /\ spHead \in 0 .. SpSize - 1 /\ spTail \in 0 .. SpSize - 1
  BY SpAssumption DEF SpAssumption, SpInv
<1>1. SpUsed = IF spHead >= spTail THEN spHead - spTail ELSE spHead + SpSize - spTail
  <2>1. ((spHead + SpSize - spTail) % SpSize)
          = IF spHead >= spTail THEN spHead - spTail ELSE spHead + SpSize - spTail
    BY <1>0, Behind
  <2>2. SpSize + spHead - spTail = spHead + SpSize - spTail
    BY <1>0
  <2> QED
    BY <2>1, <2>2 DEF SpUsed
<1>2. SpUsed \in 0 .. SpSize - 1
  BY <1>0, <1>1
<1>3. SpContents = Ring(spBuf, SpSize, spTail, SpUsed)
  BY DEF SpContents, SpUsed, Ring
<1>4. ASSUME NEW i \in 1 .. SpUsed PROVE SpContents[i] \in SpData
  <2>1. SpUsed \in 0 .. SpSize
    BY <1>0, <1>2
  <2>2. SpContents[i] = spBuf[Around(SpSize, spTail + i - 1)]
    BY <1>0, <1>3, <2>1, RingSlot
  <2> QED
    BY <2>2 DEF SpInv
<1>5. SpContents = [i \in 1 .. SpUsed |-> SpContents[i]]
  BY DEF SpContents, SpUsed
<1>6. SpContents \in Seq(SpData) /\ Len(SpContents) = SpUsed
  BY <1>2, <1>4, <1>5
<1> QED
  BY <1>1, <1>2, <1>3, <1>6

(* shortp_write() joins bytes up to the end of the buffer, or up to one byte  *)
(* before the tail (shortprint.c:126-137, :222-229).                          *)
LEMMA SpMovesStep ==
  ASSUME SpInv, NEW w \in SpWriters, SpMoves(w)
  PROVE  /\ SpInv'
         /\ \/ Prefix(SpContents, SpContents') /\ UNCHANGED spLast
            \/ UNCHANGED SpFifoVars
<1> DEFINE n == IF OutSpace < spLeft[w] THEN OutSpace ELSE spLeft[w]
           B == SpSize
<1>0. B \in Nat \ {0} /\ spHead \in 0 .. B - 1 /\ spTail \in 0 .. B - 1 /\ spLeft[w] \in Nat
  BY SpAssumption DEF SpAssumption, SpInv
<1>1. /\ SpUsed = IF spHead >= spTail THEN spHead - spTail ELSE spHead + B - spTail
      /\ SpUsed \in 0 .. B - 1 /\ SpContents = Ring(spBuf, B, spTail, SpUsed)
  BY SpBetween
<1>2. n \in Int /\ n <= spLeft[w] /\ n <= B - 1 - SpUsed /\ spHead + n <= B
  BY <1>0, <1>1 DEF OutSpace
<1> HIDE DEF n
<1>3. ASSUME n > 0, NEW d \in SpData,
             spBuf' = [i \in DOMAIN spBuf |-> IF i \in spHead .. spHead + n - 1 THEN d
                                              ELSE spBuf[i]],
             spHead' = (spHead + n) % B,
             spLeft' = [spLeft EXCEPT ![w] = @ - n],
             UNCHANGED <<spTail, spLast>>
      PROVE  SpInv' /\ Prefix(SpContents, SpContents')
  <2>0. n \in Nat /\ SpUsed + n \in SpUsed .. B - 1
    BY <1>0, <1>1, <1>2, <1>3
  <2>1. spHead' = Around(B, spHead + n) /\ spHead' \in 0 .. B - 1
    <3> DEFINE a == spHead + n
    <3>1. a \in 0 .. 2 * B - 1
      BY <1>0, <1>2, <2>0
    <3>2. Around(B, a) \in 0 .. B - 1
      BY <1>0, <1>2, <2>0 DEF Around
    <3> HIDE DEF a
    <3>3. (a % B) = Around(B, a)
      BY <1>0, <3>1, OnceAround
    <3> QED
      BY <1>3, <3>2, <3>3 DEF a
  <2>2. SpUsed' = SpUsed + n
    <3>1. ((spHead' + B - spTail) % B)
            = IF spHead' >= spTail THEN spHead' - spTail ELSE spHead' + B - spTail
      BY <1>0, <2>1, Behind
    <3>2. SpUsed' = (spHead' + B - spTail) % B
      <4>1. B + spHead' - spTail = spHead' + B - spTail
        BY <1>0, <2>1
      <4> QED
        BY <1>3, <4>1 DEF SpUsed
    <3> QED
      BY <1>0, <1>1, <1>2, <2>0, <2>1, <3>1, <3>2 DEF Around
  <2>3. ASSUME NEW i \in 1 .. SpUsed
        PROVE  spBuf'[Around(B, spTail + i - 1)] = spBuf[Around(B, spTail + i - 1)]
    <3> DEFINE slot == Around(B, spTail + i - 1)
    <3>1. slot \in 0 .. B - 1 /\ slot \notin spHead .. spHead + n - 1
      BY <1>0, <1>1, <1>2, <2>0 DEF Around
    <3> HIDE DEF slot
    <3>2. spBuf'[slot] = spBuf[slot]
      BY <1>3, <3>1 DEF SpInv
    <3> QED
      BY <3>2 DEF slot
  <2>4. ASSUME NEW i \in 1 .. SpUsed + n
        PROVE  spBuf'[Around(B, spTail + i - 1)] \in SpData
    <3>1. CASE i <= SpUsed
      <4>1. i \in 1 .. SpUsed
        BY <1>1, <2>0, <3>1
      <4> QED
        BY <2>3, <4>1 DEF SpInv
    <3>2. CASE i > SpUsed
      <4> DEFINE slot == Around(B, spTail + i - 1)
      <4>1. slot \in 0 .. B - 1 /\ slot \in spHead .. spHead + n - 1
        BY <1>0, <1>1, <1>2, <2>0, <3>2 DEF Around
      <4> HIDE DEF slot
      <4>2. spBuf'[slot] = d
        BY <1>3, <4>1 DEF SpInv
      <4> QED
        BY <4>2 DEF slot
    <3> QED
      BY <1>1, <2>0, <3>1, <3>2
  <2>5. spLeft' \in [SpWriters -> Nat]
    BY <1>0, <1>2, <1>3, <2>0 DEF SpInv
  <2>6. SpInv'
    BY <1>3, <2>1, <2>2, <2>4, <2>5 DEF SpInv
  <2>7. SpContents' = Ring(spBuf', B, spTail, SpUsed + n)
    BY <1>3, <2>2 DEF SpContents, SpUsed, Ring
  <2>8. Prefix(Ring(spBuf, B, spTail, SpUsed), Ring(spBuf', B, spTail, SpUsed + n))
    BY <1>0, <1>1, <2>0, <2>3, RingPut
  <2> QED
    BY <1>1, <2>6, <2>7, <2>8
<1>4. CASE UNCHANGED <<spBuf, spHead, spTail, spLast>> /\ spLeft' \in [SpWriters -> Nat]
  BY <1>4 DEF SpInv, SpFifoVars, SpContents, SpUsed
<1>5. CASE UNCHANGED <<spBuf, spHead, spTail, spLast>>
           /\ (UNCHANGED spLeft \/ spLeft' = [spLeft EXCEPT ![w] = 0])
  BY <1>4, <1>5 DEF SpInv
<1> QED
  BY <1>3, <1>5 DEF SpMoves, n

(* shortp_do_work() strobes the byte at the tail (:294-300).                  *)
LEMMA SpWorkStep ==
  ASSUME SpInv, shortp_do_work
  PROVE  SpInv' /\ (SpFifo!Take \/ UNCHANGED SpFifoVars)
<1> DEFINE B == SpSize
<1>0. B \in Nat \ {0} /\ B > 1 /\ spHead \in 0 .. B - 1 /\ spTail \in 0 .. B - 1
  BY SpAssumption DEF SpAssumption, SpInv
<1>1. /\ SpUsed = IF spHead >= spTail THEN spHead - spTail ELSE spHead + B - spTail
      /\ SpUsed \in 0 .. B - 1 /\ SpContents = Ring(spBuf, B, spTail, SpUsed)
  BY SpBetween
<1>2. CASE spHead = spTail
  <2>1. UNCHANGED <<spBuf, spHead, spTail, spLast, spLeft>>
    BY <1>2 DEF shortp_do_work
  <2> QED
    BY <2>1 DEF SpInv, SpFifoVars, SpContents, SpUsed
<1>3. CASE spHead # spTail
  <2>1. /\ spTail' = (spTail + 1) % B
        /\ spBuf' = [spBuf EXCEPT ![spTail] = "none"]
        /\ spLast' = <<spBuf[spTail]>>
        /\ UNCHANGED <<spHead, spLeft>>
    BY <1>3 DEF shortp_do_work
  <2>2. SpUsed \in 1 .. B - 1 /\ SpUsed - 1 \in 0 .. B
    BY <1>0, <1>1, <1>3
  <2>3. spTail' = Around(B, spTail + 1) /\ spTail' \in 0 .. B - 1
    <3> DEFINE a == spTail + 1
    <3>1. a \in 0 .. 2 * B - 1 /\ Around(B, a) \in 0 .. B - 1
      BY <1>0 DEF Around
    <3> HIDE DEF a
    <3>2. (a % B) = Around(B, a)
      BY <1>0, <3>1, OnceAround
    <3> QED
      BY <2>1, <3>1, <3>2 DEF a
  <2>4. SpUsed' = SpUsed - 1
    <3>1. ((spHead + B - spTail') % B)
            = IF spHead >= spTail' THEN spHead - spTail' ELSE spHead + B - spTail'
      BY <1>0, <2>3, Behind
    <3>2. SpUsed' = (spHead + B - spTail') % B
      <4>1. B + spHead - spTail' = spHead + B - spTail'
        BY <1>0, <2>3
      <4> QED
        BY <2>1, <4>1 DEF SpUsed
    <3> QED
      BY <1>0, <1>1, <1>3, <2>3, <3>1, <3>2 DEF Around
  <2>5. ASSUME NEW i \in 1 .. SpUsed - 1
        PROVE  /\ spBuf'[Around(B, spTail' + i - 1)] = spBuf[Around(B, spTail' + i - 1)]
               /\ spBuf[Around(B, spTail' + i - 1)] \in SpData
    <3> DEFINE slot == Around(B, spTail' + i - 1)
    <3>1. slot # spTail /\ slot = Around(B, spTail + (i + 1) - 1)
      BY <1>0, <1>1, <2>2, <2>3 DEF Around
    <3>2. i + 1 \in 1 .. SpUsed
      BY <2>2
    <3> HIDE DEF slot
    <3>3. spBuf[slot] \in SpData
      BY <3>1, <3>2 DEF SpInv
    <3>4. spBuf'[slot] = spBuf[slot]
      BY <2>1, <3>1
    <3> QED
      BY <3>3, <3>4 DEF slot
  <2>6. DOMAIN spBuf' = 0 .. B - 1
    BY <2>1 DEF SpInv
  <2>7. SpInv'
    BY <2>1, <2>3, <2>4, <2>5, <2>6 DEF SpInv
  <2>8. SpContents' = Ring(spBuf', B, spTail', SpUsed - 1)
    BY <2>4 DEF SpContents, SpUsed, Ring
  <2>9. Ring(spBuf, B, spTail', SpUsed - 1) = Ring(spBuf', B, spTail', SpUsed - 1)
    BY <1>0, <2>2, <2>3, <2>5, RingSame
  <2>10. Ring(spBuf, B, spTail, SpUsed)
           = Ring(spBuf, B, spTail, 1) \o Ring(spBuf, B, Around(B, spTail + 1), SpUsed - 1)
    <3> DEFINE one == 1
    <3>1. /\ one \in 0 .. SpUsed /\ B \in Nat \ {0}
          /\ spTail \in 0 .. B - 1 /\ SpUsed \in 0 .. B - 1
      BY <1>0, <1>1, <2>2
    <3> HIDE DEF one, B
    <3>2. Ring(spBuf, B, spTail, SpUsed)
            = Ring(spBuf, B, spTail, one)
                 \o Ring(spBuf, B, Around(B, spTail + one), SpUsed - one)
      BY <3>1, RingTake, Zenon
    <3> QED
      BY <3>2 DEF one, B
  <2>11. spLast' = Ring(spBuf, B, spTail, 1)
    <3>1. 1 \in 0 .. B /\ Around(B, spTail + 1 - 1) = spTail
      BY <1>0 DEF Around
    <3>2. Ring(spBuf, B, spTail, 1)[1] = spBuf[spTail]
      <4>1. 1 \in 1 .. 1
        OBVIOUS
      <4> QED
        BY <1>0, <3>1, <4>1, RingSlot
    <3>3. Ring(spBuf, B, spTail, 1) = <<Ring(spBuf, B, spTail, 1)[1]>>
      BY DEF Ring
    <3> QED
      BY <2>1, <3>2, <3>3
  <2>12. SpFifo!Take
    BY <1>1, <2>3, <2>8, <2>9, <2>10, <2>11 DEF SpFifo!Take
  <2> QED
    BY <2>7, <2>12
<1> QED
  BY <1>2, <1>3

(* Every step keeps the bytes, and is a step of the FIFO or none it sees.     *)
LEMMA SpStep ==
  ASSUME SpInv, [SpNext]_spVars
  PROVE  SpInv' /\ [SpFifo!Next]_SpFifoVars
<1> DEFINE Goal == SpInv' /\ [SpFifo!Next]_SpFifoVars
<1>1. ASSUME NEW w \in SpWriters, SpMoves(w) PROVE Goal
  <2>1. SpInv'
    BY <1>1, SpMovesStep
  <2>2. CASE Prefix(SpContents, SpContents') /\ UNCHANGED spLast
    <3>0. SpInv' => (/\ SpUsed \in 0 .. SpSize - 1
                     /\ SpContents \in Seq(SpData) /\ Len(SpContents) = SpUsed)'
      BY SpBetween, PTL
    <3>1. SpContents' \in Seq(SpData) /\ Len(SpContents') <= SpSize - 1
      <4> HIDE DEF SpContents
      <4> QED
        BY <2>1, <3>0, SpAssumption DEF SpAssumption
    <3>2. SpFifo!Put
      BY <2>2, <3>1 DEF SpFifo!Put, SpFifo!IsPrefix, Prefix
    <3> QED
      BY <2>1, <3>2 DEF SpFifo!Next
  <2> QED
    BY <1>1, <2>1, <2>2, SpMovesStep
<1>2. CASE shortp_do_work
  BY <1>2, SpWorkStep DEF SpFifo!Next
<1>3. ASSUME UNCHANGED <<spBuf, spHead, spTail, spLast>>, spLeft' \in [SpWriters -> Nat]
      PROVE  Goal
  BY <1>3 DEF SpInv, SpFifoVars, SpContents, SpUsed
<1>4. ASSUME NEW w \in SpWriters, \/ shortp_open(w) \/ shortp_write(w) \/ SpStarts(w)
                                  \/ SpSignal(w) \/ shortp_release(w)
      PROVE  Goal
  <2>1. UNCHANGED <<spBuf, spHead, spTail, spLast>>
    BY <1>4 DEF shortp_open, shortp_write, SpStarts, SpSignal, shortp_release, spOut
  <2>2. spLeft' \in [SpWriters -> Nat]
    BY <1>4, SpAssumption DEF SpAssumption, SpInv, shortp_open, shortp_write, SpStarts,
          SpSignal, shortp_release
  <2> QED
    BY <1>3, <2>1, <2>2
<1>5. CASE (\E r \in SpReaders : SpReader(r)) \/ SpTimerRun
  BY <1>3, <1>5 DEF SpReader, shortp_read, SpReadSignal, SpTimerRun, TimerFires,
        GetIntrTimerCallback, MissedInterrupt, spOut, spUser, SpInv
<1>6. CASE WorkStarts \/ SpPrinter \/ shortp_interrupt \/ shortp_cleanup \/ SpFlushed
  BY <1>3, <1>6 DEF WorkStarts, SpPrinter, PrinterAcks, PrinterReady, shortp_interrupt,
        shortp_cleanup, SpFlushed, spOut, spUser, SpInv
<1>7. CASE UNCHANGED spVars
  BY <1>3, <1>7 DEF spVars, spOut, spUser, SpInv
<1> QED
  BY <1>1, <1>2, <1>4, <1>5, <1>6, <1>7 DEF SpNext, SpWriter, SpKernel

(* Every byte that a write has accepted is strobed to the printer, once and   *)
(* in the order of the writes, although the work that does it is queued by    *)
(* writers, interrupts and a timer (shortprint.c:280-403).                    *)
THEOREM ShortPrintInOrder == SpSpec => PrintedInOrder
<1>1. SpInit => SpInv /\ SpFifo!Init
  <2> SUFFICES ASSUME SpInit PROVE SpInv /\ SpFifo!Init
    OBVIOUS
  <2>1. SpSize \in Nat \ {0} /\ 0 \in 0 .. SpSize - 1
    BY SpAssumption DEF SpAssumption
  <2>2. ((0 + SpSize - 0) % SpSize) = 0
    BY <2>1, Behind
  <2>3. ((SpSize + spHead - spTail) % SpSize) = 0
    BY <2>1, <2>2 DEF SpInit
  <2>4. SpUsed = 0 /\ SpContents = <<>>
    BY <2>3 DEF SpUsed, SpContents
  <2> QED
    BY <2>1, <2>4 DEF SpInit, SpInv, SpFifo!Init
<1>2. SpInv /\ [SpNext]_spVars => SpInv' /\ [SpFifo!Next]_SpFifoVars
  BY SpStep
<1> QED
  BY <1>1, <1>2, PTL DEF SpSpec, PrintedInOrder, SpFifo!Spec, SpFifoVars
=============================================================================
