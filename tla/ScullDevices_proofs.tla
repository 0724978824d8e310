------------------------ MODULE ScullDevices_proofs -------------------------
(* Theorems about the devices of the scull family, for any files, area,     *)
(* counts, faults and geometries, while calls do not overlap.               *)
EXTENDS ScullDevices, FiniteSetTheorems, TLAPS

InBytes == {"scull", "scullc"}
Paged   == {"scullp", "scullv", "sculld"}

(* What the drivers do each in code of its own.                             *)
QuantumOf(d, unit) == IF d \in InBytes THEN unit ELSE Page * 2 ^ unit
Quantum   == QuantumOf(device, geo.unit)
TrimOf(d) == IF d = "scull" THEN Trim ELSE TrimUnmapped
UnitsOf(d) == IF d \in InBytes THEN Quanta ELSE Orders
NewLength(f) == CASE device = "scull"  -> [i \in Positions |-> call[f].q]
                  [] device = "scullc" -> [i \in Positions |-> CacheObject]
                  [] OTHER             -> OrderPages
Cleared == IF device = "scullc" THEN param.unit ELSE 0

(* A step of some driver, with these in place of its own.                   *)
Opens(f) == OpenFile(f) /\ (TrimOf(device) \/ Keeps)
Transfers(f) == \/ \E op \in {"read", "write"} : Enters(f, op, Quantum)
                \/ ReadLocked(f)
                \/ WriteLocked(f, NewLength(f), Cleared)
                \/ \E n \in {1, 2} : Aio(f, Quantum, n)
                \/ DoDeferredOp(f)
Maps(f) == device \in Paged /\ (Mmap(f) \/ VmaOpen(f) \/ VmaClose(f) \/ Nopage(f))
Kind(f) == \/ \E d \in Devices : Load(d) \/ Unload(d, TrimOf(d))
           \/ device \in Devices /\ (Opens(f) \/ Transfers(f) \/ Ioctl(f, UnitsOf(device)) \/ Seek(f))
           \/ Maps(f)
           \/ Release(f)

LEMMA ScullKind == ASSUME NEW f \in AreaFiles, scull(f) PROVE Kind(f)
<1> USE DEF Devices, InBytes, On, Quantum, QuantumOf, TrimOf, UnitsOf, NewLength, Cleared, CacheObject, ByteQuantum, PageQuantum
<1>1. CASE scull_init_module \/ scull_cleanup_module
  BY <1>1 DEF scull_init_module, scull_cleanup_module, Kind
<1>2. CASE scull_open(f)
  BY <1>2 DEF scull_open, Kind, Opens
<1>3. CASE scull_read(f)
  BY <1>3 DEF scull_read, Kind, Transfers
<1>4. CASE scull_write(f)
  BY <1>4 DEF scull_write, Kind, Transfers
<1>5. CASE scull_ioctl(f) \/ scull_llseek(f)
  BY <1>5 DEF scull_ioctl, scull_llseek, Kind
<1> QED
  BY <1>1, <1>2, <1>3, <1>4, <1>5 DEF scull

LEMMA ScullcKind == ASSUME NEW f \in AreaFiles, scullc(f) PROVE Kind(f)
<1> USE DEF Devices, InBytes, On, Quantum, QuantumOf, TrimOf, UnitsOf, NewLength, Cleared, CacheObject, ByteQuantum, PageQuantum
<1>1. CASE scullc_init \/ scullc_cleanup
  BY <1>1 DEF scullc_init, scullc_cleanup, scullc_trim, Kind
<1>2. CASE scullc_open(f)
  BY <1>2 DEF scullc_open, scullc_trim, Kind, Opens
<1>3. CASE scullc_read(f)
  BY <1>3 DEF scullc_read, Kind, Transfers
<1>4. CASE scullc_write(f)
  BY <1>4 DEF scullc_write, Kind, Transfers
<1>5. CASE scullc_ioctl(f) \/ scullc_llseek(f)
  BY <1>5 DEF scullc_ioctl, scullc_llseek, Kind
<1>6. CASE scullc_aio(f) \/ scullc_do_deferred_op(f)
  BY <1>6 DEF scullc_aio, scullc_do_deferred_op, Kind, Transfers
<1> QED
  BY <1>1, <1>2, <1>3, <1>4, <1>5, <1>6 DEF scullc

LEMMA ScullpKind == ASSUME NEW f \in AreaFiles, scullp(f) PROVE Kind(f)
<1> USE DEF Devices, InBytes, Paged, On, Quantum, QuantumOf, TrimOf, UnitsOf, NewLength, Cleared, PageQuantum
<1>1. CASE scullp_init \/ scullp_cleanup
  BY <1>1 DEF scullp_init, scullp_cleanup, scullp_trim, Kind
<1>2. CASE scullp_open(f)
  BY <1>2 DEF scullp_open, scullp_trim, Kind, Opens
<1>3. CASE scullp_read(f)
  BY <1>3 DEF scullp_read, Kind, Transfers
<1>4. CASE scullp_write(f)
  BY <1>4 DEF scullp_write, Kind, Transfers
<1>5. CASE scullp_ioctl(f) \/ scullp_llseek(f)
  BY <1>5 DEF scullp_ioctl, scullp_llseek, Kind
<1>6. CASE scullp_aio(f) \/ scullp_do_deferred_op(f)
  BY <1>6 DEF scullp_aio, scullp_do_deferred_op, Kind, Transfers
<1>7. CASE scullp_mmap(f) \/ scullp_vma_open_close(f) \/ scullp_vma_nopage(f)
  BY <1>7 DEF scullp_mmap, scullp_vma_open_close, scullp_vma_nopage, Kind, Maps
<1> QED
  BY <1>1, <1>2, <1>3, <1>4, <1>5, <1>6, <1>7 DEF scullp

LEMMA ScullvKind == ASSUME NEW f \in AreaFiles, scullv(f) PROVE Kind(f)
<1> USE DEF Devices, InBytes, Paged, On, Quantum, QuantumOf, TrimOf, UnitsOf, NewLength, Cleared, PageQuantum
<1>1. CASE scullv_init \/ scullv_cleanup
  BY <1>1 DEF scullv_init, scullv_cleanup, scullv_trim, Kind
<1>2. CASE scullv_open(f)
  BY <1>2 DEF scullv_open, scullv_trim, Kind, Opens
<1>3. CASE scullv_read(f)
  BY <1>3 DEF scullv_read, Kind, Transfers
<1>4. CASE scullv_write(f)
  BY <1>4 DEF scullv_write, Kind, Transfers
<1>5. CASE scullv_ioctl(f) \/ scullv_llseek(f)
  BY <1>5 DEF scullv_ioctl, scullv_llseek, Kind
<1>6. CASE scullv_aio(f) \/ scullv_do_deferred_op(f)
  BY <1>6 DEF scullv_aio, scullv_do_deferred_op, Kind, Transfers
<1>7. CASE scullv_mmap(f) \/ scullv_vma_open_close(f) \/ scullv_vma_nopage(f)
  BY <1>7 DEF scullv_mmap, scullv_vma_open_close, scullv_vma_nopage, Kind, Maps
<1> QED
  BY <1>1, <1>2, <1>3, <1>4, <1>5, <1>6, <1>7 DEF scullv

LEMMA SculldKind == ASSUME NEW f \in AreaFiles, sculld(f) PROVE Kind(f)
<1> USE DEF Devices, InBytes, Paged, On, Quantum, QuantumOf, TrimOf, UnitsOf, NewLength, Cleared, PageQuantum
<1>1. CASE sculld_init \/ sculld_cleanup
  BY <1>1 DEF sculld_init, sculld_cleanup, sculld_trim, Kind
<1>2. CASE sculld_open(f)
  BY <1>2 DEF sculld_open, sculld_trim, Kind, Opens
<1>3. CASE sculld_read(f)
  BY <1>3 DEF sculld_read, Kind, Transfers
<1>4. CASE sculld_write(f)
  BY <1>4 DEF sculld_write, Kind, Transfers
<1>5. CASE sculld_ioctl(f) \/ sculld_llseek(f)
  BY <1>5 DEF sculld_ioctl, sculld_llseek, Kind
<1>6. CASE sculld_aio(f) \/ sculld_do_deferred_op(f)
  BY <1>6 DEF sculld_aio, sculld_do_deferred_op, Kind, Transfers
<1>7. CASE sculld_mmap(f) \/ sculld_vma_open_close(f) \/ sculld_vma_nopage(f)
  BY <1>7 DEF sculld_mmap, sculld_vma_open_close, sculld_vma_nopage, Kind, Maps
<1> QED
  BY <1>1, <1>2, <1>3, <1>4, <1>5, <1>6, <1>7 DEF sculld

(* Every step is one of these, by whatever driver.                          *)
LEMMA Kinds == AreaNext => \E f \in AreaFiles : Kind(f)
  BY ScullKind, ScullcKind, ScullpKind, ScullvKind, SculldKind DEF AreaNext, Kind

-----------------------------------------------------------------------------
(* Mappings                                                                  *)

Geometry == [unit : Nat, qset : Nat \ {0}]
Bytes    == AreaData \cup {Unwritten}
Shaped(c) == "op" \in DOMAIN c /\ "q" \in DOMAIN c /\ c.q \in Int
Mapped   == {f \in AreaFiles : vma[f].pc \in {"mapped", "closing"}}
InFlight(f) == vma[f].pc \in {"opening", "closing"}

AreaTyped ==
    /\ device \in Devices \cup {"none"}
    /\ geo \in Geometry /\ param \in Geometry
    /\ block \in [Entries -> Seq(Bytes)]
    /\ call = [f \in AreaFiles |-> call[f]] /\ \A f \in AreaFiles : Shaped(call[f])
    /\ vma \in [AreaFiles -> [pc : {"none", "opening", "mapped", "closing"},
                              seen : Int, page : Entries \cup {<<>>}]]

(* vmas counts the mappings, and who is about to store it has read it last.  *)
VmasCounted ==
    /\ vmas = Cardinality(Mapped)
    /\ \A f \in AreaFiles : InFlight(f) =>
          vma[f].seen = vmas /\ \A g \in AreaFiles : InFlight(g) => g = f

(* Only an open file of a driver that has mmap is mapped.                    *)
MappedOpen ==
    /\ device = "none" => \A f \in AreaFiles : call[f].op = "closed"
    /\ \A f \in AreaFiles : vma[f].pc # "none" => call[f].op # "closed" /\ device \in Paged

MapInv == AreaTyped /\ VmasCounted /\ MappedOpen /\ PagesStay

LEMMA MapInit == AreaInit => MapInv
<1> SUFFICES ASSUME AreaInit PROVE MapInv
  OBVIOUS
<1> USE AreaAssumption DEF AreaInit, NoVma, NoCall, NoGeo
<1>1. AreaTyped
  BY DEF AreaTyped, Geometry, Shaped
<1>2. Mapped = {} /\ \A f \in AreaFiles : ~ InFlight(f)
  BY DEF Mapped, InFlight
<1>3. VmasCounted
  BY <1>2, FS_EmptySet DEF VmasCounted
<1>4. MappedOpen /\ PagesStay
  BY DEF MappedOpen, PagesStay
<1> QED
  BY <1>1, <1>3, <1>4 DEF MapInv

(* A step that leaves the mappings alone and takes no quantum away.          *)
Keeping(f) ==
    /\ UNCHANGED <<device, vmas, vma>> /\ device \in Devices
    /\ geo' \in Geometry /\ param' \in Geometry
    /\ block' \in [Entries -> Seq(Bytes)]
    /\ \A e \in Entries : block[e] # <<>> => block'[e] # <<>>
    /\ \/ call' = call
       \/ \E c : call' = [call EXCEPT ![f] = c] /\ Shaped(c) /\ c.op # "closed"

LEMMA KeepingStep == ASSUME MapInv, NEW f \in AreaFiles, Keeping(f) PROVE MapInv'
<1> USE DEF MapInv
<1>1. /\ call' = [g \in AreaFiles |-> call'[g]]
      /\ \A g \in AreaFiles : Shaped(call'[g]) /\ (call'[g].op = "closed" => call[g].op = "closed")
  <2>1. CASE call' = call
    BY <2>1 DEF AreaTyped
  <2>2. ASSUME NEW c, call' = [call EXCEPT ![f] = c], Shaped(c), c.op # "closed"
        PROVE  /\ call' = [g \in AreaFiles |-> call'[g]]
               /\ \A g \in AreaFiles : Shaped(call'[g]) /\ (call'[g].op = "closed" => call[g].op = "closed")
    <3>1. call' = [g \in AreaFiles |-> IF g = f THEN c ELSE call[g]]
      BY <2>2 DEF AreaTyped
    <3> QED
      BY <2>2, <3>1 DEF AreaTyped
  <2> QED
    BY <2>1, <2>2 DEF Keeping
<1>2. AreaTyped'
  <2>1. \A g \in AreaFiles : Shaped(call[g])'
    BY <1>1 DEF Shaped
  <2> QED
    BY <1>1, <2>1 DEF AreaTyped, Keeping
<1>3. VmasCounted'
  BY DEF VmasCounted, Mapped, InFlight, Keeping
<1>4. MappedOpen'
  BY <1>1 DEF MappedOpen, Keeping, Devices
<1>5. PagesStay'
  BY DEF PagesStay, Keeping, AreaTyped
<1> QED
  BY <1>2, <1>3, <1>4, <1>5

(* How an operation ends, or goes on to its next segment.                    *)
LEMMA EndsShaped ==
  ASSUME MapInv, NEW f \in AreaFiles, NEW n, Ends(f, n)
  PROVE  \E c : call' = [call EXCEPT ![f] = c] /\ Shaped(c) /\ c.op # "closed"
<1>1. CASE call[f].segs = 0
  <2>1. Shaped(NoCall) /\ NoCall.op # "closed" /\ call' = [call EXCEPT ![f] = NoCall]
    BY <1>1 DEF Ends, Idle, Sets, Shaped, NoCall
  <2> QED
    BY <2>1
<1>2. CASE call[f].segs # 0
  <2> DEFINE c == [call[f] EXCEPT !.op = "segment", !.at = call[f].at + n]
  <2>1. call' = [call EXCEPT ![f] = c]
    BY <1>2 DEF Ends, Sets
  <2>2. Shaped(call[f])
    BY DEF MapInv, AreaTyped
  <2>3. Shaped(c) /\ c.op # "closed"
    BY <2>2 DEF Shaped
  <2> QED
    BY <2>1, <2>3
<1> QED
  BY <1>1, <1>2

LEMMA FreshSeq == ASSUME NEW S, NEW x \in S, NEW j \in Nat PROVE [i \in 1 .. j |-> x] \in Seq(S)
  OBVIOUS

(* A new quantum is a sequence of bytes, whatever its length is set to.      *)
LEMMA FreshBytes == ASSUME NEW k \in Int PROVE [i \in 1 .. k |-> Unwritten] \in Seq(Bytes)
<1>1. PICK j \in Nat : 1 .. k = 1 .. j
  <2>1. CASE k \in Nat
    BY <2>1
  <2>2. CASE k \notin Nat
    <3>1. 1 .. k = 1 .. 0
      BY <2>2
    <3> QED
      BY <3>1
  <2> QED
    BY <2>1, <2>2
<1>2. Unwritten \in Bytes
  BY DEF Bytes
<1> QED
  BY <1>1, <1>2, FreshSeq

LEMMA WriteKeeps ==
  ASSUME MapInv, device \in Devices, NEW f \in AreaFiles,
         NEW length \in [Positions -> Int], NEW cleared, WriteLocked(f, length, cleared)
  PROVE  Keeping(f)
<1> USE DEF MapInv, AreaTyped
<1> DEFINE l == Locate(call[f])
           e == <<l.item, l.slot>>
           b == IF block[e] = <<>> THEN [i \in 1 .. length[l.item] |-> Unwritten] ELSE block[e]
           New(d, m) == [i \in 1 .. Len(b) |-> IF i \in l.off + 1 .. l.off + m THEN d ELSE b[i]]
<1>1. UNCHANGED <<device, vmas, vma, geo, param>>
  BY DEF WriteLocked, Runaway, mem, area
<1>2. \E n : Ends(f, n)
  BY DEF WriteLocked, Runaway
<1>3. block' = block \/ \E d \in AreaData : \E m : block' = [block EXCEPT ![e] = New(d, m)]
  <2>1. CASE Runaway(f)
    BY <2>1 DEF Runaway, mem, area
  <2>2. CASE ~ Runaway(f)
    <3> DEFINE n == Lesser(call[f].n, call[f].q - l.off)
               t == IF table[l.item] = 0 THEN call[f].s ELSE table[l.item]
               Store(d, m) ==
                  /\ table' = [table EXCEPT ![l.item] = t]
                  /\ block' = [block EXCEPT ![e] = New(d, m)]
                  /\ got' = Nothing /\ UNCHANGED <<param, geo, wild>>
    <3>1. \/ UNCHANGED mem
          \/ \E d \in AreaData : Store(d, n) \/ \E m \in 0 .. n - 1 : Store(d, m)
      BY <2>2 DEF WriteLocked
    <3> QED
      <4>1. CASE UNCHANGED mem
        BY <4>1 DEF mem, area
      <4>2. ASSUME NEW d \in AreaData, NEW m, Store(d, m)
            PROVE  \E x \in AreaData : \E y : block' = [block EXCEPT ![e] = New(x, y)]
        <5> HIDE DEF e, New
        <5> QED
          BY <4>2
      <4> HIDE DEF Store, n
      <4> QED
        BY <3>1, <4>1, <4>2
  <2> QED
    BY <2>1, <2>2
<1> HIDE DEF l
<1>4. ASSUME e \in Entries, NEW d \in AreaData, NEW m
      PROVE  New(d, m) \in Seq(Bytes) /\ (block[e] # <<>> => New(d, m) # <<>>)
  <2>1. b \in Seq(Bytes) /\ (block[e] # <<>> => b = block[e])
    <3>1. block[e] \in Seq(Bytes) /\ length[l.item] \in Int
      BY <1>4 DEF Entries
    <3>2. [i \in 1 .. length[l.item] |-> Unwritten] \in Seq(Bytes)
      BY <3>1, FreshBytes
    <3> QED
      BY <3>1, <3>2
  <2> HIDE DEF b
  <2>2. Len(b) \in Nat /\ DOMAIN b = 1 .. Len(b) /\ \A i \in 1 .. Len(b) : b[i] \in Bytes
    BY <2>1
  <2>3. New(d, m) \in Seq(Bytes) /\ Len(New(d, m)) = Len(b)
    BY <2>2, <1>4 DEF Bytes
  <2>4. b # <<>> => Len(b) # 0
    BY <2>1
  <2> QED
    BY <2>1, <2>3, <2>4
<1> HIDE DEF e, New
<1>5. /\ block' \in [Entries -> Seq(Bytes)]
      /\ \A x \in Entries : block[x] # <<>> => block'[x] # <<>>
  <2>1. CASE block' = block
    BY <2>1
  <2>2. ASSUME NEW d \in AreaData, NEW m, block' = [block EXCEPT ![e] = New(d, m)]
        PROVE  /\ block' \in [Entries -> Seq(Bytes)]
               /\ \A x \in Entries : block[x] # <<>> => block'[x] # <<>>
    <3>1. CASE e \in Entries
      BY <2>2, <3>1, <1>4
    <3>2. CASE e \notin Entries
      BY <2>2, <3>2
    <3> QED
      BY <3>1, <3>2
  <2> QED
    BY <1>3, <2>1, <2>2
<1>6. \E c : call' = [call EXCEPT ![f] = c] /\ Shaped(c) /\ c.op # "closed"
  BY <1>2, EndsShaped
<1> QED
  BY <1>1, <1>5, <1>6 DEF Keeping

LEMMA TransfersKeep ==
  ASSUME MapInv, device \in Devices, NEW f \in AreaFiles,
         Transfers(f) \/ Ioctl(f, UnitsOf(device)) \/ Seek(f)
  PROVE  Keeping(f)
<1> USE AreaAssumption DEF MapInv, AreaTyped, mem, area
<1>1. Quantum \in Int
  BY DEF Quantum, QuantumOf, Geometry
<1>2. ASSUME NEW c, call' = [call EXCEPT ![f] = c], Shaped(c), c.op # "closed",
             UNCHANGED <<device, mem, vmas, vma>>
      PROVE  Keeping(f)
  BY <1>2 DEF Keeping
<1>3. ASSUME NEW op \in {"read", "write"}, Enters(f, op, Quantum) PROVE Keeping(f)
  <2>1. ASSUME NEW n PROVE Shaped([NoCall EXCEPT !.op = op, !.at = fpos[f], !.n = n, !.q = Quantum, !.s = geo.qset])
    BY <1>1 DEF Shaped, NoCall
  <2>2. ASSUME NEW n PROVE [NoCall EXCEPT !.op = op, !.at = fpos[f], !.n = n, !.q = Quantum, !.s = geo.qset].op = op
    BY DEF NoCall
  <2>3. PICK n \in AreaCounts : call' = [call EXCEPT ![f] =
              [NoCall EXCEPT !.op = op, !.at = fpos[f], !.n = n, !.q = Quantum, !.s = geo.qset]]
    BY <1>3 DEF Enters, Sets
  <2> QED
    BY <2>1, <2>2, <2>3, <1>2, <1>3 DEF Enters
<1>4. CASE ReadLocked(f)
  <2>1. PICK n : Ends(f, n)
    BY <1>4 DEF ReadLocked, Runaway
  <2>2. UNCHANGED <<device, mem, vmas, vma>>
    BY <1>4 DEF ReadLocked, Runaway
  <2> QED
    BY <2>1, <2>2, <1>2, EndsShaped
<1>5. CASE WriteLocked(f, NewLength(f), Cleared)
  <2>1. call[f].q \in Int /\ geo.unit \in Nat /\ DefUnit["scullc"] \in Nat
    BY DEF Shaped, Geometry, Devices
  <2>2. Page * 2 ^ geo.unit \in Int
    BY <2>1
  <2>3. NewLength(f) \in [Positions -> Int]
    BY <2>1, <2>2 DEF NewLength, CacheObject, OrderPages, PageQuantum
  <2> QED
    BY <1>5, <2>3, WriteKeeps
<1>6. ASSUME NEW k \in {1, 2}, Aio(f, Quantum, k) PROVE Keeping(f)
  <2>1. ASSUME NEW op \in {"read", "write"}, DeferOp(f, op, Quantum, k) PROVE Keeping(f)
    <3>1. PICK n \in AreaCounts : call' = [call EXCEPT ![f] =
              [op |-> op, at |-> fpos[f], n |-> n, q |-> Quantum, s |-> geo.qset, segs |-> k]]
      BY <2>1 DEF DeferOp, Sets
    <3>2. Shaped([op |-> op, at |-> fpos[f], n |-> n, q |-> Quantum, s |-> geo.qset, segs |-> k])
      BY <1>1 DEF Shaped
    <3> QED
      BY <2>1, <3>1, <3>2, <1>2 DEF DeferOp
  <2>2. ASSUME NEW op \in {"read", "write"}, NextSegment(f, op, Quantum) PROVE Keeping(f)
    <3> DEFINE c == [call[f] EXCEPT !.op = op, !.q = Quantum, !.s = geo.qset, !.segs = @ - 1]
    <3>1. call' = [call EXCEPT ![f] = c]
      BY <2>2 DEF NextSegment, Sets
    <3>2. Shaped(c) /\ c.op # "closed"
      BY <1>1 DEF Shaped
    <3> HIDE DEF c
    <3> QED
      BY <2>2, <3>1, <3>2, <1>2 DEF NextSegment
  <2>3. CASE Deferred(f)
    <3>1. Shaped(NoCall) /\ NoCall.op # "closed"
      BY DEF Shaped, NoCall
    <3> QED
      BY <2>3, <3>1, <1>2 DEF Deferred, Idle, Sets
  <2> QED
    BY <1>6, <2>1, <2>2, <2>3 DEF Aio
<1>7. CASE DoDeferredOp(f)
  BY <1>7 DEF DoDeferredOp, Keeping
<1>8. CASE Ioctl(f, UnitsOf(device))
  <2>1. param' \in Geometry
    <3>1. DefUnit[device] \in Nat /\ DefQset \in Nat \ {0}
      OBVIOUS
    <3>2. UnitsOf(device) \subseteq Nat
      BY DEF UnitsOf
    <3> QED
      BY <1>8, <3>1, <3>2 DEF Ioctl, Geometry
  <2> QED
    BY <1>8, <2>1 DEF Ioctl, Keeping
<1>9. CASE Seek(f)
  BY <1>9 DEF Seek, Keeping
<1> QED
  BY <1>3, <1>4, <1>5, <1>6, <1>7, <1>8, <1>9 DEF Transfers

LEMMA TrimKeeps ==
  ASSUME MapInv, NEW d, TrimOf(d) \/ Keeps
  PROVE  /\ geo' \in Geometry /\ block' \in [Entries -> Seq(Bytes)]
         /\ block' = block \/ vmas = 0 \/ d = "scull"
<1> USE DEF MapInv, AreaTyped
<1>1. Trim => geo' \in Geometry /\ block' \in [Entries -> Seq(Bytes)]
  <2>1. [e \in Entries |-> <<>>] \in [Entries -> Seq(Bytes)]
    OBVIOUS
  <2> QED
    BY <2>1 DEF Trim
<1>2. Keeps => geo' = geo /\ block' = block
  BY DEF Keeps, area
<1>3. TrimUnmapped => Keeps \/ (vmas = 0 /\ Trim)
  BY DEF TrimUnmapped, Keeps
<1> QED
  BY <1>1, <1>2, <1>3 DEF TrimOf

(* While a mapping is there, vmas says so.                                   *)
LEMMA MappedCounts ==
  ASSUME MapInv, NEW f \in AreaFiles, vma[f].pc \in {"mapped", "closing"}
  PROVE  vmas # 0
<1>1. IsFiniteSet(Mapped)
  BY AreaAssumption, FS_Subset DEF Mapped
<1>2. Mapped # {}
  BY DEF Mapped
<1> QED
  BY <1>1, <1>2, FS_EmptySet DEF MapInv, VmasCounted

(* A step that trims has no page under a mapping.                            *)
LEMMA OpensMapInv ==
  ASSUME MapInv, device \in Devices, NEW f \in AreaFiles, Opens(f)
  PROVE  MapInv'
<1> USE DEF MapInv
<1>1. /\ UNCHANGED <<device, param, vmas, vma>>
      /\ call[f].op = "closed" /\ call' = [call EXCEPT ![f] = NoCall]
  BY DEF Opens, OpenFile, Idle, Sets
<1>2. /\ geo' \in Geometry /\ block' \in [Entries -> Seq(Bytes)]
      /\ block' = block \/ vmas = 0 \/ device = "scull"
  BY TrimKeeps DEF Opens
<1>3. Shaped(NoCall) /\ NoCall.op # "closed"
  BY DEF Shaped, NoCall
<1>4. AreaTyped'
  BY <1>1, <1>2, <1>3 DEF AreaTyped
<1>5. VmasCounted'
  BY <1>1 DEF VmasCounted, Mapped, InFlight
<1>6. MappedOpen'
  BY <1>1, <1>3 DEF MappedOpen, AreaTyped, Devices
<1>7. PagesStay'
  <2>1. ASSUME NEW g \in AreaFiles, vma[g].pc = "mapped" PROVE block' = block
    <3>1. vmas # 0 /\ device # "scull"
      BY <2>1, MappedCounts DEF MappedOpen, Paged
    <3> QED
      BY <1>2, <3>1
  <2> QED
    BY <1>1, <2>1 DEF PagesStay
<1> QED
  BY <1>4, <1>5, <1>6, <1>7

LEMMA LoadsMapInv ==
  ASSUME MapInv, NEW d \in Devices, Load(d) \/ Unload(d, TrimOf(d))
  PROVE  MapInv'
<1> USE DEF MapInv
<1>1. UNCHANGED <<vmas, call, vma>> /\ device' \in Devices \cup {"none"}
  BY DEF Load, Unload
<1>2. \A f \in AreaFiles : call[f].op = "closed" /\ vma[f].pc = "none"
  BY DEF Load, Unload, MappedOpen, AreaTyped
<1>3. geo' \in Geometry /\ param' \in Geometry /\ block' \in [Entries -> Seq(Bytes)]
  <2>1. CASE Load(d)
    <3>1. [unit |-> DefUnit[d], qset |-> DefQset] \in Geometry
      BY AreaAssumption DEF Geometry
    <3> QED
      BY <2>1, <3>1 DEF Load, AreaTyped
  <2>2. CASE Unload(d, TrimOf(d))
    <3>1. NoGeo \in Geometry
      BY DEF Geometry, NoGeo
    <3> QED
      BY <2>2, <3>1, TrimKeeps DEF Unload
  <2> QED
    BY <2>1, <2>2
<1>4. AreaTyped'
  BY <1>1, <1>3 DEF AreaTyped
<1>5. VmasCounted'
  BY <1>1 DEF VmasCounted, Mapped, InFlight
<1>6. MappedOpen' /\ PagesStay'
  BY <1>1, <1>2 DEF MappedOpen, PagesStay
<1> QED
  BY <1>4, <1>5, <1>6

LEMMA VmaStep ==
  ASSUME MapInv, ~ Overlap, NEW f \in AreaFiles, Maps(f)
  PROVE  MapInv'
<1> USE DEF MapInv
<1> DEFINE Other(s, k, p) == [pc |-> s, seen |-> k, page |-> p]
<1>1. IsFiniteSet(Mapped) /\ device \in Paged
  BY AreaAssumption, FS_Subset DEF Mapped, Maps
<1>2. Cardinality(Mapped) \in Nat
  BY <1>1, FS_CardinalityType
<1>3. ASSUME NEW from, NEW to, VmaLoads(f, from, to),
             \/ from = "none" /\ to = "opening" /\ call[f].op # "closed"
             \/ from = "mapped" /\ to = "closing"
      PROVE  MapInv'
  <2>1. /\ UNCHANGED <<device, geo, param, block, vmas, call>>
        /\ vma' = [vma EXCEPT ![f] = [pc |-> to, seen |-> vmas, page |-> <<>>]]
        /\ \A g \in AreaFiles : vma[g].pc \in {"none", "mapped"}
        /\ vma[f].pc = from
    BY <1>3 DEF VmaLoads, Quiet, mem, area
  <2>2. AreaTyped'
    <3>1. [pc |-> to, seen |-> vmas, page |-> <<>>] \in
            [pc : {"none", "opening", "mapped", "closing"}, seen : Int, page : Entries \cup {<<>>}]
      BY <1>2, <1>3 DEF VmasCounted
    <3> QED
      BY <2>1, <3>1 DEF AreaTyped
  <2>3. Mapped' = Mapped
    BY <2>1, <1>3 DEF AreaTyped, Mapped
  <2>4. VmasCounted'
    BY <2>1, <2>3 DEF AreaTyped, VmasCounted, InFlight
  <2>5. MappedOpen'
    BY <2>1, <1>1, <1>3 DEF AreaTyped, MappedOpen, Paged
  <2>6. PagesStay'
    BY <2>1 DEF AreaTyped, PagesStay
  <2> QED
    BY <2>2, <2>4, <2>5, <2>6
<1>4. ASSUME NEW from, NEW to, NEW k \in {1, -1}, VmaStores(f, from, to, k),
             \/ from = "opening" /\ to = "mapped" /\ k = 1
             \/ from = "closing" /\ to = "none" /\ k = -1
      PROVE  MapInv'
  <2>1. /\ UNCHANGED <<device, geo, param, block, call>>
        /\ vmas' = vmas + k
        /\ vma' = [vma EXCEPT ![f] = [pc |-> to, seen |-> 0, page |-> <<>>]]
        /\ \A g \in AreaFiles : InFlight(g) => g = f
        /\ vma[f].pc = from
    <3>1. [NoVma EXCEPT !.pc = to] = [pc |-> to, seen |-> 0, page |-> <<>>]
      BY DEF NoVma
    <3>2. InFlight(f)
      BY <1>4 DEF VmaStores, InFlight
    <3> QED
      BY <1>4, <3>1, <3>2 DEF VmaStores, VmasCounted, mem, area
  <2>2. AreaTyped'
    BY <2>1, <1>4 DEF AreaTyped
  <2>3. Cardinality(Mapped') = Cardinality(Mapped) + k
    <3>1. CASE k = 1
      <4>1. Mapped' = Mapped \cup {f} /\ f \notin Mapped
        BY <2>1, <1>4, <3>1 DEF AreaTyped, Mapped
      <4> QED
        BY <4>1, <3>1, <1>1, FS_AddElement
    <3>2. CASE k = -1
      <4>1. Mapped' = Mapped \ {f} /\ f \in Mapped
        BY <2>1, <1>4, <3>2 DEF AreaTyped, Mapped
      <4> QED
        BY <4>1, <3>2, <1>1, <1>2, FS_RemoveElement
    <3> QED
      BY <3>1, <3>2
  <2>4. VmasCounted'
    BY <2>1, <2>3, <1>4 DEF AreaTyped, VmasCounted, InFlight
  <2>5. MappedOpen'
    BY <2>1, <1>1, <1>4 DEF AreaTyped, MappedOpen, Paged
  <2>6. PagesStay'
    BY <2>1 DEF AreaTyped, PagesStay
  <2> QED
    BY <2>2, <2>4, <2>5, <2>6
<1>5. CASE Nopage(f)
  <2>1. PICK e : /\ block[e] # <<>> /\ e \in Entries
                 /\ vma' = [vma EXCEPT ![f].page = e]
    <3>1. PICK at \in Positions :
            LET pg == at \div Page
                e  == <<pg \div geo.qset, pg % geo.qset>>
            IN  block[e] # <<>> /\ vma' = [vma EXCEPT ![f].page = e]
      BY <1>5 DEF Nopage
    <3> DEFINE pg == at \div Page
    <3>2. pg \in Nat /\ pg <= at /\ at < MaxPos
      BY AreaAssumption DEF Positions
    <3>3. geo.qset \in Nat \ {0}
      BY DEF AreaTyped, Geometry
    <3>4. pg \div geo.qset \in Positions /\ pg % geo.qset \in Positions
      BY <3>2, <3>3, AreaAssumption DEF Positions
    <3> QED
      BY <3>1, <3>4 DEF Entries
  <2>2. UNCHANGED <<device, geo, param, block, vmas, call>> /\ vma[f].pc = "mapped"
    BY <1>5 DEF Nopage, mem, area
  <2>3. /\ vma' \in [AreaFiles -> [pc : {"none", "opening", "mapped", "closing"},
                                  seen : Int, page : Entries \cup {<<>>}]]
        /\ \A g \in AreaFiles : vma'[g].pc = vma[g].pc /\ vma'[g].seen = vma[g].seen
        /\ \A g \in AreaFiles : vma'[g].page = IF g = f THEN e ELSE vma[g].page
    BY <2>1, <2>2 DEF AreaTyped
  <2>4. AreaTyped'
    <3>1. \A g \in AreaFiles : Shaped(call[g])'
      BY <2>2 DEF AreaTyped, Shaped
    <3> QED
      BY <2>2, <2>3, <3>1 DEF AreaTyped
  <2>5. VmasCounted'
    <3>1. Mapped' = Mapped /\ \A g \in AreaFiles : InFlight(g)' = InFlight(g)
      BY <2>3 DEF Mapped, InFlight
    <3> QED
      BY <2>2, <2>3, <3>1 DEF VmasCounted
  <2>6. MappedOpen'
    BY <2>2, <2>3 DEF AreaTyped, MappedOpen
  <2>7. PagesStay'
    BY <2>1, <2>2, <2>3 DEF AreaTyped, PagesStay
  <2> QED
    BY <2>4, <2>5, <2>6, <2>7
<1>6. CASE Mmap(f)
  <2>1. VmaLoads(f, "none", "opening") /\ call[f].op # "closed"
    BY <1>6 DEF Mmap
  <2> QED
    BY <2>1, <1>3
<1>7. CASE VmaOpen(f)
  BY <1>4, <1>7 DEF VmaOpen
<1>8. CASE VmaClose(f)
  BY <1>3, <1>4, <1>8 DEF VmaClose
<1> QED
  BY <1>5, <1>6, <1>7, <1>8 DEF Maps

LEMMA MapStep == ASSUME MapInv, ~ Overlap, [AreaNext]_areaVars PROVE MapInv'
<1>1. ASSUME NEW f \in AreaFiles, Release(f) PROVE MapInv'
  <2> USE DEF MapInv
  <2> DEFINE c == [NoCall EXCEPT !.op = "closed"]
  <2>1. /\ call' = [call EXCEPT ![f] = c] /\ vma[f].pc = "none"
        /\ UNCHANGED <<device, mem, vmas, vma>>
    BY <1>1 DEF Release, Sets
  <2>2. Shaped(c) /\ c.op = "closed"
    BY DEF Shaped, NoCall
  <2> HIDE DEF c
  <2>3. AreaTyped'
    BY <2>1, <2>2 DEF AreaTyped, mem, area
  <2>4. VmasCounted' /\ PagesStay'
    BY <2>1 DEF VmasCounted, Mapped, InFlight, PagesStay, mem, area
  <2>5. MappedOpen'
    BY <2>1, <2>2 DEF MappedOpen, AreaTyped
  <2> QED
    BY <2>3, <2>4, <2>5
<1>2. CASE UNCHANGED areaVars
  <2>1. UNCHANGED <<device, geo, param, block, vmas, call, vma>>
    BY <1>2 DEF areaVars, mem, area
  <2>2. AreaTyped'
    BY <2>1 DEF MapInv, AreaTyped, Shaped
  <2>3. VmasCounted' /\ MappedOpen' /\ PagesStay'
    BY <2>1 DEF MapInv, VmasCounted, Mapped, InFlight, MappedOpen, PagesStay
  <2> QED
    BY <2>2, <2>3 DEF MapInv
<1>3. ASSUME NEW f \in AreaFiles, Kind(f) PROVE MapInv'
  BY <1>1, <1>3, LoadsMapInv, OpensMapInv, TransfersKeep, KeepingStep, VmaStep DEF Kind
<1> QED
  BY <1>2, <1>3, Kinds

(* A page that a mapping has been given is not trimmed ("to avoid releasing  *)
(* it", scullp/mmap.c:29), in any of the drivers, for any files and geometry, *)
(* as long as no two vmas++ run into each other: vmas is then the number of  *)
(* mappings, and no driver trims but with vmas 0.                            *)
THEOREM MappedPagesStay == ASSUME ~ Overlap PROVE AreaSpec => []PagesStay
<1>1. MapInv => PagesStay
  BY DEF MapInv
<1> QED
  BY <1>1, MapInit, MapStep, PTL DEF AreaSpec

-----------------------------------------------------------------------------
(* Accesses                                                                  *)

(* The values of the parameters for which quanta are as large as the device  *)
(* takes them to be: an object of the cache of scullc keeps the size that    *)
(* the quantum had at the load, and scullp and its like take the order of a  *)
(* new quantum from its list item, which is 0 for all but the first.         *)
Fits(d, unit) == /\ d \in InBytes => unit \in Nat \ {0}
                 /\ d = "scullc" => unit <= CacheObject
                 /\ d \in Paged => unit = 0
UnitsFit == \A d \in Devices : Fits(d, DefUnit[d]) /\ \A u \in UnitsOf(d) : Fits(d, u)

Calls == [op : {"closed", "idle", "read", "write", "segment"}, at : Nat, n : Nat,
          q : Nat \ {0}, s : Nat \ {0}, segs : Nat]

(* The geometry that a call has read is still that of the device.            *)
Current(c) == c.op \in {"read", "write"} =>
                  c.at \in Positions /\ c.q = Quantum /\ c.s = geo.qset

CallsFit == /\ call \in [AreaFiles -> Calls] /\ fpos \in [AreaFiles -> Nat]
            /\ \A f \in AreaFiles : Current(call[f])

AreaFits ==
    /\ device # "none" => Fits(device, geo.unit)
    /\ size \in 0 .. MaxPos
    /\ table \in [Positions -> {0, geo.qset}]
    /\ \A e \in Entries : block[e] = <<>> \/ (Quantum <= Len(block[e]) /\ table[e[1]] # 0)
    /\ device = "none" => /\ \A i \in Positions : table[i] = 0
                          /\ \A e \in Entries : block[e] = <<>>

ParamFits == device # "none" => Fits(device, param.unit)

QuantumInv == MapInv /\ CallsFit /\ AreaFits /\ ParamFits /\ InQuantum

LEMMA FitQuantum ==
  ASSUME NEW d \in Devices, NEW u, Fits(d, u)
  PROVE  /\ QuantumOf(d, u) \in Nat \ {0}
         /\ d \in InBytes => QuantumOf(d, u) = u
         /\ d \in Paged => QuantumOf(d, u) = Page
<1>1. CASE d \in InBytes
  BY <1>1 DEF InBytes, Paged, QuantumOf, Fits
<1>2. CASE d \in Paged
  <2>1. u = 0 /\ 2 ^ 0 = 1 /\ Page \in Nat \ {0}
    BY <1>2, AreaAssumption DEF Fits
  <2> QED
    BY <1>2, <2>1 DEF InBytes, Paged, QuantumOf
<1> QED
  BY <1>1, <1>2 DEF InBytes, Paged, Devices

LEMMA LocateFits ==
  ASSUME NEW c, c.at \in Positions, c.q \in Nat \ {0}, c.s \in Nat \ {0}
  PROVE  /\ Locate(c).item \in Positions /\ Locate(c).slot \in Positions
         /\ Locate(c).slot < c.s
         /\ Locate(c).off \in 0 .. c.q - 1
<1> DEFINE w == c.q * c.s
           rest == c.at % w
<1>1. w \in Nat \ {0} /\ c.at \in Nat /\ c.at < MaxPos /\ MaxPos \in Nat
  BY AreaAssumption DEF Positions
<1>2. rest \in Nat /\ rest < w /\ rest <= c.at
  <2> HIDE DEF w
  <2> QED
    BY <1>1
<1>3. c.at \div w \in Positions
  <2> HIDE DEF w
  <2> QED
    BY <1>1 DEF Positions
<1>4. rest \div c.q \in Positions /\ rest % c.q \in 0 .. c.q - 1
  <2> HIDE DEF rest
  <2> QED
    BY <1>1, <1>2 DEF Positions
<1>5. rest \div c.q < c.s
  <2> HIDE DEF rest
  <2> QED
    BY <1>2
<1> QED
  BY <1>3, <1>4, <1>5 DEF Locate

LEMMA QuantumInit == ASSUME AreaInit PROVE QuantumInv
<1> USE AreaAssumption DEF AreaInit, NoCall, NoGeo
<1>1. MapInv
  BY MapInit
<1>2. CallsFit
  BY DEF CallsFit, Calls, Current
<1>3. AreaFits /\ ParamFits /\ InQuantum
  BY DEF AreaFits, ParamFits, InQuantum, Entries
<1> QED
  BY <1>1, <1>2, <1>3 DEF QuantumInv

(* A step that leaves the area alone.                                        *)
LEMMA AreaKept ==
  ASSUME QuantumInv, MapInv', UNCHANGED <<device, area, wild>>, CallsFit', ParamFits'
  PROVE  QuantumInv'
<1>1. Quantum' = Quantum /\ geo' = geo
  BY DEF Quantum, ByteQuantum, PageQuantum, QuantumOf, area
<1> QED
  BY <1>1 DEF QuantumInv, AreaFits, InQuantum, area

LEMMA CallSet ==
  ASSUME CallsFit, NEW f \in AreaFiles, NEW c \in Calls, Current(c), Sets(f, c),
         UNCHANGED <<device, geo>>, fpos' \in [AreaFiles -> Nat]
  PROVE  CallsFit'
<1>1. Quantum' = Quantum /\ geo' = geo
  BY DEF Quantum, ByteQuantum, PageQuantum, QuantumOf
<1>2. call' \in [AreaFiles -> Calls] /\ \A g \in AreaFiles : Current(call'[g])
  BY DEF CallsFit, Sets
<1> QED
  BY <1>1, <1>2 DEF CallsFit, Current

LEMMA IdleFits ==
  ASSUME CallsFit, NEW f \in AreaFiles, Idle(f), UNCHANGED <<device, geo>>, fpos' \in [AreaFiles -> Nat]
  PROVE  CallsFit'
<1>1. NoCall \in Calls /\ Current(NoCall)
  BY DEF NoCall, Calls, Current
<1> QED
  BY <1>1, CallSet DEF Idle

LEMMA EndsFit ==
  ASSUME CallsFit, NEW f \in AreaFiles, NEW n \in Nat, Ends(f, n), UNCHANGED <<device, geo>>
  PROVE  CallsFit'
<1>1. call[f] \in Calls /\ fpos \in [AreaFiles -> Nat]
  BY DEF CallsFit
<1>2. call[f].at + n \in Nat
  BY <1>1 DEF Calls
<1>3. CASE call[f].segs = 0
  BY <1>1, <1>2, <1>3, IdleFits DEF Ends
<1>4. CASE call[f].segs # 0
  <2> DEFINE c == [call[f] EXCEPT !.op = "segment", !.at = call[f].at + n]
  <2>1. c \in Calls /\ c.op = "segment"
    BY <1>1, <1>2 DEF Calls
  <2>2. Sets(f, c) /\ fpos' = fpos
    BY <1>4 DEF Ends
  <2> HIDE DEF c
  <2> QED
    BY <1>1, <2>1, <2>2, CallSet DEF Current
<1> QED
  BY <1>3, <1>4

(* What a call under the lock finds: its geometry is the device's, a table    *)
(* has as many entries as that says, and a quantum as many bytes.            *)
LEMMA CallFits ==
  ASSUME QuantumInv, device \in Devices, NEW f \in AreaFiles, call[f].op \in {"read", "write"}
  PROVE  LET c == call[f]
             l == Locate(c)
         IN  /\ c.at \in Positions /\ c.n \in Nat /\ c.q = Quantum /\ c.s = geo.qset
             /\ Quantum \in Nat \ {0}
             /\ l.item \in Positions /\ <<l.item, l.slot>> \in Entries
             /\ l.slot \in Nat /\ l.slot < geo.qset
             /\ l.off \in Nat /\ l.off < Quantum
             /\ table[l.item] \in {0, geo.qset}
             /\ LET b == block[<<l.item, l.slot>>] IN b \in Seq(Bytes) /\ (b = <<>> \/ Quantum <= Len(b))
<1> DEFINE c == call[f]
           l == Locate(c)
<1>1. c \in Calls /\ c.at \in Positions /\ c.q = Quantum /\ c.s = geo.qset
  BY DEF QuantumInv, CallsFit, Current
<1>2. c.n \in Nat /\ c.q \in Nat \ {0} /\ c.s \in Nat \ {0}
  BY <1>1 DEF Calls
<1> HIDE DEF c
<1>3. l.item \in Positions /\ l.slot \in Positions /\ l.slot < c.s /\ l.off \in 0 .. c.q - 1
  BY <1>1, <1>2, LocateFits
<1> HIDE DEF l
<1>4. <<l.item, l.slot>> \in Entries /\ l.slot \in Nat
  BY <1>3, AreaAssumption DEF Entries, Positions
<1>5. l.off \in Nat /\ l.off < Quantum
  BY <1>1, <1>2, <1>3
<1>6. table[l.item] \in {0, geo.qset}
  BY <1>3 DEF QuantumInv, AreaFits
<1>7. LET b == block[<<l.item, l.slot>>] IN b \in Seq(Bytes) /\ (b = <<>> \/ Quantum <= Len(b))
  BY <1>4 DEF QuantumInv, AreaFits, MapInv, AreaTyped
<1> QED
  BY <1>1, <1>2, <1>3, <1>4, <1>5, <1>6, <1>7 DEF c, l

LEMMA CountFits ==
  ASSUME NEW c, NEW off \in Nat, c.n \in Nat, c.at \in Nat, c.q \in Nat, size \in Nat,
         c.at < size, off < c.q
  PROVE  /\ ReadCount(c, off) \in Nat /\ off + ReadCount(c, off) <= c.q
         /\ c.at + ReadCount(c, off) <= size
  BY DEF ReadCount, Lesser

(* A read gives nothing, or a stretch of one quantum below the size.         *)
LEMMA ReadOutcome ==
  ASSUME QuantumInv, device \in Devices, NEW f \in AreaFiles, ReadLocked(f)
  PROVE  LET c == call[f]
             l == Locate(c)
             b == block[<<l.item, l.slot>>]
         IN  /\ UNCHANGED <<device, mem, wild>>
             /\ \E k \in Nat : Ends(f, k)
             /\ \/ got' = Nothing
                \/ \E m \in Nat :
                      /\ c.at + m <= size /\ l.off + m <= Quantum /\ b # <<>>
                      /\ got' = [at |-> c.at, bytes |-> SubSeq(b, l.off + 1, l.off + m)]
<1> DEFINE c == call[f]
           l == Locate(c)
           b == block[<<l.item, l.slot>>]
           n == ReadCount(c, l.off)
<1>1. c.op = "read" /\ device' = device
  BY DEF ReadLocked
<1>2. /\ c.at \in Positions /\ c.n \in Nat /\ c.q = Quantum
      /\ Quantum \in Nat \ {0}
      /\ l.slot \in Nat /\ l.slot < geo.qset
      /\ l.off \in Nat /\ l.off < Quantum
      /\ table[l.item] \in {0, geo.qset}
      /\ b \in Seq(Bytes) /\ (b = <<>> \/ Quantum <= Len(b))
  BY <1>1, CallFits
<1>3. c.at < size => n \in Nat /\ l.off + n <= Quantum /\ c.at + n <= size
  <2>1. c.at \in Nat /\ size \in Nat
    BY <1>2, AreaAssumption DEF Positions, QuantumInv, AreaFits
  <2> HIDE DEF c, l
  <2> QED
    BY <1>2, <2>1, CountFits
<1>4. ~ (c.at < size /\ table[l.item] # 0 /\ (l.slot >= table[l.item] \/ (b # <<>> /\ l.off + n > Len(b))))
  <2>1. Len(b) \in Nat /\ geo.qset \in Nat \ {0}
    BY <1>2 DEF QuantumInv, MapInv, AreaTyped, Geometry
  <2> HIDE DEF c, l, b, n
  <2> QED
    BY <1>2, <1>3, <2>1
<1>5. \/ Ends(f, 0) /\ got' = Nothing /\ UNCHANGED <<mem, wild>>
      \/ /\ c.at < size /\ b # <<>> /\ Ends(f, n) /\ UNCHANGED <<mem, wild>>
         /\ got' = [at |-> c.at, bytes |-> SubSeq(b, l.off + 1, l.off + n)]
  BY <1>4 DEF ReadLocked
<1> HIDE DEF n
<1> QED
  BY <1>1, <1>3, <1>5

LEMMA ReadFits ==
  ASSUME QuantumInv, device \in Devices, NEW f \in AreaFiles, ReadLocked(f)
  PROVE  UNCHANGED <<device, mem, wild>> /\ CallsFit'
<1>1. UNCHANGED <<device, mem, wild>> /\ \E k \in Nat : Ends(f, k)
  BY ReadOutcome
<1> QED
  BY <1>1, EndsFit DEF QuantumInv, mem, area

(* A quantum with m bytes set from an offset on.                             *)
Patched(b, off, m, d) == [i \in 1 .. Len(b) |-> IF i \in off + 1 .. off + m THEN d ELSE b[i]]

(* A write either leaves the area alone or stores one value in a stretch of   *)
(* one quantum, old or new; all that it has stored may not count.            *)
LEMMA WriteOutcome ==
  ASSUME QuantumInv, device \in Devices, NEW f \in AreaFiles,
         NEW length \in [Positions -> Nat], NEW cleared \in Nat,
         \A i \in Positions : Quantum <= length[i] /\ cleared <= length[i],
         WriteLocked(f, length, cleared)
  PROVE  LET c == call[f]
             l == Locate(c)
             e == <<l.item, l.slot>>
         IN  /\ UNCHANGED <<device, param, geo, wild>> /\ got' = Nothing
             /\ \/ Ends(f, 0) /\ UNCHANGED mem
                \/ \E d \in AreaData, m \in Nat, b \in Seq(Bytes) :
                      /\ l.off + m <= Quantum /\ Quantum <= Len(b) /\ c.at + m <= MaxPos
                      /\ block[e] # <<>> => b = block[e]
                      /\ block[e] = <<>> => \A i \in 1 .. Len(b) : b[i] = Unwritten
                      /\ table' = [table EXCEPT ![l.item] = geo.qset]
                      /\ block' = [block EXCEPT ![e] = Patched(b, l.off, m, d)]
                      /\ size' = size \/ size' = Grown(c.at + m)
                      /\ \E k \in Nat : Ends(f, k)
<1> DEFINE c == call[f]
           l == Locate(c)
           e == <<l.item, l.slot>>
           n == Lesser(c.n, c.q - l.off)
           t == IF table[l.item] = 0 THEN c.s ELSE table[l.item]
           b == IF block[e] = <<>> THEN [i \in 1 .. length[l.item] |-> Unwritten] ELSE block[e]
           New(d, m) == Patched(b, l.off, m, d)
           Store(d, m) == /\ table' = [table EXCEPT ![l.item] = t]
                          /\ block' = [block EXCEPT ![e] = New(d, m)]
                          /\ got' = Nothing /\ UNCHANGED <<param, geo, wild>>
<1>1. c.op = "write" /\ device' = device /\ c.at + n <= MaxPos
  BY DEF WriteLocked
<1>2. /\ c.at \in Positions /\ c.n \in Nat /\ c.q = Quantum /\ c.s = geo.qset
      /\ Quantum \in Nat \ {0}
      /\ l.item \in Positions /\ e \in Entries
      /\ l.slot \in Nat /\ l.slot < geo.qset
      /\ l.off \in Nat /\ l.off < Quantum
      /\ table[l.item] \in {0, geo.qset}
      /\ block[e] \in Seq(Bytes) /\ (block[e] = <<>> \/ Quantum <= Len(block[e]))
  BY <1>1, CallFits
<1>3. geo.qset \in Nat \ {0} /\ c.at \in Nat /\ MaxPos \in Nat
  BY <1>2, AreaAssumption DEF QuantumInv, MapInv, AreaTyped, Geometry, Positions
<1>4. n \in Nat /\ l.off + n <= Quantum
  <2> HIDE DEF c, l
  <2> QED
    BY <1>2 DEF Lesser
<1>5. t = geo.qset
  BY <1>2
<1>6. /\ b \in Seq(Bytes) /\ Len(b) \in Nat /\ Quantum <= Len(b)
      /\ block[e] = <<>> => cleared <= Len(b) /\ \A i \in 1 .. Len(b) : b[i] = Unwritten
      /\ block[e] # <<>> => b = block[e]
  <2> HIDE DEF l, e
  <2>1. length[l.item] \in Nat /\ Quantum <= length[l.item] /\ cleared <= length[l.item]
    BY <1>2
  <2>2. CASE block[e] = <<>>
    <3>1. b = [i \in 1 .. length[l.item] |-> Unwritten]
      BY <2>2
    <3>2. b \in Seq(Bytes) /\ Len(b) = length[l.item]
      <4>1. Unwritten \in Bytes
        BY DEF Bytes
      <4> HIDE DEF Bytes, b
      <4> QED
        BY <2>1, <3>1, <4>1
    <3> QED
      BY <2>1, <2>2, <3>1, <3>2
  <2>3. CASE block[e] # <<>>
    BY <1>2, <2>3
  <2> QED
    BY <2>2, <2>3
<1>7. \/ \E d \in AreaData :
            \/ Store(d, n) /\ size' = Grown(c.at + n) /\ Ends(f, n)
            \/ (\E m \in 0 .. n - 1 : Store(d, m)) /\ Ends(f, 0) /\ UNCHANGED size
      \/ Ends(f, 0) /\ got' = Nothing /\ UNCHANGED <<mem, wild>>
  <2>1. ~ (l.slot >= t \/ l.off + n > Len(b) \/ (block[e] = <<>> /\ cleared > Len(b)))
    <3> HIDE DEF c, l, e, n, t, b
    <3>1. ~ (l.slot >= t)
      BY <1>2, <1>3, <1>5
    <3>2. ~ (l.off + n > Len(b))
      BY <1>2, <1>4, <1>6
    <3>3. block[e] = <<>> => ~ (cleared > Len(b))
      BY <1>6
    <3> QED
      BY <3>1, <3>2, <3>3
  <2> DEFINE Raw(d, m) == [i \in 1 .. Len(b) |-> IF i \in l.off + 1 .. l.off + m THEN d ELSE b[i]]
             StoreRaw(d, m) == /\ table' = [table EXCEPT ![l.item] = t]
                               /\ block' = [block EXCEPT ![e] = Raw(d, m)]
                               /\ got' = Nothing /\ UNCHANGED <<param, geo, wild>>
  <2>2. \/ \E d \in AreaData :
              \/ StoreRaw(d, n) /\ size' = Grown(c.at + n) /\ Ends(f, n)
              \/ (\E m \in 0 .. n - 1 : StoreRaw(d, m)) /\ Ends(f, 0) /\ UNCHANGED size
        \/ Ends(f, 0) /\ got' = Nothing /\ UNCHANGED <<mem, wild>>
    BY <2>1 DEF WriteLocked
  <2>3. ASSUME NEW d, NEW m PROVE StoreRaw(d, m) <=> Store(d, m)
    <3>1. Raw(d, m) = Patched(b, l.off, m, d)
      BY DEF Patched
    <3> HIDE DEF Raw
    <3> QED
      BY <3>1
  <2> HIDE DEF StoreRaw, Store, n
  <2> QED
    BY <2>2, <2>3
<1> HIDE DEF c, l, e, n, t, b
<1> DEFINE Stores(d, m) ==
              /\ l.off + m <= Quantum /\ Quantum <= Len(b) /\ c.at + m <= MaxPos
              /\ block[e] # <<>> => b = block[e]
              /\ block[e] = <<>> => \A i \in 1 .. Len(b) : b[i] = Unwritten
              /\ table' = [table EXCEPT ![l.item] = geo.qset]
              /\ block' = [block EXCEPT ![e] = New(d, m)]
              /\ size' = size \/ size' = Grown(c.at + m)
              /\ \E k \in Nat : Ends(f, k)
<1>8. ASSUME NEW d \in AreaData, NEW m \in Nat, m <= n, Store(d, m),
             size' = size \/ size' = Grown(c.at + m), NEW k \in Nat, Ends(f, k)
      PROVE  UNCHANGED <<param, geo, wild>> /\ got' = Nothing /\ Stores(d, m)
  <2>1. l.off + m <= Quantum /\ c.at + m <= MaxPos
    <3>1. l.off \in Nat /\ Quantum \in Nat /\ m <= n
      BY <1>2, <1>8
    <3> QED
      BY <1>1, <1>3, <1>4, <3>1
  <2> HIDE DEF New
  <2> QED
    BY <2>1, <1>5, <1>6, <1>8
<1>9. \/ Ends(f, 0) /\ UNCHANGED <<param, geo, wild>> /\ UNCHANGED mem /\ got' = Nothing
      \/ /\ UNCHANGED <<param, geo, wild>> /\ got' = Nothing
         /\ \E d \in AreaData, m \in Nat : Stores(d, m)
  <2>1. CASE Ends(f, 0) /\ got' = Nothing /\ UNCHANGED <<mem, wild>>
    BY <2>1 DEF mem, area
  <2>2. ASSUME NEW d \in AreaData, Store(d, n), size' = Grown(c.at + n), Ends(f, n)
        PROVE  UNCHANGED <<param, geo, wild>> /\ got' = Nothing /\ Stores(d, n)
    <3> HIDE DEF Store, Stores
    <3> QED
      BY <2>2, <1>4, <1>8
  <2>3. ASSUME NEW d \in AreaData, NEW m \in 0 .. n - 1, Store(d, m), Ends(f, 0), UNCHANGED size
        PROVE  m \in Nat /\ UNCHANGED <<param, geo, wild>> /\ got' = Nothing /\ Stores(d, m)
    <3>1. m \in Nat /\ m <= n
      BY <1>4
    <3> HIDE DEF Store, Stores
    <3> QED
      BY <2>3, <3>1, <1>8
  <2> HIDE DEF Store, Stores
  <2> QED
    BY <1>4, <1>7, <2>1, <2>2, <2>3
<1>10. b \in Seq(Bytes)
  BY <1>6
<1> QED
  BY <1>1, <1>9, <1>10 DEF c, l, e

LEMMA WriteFits ==
  ASSUME QuantumInv, device \in Devices, NEW f \in AreaFiles,
         NEW length \in [Positions -> Nat], NEW cleared \in Nat,
         \A i \in Positions : Quantum <= length[i] /\ cleared <= length[i],
         WriteLocked(f, length, cleared)
  PROVE  UNCHANGED <<device, param, geo, wild>> /\ CallsFit' /\ AreaFits'
<1> DEFINE c == call[f]
           l == Locate(c)
           e == <<l.item, l.slot>>
           New(b, d, m) == Patched(b, l.off, m, d)
<1>1. UNCHANGED <<device, param, geo, wild>>
  BY WriteOutcome
<1>2. Quantum' = Quantum
  BY <1>1 DEF Quantum, ByteQuantum, PageQuantum, QuantumOf
<1>3. AreaFits /\ CallsFit /\ device # "none"
  BY DEF QuantumInv, Devices
<1>4. CASE Ends(f, 0) /\ UNCHANGED mem
  <2>1. UNCHANGED <<device, area>>
    BY <1>1, <1>4 DEF mem
  <2>2. AreaFits'
    BY <1>2, <1>3, <2>1 DEF AreaFits, area
  <2> QED
    BY <1>1, <1>3, <1>4, <2>2, EndsFit
<1>5. CASE ~ (Ends(f, 0) /\ UNCHANGED mem)
  <2>1. PICK d \in AreaData, m \in Nat, b \in Seq(Bytes) :
          /\ l.off + m <= Quantum /\ Quantum <= Len(b) /\ c.at + m <= MaxPos
          /\ table' = [table EXCEPT ![l.item] = geo.qset]
          /\ block' = [block EXCEPT ![e] = New(b, d, m)]
          /\ size' = size \/ size' = Grown(c.at + m)
          /\ \E k \in Nat : Ends(f, k)
    BY <1>5, WriteOutcome
  <2>2. c.at \in Nat /\ e \in Entries /\ l.item \in Positions
    <3>1. c.op = "write"
      BY DEF WriteLocked
    <3>2. c.at \in Positions /\ e \in Entries /\ l.item \in Positions
      BY <3>1, CallFits
    <3> HIDE DEF c
    <3> QED
      BY <3>2, AreaAssumption DEF Positions
  <2>3. Len(New(b, d, m)) = Len(b)
    BY DEF Patched
  <2> HIDE DEF c, New
  <2>4. size' \in 0 .. MaxPos
    BY <1>3, <2>1, <2>2, AreaAssumption DEF AreaFits, Grown
  <2> HIDE DEF l
  <2>5. table' \in [Positions -> {0, geo.qset}] /\ \A i \in Positions : table[i] # 0 => table'[i] # 0
    BY <1>3, <2>1 DEF AreaFits, QuantumInv, MapInv, AreaTyped, Geometry
  <2>6. \A x \in Entries : block'[x] = <<>> \/ (Quantum <= Len(block'[x]) /\ table'[x[1]] # 0)
    <3>1. block \in [Entries -> Seq(Bytes)] /\ geo.qset # 0 /\ table \in [Positions -> {0, geo.qset}]
      BY <1>3 DEF QuantumInv, MapInv, AreaTyped, Geometry, AreaFits
    <3>2. table'[e[1]] # 0
      BY <2>1, <2>2, <3>1
    <3>3. ASSUME NEW x \in Entries, x # e PROVE block'[x] = <<>> \/ (Quantum <= Len(block'[x]) /\ table'[x[1]] # 0)
      <4>1. block'[x] = block[x] /\ x[1] \in Positions
        BY <2>1, <3>1, <3>3 DEF Entries
      <4> QED
        BY <1>3, <2>5, <4>1 DEF AreaFits
    <3> HIDE DEF e
    <3>4. Quantum <= Len(block'[e])
      BY <2>1, <2>2, <2>3, <3>1
    <3> QED
      BY <3>2, <3>3, <3>4
  <2>7. AreaFits'
    BY <1>1, <1>2, <1>3, <2>4, <2>5, <2>6 DEF AreaFits
  <2> QED
    BY <1>1, <1>3, <2>1, <2>7, EndsFit
<1> QED
  BY <1>4, <1>5

(* What the drivers give to a new quantum is enough.                         *)
LEMMA LengthFits ==
  ASSUME QuantumInv, device \in Devices, NEW f \in AreaFiles, call[f].op = "write"
  PROVE  /\ NewLength(f) \in [Positions -> Nat] /\ Cleared \in Nat
         /\ \A i \in Positions : Quantum <= NewLength(f)[i] /\ Cleared <= NewLength(f)[i]
<1>1. /\ Fits(device, geo.unit) /\ Fits(device, param.unit)
      /\ call[f].q = Quantum /\ Quantum \in Nat \ {0}
  BY CallFits DEF QuantumInv, AreaFits, ParamFits, Devices
<1>2. /\ device \in InBytes => Quantum = geo.unit
      /\ device \in Paged => Quantum = Page
  BY <1>1, FitQuantum DEF Quantum
<1>3. CASE device = "scull"
  BY <1>1, <1>3 DEF NewLength, Cleared
<1>4. CASE device = "scullc"
  <2>1. CacheObject \in Nat
    BY AreaAssumption DEF CacheObject, Devices
  <2>2. Quantum <= CacheObject /\ param.unit \in Nat /\ param.unit <= CacheObject
    BY <1>1, <1>2, <1>4 DEF Fits, InBytes
  <2>3. NewLength(f) = [i \in Positions |-> CacheObject] /\ Cleared = param.unit
    BY <1>4 DEF NewLength, Cleared
  <2> QED
    BY <2>1, <2>2, <2>3
<1>5. CASE device \in Paged
  <2>1. PageQuantum = Page /\ Page \in Nat \ {0}
    <3>1. geo.unit = 0 /\ 2 ^ 0 = 1 /\ Page \in Nat \ {0}
      BY <1>1, <1>5, AreaAssumption DEF Fits
    <3> QED
      BY <3>1 DEF PageQuantum
  <2>2. NewLength(f) = [i \in Positions |-> Page] /\ Cleared = 0
    BY <2>1, <1>5 DEF NewLength, Cleared, OrderPages, Paged
  <2> QED
    BY <2>1, <2>2, <1>2, <1>5
<1> QED
  BY <1>3, <1>4, <1>5 DEF Devices, Paged

LEMMA TransfersFit ==
  ASSUME QuantumInv, MapInv', device \in Devices, NEW f \in AreaFiles, Transfers(f)
  PROVE  QuantumInv'
<1>1. CallsFit /\ ParamFits /\ InQuantum /\ fpos \in [AreaFiles -> Nat] /\ call[f] \in Calls
  BY DEF QuantumInv, CallsFit
<1>2. /\ Quantum \in Nat \ {0} /\ geo.qset \in Nat \ {0}
      /\ \A x \in Nat : x < MaxPos => x \in Positions
  <2>1. Fits(device, geo.unit) /\ geo.qset \in Nat \ {0}
    BY DEF QuantumInv, AreaFits, MapInv, AreaTyped, Geometry, Devices
  <2>2. \A x \in Nat : x < MaxPos => x \in Positions
    BY AreaAssumption DEF Positions
  <2> QED
    BY <2>1, <2>2, FitQuantum DEF Quantum
<1>3. ASSUME UNCHANGED <<device, mem, wild>>, CallsFit' PROVE QuantumInv'
  <2>1. ParamFits'
    BY <1>1, <1>3 DEF ParamFits, mem
  <2> QED
    BY <2>1, <1>3, AreaKept DEF mem
<1>4. ASSUME NEW op \in {"read", "write"}, Enters(f, op, Quantum) PROVE QuantumInv'
  <2>1. PICK n \in AreaCounts :
          Sets(f, [NoCall EXCEPT !.op = op, !.at = fpos[f], !.n = n, !.q = Quantum, !.s = geo.qset])
    BY <1>4 DEF Enters
  <2> DEFINE c == [NoCall EXCEPT !.op = op, !.at = fpos[f], !.n = n, !.q = Quantum, !.s = geo.qset]
  <2>2. c \in Calls /\ Current(c)
    <3>1. n \in Nat /\ fpos[f] \in Nat /\ fpos[f] \in Positions
      BY <1>1, <1>2, <1>4, AreaAssumption DEF Enters
    <3> QED
      BY <3>1, <1>2 DEF Calls, Current, NoCall
  <2>3. UNCHANGED <<device, geo, fpos>> /\ UNCHANGED <<mem, wild>>
    BY <1>4 DEF Enters, mem, area
  <2> HIDE DEF c
  <2>4. CallsFit'
    BY <2>1, <2>2, <2>3, <1>1, CallSet DEF c
  <2> QED
    BY <1>3, <2>3, <2>4
<1>5. CASE ReadLocked(f)
  BY <1>3, <1>5, ReadFits
<1>6. CASE WriteLocked(f, NewLength(f), Cleared)
  <2>1. UNCHANGED <<device, param, geo, wild>> /\ CallsFit' /\ AreaFits'
    BY <1>6, LengthFits, WriteFits DEF WriteLocked
  <2>2. ParamFits' /\ InQuantum'
    BY <1>1, <2>1 DEF ParamFits, InQuantum
  <2> QED
    BY <2>1, <2>2 DEF QuantumInv
<1>7. ASSUME NEW k \in {1, 2}, Aio(f, Quantum, k) PROVE QuantumInv'
  <2>1. ASSUME NEW op \in {"read", "write"}, DeferOp(f, op, Quantum, k) PROVE QuantumInv'
    <3>1. PICK n \in AreaCounts :
            Sets(f, [op |-> op, at |-> fpos[f], n |-> n, q |-> Quantum, s |-> geo.qset, segs |-> k])
      BY <2>1 DEF DeferOp
    <3> DEFINE c == [op |-> op, at |-> fpos[f], n |-> n, q |-> Quantum, s |-> geo.qset, segs |-> k]
    <3>2. c \in Calls /\ Current(c)
      <4>1. n \in Nat /\ fpos[f] \in Nat /\ fpos[f] \in Positions
        BY <1>1, <1>2, <2>1, AreaAssumption DEF DeferOp
      <4> QED
        BY <4>1, <1>2 DEF Calls, Current
    <3>3. UNCHANGED <<device, geo, fpos>> /\ UNCHANGED <<mem, wild>>
      BY <2>1 DEF DeferOp, mem, area
    <3> HIDE DEF c
    <3>4. CallsFit'
      BY <3>1, <3>2, <3>3, <1>1, CallSet DEF c
    <3> QED
      BY <1>3, <3>3, <3>4
  <2>2. ASSUME NEW op \in {"read", "write"}, NextSegment(f, op, Quantum) PROVE QuantumInv'
    <3> DEFINE c == [call[f] EXCEPT !.op = op, !.q = Quantum, !.s = geo.qset, !.segs = @ - 1]
    <3>1. Sets(f, c) /\ call[f].segs > 1 /\ call[f].at < MaxPos
      BY <2>2 DEF NextSegment
    <3>2. c \in Calls /\ Current(c)
      <4>1. call[f].segs - 1 \in Nat /\ call[f].at \in Positions
        BY <1>1, <1>2, <3>1 DEF Calls
      <4> QED
        BY <4>1, <1>1, <1>2 DEF Calls, Current
    <3>3. UNCHANGED <<device, geo, fpos>> /\ UNCHANGED <<mem, wild>>
      BY <2>2 DEF NextSegment, mem, area
    <3> HIDE DEF c
    <3>4. CallsFit'
      BY <3>1, <3>2, <3>3, <1>1, CallSet
    <3> QED
      BY <1>3, <3>3, <3>4
  <2>3. CASE Deferred(f)
    <3>1. Idle(f) /\ UNCHANGED <<device, geo, fpos>> /\ UNCHANGED <<mem, wild>>
      BY <2>3 DEF Deferred, mem, area
    <3> QED
      BY <3>1, <1>1, <1>3, IdleFits
  <2> QED
    BY <1>7, <2>1, <2>2, <2>3 DEF Aio
<1>8. CASE DoDeferredOp(f)
  <2>1. UNCHANGED <<device, mem, wild>> /\ UNCHANGED <<call, fpos, geo>>
    BY <1>8 DEF DoDeferredOp, mem, area
  <2>2. CallsFit'
    BY <1>1, <2>1 DEF CallsFit, Current, Quantum, ByteQuantum, PageQuantum, QuantumOf
  <2> QED
    BY <1>3, <2>1, <2>2
<1> QED
  BY <1>4, <1>5, <1>6, <1>7, <1>8 DEF Transfers

(* Without a file there is no mapping, and the driver does trim as it goes.   *)
LEMMA UnloadTrims == ASSUME MapInv, NEW d, Unload(d, TrimOf(d)) PROVE Trim
<1>1. Mapped = {}
  BY DEF Unload, Mapped, MapInv, MappedOpen
<1>2. vmas = 0
  BY <1>1, FS_EmptySet DEF MapInv, VmasCounted
<1> QED
  BY <1>2 DEF Unload, TrimOf, TrimUnmapped

LEMMA QuantumStep ==
  ASSUME QuantumInv, UnitsFit, ~ Overlap, [AreaNext]_areaVars
  PROVE  QuantumInv'
<1>0. 0 \in 0 .. MaxPos
  BY AreaAssumption
<1>1. MapInv'
  BY MapStep DEF QuantumInv
<1>2. CallsFit /\ ParamFits /\ AreaFits /\ InQuantum
  BY DEF QuantumInv
<1>3. ASSUME UNCHANGED <<device, mem, wild>>, CallsFit' PROVE QuantumInv'
  <2>1. ParamFits'
    BY <1>2, <1>3 DEF ParamFits, mem
  <2> QED
    BY <1>1, <2>1, <1>3, AreaKept DEF mem
<1>4. ASSUME UNCHANGED <<device, geo, call, fpos>> PROVE CallsFit'
  BY <1>2, <1>4 DEF CallsFit, Current, Quantum, ByteQuantum, PageQuantum, QuantumOf
<1>5. Trim => /\ InQuantum' /\ geo' = param /\ size' = 0
              /\ table' = [i \in Positions |-> 0] /\ block' = [e \in Entries |-> <<>>]
  BY <1>2 DEF Trim, AreaFits, InQuantum
<1>6. ASSUME NEW d \in Devices, Load(d) PROVE QuantumInv'
  <2>1. /\ device = "none" /\ device' = d /\ geo' = [unit |-> DefUnit[d], qset |-> DefQset] /\ param' = geo'
        /\ UNCHANGED <<size, table, block, call, fpos, wild>>
    BY <1>6 DEF Load
  <2>2. Fits(d, DefUnit[d])
    BY DEF UnitsFit
  <2>3. AreaFits' /\ ParamFits' /\ InQuantum'
    BY <1>2, <2>1, <2>2 DEF AreaFits, ParamFits, InQuantum
  <2>4. \A f \in AreaFiles : call[f].op = "closed"
    BY <2>1 DEF QuantumInv, MapInv, MappedOpen
  <2>5. CallsFit'
    BY <1>2, <2>1, <2>4 DEF CallsFit, Current
  <2> QED
    BY <1>1, <2>3, <2>5 DEF QuantumInv
<1>7. ASSUME NEW d \in Devices, Unload(d, TrimOf(d)) PROVE QuantumInv'
  <2>1. /\ device' = "none" /\ UNCHANGED <<call, fpos>>
        /\ \A f \in AreaFiles : call[f].op = "closed"
    BY <1>7 DEF Unload
  <2>3. Trim
    BY <1>7, UnloadTrims DEF QuantumInv
  <2>4. AreaFits' /\ ParamFits' /\ InQuantum'
    BY <1>0, <1>2, <1>5, <2>1, <2>3 DEF AreaFits, ParamFits, InQuantum
  <2>5. CallsFit'
    BY <1>2, <2>1 DEF CallsFit, Current
  <2> QED
    BY <1>1, <2>4, <2>5 DEF QuantumInv
<1>8. ASSUME NEW f \in AreaFiles, device \in Devices, Opens(f) PROVE QuantumInv'
  <2>1. /\ Idle(f) /\ UNCHANGED <<device, param, fpos>>
        /\ \A g \in AreaFiles : call[g].op \in {"idle", "closed"}
    BY <1>8 DEF Opens, OpenFile, Quiet
  <2>2. CallsFit'
    <3>1. NoCall \in Calls /\ NoCall.op = "idle"
      BY DEF NoCall, Calls
    <3>2. call' = [call EXCEPT ![f] = NoCall]
      BY <2>1 DEF Idle, Sets
    <3> HIDE DEF NoCall
    <3> QED
      BY <1>2, <2>1, <3>1, <3>2 DEF CallsFit, Current
  <2>3. CASE Keeps
    BY <1>3, <2>1, <2>2, <2>3 DEF Keeps, mem
  <2>4. CASE Trim
    <3>1. AreaFits' /\ ParamFits' /\ InQuantum'
      BY <1>0, <1>2, <1>5, <2>1, <2>4, <1>8 DEF AreaFits, ParamFits, InQuantum
    <3> QED
      BY <1>1, <2>2, <3>1 DEF QuantumInv
  <2> QED
    BY <1>8, <2>3, <2>4 DEF Opens, TrimOf, TrimUnmapped, Keeps
<1>9. ASSUME NEW f \in AreaFiles, device \in Devices, Ioctl(f, UnitsOf(device)) PROVE QuantumInv'
  <2>1. UNCHANGED <<device, area, wild>> /\ UNCHANGED <<geo, call, fpos>>
    BY <1>9 DEF Ioctl, area
  <2>2. ParamFits'
    <3>1. Fits(device, param.unit) /\ "unit" \in DOMAIN param
      BY <1>2, <1>9 DEF ParamFits, Devices, QuantumInv, MapInv, AreaTyped, Geometry
    <3>2. Fits(device, DefUnit[device]) /\ \A u \in UnitsOf(device) : Fits(device, u)
      BY <1>9 DEF UnitsFit
    <3>3. Fits(device, param'.unit)
      BY <1>9, <3>1, <3>2 DEF Ioctl
    <3> QED
      BY <2>1, <3>3 DEF ParamFits
  <2> QED
    BY <1>1, <1>4, <2>1, <2>2, AreaKept
<1>10. ASSUME NEW f \in AreaFiles, Seek(f) PROVE QuantumInv'
  <2>1. UNCHANGED <<device, mem, wild>> /\ UNCHANGED <<geo, call>>
    BY <1>10 DEF Seek, mem, area
  <2>2. fpos' \in [AreaFiles -> Nat]
    <3>1. PICK p \in 0 .. MaxPos : fpos' = [fpos EXCEPT ![f] = p]
      BY <1>10 DEF Seek
    <3>2. p \in Nat
      BY AreaAssumption
    <3> QED
      BY <1>2, <3>1, <3>2 DEF CallsFit
  <2>3. CallsFit'
    BY <1>2, <2>1, <2>2 DEF CallsFit, Current, Quantum, ByteQuantum, PageQuantum, QuantumOf
  <2> QED
    BY <1>3, <2>1, <2>3
<1>11. ASSUME NEW f \in AreaFiles, Maps(f) PROVE QuantumInv'
  <2>1. UNCHANGED <<device, mem, wild>> /\ UNCHANGED <<geo, call, fpos>>
    BY <1>11 DEF Maps, Mmap, VmaOpen, VmaClose, VmaLoads, VmaStores, Nopage, mem, area
  <2> QED
    BY <1>3, <1>4, <2>1
<1>12. ASSUME NEW f \in AreaFiles, Release(f) PROVE QuantumInv'
  <2> DEFINE c == [NoCall EXCEPT !.op = "closed"]
  <2>1. Sets(f, c) /\ UNCHANGED <<device, mem, wild>> /\ UNCHANGED <<device, geo>>
    BY <1>12 DEF Release, mem, area
  <2>2. fpos' \in [AreaFiles -> Nat]
    BY <1>2, <1>12 DEF Release, CallsFit
  <2>3. c \in Calls /\ Current(c)
    BY DEF NoCall, Calls, Current
  <2> HIDE DEF c
  <2>4. CallsFit'
    BY <1>2, <2>1, <2>2, <2>3, CallSet
  <2> QED
    BY <1>3, <2>1, <2>4
<1>13. CASE UNCHANGED areaVars
  <2>1. UNCHANGED <<device, mem, wild>> /\ UNCHANGED <<geo, call, fpos>>
    BY <1>13 DEF areaVars, mem, area
  <2> QED
    BY <1>3, <1>4, <2>1
<1>14. ASSUME NEW f \in AreaFiles, device \in Devices, Transfers(f) PROVE QuantumInv'
  BY <1>1, <1>14, TransfersFit
<1>15. ASSUME NEW f \in AreaFiles, Kind(f) PROVE QuantumInv'
  BY <1>6, <1>7, <1>8, <1>9, <1>10, <1>11, <1>12, <1>14, <1>15 DEF Kind
<1> QED
  BY <1>13, <1>15, Kinds

(* No access leaves what was allocated ("read only up to the end of this      *)
(* quantum", scull/main.c:314, and "write only up to the end", :364), in any  *)
(* driver, for any area, files, counts and faults, as long as calls do not    *)
(* overlap and the parameters are among those that the driver can honour:     *)
(* a quantum of scullc no larger than at the load, an order of 0.             *)
THEOREM AccessInQuantum ==
  ASSUME UnitsFit, ~ Overlap
  PROVE  AreaSpec => []InQuantum
<1>1. QuantumInv => InQuantum
  BY DEF QuantumInv
<1>2. AreaInit => QuantumInv
  BY QuantumInit
<1>3. QuantumInv /\ [AreaNext]_areaVars => QuantumInv'
  BY QuantumStep
<1> QED
  BY <1>1, <1>2, <1>3, PTL DEF AreaSpec

-----------------------------------------------------------------------------
(* One array of bytes                                                        *)

LEMMA DivMod ==
  ASSUME NEW w \in Nat \ {0}, NEW a \in Nat
  PROVE  a = (w * (a \div w)) + (a % w) /\ a \div w \in Nat /\ a % w \in Nat /\ a % w < w
  OBVIOUS

LEMMA DivModOf ==
  ASSUME NEW w \in Nat \ {0}, NEW i \in Nat, NEW r \in Nat, r < w
  PROVE  ((w * i) + r) \div w = i /\ ((w * i) + r) % w = r
  OBVIOUS

LEMMA DivModAt ==
  ASSUME NEW w \in Nat \ {0}, NEW i \in Nat, NEW r \in Nat, r < w, NEW a, a = (w * i) + r
  PROVE  a \div w = i /\ a % w = r
<1>1. ((w * i) + r) \div w = i /\ ((w * i) + r) % w = r
  BY DivModOf
<1> QED
  BY <1>1

LEMMA Product == ASSUME NEW q \in Nat \ {0}, NEW s \in Nat \ {0} PROVE q * s \in Nat \ {0}
  OBVIOUS

LEMMA DivBelow ==
  ASSUME NEW q \in Nat \ {0}, NEW s \in Nat \ {0}, NEW r \in Nat, r < q * s
  PROVE  r \div q < s
  OBVIOUS

LEMMA RowBelow ==
  ASSUME NEW q \in Nat \ {0}, NEW s \in Nat \ {0}, NEW j \in Nat, NEW o \in Nat, j < s, o < q
  PROVE  (q * j) + o \in Nat /\ (q * j) + o < q * s
<1>1. q * (j + 1) = (q * j) + q
  OBVIOUS
<1>2. ASSUME NEW a \in Nat, NEW b \in Nat, a <= b PROVE q * a <= q * b
  BY <1>2
<1>3. q * (j + 1) <= q * s
  BY <1>2
<1>4. q * j \in Nat /\ q * s \in Nat
  OBVIOUS
<1> QED
  BY <1>1, <1>3, <1>4

(* Where a position is: three numbers that give it back,                     *)
LEMMA Spelled ==
  ASSUME NEW c, c.at \in Nat, c.q \in Nat \ {0}, c.s \in Nat \ {0}
  PROVE  LET l == Locate(c)
         IN  /\ c.at = ((c.q * c.s) * l.item) + ((c.q * l.slot) + l.off)
             /\ l.item \in Nat /\ l.slot \in Nat /\ l.slot < c.s /\ l.off \in Nat /\ l.off < c.q
<1> DEFINE w == c.q * c.s
           rest == c.at % w
<1>1. w \in Nat \ {0}
  BY Product
<1>2. c.at = (w * (c.at \div w)) + rest /\ rest \in Nat /\ rest < w /\ c.at \div w \in Nat
  <2> HIDE DEF w
  <2> QED
    BY <1>1, DivMod
<1>3. /\ rest = (c.q * (rest \div c.q)) + (rest % c.q)
      /\ rest \div c.q \in Nat /\ rest % c.q \in Nat /\ rest % c.q < c.q /\ rest \div c.q < c.s
  <2> HIDE DEF rest
  <2> QED
    BY <1>2, DivMod, DivBelow
<1>4. Locate(c) = [item |-> c.at \div w, slot |-> rest \div c.q, off |-> rest % c.q]
  BY DEF Locate
<1> HIDE DEF w, rest
<1> QED
  BY <1>2, <1>3, <1>4 DEF w

(* and no other numbers do.                                                  *)
LEMMA OnlyThere ==
  ASSUME NEW c, c.at \in Nat, c.q \in Nat \ {0}, c.s \in Nat \ {0},
         NEW i \in Nat, NEW j \in Nat, NEW o \in Nat, j < c.s, o < c.q,
         c.at = ((c.q * c.s) * i) + ((c.q * j) + o)
  PROVE  LET l == Locate(c) IN l.item = i /\ l.slot = j /\ l.off = o
<1> DEFINE w == c.q * c.s
           r == (c.q * j) + o
<1>1. w \in Nat \ {0}
  BY Product
<1>2. r \in Nat /\ r < w
  BY RowBelow
<1>3. c.at = (w * i) + r
  OBVIOUS
<1>4. c.at \div w = i /\ c.at % w = r
  <2> HIDE DEF w, r
  <2> QED
    BY <1>1, <1>2, <1>3, DivModAt, Zenon
<1>5. r \div c.q = j /\ r % c.q = o
  BY DivModOf
<1>6. Locate(c) = [item |-> c.at \div w, slot |-> (c.at % w) \div c.q, off |-> (c.at % w) % c.q]
  BY DEF Locate
<1> HIDE DEF w, r
<1>7. Locate(c) = [item |-> i, slot |-> j, off |-> o]
  BY <1>4, <1>5, <1>6
<1> QED
  BY <1>7

(* Positions of one quantum are as far apart as their offsets.               *)
LEMMA SameQuantum ==
  ASSUME NEW q \in Nat \ {0}, NEW s \in Nat \ {0}, NEW a \in Nat, NEW p \in Nat,
         NEW l, l = Locate([at |-> a, q |-> q, s |-> s]),
         NEW g, g = Locate([at |-> p, q |-> q, s |-> s])
  PROVE  /\ l.item = g.item /\ l.slot = g.slot => p = (a - l.off) + g.off
         /\ p >= a /\ l.off + (p - a) < q => l.item = g.item /\ l.slot = g.slot
<1>1. /\ a = ((q * s) * l.item) + ((q * l.slot) + l.off)
      /\ l.item \in Nat /\ l.slot \in Nat /\ l.slot < s /\ l.off \in Nat /\ l.off < q
  BY Spelled
<1>2. /\ p = ((q * s) * g.item) + ((q * g.slot) + g.off)
      /\ g.item \in Nat /\ g.slot \in Nat /\ g.off \in Nat
  BY Spelled
<1> DEFINE x == (q * s) * l.item
           y == q * l.slot
<1>3. x \in Nat /\ y \in Nat /\ a = x + (y + l.off)
  <2>1. q * s \in Nat
    BY Product
  <2> QED
    BY <1>1, <2>1
<1>4. l.item = g.item /\ l.slot = g.slot => p = (a - l.off) + g.off
  <2> SUFFICES ASSUME l.item = g.item, l.slot = g.slot PROVE p = (a - l.off) + g.off
    OBVIOUS
  <2>1. p = x + (y + g.off) /\ l.off \in Nat /\ g.off \in Nat
    BY <1>1, <1>2
  <2> HIDE DEF x, y
  <2> QED
    BY <1>3, <2>1
<1>5. p >= a /\ l.off + (p - a) < q => l.item = g.item /\ l.slot = g.slot
  <2> SUFFICES ASSUME p >= a, l.off + (p - a) < q PROVE l.item = g.item /\ l.slot = g.slot
    OBVIOUS
  <2> DEFINE o == l.off + (p - a)
  <2>1. o \in Nat /\ o < q
    BY <1>1
  <2>2. p = x + (y + o)
    <3> HIDE DEF x, y
    <3> QED
      BY <1>1, <1>3
  <2>3. p = ((q * s) * l.item) + ((q * l.slot) + o)
    BY <2>2
  <2> HIDE DEF x, y, o
  <2> DEFINE d == [at |-> p, q |-> q, s |-> s]
  <2>4. d.at = p /\ d.q = q /\ d.s = s
    OBVIOUS
  <2> HIDE DEF d
  <2>5. /\ d.at \in Nat /\ d.q \in Nat \ {0} /\ d.s \in Nat \ {0}
        /\ d.at = ((d.q * d.s) * l.item) + ((d.q * l.slot) + o)
        /\ l.item \in Nat /\ l.slot \in Nat /\ o \in Nat /\ l.slot < d.s /\ o < d.q
    BY <1>1, <2>1, <2>3, <2>4
  <2>6. Locate(d).item = l.item /\ Locate(d).slot = l.slot
    BY <2>5, OnlyThere
  <2> QED
    BY <2>6 DEF d
<1> QED
  BY <1>4, <1>5

(* The byte of a position, by the quantum it is in.                          *)
Spot(p) == Locate([at |-> p, q |-> Quantum, s |-> geo.qset])
Held(p) == LET b == block[<<Spot(p).item, Spot(p).slot>>]
           IN  IF b = <<>> THEN Unwritten ELSE b[Spot(p).off + 1]

LEMMA SpotFits ==
  ASSUME NEW q \in Nat \ {0}, NEW s \in Nat \ {0}, NEW p \in Positions
  PROVE  LET l == Locate([at |-> p, q |-> q, s |-> s])
         IN  /\ l.item \in Positions /\ <<l.item, l.slot>> \in Entries
             /\ l.off \in Nat /\ l.off < q
<1> DEFINE c == [at |-> p, q |-> q, s |-> s]
<1>1. c.at \in Positions /\ c.q \in Nat \ {0} /\ c.s \in Nat \ {0} /\ c.q = q
  OBVIOUS
<1> HIDE DEF c
<1>2. Locate(c).item \in Positions /\ Locate(c).slot \in Positions /\ Locate(c).off \in 0 .. q - 1
  BY <1>1, LocateFits
<1>3. <<Locate(c).item, Locate(c).slot>> \in Entries
  BY <1>2 DEF Entries
<1> QED
  BY <1>2, <1>3 DEF c

LEMMA HeldContents ==
  QuantumInv /\ device \in Devices =>
     Quantum \in Nat \ {0} /\ Contents = [p \in Positions |-> Held(p)]
<1> SUFFICES ASSUME QuantumInv, device \in Devices
             PROVE  Quantum \in Nat \ {0} /\ Contents = [p \in Positions |-> Held(p)]
  OBVIOUS
<1>2. AreaTyped /\ AreaFits /\ device # "none"
  BY DEF QuantumInv, MapInv, Devices
<1>3. Quantum \in Nat \ {0}
  BY <1>2, FitQuantum DEF AreaFits, Quantum
<1>4. ASSUME NEW p \in Positions PROVE ByteAt(p) = Held(p)
  <2> DEFINE l == Spot(p)
             b == block[<<l.item, l.slot>>]
  <2>1. ByteAt(p) = IF table[l.item] = 0 \/ b = <<>> \/ l.off >= Len(b) THEN Unwritten ELSE b[l.off + 1]
    BY DEF ByteAt, Spot, Quantum, QuantumOf, InBytes, ByteQuantum, PageQuantum
  <2>2. <<l.item, l.slot>> \in Entries /\ l.off \in Nat /\ l.off < Quantum
    BY <1>2, <1>3, SpotFits DEF Spot, AreaTyped, Geometry
  <2> HIDE DEF l
  <2>3. b \in Seq(Bytes) /\ (b = <<>> \/ (Quantum <= Len(b) /\ table[l.item] # 0))
    BY <1>2, <2>2 DEF AreaTyped, AreaFits
  <2>4. b # <<>> => ~ (table[l.item] = 0 \/ l.off >= Len(b))
    BY <1>3, <2>2, <2>3
  <2> HIDE DEF b
  <2> QED
    BY <2>1, <2>4 DEF Held, l, b
<1> QED
  BY <1>2, <1>3, <1>4 DEF Contents

LEMMA SubSeqIs ==
  ASSUME NEW S, NEW b \in Seq(S), NEW o \in Nat, NEW m \in Nat, o + m <= Len(b)
  PROVE  SubSeq(b, o + 1, o + m) = [i \in 1 .. m |-> b[o + i]]
  OBVIOUS

LEMMA Shift ==
  ASSUME NEW a \in Nat, NEW o \in Nat, NEW u \in Nat, NEW m \in Nat, NEW p \in Nat, p = (a - o) + u
  PROVE  u + 1 \in o + 1 .. o + m <=> p \in a .. a + m - 1
  OBVIOUS

Overwritten(a, m, d) == [p \in Positions |-> IF p \in a .. a + m - 1 THEN d ELSE Contents[p]]

(* A write within one quantum is a write of the array,                       *)
LEMMA StoredBytes ==
  ASSUME QuantumInv, QuantumInv', device \in Devices, UNCHANGED <<device, geo>>,
         NEW a \in Positions, NEW d, NEW m \in Nat, NEW b \in Seq(Bytes),
         NEW l, l = Spot(a), l.off + m <= Quantum, Quantum <= Len(b),
         block[<<l.item, l.slot>>] # <<>> => b = block[<<l.item, l.slot>>],
         block[<<l.item, l.slot>>] = <<>> => \A i \in 1 .. Len(b) : b[i] = Unwritten,
         block' = [block EXCEPT ![<<l.item, l.slot>>] = Patched(b, l.off, m, d)]
  PROVE  Contents' = Overwritten(a, m, d)
<1> DEFINE e == <<l.item, l.slot>>
           new == Patched(b, l.off, m, d)
<1>1. Quantum \in Nat \ {0} /\ Contents = [p \in Positions |-> Held(p)]
  BY HeldContents
<1>2. (QuantumInv /\ device \in Devices =>
         Quantum \in Nat \ {0} /\ Contents = [p \in Positions |-> Held(p)])'
  BY HeldContents, PTL
<1>3. Contents' = [p \in Positions |-> Held(p)']
  BY <1>2
<1>4. Quantum' = Quantum /\ geo' = geo
  BY DEF Quantum, QuantumOf, ByteQuantum, PageQuantum
<1>5. geo.qset \in Nat \ {0} /\ block \in [Entries -> Seq(Bytes)]
  BY DEF QuantumInv, MapInv, AreaTyped, Geometry
<1>6. l.off \in Nat /\ l.off < Quantum /\ e \in Entries
  BY <1>1, <1>5, SpotFits DEF Spot
<1>7. Len(b) \in Nat /\ DOMAIN new = 1 .. Len(b) /\ block' = [block EXCEPT ![e] = new]
  BY DEF Patched
<1> HIDE DEF e, new
<1>8. ASSUME NEW p \in Positions
      PROVE  Held(p)' = IF p \in a .. a + m - 1 THEN d ELSE Held(p)
  <2> DEFINE g == Spot(p)
             x == <<g.item, g.slot>>
  <2>1. g.off \in Nat /\ g.off < Quantum /\ x \in Entries
    BY <1>1, <1>5, SpotFits DEF Spot
  <2>2. Held(p)' = LET q == block'[x] IN IF q = <<>> THEN Unwritten ELSE q[g.off + 1]
    BY <1>4 DEF Held, Spot
  <2>3. Held(p) = LET q == block[x] IN IF q = <<>> THEN Unwritten ELSE q[g.off + 1]
    BY DEF Held
  <2>4. p \in Nat /\ a \in Nat
    BY AreaAssumption DEF Positions
  <2>5. /\ l.item = g.item /\ l.slot = g.slot => p = (a - l.off) + g.off
        /\ p >= a /\ l.off + (p - a) < Quantum => l.item = g.item /\ l.slot = g.slot
    <3> DEFINE q == Quantum
               s == geo.qset
    <3>1. l = Locate([at |-> a, q |-> q, s |-> s]) /\ g = Locate([at |-> p, q |-> q, s |-> s])
      BY DEF Spot
    <3>2. q \in Nat \ {0} /\ s \in Nat \ {0}
      BY <1>1, <1>5
    <3> HIDE DEF g, x, q, s
    <3>3. /\ l.item = g.item /\ l.slot = g.slot => p = (a - l.off) + g.off
          /\ p >= a /\ l.off + (p - a) < q => l.item = g.item /\ l.slot = g.slot
      BY <2>4, <3>1, <3>2, SameQuantum
    <3> QED
      BY <3>3 DEF q
  <2>6. CASE x = e
    <3>1. p = (a - l.off) + g.off
      BY <2>5, <2>6 DEF e
    <3>2. block'[x] = new /\ new # <<>> /\ g.off + 1 \in 1 .. Len(b)
      <4>1. g.off + 1 \in 1 .. Len(b)
        <5> HIDE DEF g, x
        <5> QED
          BY <1>1, <1>7, <2>1
      <4>2. new # <<>>
        BY <1>7, <4>1
      <4> QED
        BY <1>5, <1>6, <1>7, <2>6, <4>1, <4>2
    <3>3. Held(p)' = IF g.off + 1 \in l.off + 1 .. l.off + m THEN d ELSE b[g.off + 1]
      <4> HIDE DEF g, x
      <4> QED
        BY <2>2, <3>2 DEF new, Patched
    <3>4. g.off + 1 \in l.off + 1 .. l.off + m <=> p \in a .. a + m - 1
      BY <1>6, <2>1, <2>4, <3>1, Shift
    <3>5. Held(p) = b[g.off + 1]
      <4> HIDE DEF g
      <4> QED
        BY <2>3, <2>6, <3>2 DEF e
    <3> QED
      BY <3>3, <3>4, <3>5
  <2>7. CASE x # e
    <3>1. block'[x] = block[x]
      BY <1>5, <1>7, <2>1, <2>7
    <3>2. ~ (p >= a /\ l.off + (p - a) < Quantum)
      BY <2>5, <2>7 DEF e
    <3>3. p \notin a .. a + m - 1
      <4> HIDE DEF g, x
      <4> QED
        BY <1>1, <1>6, <2>4, <3>2
    <3> QED
      BY <2>2, <2>3, <3>1, <3>3
  <2> QED
    BY <2>6, <2>7
<1> QED
  BY <1>1, <1>3, <1>8 DEF Overwritten

(* and what is found in one quantum is what the array has there.             *)
LEMMA FoundBytes ==
  ASSUME QuantumInv, device \in Devices,
         NEW a \in Positions, NEW m \in Nat, a + m <= MaxPos,
         NEW l, l = Spot(a), l.off + m <= Quantum,
         NEW b, b = block[<<l.item, l.slot>>], b # <<>>
  PROVE  SubSeq(b, l.off + 1, l.off + m) = [i \in 1 .. m |-> Contents[a + i - 1]]
<1>1. Quantum \in Nat \ {0} /\ Contents = [p \in Positions |-> Held(p)]
  BY HeldContents
<1>2. geo.qset \in Nat \ {0} /\ block \in [Entries -> Seq(Bytes)] /\ AreaFits
  BY DEF QuantumInv, MapInv, AreaTyped, Geometry
<1>3. l.off \in Nat /\ l.off < Quantum /\ <<l.item, l.slot>> \in Entries
  BY <1>1, <1>2, SpotFits DEF Spot
<1>4. b \in Seq(Bytes) /\ Quantum <= Len(b) /\ Len(b) \in Nat
  BY <1>2, <1>3 DEF AreaFits
<1>5. SubSeq(b, l.off + 1, l.off + m) = [i \in 1 .. m |-> b[l.off + i]]
  <2>1. l.off + m <= Len(b)
    BY <1>1, <1>3, <1>4
  <2> QED
    <3> DEFINE o == l.off
    <3>1. o \in Nat /\ o + m <= Len(b)
      BY <1>3, <2>1
    <3> HIDE DEF o
    <3>2. SubSeq(b, o + 1, o + m) = [i \in 1 .. m |-> b[o + i]]
      BY <1>4, <3>1, SubSeqIs
    <3> QED
      BY <3>2 DEF o
<1>6. ASSUME NEW i \in 1 .. m PROVE Contents[a + i - 1] = b[l.off + i]
  <2> DEFINE p == a + i - 1
             g == Spot(p)
             q == Quantum
             s == geo.qset
  <2>1. a \in Nat /\ p \in Positions /\ p \in Nat /\ p >= a /\ p - a = i - 1
    BY AreaAssumption DEF Positions
  <2>2. l = Locate([at |-> a, q |-> q, s |-> s]) /\ g = Locate([at |-> p, q |-> q, s |-> s])
    BY DEF Spot
  <2>3. q \in Nat \ {0} /\ s \in Nat \ {0} /\ l.off + (p - a) < q
    BY <1>1, <1>2, <1>3, <2>1
  <2> HIDE DEF g, q, s
  <2>4. l.item = g.item /\ l.slot = g.slot
    <3> HIDE DEF p
    <3> QED
      BY <2>1, <2>2, <2>3, SameQuantum
  <2>5. p = (a - l.off) + g.off
    <3> HIDE DEF p
    <3> QED
      BY <2>1, <2>2, <2>3, <2>4, SameQuantum
  <2>6. g.off \in Nat
    BY <2>1, <2>2, <2>3, SpotFits
  <2>7. g.off + 1 = l.off + i
    <3> DEFINE o == l.off
               u == g.off
    <3>1. o \in Nat /\ u \in Nat /\ p = (a - o) + u
      BY <1>3, <2>5, <2>6
    <3> HIDE DEF o, u, p
    <3>2. u + 1 = o + i
      BY <2>1, <3>1
    <3> QED
      BY <3>2 DEF o, u
  <2>8. Contents[p] = Held(p)
    BY <1>1, <2>1
  <2>9. Held(p) = b[g.off + 1]
    BY <2>4 DEF Held, g
  <2> HIDE DEF p
  <2> QED
    BY <2>7, <2>8, <2>9 DEF p
<1> QED
  BY <1>5, <1>6

ArrayVars == <<size, Contents, got>>
ArrayNext == Array!Write \/ Array!Read \/ Array!Empty \/ Array!Other

LEMMA SameContents == ASSUME UNCHANGED <<device, area>> PROVE Contents' = Contents /\ size' = size
  BY DEF Contents, ByteAt, ByteQuantum, PageQuantum, area

LEMMA ReadArray ==
  ASSUME QuantumInv, device \in Devices, UNCHANGED <<device, area>>,
         NEW a \in Positions, NEW m \in Nat, a + m <= size,
         NEW l, l = Spot(a), l.off + m <= Quantum,
         NEW b, b = block[<<l.item, l.slot>>], b # <<>>,
         got' = [at |-> a, bytes |-> SubSeq(b, l.off + 1, l.off + m)]
  PROVE  Array!Read
<1>1. a \in Nat /\ MaxPos \in Nat /\ size \in 0 .. MaxPos
  BY AreaAssumption DEF Positions, QuantumInv, AreaFits
<1>2. a + m <= MaxPos
  BY <1>1
<1>3. SubSeq(b, l.off + 1, l.off + m) = [i \in 1 .. m |-> Contents[a + i - 1]]
  BY <1>2, FoundBytes
<1> DEFINE end == a + m
<1>4. end \in a .. MaxPos /\ end <= size /\ end - a = m
  BY <1>1, <1>2
<1> HIDE DEF end
<1>5. got' = [at |-> a, bytes |-> [i \in 1 .. end - a |-> Contents[a + i - 1]]]
  BY <1>3, <1>4
<1>6. a \in 0 .. MaxPos - 1
  BY DEF Positions
<1> QED
  BY <1>4, <1>5, <1>6, SameContents DEF Array!Read

LEMMA OtherArray == ASSUME UNCHANGED <<device, area>>, got' = Nothing PROVE Array!Other
  BY SameContents DEF Array!Other, Array!Nothing, Nothing

(* An area without quanta is an empty array, whatever its geometry.          *)
LEMMA EmptyContents ==
  QuantumInv /\ (\A e \in Entries : block[e] = <<>>) => Contents = [p \in Positions |-> Unwritten]
<1> SUFFICES ASSUME QuantumInv, \A e \in Entries : block[e] = <<>>
             PROVE  Contents = [p \in Positions |-> Unwritten]
  OBVIOUS
<1>1. CASE device = "none"
  BY <1>1 DEF Contents
<1>2. CASE device \in Devices
  <2>1. Quantum \in Nat \ {0} /\ Contents = [p \in Positions |-> Held(p)]
    BY <1>2, HeldContents
  <2>2. geo.qset \in Nat \ {0}
    BY DEF QuantumInv, MapInv, AreaTyped, Geometry
  <2>3. ASSUME NEW p \in Positions PROVE Held(p) = Unwritten
    <3>1. <<Spot(p).item, Spot(p).slot>> \in Entries
      BY <2>1, <2>2, SpotFits DEF Spot
    <3> QED
      BY <3>1 DEF Held
  <2> QED
    BY <2>1, <2>3
<1> QED
  BY <1>1, <1>2 DEF QuantumInv, MapInv, AreaTyped

LEMMA Rows == ASSUME NEW q \in Nat, NEW s \in Nat, NEW i \in Nat, NEW j \in Nat
              PROVE q * ((s * i) + j) = ((q * s) * i) + (q * j)
  OBVIOUS

(* A page that nopage finds by counting pages is the quantum of its address.  *)
LEMMA PageSpot ==
  ASSUME QuantumInv, device \in Paged, NEW a \in Positions, a % Page = 0
  PROVE  /\ Quantum = Page
         /\ Spot(a).item = (a \div Page) \div geo.qset
         /\ Spot(a).slot = (a \div Page) % geo.qset
         /\ Spot(a).off = 0
<1> DEFINE s == geo.qset
           pg == a \div Page
           i == pg \div s
           j == pg % s
           c == [at |-> a, q |-> Quantum, s |-> s]
<1>1. Quantum = Page
  BY FitQuantum DEF QuantumInv, AreaFits, Quantum, Devices, Paged
<1>2. s \in Nat \ {0} /\ Page \in Nat \ {0} /\ a \in Nat
  BY AreaAssumption DEF QuantumInv, MapInv, AreaTyped, Geometry, Positions
<1>3. a = Page * pg /\ pg \in Nat
  BY <1>2, DivMod
<1> HIDE DEF s, pg
<1>4. pg = (s * i) + j /\ i \in Nat /\ j \in Nat /\ j < s
  BY <1>2, <1>3, DivMod
<1> HIDE DEF i, j
<1>5. a = ((Page * s) * i) + ((Page * j) + 0)
  <2>1. Page * ((s * i) + j) = ((Page * s) * i) + (Page * j)
    BY <1>2, <1>4, Rows
  <2>2. Page * j \in Nat
    BY <1>2, <1>4
  <2>3. a = ((Page * s) * i) + (Page * j)
    BY <1>3, <1>4, <2>1
  <2> QED
    BY <2>2, <2>3
<1>6. /\ c.at = ((c.q * c.s) * i) + ((c.q * j) + 0)
      /\ c.at \in Nat /\ c.q \in Nat \ {0} /\ c.s \in Nat \ {0} /\ j < c.s /\ 0 < c.q
  BY <1>1, <1>2, <1>4, <1>5
<1> HIDE DEF c
<1>7. Locate(c).item = i /\ Locate(c).slot = j /\ Locate(c).off = 0
  BY <1>4, <1>6, OnlyThere
<1> QED
  BY <1>1, <1>7 DEF Spot, c, s, pg, i, j

LEMMA NopageReads ==
  ASSUME QuantumInv, device \in Paged, NEW f \in AreaFiles, Nopage(f)
  PROVE  Array!Read
<1>1. PICK a \in Positions :
        LET e == <<(a \div Page) \div geo.qset, (a \div Page) % geo.qset>>
        IN  /\ a < size /\ a % Page = 0 /\ block[e] # <<>>
            /\ got' = [at |-> a, bytes |-> SubSeq(block[e], 1, Lesser(Page, size - a))]
  BY DEF Nopage
<1> DEFINE l == Spot(a)
           b == block[<<l.item, l.slot>>]
           m == Lesser(Page, size - a)
<1>2. /\ Quantum = Page /\ l.off = 0
      /\ <<l.item, l.slot>> = <<(a \div Page) \div geo.qset, (a \div Page) % geo.qset>>
  BY <1>1, PageSpot
<1>3. m \in Nat /\ a + m <= size /\ m <= Page
  <2>1. a \in Nat /\ size \in Nat /\ Page \in Nat
    BY AreaAssumption DEF Positions, QuantumInv, AreaFits
  <2> QED
    BY <1>1, <2>1 DEF Lesser
<1> HIDE DEF m
<1>4. l.off + m <= Quantum /\ l.off + 1 = 1 /\ l.off + m = m
  BY <1>2, <1>3, AreaAssumption
<1>5. b # <<>> /\ got' = [at |-> a, bytes |-> SubSeq(b, l.off + 1, l.off + m)]
  BY <1>1, <1>2, <1>4 DEF m
<1>6. UNCHANGED <<device, area>> /\ device \in Devices
  BY DEF Nopage, mem, Devices, Paged
<1> HIDE DEF l, b
<1> QED
  BY <1>3, <1>4, <1>5, <1>6, ReadArray DEF l, b

LEMMA TransferArray ==
  ASSUME QuantumInv, QuantumInv', device \in Devices, NEW f \in AreaFiles, Transfers(f)
  PROVE  ArrayNext
<1> DEFINE c == call[f]
           l == Locate(c)
<1>1. ASSUME c.op \in {"read", "write"} PROVE c.at \in Positions /\ l = Spot(c.at)
  <2>1. c \in Calls /\ c.at \in Positions /\ c.q = Quantum /\ c.s = geo.qset
    BY <1>1 DEF QuantumInv, CallsFit, Current
  <2>2. Locate(c) = Locate([at |-> c.at, q |-> Quantum, s |-> geo.qset])
    BY <2>1 DEF Locate
  <2> QED
    BY <2>1, <2>2 DEF Spot
<1>2. CASE ReadLocked(f)
  <2> DEFINE b == block[<<l.item, l.slot>>]
  <2>1. c.at \in Positions /\ l = Spot(c.at)
    BY <1>1, <1>2 DEF ReadLocked
  <2>2. UNCHANGED <<device, area>>
    BY <1>2, ReadOutcome DEF mem
  <2>3. CASE got' = Nothing
    BY <2>2, <2>3, OtherArray DEF ArrayNext
  <2>4. CASE got' # Nothing
    <3>1. PICK m \in Nat : /\ c.at + m <= size /\ l.off + m <= Quantum /\ b # <<>>
                           /\ got' = [at |-> c.at, bytes |-> SubSeq(b, l.off + 1, l.off + m)]
      BY <1>2, <2>4, ReadOutcome
    <3> HIDE DEF c, l, b
    <3>2. Array!Read
      BY <2>1, <2>2, <3>1, ReadArray DEF b
    <3> QED
      BY <3>2 DEF ArrayNext
  <2> QED
    BY <2>3, <2>4
<1>3. CASE WriteLocked(f, NewLength(f), Cleared)
  <2> DEFINE e == <<l.item, l.slot>>
  <2>1. c.op = "write"
    BY <1>3 DEF WriteLocked
  <2>2. c.at \in Positions /\ l = Spot(c.at)
    BY <1>1, <2>1
  <2>3. /\ UNCHANGED <<device, param, geo, wild>> /\ got' = Nothing
        /\ \/ Ends(f, 0) /\ UNCHANGED mem
           \/ \E d \in AreaData, m \in Nat, b \in Seq(Bytes) :
                 /\ l.off + m <= Quantum /\ Quantum <= Len(b) /\ c.at + m <= MaxPos
                 /\ block[e] # <<>> => b = block[e]
                 /\ block[e] = <<>> => \A i \in 1 .. Len(b) : b[i] = Unwritten
                 /\ table' = [table EXCEPT ![l.item] = geo.qset]
                 /\ block' = [block EXCEPT ![e] = Patched(b, l.off, m, d)]
                 /\ size' = size \/ size' = Grown(c.at + m)
                 /\ \E k \in Nat : Ends(f, k)
    BY <1>3, <2>1, LengthFits, WriteOutcome
  <2> HIDE DEF l
  <2>4. CASE UNCHANGED mem
    BY <2>3, <2>4, OtherArray DEF ArrayNext, mem
  <2>5. ASSUME NEW d \in AreaData, NEW m \in Nat, NEW b \in Seq(Bytes),
               l.off + m <= Quantum, Quantum <= Len(b), c.at + m <= MaxPos,
               block[e] # <<>> => b = block[e],
               block[e] = <<>> => \A i \in 1 .. Len(b) : b[i] = Unwritten,
               block' = [block EXCEPT ![e] = Patched(b, l.off, m, d)],
               size' = size \/ size' = Grown(c.at + m)
        PROVE  ArrayNext
    <3> DEFINE a == c.at
    <3>1. Contents' = Overwritten(a, m, d)
      <4>1. a \in Positions /\ l = Spot(a) /\ UNCHANGED <<device, geo>>
        BY <2>2, <2>3
      <4> HIDE DEF a
      <4> QED
        BY <4>1, <2>5, StoredBytes
    <3>2. a \in 0 .. MaxPos /\ a + m \in a .. MaxPos /\ Positions = 0 .. MaxPos - 1
      BY <2>2, <2>5, AreaAssumption DEF Positions
    <3>3. got' = Nothing
      BY <2>3
    <3> HIDE DEF c
    <3> DEFINE end == a + m
    <3>4. /\ a \in 0 .. MaxPos /\ end \in a .. MaxPos
          /\ Contents' = [p \in 0 .. MaxPos - 1 |-> IF p \in a .. end - 1 THEN d ELSE Contents[p]]
          /\ size' \in {size, IF size < end THEN end ELSE size}
      BY <2>5, <3>1, <3>2 DEF Grown, Overwritten
    <3> HIDE DEF a, end
    <3>5. Array!Write
      BY <3>3, <3>4 DEF Array!Write, Array!Nothing, Nothing
    <3> QED
      BY <3>5 DEF ArrayNext
  <2> HIDE DEF c, e
  <2> QED
    BY <2>3, <2>4, <2>5
<1>4. CASE ~ ReadLocked(f) /\ ~ WriteLocked(f, NewLength(f), Cleared)
  <2>1. UNCHANGED <<device, area>> /\ got' = Nothing
    BY <1>4 DEF Transfers, Enters, Aio, DeferOp, NextSegment, Deferred, DoDeferredOp, mem
  <2> QED
    BY <2>1, OtherArray DEF ArrayNext
<1> QED
  BY <1>2, <1>3, <1>4

LEMMA TrimEmpties ==
  ASSUME QuantumInv', Trim, got' = Nothing
  PROVE  Array!Empty
<1>1. size' = 0 /\ \A e \in Entries : block'[e] = <<>>
  BY DEF Trim
<1>2. (QuantumInv /\ (\A e \in Entries : block[e] = <<>>) => Contents = [p \in Positions |-> Unwritten])'
  BY EmptyContents, PTL
<1>3. Contents' = [p \in Positions |-> Unwritten]
  BY <1>1, <1>2
<1> QED
  BY <1>1, <1>3 DEF Array!Empty, Array!Nothing, Nothing, Positions

LEMMA ArrayStep ==
  ASSUME QuantumInv, QuantumInv', [AreaNext]_areaVars
  PROVE  [ArrayNext]_ArrayVars
<1>1. ASSUME NEW d \in Devices, Load(d) PROVE ArrayNext
  <2>1. device = "none" /\ size' = size /\ block' = block /\ got' = Nothing
    BY <1>1 DEF Load
  <2>2. \A e \in Entries : block[e] = <<>>
    BY <2>1 DEF QuantumInv, AreaFits
  <2>3. (QuantumInv /\ (\A e \in Entries : block[e] = <<>>) => Contents = [p \in Positions |-> Unwritten])'
    BY EmptyContents, PTL
  <2>4. Contents' = Contents
    BY <2>1, <2>2, <2>3, EmptyContents
  <2>5. Array!Other
    BY <2>1, <2>4 DEF Array!Other, Array!Nothing, Nothing
  <2> QED
    BY <2>5 DEF ArrayNext
<1>2. ASSUME NEW d \in Devices, Unload(d, TrimOf(d)) PROVE ArrayNext
  <2>1. Trim /\ got' = Nothing
    BY <1>2, UnloadTrims DEF Unload, QuantumInv
  <2> QED
    BY <2>1, TrimEmpties DEF ArrayNext
<1>3. ASSUME NEW f \in AreaFiles, Opens(f) PROVE ArrayNext
  <2>1. got' = Nothing /\ device' = device /\ (Trim \/ Keeps)
    BY <1>3 DEF Opens, OpenFile, TrimOf, TrimUnmapped, Keeps
  <2>2. CASE Trim
    BY <2>1, <2>2, TrimEmpties DEF ArrayNext
  <2>3. CASE Keeps
    BY <2>1, <2>3, OtherArray DEF ArrayNext, Keeps
  <2> QED
    BY <2>1, <2>2, <2>3
<1>4. ASSUME NEW f \in AreaFiles, Ioctl(f, UnitsOf(device)) \/ Seek(f) \/ Release(f) PROVE ArrayNext
  <2>1. UNCHANGED <<device, area>> /\ got' = Nothing
    BY <1>4 DEF Ioctl, Seek, Release, mem, area
  <2> QED
    BY <2>1, OtherArray DEF ArrayNext
<1>5. ASSUME NEW f \in AreaFiles, Maps(f) PROVE ArrayNext
  <2>1. CASE Nopage(f)
    BY <1>5, <2>1, NopageReads DEF Maps, ArrayNext
  <2>2. CASE ~ Nopage(f)
    <3>1. UNCHANGED <<device, area>> /\ got' = Nothing
      BY <1>5, <2>2 DEF Maps, Mmap, VmaOpen, VmaClose, VmaLoads, VmaStores, mem
    <3> QED
      BY <3>1, OtherArray DEF ArrayNext
  <2> QED
    BY <2>1, <2>2
<1>6. CASE UNCHANGED areaVars
  <2>1. UNCHANGED <<device, area>> /\ got' = got
    BY <1>6 DEF areaVars, mem
  <2> QED
    BY <2>1, SameContents DEF ArrayVars
<1>7. ASSUME NEW f \in AreaFiles, device \in Devices, Transfers(f) PROVE ArrayNext
  BY <1>7, TransferArray
<1>8. ASSUME NEW f \in AreaFiles, Kind(f) PROVE ArrayNext
  BY <1>1, <1>2, <1>3, <1>4, <1>5, <1>7, <1>8 DEF Kind
<1> QED
  BY <1>6, <1>8, Kinds

(* Every way in, read(), write(), a fault of a mapping, an asynchronous       *)
(* operation, of every driver, sees one array of bytes (main.c:286-382,       *)
(* mmap.c:60-97 of the drivers): a byte is found where it was written, by     *)
(* division in one driver and by counting pages in another, for any area,     *)
(* files, counts, faults and geometries, which ioctl may change at any time,  *)
(* under the hypotheses of AccessInQuantum.                                   *)
THEOREM OneArray ==
  ASSUME UnitsFit, ~ Overlap
  PROVE  AreaSpec => IsSparseArray
<1>1. AreaInit => QuantumInv /\ Array!Init
  <2> SUFFICES ASSUME AreaInit PROVE QuantumInv /\ Array!Init
    OBVIOUS
  <2>1. QuantumInv
    BY QuantumInit
  <2>2. Contents = [p \in Positions |-> Unwritten]
    BY DEF AreaInit, Contents
  <2> QED
    BY <2>1, <2>2 DEF AreaInit, Array!Init, Array!Nothing, Nothing, Positions
<1>2. QuantumInv /\ [AreaNext]_areaVars => QuantumInv'
  BY QuantumStep
<1>3. QuantumInv /\ QuantumInv' /\ [AreaNext]_areaVars => [ArrayNext]_ArrayVars
  BY ArrayStep
<1> QED
  BY <1>1, <1>2, <1>3, PTL DEF AreaSpec, IsSparseArray, Array!Spec, ArrayNext, ArrayVars
=============================================================================
