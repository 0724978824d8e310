---------------------------- MODULE ScullDevices ----------------------------
(* The five drivers of the scull family over the operations of ScullArea,    *)
(* with mmap() and asynchronous I/O.  Definitions introduced as a slip serve *)
(* to test the properties only.                                              *)
EXTENDS ScullArea

On(d) == device = d

-----------------------------------------------------------------------------
(* Asynchronous I/O of scullc, scullp, scullv, sculld: *_defer_op moves the  *)
(* bytes of every segment at once; only its completion may be deferred.  The  *)
(* offset that a caller passes is its own position.                          *)

DeferOp(f, op, q, segments) ==
    /\ call[f].op = "idle" /\ Quiet /\ f \in AreaMappers \ aio
    /\ fpos[f] < MaxPos
    /\ \E n \in AreaCounts :
          Sets(f, [op |-> op, at |-> fpos[f], n |-> n, q |-> q, s |-> geo.qset, segs |-> segments])
    /\ got' = Nothing /\ UNCHANGED <<device, mem, vmas, fpos, vma, aio, wild>>

\* The next segment is a read or write of its own; it reads the geometry again.
NextSegment(f, op, q) ==
    /\ call[f].op = "segment" /\ call[f].segs > 1 /\ call[f].at < MaxPos
    /\ Sets(f, [call[f] EXCEPT !.op = op, !.q = q, !.s = geo.qset, !.segs = @ - 1])
    /\ got' = Nothing /\ UNCHANGED <<device, mem, vmas, fpos, vma, aio, wild>>

\* All segments done: a synchronous iocb, or one without memory, completes now.
Deferred(f) ==
    /\ call[f].op = "segment" /\ (call[f].segs = 1 \/ call[f].at = MaxPos)
    /\ Idle(f)
    /\ aio' = aio \cup {f} \/ UNCHANGED aio
    /\ got' = Nothing /\ UNCHANGED <<device, mem, vmas, fpos, vma, wild>>

\* aio_complete()
DoDeferredOp(f) ==
    /\ f \in aio /\ Quiet
    /\ aio' = aio \ {f}
    /\ got' = Nothing /\ UNCHANGED <<device, mem, vmas, call, fpos, vma, wild>>

Aio(f, q, segments) ==
    \/ \E op \in {"read", "write"} : DeferOp(f, op, q, segments)
    \/ \E op \in {"read", "write"} : NextSegment(f, op, q)
    \/ Deferred(f)

-----------------------------------------------------------------------------
(* Mappings.  dev->vmas is a plain int: vmas++ and vmas-- read it and write   *)
(* it back.                                                                   *)

VmaLoads(f, from, to) ==
    /\ vma[f].pc = from /\ Quiet
    /\ vma' = [vma EXCEPT ![f] = [pc |-> to, seen |-> vmas, page |-> <<>>]]
    /\ got' = Nothing /\ UNCHANGED <<device, mem, vmas, call, fpos, aio, wild>>

VmaStores(f, from, to, d) ==
    /\ vma[f].pc = from
    /\ vmas' = vma[f].seen + d
    /\ vma' = [vma EXCEPT ![f] = [NoVma EXCEPT !.pc = to]]
    /\ got' = Nothing /\ UNCHANGED <<device, mem, call, fpos, aio, wild>>

Mmap(f)     == call[f].op = "idle" /\ f \in AreaMappers /\ VmaLoads(f, "none", "opening")
VmaOpen(f)  == VmaStores(f, "opening", "mapped", 1)
VmaClose(f) == VmaLoads(f, "mapped", "closing") \/ VmaStores(f, "closing", "none", -1)

\* nopage: pages are counted without a look at the order.
Nopage(f) ==
    /\ vma[f].pc = "mapped" /\ Quiet
    /\ \E at \in {p \in Positions : p < size /\ p % Page = 0} :
          LET pg == at \div Page
              e  == <<pg \div geo.qset, pg % geo.qset>>
          IN  /\ table[e[1]] # 0 /\ block[e] # <<>>
              /\ vma' = [vma EXCEPT ![f].page = e]
              /\ got' = [at |-> at, bytes |-> SubSeq(block[e], 1, Lesser(Page, size - at))]
    /\ UNCHANGED <<device, mem, vmas, call, fpos, aio, wild>>

-----------------------------------------------------------------------------
(* scull                                                                     *)
scull_open(f)   == On("scull") /\ OpenFile(f)
                   /\ IF f \in AreaWronly THEN Trim ELSE Keeps
scull_read(f)   == On("scull") /\ (Enters(f, "read", ByteQuantum) \/ ReadLocked(f))
scull_write(f)  == On("scull") /\ \/ Enters(f, "write", ByteQuantum)
                                  \/ WriteLocked(f, [i \in Positions |-> call[f].q], 0)
scull_ioctl(f)     == On("scull") /\ Ioctl(f, Quanta)
scull_llseek(f) == On("scull") /\ Seek(f)
scull_init_module == Load("scull")
scull_cleanup_module == Unload("scull", Trim)
scull(f) == \/ scull_init_module \/ scull_cleanup_module \/ scull_open(f) \/ scull_read(f)
            \/ scull_write(f) \/ scull_ioctl(f) \/ scull_llseek(f)

-----------------------------------------------------------------------------
(* scullc: quanta from a slab cache, whose objects keep the size that the    *)
(* quantum had when the module was loaded.  Its fops have no mmap.           *)
CacheObject == DefUnit["scullc"]

scullc_trim == TrimUnmapped
scullc_open(f)   == On("scullc") /\ OpenFile(f)
                    /\ IF f \in AreaWronly THEN scullc_trim ELSE Keeps
scullc_read(f)   == On("scullc") /\ (Enters(f, "read", ByteQuantum) \/ ReadLocked(f))
scullc_write(f)  == On("scullc") /\ \/ Enters(f, "write", ByteQuantum)
                                    \/ WriteLocked(f, [i \in Positions |-> CacheObject], param.unit)
scullc_ioctl(f)     == On("scullc") /\ Ioctl(f, Quanta)
scullc_llseek(f) == On("scullc") /\ Seek(f)
scullc_aio(f)    == On("scullc") /\ Aio(f, ByteQuantum, 2)
scullc_do_deferred_op(f) == On("scullc") /\ DoDeferredOp(f)
scullc_init == Load("scullc")
scullc_cleanup == Unload("scullc", scullc_trim)
scullc(f) == \/ scullc_init \/ scullc_cleanup
             \/ scullc_open(f) \/ scullc_read(f) \/ scullc_write(f) \/ scullc_ioctl(f)
             \/ scullc_llseek(f) \/ scullc_aio(f) \/ scullc_do_deferred_op(f)

-----------------------------------------------------------------------------
(* scullp: quanta of whole pages.  The size of a new one is taken from its   *)
(* list item, whose order is 0 for every item but the first.                 *)
OrderPages == [i \in Positions |-> IF i = 0 THEN PageQuantum ELSE Page]

scullp_trim == TrimUnmapped
scullp_open(f)   == On("scullp") /\ OpenFile(f)
                    /\ IF f \in AreaWronly THEN scullp_trim ELSE Keeps
scullp_read(f)   == On("scullp") /\ (Enters(f, "read", PageQuantum) \/ ReadLocked(f))
scullp_write(f)  == On("scullp") /\ \/ Enters(f, "write", PageQuantum)
                                    \/ WriteLocked(f, OrderPages, 0)
scullp_ioctl(f)     == On("scullp") /\ Ioctl(f, Orders)
scullp_llseek(f) == On("scullp") /\ Seek(f)
scullp_aio(f)    == On("scullp") /\ Aio(f, PageQuantum, 2)
scullp_do_deferred_op(f) == On("scullp") /\ DoDeferredOp(f)
scullp_mmap(f)   == On("scullp") /\ geo.unit = 0 /\ Mmap(f)
scullp_vma_open_close(f) == On("scullp") /\ (VmaOpen(f) \/ VmaClose(f))
scullp_vma_nopage(f)     == On("scullp") /\ Nopage(f)
scullp_init == Load("scullp")
scullp_cleanup == Unload("scullp", scullp_trim)
scullp(f) == \/ scullp_init \/ scullp_cleanup
             \/ scullp_open(f) \/ scullp_read(f) \/ scullp_write(f) \/ scullp_ioctl(f)
             \/ scullp_llseek(f) \/ scullp_aio(f) \/ scullp_do_deferred_op(f)
             \/ scullp_mmap(f) \/ scullp_vma_open_close(f) \/ scullp_vma_nopage(f)

-----------------------------------------------------------------------------
(* scullv: the pages are virtual, and may be mapped whatever the order.      *)
scullv_trim == TrimUnmapped
scullv_open(f)   == On("scullv") /\ OpenFile(f)
                    /\ IF f \in AreaWronly THEN scullv_trim ELSE Keeps
scullv_read(f)   == On("scullv") /\ (Enters(f, "read", PageQuantum) \/ ReadLocked(f))
scullv_write(f)  == On("scullv") /\ \/ Enters(f, "write", PageQuantum)
                                    \/ WriteLocked(f, OrderPages, 0)
scullv_ioctl(f)     == On("scullv") /\ Ioctl(f, Orders)
scullv_llseek(f) == On("scullv") /\ Seek(f)
scullv_aio(f)    == On("scullv") /\ Aio(f, PageQuantum, 2)
scullv_do_deferred_op(f) == On("scullv") /\ DoDeferredOp(f)
scullv_mmap(f)   == On("scullv") /\ Mmap(f)
scullv_vma_open_close(f) == On("scullv") /\ (VmaOpen(f) \/ VmaClose(f))
scullv_vma_nopage(f)     == On("scullv") /\ Nopage(f)
scullv_init == Load("scullv")
scullv_cleanup == Unload("scullv", scullv_trim)
scullv(f) == \/ scullv_init \/ scullv_cleanup
             \/ scullv_open(f) \/ scullv_read(f) \/ scullv_write(f) \/ scullv_ioctl(f)
             \/ scullv_llseek(f) \/ scullv_aio(f) \/ scullv_do_deferred_op(f)
             \/ scullv_mmap(f) \/ scullv_vma_open_close(f) \/ scullv_vma_nopage(f)

-----------------------------------------------------------------------------
(* sculld: scullp on the lddbus, with asynchronous operations of one segment. *)
sculld_trim == TrimUnmapped
sculld_open(f)   == On("sculld") /\ OpenFile(f)
                    /\ IF f \in AreaWronly THEN sculld_trim ELSE Keeps
sculld_read(f)   == On("sculld") /\ (Enters(f, "read", PageQuantum) \/ ReadLocked(f))
sculld_write(f)  == On("sculld") /\ \/ Enters(f, "write", PageQuantum)
                                    \/ WriteLocked(f, OrderPages, 0)
sculld_ioctl(f)     == On("sculld") /\ Ioctl(f, Orders)
sculld_llseek(f) == On("sculld") /\ Seek(f)
sculld_aio(f)    == On("sculld") /\ Aio(f, PageQuantum, 1)
sculld_do_deferred_op(f) == On("sculld") /\ DoDeferredOp(f)
sculld_mmap(f)   == On("sculld") /\ geo.unit = 0 /\ Mmap(f)
sculld_vma_open_close(f) == On("sculld") /\ (VmaOpen(f) \/ VmaClose(f))
sculld_vma_nopage(f)     == On("sculld") /\ Nopage(f)
sculld_init == Load("sculld")
sculld_cleanup == Unload("sculld", sculld_trim)
sculld(f) == \/ sculld_init \/ sculld_cleanup
             \/ sculld_open(f) \/ sculld_read(f) \/ sculld_write(f) \/ sculld_ioctl(f)
             \/ sculld_llseek(f) \/ sculld_aio(f) \/ sculld_do_deferred_op(f)
             \/ sculld_mmap(f) \/ sculld_vma_open_close(f) \/ sculld_vma_nopage(f)

AreaNext == \E f \in AreaFiles : \/ scull(f) \/ scullc(f) \/ scullp(f) \/ scullv(f) \/ sculld(f)
                                 \/ Release(f)

AreaSpec == AreaInit /\ [][AreaNext]_areaVars

-----------------------------------------------------------------------------
\* The byte at a position, by the geometry of the device.
ByteAt(p) ==
    LET q == IF device \in {"scull", "scullc"} THEN ByteQuantum ELSE PageQuantum
        l == Locate([at |-> p, q |-> q, s |-> geo.qset])
        b == block[<<l.item, l.slot>>]
    IN  IF table[l.item] = 0 \/ b = <<>> \/ l.off >= Len(b) THEN Unwritten ELSE b[l.off + 1]

(* Every way in, read(), write(), a fault of a mapping, an asynchronous       *)
(* operation, sees one array of bytes, although each finds its quantum in     *)
(* code of its own and the parameters may change at any time (main.c:286-382, *)
(* mmap.c:60-97 of the drivers).                                              *)
Contents == [p \in Positions |-> IF device = "none" THEN Unwritten ELSE ByteAt(p)]
Array == INSTANCE ScullArray WITH Data <- AreaData, contents <- Contents
IsSparseArray == Array!Spec

(* "read only up to the end of this quantum" (scull/main.c:314), "write only  *)
(* up to the end" (:364): no access leaves the memory that was allocated.     *)
InQuantum == ~wild

(* A page that a mapping has been given stays part of the device: whoever     *)
(* opens it for writing, it is not trimmed ("to avoid releasing it",          *)
(* scullp/mmap.c:29).                                                         *)
PagesStay ==
    \A f \in AreaFiles : vma[f].pc = "mapped" /\ vma[f].page # <<>> =>
        block[vma[f].page] # <<>>
=============================================================================
