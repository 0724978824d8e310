----------------------------- MODULE ScullArea ------------------------------
(***************************************************************************)
(* One device of the scull family (scull, scullc, scullp, scullv, sculld):  *)
(* a list of quantum sets, each a table of pointers to quanta.  This module *)
(* holds the operations as scull/main.c has them, with what the other       *)
(* drivers do otherwise as parameters; ScullDevices puts them together.     *)
(*                                                                          *)
(* A position is an item, a slot and an offset, computed with the geometry  *)
(* that a call has read before it took the mutex; the section under the     *)
(* mutex is one step.  A list item without a table tells nothing apart from *)
(* no item.                                                                 *)
(*                                                                          *)
(* Definitions introduced as a slip serve to test the properties only.      *)
(***************************************************************************)
EXTENDS Integers, Sequences, FiniteSets

CONSTANTS
    AreaRdwr, AreaWronly,  \* files opened O_RDWR, and O_WRONLY
    AreaMappers,           \* those whose process maps the device and uses AIO
    AreaData, Unwritten,   \* values of a byte, and of one never written
    MaxPos,                \* bytes of the area
    Page,                  \* PAGE_SIZE
    Quanta, Orders, Qsets, \* values given to the parameters by ioctl
    DefUnit, DefQset,      \* their defaults; DefUnit by device
    AreaCounts,            \* count of read and write
    AreaFaults,            \* may memory run out and user copies fail?
    Overlap                \* may calls overlap?  A trim may then come between the
                           \* geometry a call reads and its lock, and two vmas++
                           \* may be lost in each other

AreaFiles == AreaRdwr \cup AreaWronly
Devices   == {"scull", "scullc", "scullp", "scullv", "sculld"}
Positions == 0 .. MaxPos - 1

ASSUME AreaAssumption ==
    /\ IsFiniteSet(AreaFiles)
    /\ MaxPos \in Nat \ {0} /\ Page \in Nat \ {0}
    /\ Quanta \subseteq Nat \ {0} /\ Orders \subseteq Nat /\ Qsets \subseteq Nat \ {0}
    /\ DefUnit \in [Devices -> Nat] /\ DefQset \in Nat \ {0}
    /\ AreaCounts \subseteq Nat \ {0}
    /\ Unwritten \notin AreaData
    /\ AreaFaults \in BOOLEAN /\ Overlap \in BOOLEAN

VARIABLES
    device,   \* which driver
    param,    \* the module's parameters: unit (quantum or order), qset
    geo,      \* dev->quantum or dev->order, dev->qset
    size,     \* dev->size
    table,    \* length of the table of each item, 0 when there is none
    block,    \* the quanta: <<>> where there is none
    vmas,     \* dev->vmas
    call,     \* the call in progress on each file
    fpos,     \* f_pos
    vma,      \* the mapping of each file's process
    aio,      \* files with a queued asynchronous completion
    got,      \* history: the bytes that this step has read
    wild      \* history: an access outside of what was allocated

area     == <<geo, size, table, block>>
mem      == <<param, area>>
areaVars == <<device, mem, vmas, call, fpos, vma, aio, got, wild>>

\* op: what the call does next; at: its position; q, s: the geometry it has
\* read; segs: segments of an asynchronous operation yet to come.
NoCall == [op |-> "idle", at |-> 0, n |-> 0, q |-> 1, s |-> 1, segs |-> 0]
\* seen: the count of mappings it has read; page: the quantum it was given last.
NoVma  == [pc |-> "none", seen |-> 0, page |-> <<>>]

Nothing == [at |-> 0, bytes |-> <<>>]

Entries == Positions \X Positions

NoGeo == [unit |-> 0, qset |-> 1]

\* No driver is loaded; files stand for those that may be opened.
AreaInit ==
    /\ device = "none"
    /\ param = NoGeo /\ geo = NoGeo
    /\ size = 0 /\ vmas = 0
    /\ table = [i \in Positions |-> 0]
    /\ block = [e \in Entries |-> <<>>]
    /\ call = [f \in AreaFiles |-> [NoCall EXCEPT !.op = "closed"]]
    /\ fpos = [f \in AreaFiles |-> 0]
    /\ vma = [f \in AreaFiles |-> NoVma]
    /\ aio = {}
    /\ got = Nothing
    /\ wild = FALSE

Lesser(a, b) == IF a < b THEN a ELSE b

\* The quantum of a device that counts in bytes, and of one that counts in pages.
ByteQuantum == geo.unit
PageQuantum == Page * 2 ^ geo.unit

Locate(c) == LET rest == c.at % (c.q * c.s)
             IN  [item |-> c.at \div (c.q * c.s), slot |-> rest \div c.q, off |-> rest % c.q]

\* No other call is in progress, if calls do not overlap.
Quiet == Overlap \/ \A f \in AreaFiles : /\ call[f].op \in {"idle", "closed"}
                                        /\ vma[f].pc \in {"none", "mapped"}

Sets(f, c) == call' = [call EXCEPT ![f] = c]
Idle(f)    == Sets(f, NoCall)

-----------------------------------------------------------------------------
(* Load and unload, open, release, trim                                      *)

\* A load that fails leaves nothing.
Load(d) ==
    /\ device = "none" /\ device' = d
    /\ param' = [unit |-> DefUnit[d], qset |-> DefQset]
    /\ geo' = param'
    /\ got' = Nothing
    /\ UNCHANGED <<size, table, block, vmas, call, fpos, vma, aio, wild>>

\* All quanta go; a table of another length than dev->qset is overrun.
Trim ==
    /\ wild' = (wild \/ \E i \in Positions : table[i] \notin {0, geo.qset})
    /\ table' = [i \in Positions |-> 0]
    /\ block' = [e \in Entries |-> <<>>]
    /\ size' = 0
    /\ geo' = param

\* Slip: a mapped area is trimmed.
TrimMapped == Trim

\* The drivers with vmas: not while there are active mappings.
TrimUnmapped == \/ vmas = 0 /\ Trim
                \/ vmas # 0 /\ UNCHANGED <<area, wild>>

\* trims: how the driver's cleanup does it.
Unload(d, trims) ==
    /\ device = d /\ device' = "none"
    /\ \A f \in AreaFiles : call[f].op = "closed"
    /\ trims /\ param' = NoGeo
    /\ got' = Nothing
    /\ UNCHANGED <<vmas, call, fpos, vma, aio>>

OpenFile(f) ==
    /\ call[f].op = "closed" /\ Quiet
    /\ Idle(f) /\ got' = Nothing
    /\ UNCHANGED <<device, param, vmas, fpos, vma, aio>>

Keeps == UNCHANGED <<area, wild>>

Release(f) ==
    /\ call[f].op = "idle" /\ Quiet /\ f \notin aio /\ vma[f].pc = "none"
    /\ Sets(f, [NoCall EXCEPT !.op = "closed"])
    /\ fpos' = [fpos EXCEPT ![f] = 0]
    /\ got' = Nothing /\ UNCHANGED <<device, mem, vmas, vma, aio, wild>>

-----------------------------------------------------------------------------
(* read and write: the geometry is read, then the mutex taken.               *)

Enters(f, op, q) ==
    /\ call[f].op = "idle" /\ Quiet
    /\ f \in AreaRdwr \/ op = "write"
    /\ fpos[f] < MaxPos
    /\ \E n \in AreaCounts :
          Sets(f, [NoCall EXCEPT !.op = op, !.at = fpos[f], !.n = n, !.q = q, !.s = geo.qset])
    /\ got' = Nothing /\ UNCHANGED <<device, mem, vmas, fpos, vma, aio, wild>>

\* The call ends having moved n bytes; an asynchronous one, whose position is
\* its own, goes on to its next segment.
Ends(f, n) ==
    LET c == call[f]
    IN  IF c.segs = 0
        THEN Idle(f) /\ fpos' = [fpos EXCEPT ![f] = c.at + n]
        ELSE /\ Sets(f, [c EXCEPT !.op = "segment", !.at = c.at + n])
             /\ UNCHANGED fpos

Runaway(f) == wild' = TRUE /\ Ends(f, 0) /\ got' = Nothing /\ UNCHANGED mem

\* Slip: the read does not stop at the end of the quantum.
ReadCountAll(c, off) == Lesser(c.n, size - c.at)

ReadCount(c, off) == Lesser(Lesser(c.n, size - c.at), c.q - off)

ReadLocked(f) ==
    LET c == call[f]
        l == Locate(c)
        b == block[<<l.item, l.slot>>]
        n == ReadCount(c, l.off)
    IN  /\ c.op = "read"
        /\ \/ /\ c.at >= size \/ table[l.item] = 0 \/ (l.slot < table[l.item] /\ b = <<>>)
              /\ Ends(f, 0)
              /\ got' = Nothing /\ UNCHANGED <<mem, wild>>
           \/ /\ c.at < size /\ table[l.item] # 0
              /\ l.slot >= table[l.item] \/ (b # <<>> /\ l.off + n > Len(b))
              /\ Runaway(f)
           \/ /\ c.at < size /\ l.slot < table[l.item] /\ b # <<>> /\ l.off + n <= Len(b)
              /\ \/ got' = [at |-> c.at, bytes |-> SubSeq(b, l.off + 1, l.off + n)] /\ Ends(f, n)
                 \/ AreaFaults /\ Ends(f, 0) /\ got' = Nothing
              /\ UNCHANGED <<mem, wild>>
        /\ UNCHANGED <<device, vmas, vma, aio>>

\* Slip: the size becomes the end of the last write.
GrownTo(end) == end

Grown(end) == IF size < end THEN end ELSE size

\* length: of a new quantum, by item; cleared: bytes set to 0 in it.
WriteLocked(f, length, cleared) ==
    LET c == call[f]
        l == Locate(c)
        e == <<l.item, l.slot>>
        n == Lesser(c.n, c.q - l.off)
        t == IF table[l.item] = 0 THEN c.s ELSE table[l.item]
        b == IF block[e] = <<>> THEN [i \in 1 .. length[l.item] |-> Unwritten] ELSE block[e]
        Store(d, m) ==
            /\ table' = [table EXCEPT ![l.item] = t]
            /\ block' = [block EXCEPT ![e] =
                  [i \in 1 .. Len(b) |-> IF i \in l.off + 1 .. l.off + m THEN d ELSE b[i]]]
            /\ got' = Nothing /\ UNCHANGED <<param, geo, wild>>
    IN  /\ c.op = "write"
        /\ c.at + n <= MaxPos
        /\ \/ /\ l.slot >= t \/ l.off + n > Len(b) \/ (block[e] = <<>> /\ cleared > Len(b))
              /\ Runaway(f)
           \/ /\ l.slot < t /\ l.off + n <= Len(b) /\ (block[e] = <<>> => cleared <= Len(b))
              /\ \E d \in AreaData :
                    \/ /\ Store(d, n)
                       /\ size' = Grown(c.at + n)
                       /\ Ends(f, n)
                    \/ /\ AreaFaults                                \* copy_from_user
                       /\ \E m \in 0 .. n - 1 : Store(d, m)
                       /\ Ends(f, 0) /\ UNCHANGED size
           \/ AreaFaults /\ Ends(f, 0) /\ got' = Nothing /\ UNCHANGED <<mem, wild>>   \* no memory
        /\ UNCHANGED <<device, vmas, vma, aio>>

-----------------------------------------------------------------------------
(* ioctl and llseek                                                          *)

\* Reset, set, tell, exchange and shift; get and query change nothing.
Ioctl(f, units) ==
    /\ call[f].op = "idle" /\ Quiet
    /\ \/ param' = [unit |-> DefUnit[device], qset |-> DefQset]
       \/ \E u \in units : param' = [param EXCEPT !.unit = u]
       \/ \E s \in Qsets : param' = [param EXCEPT !.qset = s]
    /\ got' = Nothing /\ UNCHANGED <<device, geo, size, table, block, vmas, call, fpos, vma, aio, wild>>

\* SEEK_SET, SEEK_CUR and SEEK_END; a negative position is refused.
Seek(f) ==
    /\ call[f].op = "idle" /\ Quiet
    /\ \E base \in {0, fpos[f], size}, off \in {-1, 0, 1} :
          /\ base + off \in 0 .. MaxPos
          /\ fpos' = [fpos EXCEPT ![f] = base + off]
    /\ got' = Nothing /\ UNCHANGED <<device, mem, vmas, call, vma, aio, wild>>
=============================================================================
