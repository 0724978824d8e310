------------------------------ MODULE UsbSkel -------------------------------
(***************************************************************************)
(* The USB skeleton driver, usb/usb-skeleton.c: a usb_skel structure is     *)
(* shared by the interface it belongs to and by the files that are open on  *)
(* it, and goes with the last of them.  The device may be pulled out, and   *)
(* another one plugged in, while files are open and writes are in flight.   *)
(*                                                                          *)
(* The USB core calls probe and disconnect one after the other, and takes   *)
(* back the URBs of an interface before its disconnect; the character       *)
(* device layer calls open under the big kernel lock.  What is transferred  *)
(* is left out.  Definitions introduced as a slip serve to test the         *)
(* properties only.                                                         *)
(***************************************************************************)
EXTENDS Integers, FiniteSets

CONSTANTS
    SkFiles,
    SkDevs,   \* the usb_skel structures, one for each time a device is plugged in
    NoSkel

ASSUME SkAssumption == IsFiniteSet(SkFiles) /\ NoSkel \notin SkDevs

VARIABLES
    skDriver,   \* is the driver registered?
    skIntf,     \* usb_get_intfdata() of the interface with our minor
    skMinor,    \* is the minor registered?
    skLeaving,  \* the structure that disconnect is about to put
    skRef,      \* kref of each structure; 0 before it is made and when it is gone
    skFreed,    \* structures that skel_delete() has freed
    skPc,       \* where each file is: closed, found (under the lock), open, reads, writes
    skData,     \* private_data of each file
    skUrbs      \* writes in flight: of a file, on a structure's device

skPlug  == <<skDriver, skIntf, skMinor, skLeaving>>
skCount == <<skRef, skFreed>>
skVars  == <<skPlug, skCount, skPc, skData, skUrbs>>

SkInit ==
    /\ skDriver = FALSE /\ skIntf = NoSkel /\ skMinor = FALSE /\ skLeaving = NoSkel
    /\ skRef = [d \in SkDevs |-> 0] /\ skFreed = {}
    /\ skPc = [f \in SkFiles |-> "closed"]
    /\ skData = [f \in SkFiles |-> NoSkel]
    /\ skUrbs = {}

\* kref_get(), and kref_put() with skel_delete().
SkGet(d) == skRef' = [skRef EXCEPT ![d] = @ + 1] /\ UNCHANGED skFreed
SkPut(d) == /\ skRef' = [skRef EXCEPT ![d] = @ - 1]
            /\ skFreed' = IF skRef[d] = 1 THEN skFreed \cup {d} ELSE skFreed

\* lock_kernel(): held by an open between its two steps.
SkLockFree == \A f \in SkFiles : skPc[f] # "found"

-----------------------------------------------------------------------------
(* The interface                                                             *)

usb_skel_init ==
    /\ ~ skDriver /\ skDriver' = TRUE
    /\ UNCHANGED <<skIntf, skMinor, skLeaving, skCount, skPc, skData, skUrbs>>

\* Everything has been unbound, and no file pins the module.
usb_skel_exit ==
    /\ skDriver /\ skIntf = NoSkel /\ skLeaving = NoSkel
    /\ \A f \in SkFiles : skPc[f] = "closed"
    /\ skDriver' = FALSE
    /\ UNCHANGED <<skIntf, skMinor, skLeaving, skCount, skPc, skData, skUrbs>>

\* Without memory, endpoints or a minor the structure is put again.
skel_probe(d) ==
    /\ skDriver /\ skIntf = NoSkel /\ skLeaving = NoSkel
    /\ skRef[d] = 0 /\ d \notin skFreed
    /\ \/ /\ skRef' = [skRef EXCEPT ![d] = 1]
          /\ skIntf' = d /\ skMinor' = TRUE
          /\ UNCHANGED skFreed
       \/ /\ skFreed' = skFreed \cup {d}
          /\ UNCHANGED <<skRef, skIntf, skMinor>>
    /\ UNCHANGED <<skDriver, skLeaving, skPc, skData, skUrbs>>

\* Slip: the lock is not taken.
SkDisconnectsAtOnce == skMinor

SkDisconnects == skMinor /\ SkLockFree

\* The part under the lock; the core has taken back the URBs.
skel_disconnect ==
    /\ SkDisconnects
    /\ skUrbs = {}
    /\ skLeaving' = skIntf /\ skIntf' = NoSkel /\ skMinor' = FALSE
    /\ UNCHANGED <<skDriver, skCount, skPc, skData, skUrbs>>

SkDisconnected ==
    /\ skLeaving # NoSkel /\ SkPut(skLeaving)
    /\ skLeaving' = NoSkel
    /\ UNCHANGED <<skDriver, skIntf, skMinor, skPc, skData, skUrbs>>

-----------------------------------------------------------------------------
(* Files                                                                     *)

\* usb_find_interface(), usb_get_intfdata(); -ENODEV if there is none.
skel_open(f) ==
    /\ skDriver /\ skPc[f] = "closed" /\ SkLockFree
    /\ skMinor /\ skIntf # NoSkel
    /\ skPc' = [skPc EXCEPT ![f] = "found"]
    /\ skData' = [skData EXCEPT ![f] = skIntf]
    /\ UNCHANGED <<skPlug, skCount, skUrbs>>

SkOpened(f) ==
    /\ skPc[f] = "found" /\ SkGet(skData[f])
    /\ skPc' = [skPc EXCEPT ![f] = "open"]
    /\ UNCHANGED <<skPlug, skData, skUrbs>>

skel_release(f) ==
    /\ skPc[f] = "open" /\ SkPut(skData[f])
    /\ skPc' = [skPc EXCEPT ![f] = "closed"]
    /\ skData' = [skData EXCEPT ![f] = NoSkel]
    /\ UNCHANGED <<skPlug, skUrbs>>

\* usb_bulk_msg() into the buffer of the structure, then the copy.
skel_read(f) ==
    /\ \/ skPc[f] = "open" /\ skPc' = [skPc EXCEPT ![f] = "reads"]
       \/ skPc[f] = "reads" /\ skPc' = [skPc EXCEPT ![f] = "open"]
    /\ UNCHANGED <<skPlug, skCount, skData, skUrbs>>

\* The URB and its buffer are made, then submitted; an interface that is
\* unbound takes no URB, and an error frees the buffer.
skel_write(f) ==
    /\ \/ /\ skPc[f] = "open" /\ skPc' = [skPc EXCEPT ![f] = "writes"]
          /\ UNCHANGED skUrbs
       \/ /\ skPc[f] = "writes" /\ skPc' = [skPc EXCEPT ![f] = "open"]
          /\ \/ skIntf = skData[f] /\ skUrbs' = skUrbs \cup {<<f, skData[f]>>}
             \/ UNCHANGED skUrbs
    /\ UNCHANGED <<skPlug, skCount, skData>>

skel_write_bulk_callback ==
    /\ \E u \in skUrbs : skUrbs' = skUrbs \ {u}
    /\ UNCHANGED <<skPlug, skCount, skPc, skData>>

SkNext ==
    \/ usb_skel_init \/ usb_skel_exit \/ skel_disconnect \/ SkDisconnected
    \/ \E d \in SkDevs : skel_probe(d)
    \/ \E f \in SkFiles : skel_open(f) \/ SkOpened(f) \/ skel_release(f) \/ skel_read(f) \/ skel_write(f)
    \/ skel_write_bulk_callback

SkSpec == SkInit /\ [][SkNext]_skVars

-----------------------------------------------------------------------------
SkUsers(d) == {f \in SkFiles : skPc[f] \in {"open", "reads", "writes"} /\ skData[f] = d}

\* Does the interface, or its disconnect, still have its reference?
SkBound(d) == IF d \in {skIntf, skLeaving} THEN 1 ELSE 0

(* A structure lives exactly as long as somebody has it: the interface, a     *)
(* file, an open that has found it and not counted itself yet, or a write in  *)
(* flight (usb-skeleton.c:57-64, :66-97, :305-325).                           *)
SkelRefs ==
    \A d \in SkDevs :
        /\ skRef[d] = Cardinality(SkUsers(d)) + SkBound(d)
        /\ d \in skFreed => skRef[d] = 0 /\ \A f \in SkFiles : skData[f] # d
        /\ (\E u \in skUrbs : u[2] = d) => d \notin skFreed
=============================================================================
