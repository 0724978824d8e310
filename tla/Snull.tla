------------------------------- MODULE Snull --------------------------------
(***************************************************************************)
(* The pair of network interfaces of snull/snull.c.  What one transmits the *)
(* other receives: a packet goes from the pool of the sender to the receive *)
(* queue of its twin, and back when it has been delivered, by an interrupt  *)
(* that the sender simulates or, with NAPI, by poll.                        *)
(*                                                                          *)
(* One action per section under priv->lock and per unlocked access; the     *)
(* plain priv->status |= is a read and a write.  The order of the lists is  *)
(* left out (they are stacks, "misorders packets"), and so is what is in a  *)
(* packet.  A thread that dereferences NULL, for want of a packet, or an     *)
(* interface that has been freed ends there.                                *)
(* Definitions introduced as a slip serve to test the properties only.      *)
(***************************************************************************)
EXTENDS Integers, FiniteSets

CONSTANTS
    SnDevs, SnTwin,    \* the two interfaces, and the other one of each
    SnFirst,           \* snull_devs[0]
    SnPackets, SnHome, \* all packets, and whose pool each is from
    SnQuota,           \* packets a poll may take (dev->weight)
    SnLockups          \* interfaces for which lockups are simulated

ASSUME SnAssumption ==
    /\ SnTwin \in [SnDevs -> SnDevs] /\ \A d \in SnDevs : SnTwin[d] # d /\ SnTwin[SnTwin[d]] = d
    /\ SnFirst \in SnDevs
    /\ SnHome \in [SnPackets -> SnDevs] /\ IsFiniteSet(SnPackets)
    /\ SnQuota \in Nat \ {0} /\ SnLockups \subseteq SnDevs

VARIABLES
    snNapi,     \* use_napi
    snGone,     \* interfaces that do not exist
    snUp,       \* interfaces that are up
    snPool,     \* ppool
    snRx,       \* rx_queue
    snLast,     \* packets whose next is NULL
    snStopped,  \* interfaces whose queue is stopped
    snLocked,   \* history: by a simulated lockup
    snStatus,   \* pending interrupts
    snInts,     \* interfaces with rx_int_enabled
    snTx,       \* the thread in snull_tx() or snull_tx_timeout() of each interface
    snPoll      \* the poll of each interface

snDevice == <<snNapi, snGone, snUp, snPool, snRx, snLast, snStopped, snLocked, snStatus, snInts>>
snVars   == <<snDevice, snTx, snPoll>>

NoPkt  == "none"
TxIdle == [pc |-> "idle", irq |-> "none", timeout |-> FALSE, seen |-> {}, pkt |-> NoPkt]
PollOff == [pc |-> "off", n |-> 0, pkt |-> NoPkt]

SnInit ==
    /\ snNapi \in BOOLEAN
    /\ snGone = SnDevs
    /\ snUp = {}
    /\ snPool = [d \in SnDevs |-> {}]
    /\ snRx = [d \in SnDevs |-> {}]
    /\ snLast = {}
    /\ snStopped = SnDevs /\ snLocked = {}
    /\ snStatus = [d \in SnDevs |-> {}]
    /\ snInts = SnDevs
    /\ snTx = [d \in SnDevs |-> TxIdle]
    /\ snPoll = [d \in SnDevs |-> PollOff]

\* snull_init(), for both.
snull_init_module ==
    /\ snGone = SnDevs /\ \A d \in SnDevs : snTx[d].pc = "idle" /\ snPoll[d].pc = "off"
    /\ snGone' = {} /\ snInts' = SnDevs
    /\ snPool' = [d \in SnDevs |-> {p \in SnPackets : SnHome[p] = d}]
    /\ UNCHANGED <<snNapi, snUp, snRx, snLast, snStopped, snLocked, snStatus, snTx, snPoll>>

\* unregister_netdev() closes the interface, and waits for who is in it.  The
\* packets in its pool are freed, those on its queue are lost.
snull_cleanup(d) ==
    /\ d \notin snGone /\ d # SnFirst => SnFirst \in snGone
    /\ snPoll[d].pc = "off" /\ \A x \in SnDevs : snTx[x].pc = "idle"
    /\ snGone' = snGone \cup {d} /\ snUp' = snUp \ {d}
    /\ snPool' = [snPool EXCEPT ![d] = {}] /\ snRx' = [snRx EXCEPT ![d] = {}]
    /\ snLast' = snLast \ (snPool[d] \cup snRx[d])
    /\ snStopped' = snStopped \cup {d} /\ snLocked' = snLocked \ {d}
    /\ snStatus' = [snStatus EXCEPT ![d] = {}]
    /\ UNCHANGED <<snNapi, snInts, snTx, snPoll>>

snull_open(d) ==
    /\ d \notin snUp \cup snGone /\ snUp' = snUp \cup {d}
    /\ snStopped' = snStopped \ {d} /\ snLocked' = snLocked \ {d}
    /\ UNCHANGED <<snNapi, snGone, snLast, snPool, snRx, snStatus, snInts, snTx, snPoll>>

\* The kernel waits for transmissions.
snull_release(d) ==
    /\ d \in snUp /\ snTx[d].pc = "idle" /\ snUp' = snUp \ {d}
    /\ snStopped' = snStopped \cup {d}
    /\ UNCHANGED <<snNapi, snGone, snLocked, snLast, snPool, snRx, snStatus, snInts, snTx, snPoll>>

-----------------------------------------------------------------------------
(* Packets                                                                   *)

\* The queue is stopped with the last packet.
StopWithLast(d) == IF Cardinality(snPool[d]) = 1 THEN {d} ELSE {}

snull_get_tx_buffer(d) ==
    /\ d \in snUp \ snStopped /\ snTx[d].pc = "idle"
    /\ \/ /\ snPool[d] = {}
          /\ snTx' = [snTx EXCEPT ![d].pc = "oops"]
          /\ UNCHANGED <<snPool, snStopped>>
       \/ \E p \in snPool[d] :
             /\ snPool' = [snPool EXCEPT ![d] = @ \ {p}]
             /\ snStopped' = snStopped \cup StopWithLast(d)
             /\ snTx' = [snTx EXCEPT ![d] = [@ EXCEPT !.pc = "enqueues", !.pkt = p]]
    /\ UNCHANGED <<snNapi, snGone, snLocked, snLast, snUp, snRx, snStatus, snInts, snPoll>>

\* p is put at the head of a list.
Link(p, list) == snLast' = IF list = {} THEN snLast \cup {p} ELSE snLast \ {p}

\* The twin is interrupted if it wants to be, then the sender.
snull_enqueue_buf(d) ==
    LET twin == SnTwin[d]
    IN  /\ snTx[d].pc = "enqueues" /\ twin \notin snGone
        /\ snRx' = [snRx EXCEPT ![twin] = @ \cup {snTx[d].pkt}]
        /\ Link(snTx[d].pkt, snRx[twin])
        /\ snTx' = [snTx EXCEPT ![d] = [@ EXCEPT !.pc = "loads", !.pkt = NoPkt,
                                                 !.irq = IF twin \in snInts THEN twin ELSE d]]
        /\ UNCHANGED <<snNapi, snGone, snLocked, snUp, snPool, snStopped, snStatus, snInts, snPoll>>

\* The twin is freed, or the owner of the packet.
Freed(d) ==
    /\ \/ /\ \/ snTx[d].pc = "enqueues" /\ SnTwin[d] \in snGone
             \/ snTx[d].pc = "returns" /\ SnHome[snTx[d].pkt] \in snGone
          /\ snTx' = [snTx EXCEPT ![d].pc = "oops"] /\ UNCHANGED snPoll
       \/ /\ snPoll[d].pc = "returns" /\ SnHome[snPoll[d].pkt] \in snGone
          /\ snPoll' = [snPoll EXCEPT ![d].pc = "oops"] /\ UNCHANGED snTx
    /\ UNCHANGED snDevice

\* Slip: a delivered packet goes to the pool of the interface that received it.
PoolOfReceiver(p) == SnTwin[SnHome[p]]

PoolOf(p) == SnHome[p]

Returned(p) == /\ SnHome[p] \notin snGone
               /\ snPool' = [snPool EXCEPT ![PoolOf(p)] = @ \cup {p}]
               /\ Link(p, snPool[PoolOf(p)])

\* Slip: the queue is woken if the packet is the only one by then.
WakesAlone(p) ==
    IF snPool[PoolOf(p)] = {p}
    THEN snStopped' = snStopped \ {PoolOf(p)} /\ snLocked' = snLocked \ {PoolOf(p)}
    ELSE UNCHANGED <<snStopped, snLocked>>

\* After the unlock: by then the packet may be on another list.
Wakes(p) ==
    IF p \in snLast THEN snStopped' = snStopped \ {PoolOf(p)} /\ snLocked' = snLocked \ {PoolOf(p)}
                   ELSE UNCHANGED <<snStopped, snLocked>>

-----------------------------------------------------------------------------
(* Transmission, and the interrupts it simulates                             *)

\* priv->status |= SNULL_RX_INTR for the twin, SNULL_TX_INTR for the sender.
StatusLoads(d) ==
    /\ snTx[d].pc = "loads"
    /\ snTx' = [snTx EXCEPT ![d] = [@ EXCEPT !.pc = "stores", !.seen = snStatus[snTx[d].irq]]]
    /\ UNCHANGED <<snDevice, snPoll>>

StatusStores(d) ==
    LET x == snTx[d].irq
    IN  /\ snTx[d].pc = "stores"
        /\ snStatus' = [snStatus EXCEPT ![x] = snTx[d].seen \cup {IF x = d THEN "tx" ELSE "rx"}]
        /\ snTx' = [snTx EXCEPT ![d] = [@ EXCEPT !.pc = "interrupts", !.seen = {}]]
        /\ UNCHANGED <<snNapi, snGone, snLocked, snLast, snUp, snPool, snRx, snStopped, snInts, snPoll>>

\* What the thread does after an interrupt.
TxGoesOn(d, t) ==
    snTx' = [snTx EXCEPT ![d] = CASE t.irq # d -> [TxIdle EXCEPT !.pc = "loads", !.irq = d]
                                  [] t.timeout -> [TxIdle EXCEPT !.pc = "wakes"]
                                  [] OTHER     -> TxIdle]

\* Simulates a dropped interrupt.
Lockup(d) ==
    /\ d \in SnLockups /\ snTx[d].pc = "interrupts" /\ snTx[d].irq = d /\ ~ snTx[d].timeout
    /\ snStopped' = snStopped \cup {d} /\ snLocked' = snLocked \cup {d}
    /\ snTx' = [snTx EXCEPT ![d] = TxIdle]
    /\ UNCHANGED <<snNapi, snGone, snLast, snUp, snPool, snRx, snStatus, snInts, snPoll>>

\* One packet of the receive queue is delivered, and then returned.
snull_regular_interrupt(d) ==
    LET x == snTx[d].irq
    IN  /\ ~ snNapi /\ snTx[d].pc = "interrupts"
        /\ snStatus' = [snStatus EXCEPT ![x] = {}]
        /\ \/ "rx" \in snStatus[x] /\ \E p \in snRx[x] :
                 /\ snRx' = [snRx EXCEPT ![x] = @ \ {p}]
                 /\ snTx' = [snTx EXCEPT ![d] = [@ EXCEPT !.pc = "returns", !.pkt = p]]
           \/ /\ "rx" \notin snStatus[x] \/ snRx[x] = {}
              /\ TxGoesOn(d, snTx[d]) /\ UNCHANGED snRx
        /\ UNCHANGED <<snNapi, snGone, snLocked, snLast, snUp, snPool, snStopped, snInts, snPoll>>

snull_napi_interrupt(d) ==
    LET x == snTx[d].irq
    IN  /\ snNapi /\ snTx[d].pc = "interrupts"
        /\ snStatus' = [snStatus EXCEPT ![x] = {}]
        /\ IF "rx" \in snStatus[x]
           THEN /\ snInts' = snInts \ {x}
                /\ snPoll' = IF snPoll[x].pc = "off" THEN [snPoll EXCEPT ![x].pc = "tests"] ELSE snPoll
           ELSE UNCHANGED <<snInts, snPoll>>
        /\ TxGoesOn(d, snTx[d])
        /\ UNCHANGED <<snNapi, snGone, snLocked, snLast, snUp, snPool, snRx, snStopped>>

TxReturns(d) ==
    LET p == snTx[d].pkt
    IN  /\ snTx[d].pc = "returns" /\ Returned(p)
        /\ snTx' = [snTx EXCEPT ![d] = [@ EXCEPT !.pc = "returned"]]
        /\ UNCHANGED <<snNapi, snGone, snLocked, snUp, snRx, snStopped, snStatus, snInts, snPoll>>

TxReturned(d) ==
    /\ snTx[d].pc = "returned" /\ Wakes(snTx[d].pkt)
    /\ TxGoesOn(d, snTx[d])
    /\ UNCHANGED <<snNapi, snGone, snLast, snUp, snPool, snRx, snStatus, snInts, snPoll>>

\* The watchdog of a queue that is stopped too long; it holds off the senders.
snull_tx_timeout(d) ==
    /\ d \in snUp \cap snStopped /\ snTx[d].pc = "idle"
    /\ snStatus' = [snStatus EXCEPT ![d] = {"tx"}]
    /\ snTx' = [snTx EXCEPT ![d] = [TxIdle EXCEPT !.pc = "interrupts", !.irq = d, !.timeout = TRUE]]
    /\ UNCHANGED <<snNapi, snGone, snLocked, snLast, snUp, snPool, snRx, snStopped, snInts, snPoll>>

TimeoutWakes(d) ==
    /\ snTx[d].pc = "wakes"
    /\ snStopped' = snStopped \ {d} /\ snLocked' = snLocked \ {d}
    /\ snTx' = [snTx EXCEPT ![d] = TxIdle]
    /\ UNCHANGED <<snNapi, snGone, snLast, snUp, snPool, snRx, snStatus, snInts, snPoll>>

-----------------------------------------------------------------------------
(* NAPI                                                                      *)

Polls(d, r) == snPoll' = [snPoll EXCEPT ![d] = r]

\* One packet after the other; it is dropped if there is no memory for it.
snull_poll(d) ==
    LET l == snPoll[d]
    IN  /\ l.pc = "tests"
        /\ \/ /\ l.n < SnQuota /\ \E p \in snRx[d] :
                    /\ snRx' = [snRx EXCEPT ![d] = @ \ {p}]
                    /\ \E n \in {l.n, l.n + 1} : Polls(d, [l EXCEPT !.pc = "returns", !.pkt = p, !.n = n])
           \/ l.n = SnQuota /\ snRx[d] # {} /\ Polls(d, [l EXCEPT !.n = 0]) /\ UNCHANGED snRx
           \/ snRx[d] = {} /\ Polls(d, [PollOff EXCEPT !.pc = "completes"]) /\ UNCHANGED snRx
        /\ UNCHANGED <<snNapi, snGone, snLocked, snLast, snUp, snPool, snStopped, snStatus, snInts, snTx>>

PollReturns(d) ==
    LET l == snPoll[d]
    IN  /\ l.pc = "returns" /\ Returned(l.pkt)
        /\ Polls(d, [l EXCEPT !.pc = "returned"])
        /\ UNCHANGED <<snNapi, snGone, snLocked, snUp, snRx, snStopped, snStatus, snInts, snTx>>

PollReturned(d) ==
    LET l == snPoll[d]
    IN  /\ l.pc = "returned" /\ Wakes(l.pkt)
        /\ Polls(d, [l EXCEPT !.pc = "tests", !.pkt = NoPkt])
        /\ UNCHANGED <<snNapi, snGone, snLast, snUp, snPool, snRx, snStatus, snInts, snTx>>

\* The queue was empty when it was tested: interrupts again.
PollCompletes(d) ==
    /\ snPoll[d].pc = "completes" /\ Polls(d, PollOff)
    /\ snInts' = snInts \cup {d}
    /\ UNCHANGED <<snNapi, snGone, snLocked, snLast, snUp, snPool, snRx, snStopped, snStatus, snTx>>

-----------------------------------------------------------------------------
SnSends(d) == \/ snull_get_tx_buffer(d) \/ snull_enqueue_buf(d) \/ StatusLoads(d) \/ StatusStores(d)
              \/ Lockup(d) \/ snull_regular_interrupt(d) \/ snull_napi_interrupt(d)
              \/ TxReturns(d) \/ TxReturned(d) \/ snull_tx_timeout(d) \/ TimeoutWakes(d)
SnPolls(d) == snull_poll(d) \/ PollReturns(d) \/ PollReturned(d) \/ PollCompletes(d)

SnNext == \/ snull_init_module
          \/ \E d \in SnDevs : \/ snull_cleanup(d) \/ snull_open(d) \/ snull_release(d)
                               \/ SnSends(d) \/ SnPolls(d) \/ Freed(d)

SnSpec == SnInit /\ [][SnNext]_snVars

-----------------------------------------------------------------------------
InHand(p) == {d \in SnDevs : snTx[d].pc \in {"enqueues", "returns"} /\ snTx[d].pkt = p}
             \cup {d \in SnDevs : snPoll[d].pc = "returns" /\ snPoll[d].pkt = p}

(* A packet is in the pool it comes from, on the receive queue of the twin, or *)
(* in the hands of one thread, and only one of these, whoever moves it (the    *)
(* pool is shared by the senders, the interrupts and the poll: snull.c:132-186, *)
(* :287-376, :425-503).  Only the removal of an interface loses it, or frees it. *)
PacketsConserved ==
    \A p \in SnPackets :
        LET places == {<<"pool", d>> : d \in {x \in SnDevs : p \in snPool[x]}}
                      \cup {<<"rx", d>> : d \in {x \in SnDevs : p \in snRx[x]}}
                      \cup {<<"hand", d>> : d \in InHand(p)}
        IN  /\ Cardinality(places) <= 1
            /\ snGone = {} => Cardinality(places) = 1
            /\ \A d \in SnDevs : p \in snPool[d] => d = SnHome[p]

\* Is a wake-up of the queue under way?
WakeComing(d) ==
    \/ \E x \in SnDevs : snTx[x].pc = "returned" /\ snTx[x].pkt \in snLast /\ PoolOf(snTx[x].pkt) = d
    \/ \E x \in SnDevs : snPoll[x].pc = "returned" /\ snPoll[x].pkt \in snLast /\ PoolOf(snPoll[x].pkt) = d

(* The queue of an interface that is up and has packets is not left stopped:  *)
(* the stop is made under the lock, the wake-up after the unlock, from a look *)
(* at a packet that may be gone again (snull.c:141-160).                      *)
QueueRestarts ==
    \A d \in (snUp \cap snStopped) \ snLocked : snPool[d] # {} => WakeComing(d)
=============================================================================
