---------------------------- MODULE Snull_proofs ----------------------------
(* Theorems about Snull, for any pair of interfaces, any packets and quota,  *)
(* with and without NAPI.                                                    *)
EXTENDS Snull, FiniteSetTheorems, TLAPS

\* The states of a thread that sends, and of a poll.
TxThreads ==
    {r \in [pc : {"idle", "enqueues", "loads", "stores", "interrupts", "returns", "returned", "wakes", "oops"},
            irq : SnDevs \cup {"none"}, timeout : BOOLEAN,
            seen : SUBSET {"rx", "tx"}, pkt : SnPackets \cup {NoPkt}] :
        /\ r.pc \in {"loads", "stores", "interrupts", "returns", "returned"} => r.irq \in SnDevs
        /\ r.pc \in {"enqueues", "returns", "returned"} => r.pkt \in SnPackets}
PollThreads ==
    {r \in [pc : {"off", "tests", "returns", "returned", "completes", "oops"}, n : Nat, pkt : SnPackets \cup {NoPkt}] :
        r.pc \in {"returns", "returned"} => r.pkt \in SnPackets}

SnTypeOK ==
    /\ snGone \subseteq SnDevs /\ snUp \subseteq SnDevs
    /\ snPool \in [SnDevs -> SUBSET SnPackets] /\ snRx \in [SnDevs -> SUBSET SnPackets]
    /\ snStatus \in [SnDevs -> SUBSET {"rx", "tx"}]
    /\ snTx \in [SnDevs -> TxThreads] /\ snPoll \in [SnDevs -> PollThreads]

\* An interface that does not exist is down and holds nothing.
SnGoneEmpty == \A d \in snGone : snPool[d] = {} /\ snRx[d] = {} /\ d \notin snUp

\* The packets in the hands of the sender, and of the poll, of d.
TxHolds(d)   == IF snTx[d].pc \in {"enqueues", "returns"} THEN {snTx[d].pkt} ELSE {}
PollHolds(d) == IF snPoll[d].pc = "returns" THEN {snPoll[d].pkt} ELSE {}

Kinds == {"pool", "rx", "tx", "poll"}

\* The places where a packet can be, four for each interface.
At(k, d) == CASE k = "pool" -> snPool[d] [] k = "rx" -> snRx[d] [] k = "tx" -> TxHolds(d) [] k = "poll" -> PollHolds(d)

(* Where a packet is excludes every other place; while both interfaces exist *)
(* it is in one.                                                             *)
SnOnce ==
    \A p \in SnPackets, d \in SnDevs :
        /\ p \in At("pool", d) => d = SnHome[p]
        /\ \A e \in SnDevs, j, k \in Kinds : p \in At(j, d) /\ p \in At(k, e) => j = k /\ d = e
SnSomewhere ==
    snGone = {} => \A p \in SnPackets : \E k \in Kinds, d \in SnDevs : p \in At(k, d)

\* A thread has put p in its pool and looks at it next.
Returning(p) == \E x \in SnDevs : \/ snTx[x].pc = "returned" /\ snTx[x].pkt = p
                                  \/ snPoll[x].pc = "returned" /\ snPoll[x].pkt = p

\* Interfaces that are up and whose queue is stopped, but not by a lockup.
Waiting == (snUp \cap snStopped) \ snLocked

(* The packet that will wake a stopped queue is still in the pool, at the end *)
(* of the list: who could take it would have had to find the queue running.  *)
SnWakes ==
    \A d \in Waiting : snPool[d] = {} \/ \E p \in snPool[d] \cap snLast : Returning(p)

SnInv == SnTypeOK /\ SnGoneEmpty /\ SnOnce /\ SnSomewhere /\ SnWakes

-----------------------------------------------------------------------------
\* What a step does to the thread of d: no other thread moves.
TxBecomes(d, pc, p) ==
    snTx'[d].pc = pc /\ snTx'[d].pkt = p /\ \A x \in SnDevs \ {d} : snTx'[x] = snTx[x]
PollBecomes(d, pc, p) ==
    snPoll'[d].pc = pc /\ snPoll'[d].pkt = p /\ \A x \in SnDevs \ {d} : snPoll'[x] = snPoll[x]

TxGoes(d, pc, p)   == snTx' \in [SnDevs -> TxThreads] /\ TxBecomes(d, pc, p)
PollGoes(d, pc, p) == snPoll' \in [SnDevs -> PollThreads] /\ PollBecomes(d, pc, p)

(* A sender's thread takes a state of its type.                              *)
LEMMA TxTyped ==
  ASSUME SnTypeOK, NEW d \in SnDevs, NEW r \in TxThreads, snTx' = [snTx EXCEPT ![d] = r]
  PROVE  TxGoes(d, r.pc, r.pkt)
BY DEF SnTypeOK, TxGoes, TxBecomes

(* So does a poll.                                                           *)
LEMMA PollTyped ==
  ASSUME SnTypeOK, NEW d \in SnDevs, NEW r \in PollThreads, snPoll' = [snPoll EXCEPT ![d] = r]
  PROVE  PollGoes(d, r.pc, r.pkt)
BY DEF SnTypeOK, PollGoes, PollBecomes

(* After an interrupt a sender holds nothing.                                *)
LEMMA GoesOn ==
  ASSUME SnTypeOK, NEW d \in SnDevs, TxGoesOn(d, snTx[d])
  PROVE  \E pc \in {"loads", "wakes", "idle"} : TxGoes(d, pc, NoPkt)
<1> DEFINE r == CASE snTx[d].irq # d -> [TxIdle EXCEPT !.pc = "loads", !.irq = d]
                  [] snTx[d].timeout -> [TxIdle EXCEPT !.pc = "wakes"]
                  [] OTHER -> TxIdle
<1>1. snTx' = [snTx EXCEPT ![d] = r]
  BY DEF TxGoesOn
<1>2. r \in TxThreads /\ r.pc \in {"loads", "wakes", "idle"} /\ r.pkt = NoPkt
  <2>1. CASE snTx[d].irq # d
    BY <2>1 DEF TxThreads, TxIdle
  <2>2. CASE snTx[d].irq = d /\ snTx[d].timeout
    BY <2>2 DEF TxThreads, TxIdle
  <2>3. CASE snTx[d].irq = d /\ ~ snTx[d].timeout
    BY <2>3 DEF TxThreads, TxIdle
  <2> QED
    BY <2>1, <2>2, <2>3
<1> HIDE DEF r
<1>3. TxGoes(d, r.pc, r.pkt)
  BY <1>1, <1>2, TxTyped
<1> QED
  BY <1>2, <1>3

(* What each section of a sender and of a poll does to its thread.           *)
LEMMA EnqueueGoes ==
  ASSUME SnTypeOK, NEW d \in SnDevs, snull_enqueue_buf(d)
  PROVE  TxGoes(d, "loads", NoPkt)
<1> DEFINE r == [snTx[d] EXCEPT !.pc = "loads", !.pkt = NoPkt,
                                 !.irq = IF SnTwin[d] \in snInts THEN SnTwin[d] ELSE d]
<1>1. snTx' = [snTx EXCEPT ![d] = r]
  BY DEF snull_enqueue_buf
<1>2. r \in TxThreads /\ r.pc = "loads" /\ r.pkt = NoPkt
  <2>1. snTx[d] \in TxThreads /\ SnTwin[d] \in SnDevs
    BY SnAssumption DEF SnTypeOK, SnAssumption, snull_enqueue_buf
  <2> QED
    BY <2>1 DEF TxThreads, TxIdle
<1> HIDE DEF r
<1> QED
  BY <1>1, <1>2, TxTyped

(* It reads status.                                                          *)
LEMMA LoadGoes ==
  ASSUME SnTypeOK, NEW d \in SnDevs, StatusLoads(d)
  PROVE  TxGoes(d, "stores", snTx[d].pkt)
<1> DEFINE r == [snTx[d] EXCEPT !.pc = "stores", !.seen = snStatus[snTx[d].irq]]
<1>1. snTx' = [snTx EXCEPT ![d] = r]
  BY DEF StatusLoads
<1>2. r \in TxThreads /\ r.pc = "stores" /\ r.pkt = snTx[d].pkt
  <2>1. snTx[d] \in TxThreads /\ snTx[d].pc = "loads" /\ snStatus \in [SnDevs -> SUBSET {"rx", "tx"}]
    BY SnAssumption DEF SnTypeOK, SnAssumption, StatusLoads
  <2> QED
    BY <2>1 DEF TxThreads, TxIdle
<1> HIDE DEF r
<1> QED
  BY <1>1, <1>2, TxTyped

(* It writes status back.                                                    *)
LEMMA StoreGoes ==
  ASSUME SnTypeOK, NEW d \in SnDevs, StatusStores(d)
  PROVE  TxGoes(d, "interrupts", snTx[d].pkt)
<1> DEFINE r == [snTx[d] EXCEPT !.pc = "interrupts", !.seen = {}]
<1>1. snTx' = [snTx EXCEPT ![d] = r]
  BY DEF StatusStores
<1>2. r \in TxThreads /\ r.pc = "interrupts" /\ r.pkt = snTx[d].pkt
  <2>1. snTx[d] \in TxThreads /\ snTx[d].pc = "stores"
    BY SnAssumption DEF SnTypeOK, SnAssumption, StatusStores
  <2> QED
    BY <2>1 DEF TxThreads, TxIdle
<1> HIDE DEF r
<1> QED
  BY <1>1, <1>2, TxTyped

(* It simulates a lockup.                                                    *)
LEMMA LockupGoes ==
  ASSUME SnTypeOK, NEW d \in SnDevs, Lockup(d)
  PROVE  TxGoes(d, "idle", NoPkt)
<1> DEFINE r == TxIdle
<1>1. snTx' = [snTx EXCEPT ![d] = r]
  BY DEF Lockup
<1>2. r \in TxThreads /\ r.pc = "idle" /\ r.pkt = NoPkt
  <2>1. snTx[d] \in TxThreads
    BY SnAssumption DEF SnTypeOK, SnAssumption, Lockup
  <2> QED
    BY <2>1 DEF TxThreads, TxIdle
<1> HIDE DEF r
<1> QED
  BY <1>1, <1>2, TxTyped

(* It returns a packet it has delivered.                                     *)
LEMMA ReturnsGoes ==
  ASSUME SnTypeOK, NEW d \in SnDevs, TxReturns(d)
  PROVE  TxGoes(d, "returned", snTx[d].pkt)
<1> DEFINE r == [snTx[d] EXCEPT !.pc = "returned"]
<1>1. snTx' = [snTx EXCEPT ![d] = r]
  BY DEF TxReturns
<1>2. r \in TxThreads /\ r.pc = "returned" /\ r.pkt = snTx[d].pkt
  <2>1. snTx[d] \in TxThreads /\ snTx[d].pc = "returns"
    BY SnAssumption DEF SnTypeOK, SnAssumption, TxReturns
  <2> QED
    BY <2>1 DEF TxThreads, TxIdle
<1> HIDE DEF r
<1> QED
  BY <1>1, <1>2, TxTyped

(* The watchdog simulates an interrupt.                                      *)
LEMMA TimeoutGoes ==
  ASSUME SnTypeOK, NEW d \in SnDevs, snull_tx_timeout(d)
  PROVE  TxGoes(d, "interrupts", NoPkt)
<1> DEFINE r == [TxIdle EXCEPT !.pc = "interrupts", !.irq = d, !.timeout = TRUE]
<1>1. snTx' = [snTx EXCEPT ![d] = r]
  BY DEF snull_tx_timeout
<1>2. r \in TxThreads /\ r.pc = "interrupts" /\ r.pkt = NoPkt
  <2>1. snTx[d] \in TxThreads
    BY SnAssumption DEF SnTypeOK, SnAssumption, snull_tx_timeout
  <2> QED
    BY <2>1 DEF TxThreads, TxIdle
<1> HIDE DEF r
<1> QED
  BY <1>1, <1>2, TxTyped

(* The watchdog wakes the queue.                                             *)
LEMMA TimeoutWakesGoes ==
  ASSUME SnTypeOK, NEW d \in SnDevs, TimeoutWakes(d)
  PROVE  TxGoes(d, "idle", NoPkt)
<1> DEFINE r == TxIdle
<1>1. snTx' = [snTx EXCEPT ![d] = r]
  BY DEF TimeoutWakes
<1>2. r \in TxThreads /\ r.pc = "idle" /\ r.pkt = NoPkt
  <2>1. snTx[d] \in TxThreads
    BY SnAssumption DEF SnTypeOK, SnAssumption, TimeoutWakes
  <2> QED
    BY <2>1 DEF TxThreads, TxIdle
<1> HIDE DEF r
<1> QED
  BY <1>1, <1>2, TxTyped

(* A sender takes a packet, or finds none.                                   *)
LEMMA GetGoes ==
  ASSUME SnTypeOK, NEW d \in SnDevs, snull_get_tx_buffer(d)
  PROVE  \/ /\ TxGoes(d, "oops", snTx[d].pkt) /\ UNCHANGED <<snPool, snStopped>>
         \/ \E p \in snPool[d] : /\ TxGoes(d, "enqueues", p)
                                 /\ snPool' = [snPool EXCEPT ![d] = @ \ {p}]
                                 /\ snStopped' = snStopped \cup StopWithLast(d)
<1>0. snTx[d] \in TxThreads
  BY DEF SnTypeOK
<1>1. ASSUME snTx' = [snTx EXCEPT ![d].pc = "oops"]
      PROVE  TxGoes(d, "oops", snTx[d].pkt)
  <2> DEFINE r == [snTx[d] EXCEPT !.pc = "oops"]
  <2>1. r \in TxThreads /\ r.pc = "oops" /\ r.pkt = snTx[d].pkt
    BY <1>0 DEF TxThreads
  <2>2. snTx' = [snTx EXCEPT ![d] = r]
    BY <1>1
  <2> HIDE DEF r
  <2>3. TxGoes(d, r.pc, r.pkt)
    BY <2>1, <2>2, TxTyped, Zenon
  <2> QED
    BY <2>1, <2>3
<1>2. ASSUME NEW p \in snPool[d],
             snTx' = [snTx EXCEPT ![d] = [@ EXCEPT !.pc = "enqueues", !.pkt = p]]
      PROVE  TxGoes(d, "enqueues", p)
  <2> DEFINE r == [snTx[d] EXCEPT !.pc = "enqueues", !.pkt = p]
  <2>0. p \in SnPackets
    BY DEF SnTypeOK
  <2>1. r \in TxThreads /\ r.pc = "enqueues" /\ r.pkt = p
    BY <1>0, <2>0 DEF TxThreads
  <2>2. snTx' = [snTx EXCEPT ![d] = r]
    BY <1>2
  <2> HIDE DEF r
  <2>3. TxGoes(d, r.pc, r.pkt)
    BY <2>1, <2>2, TxTyped, Zenon
  <2> QED
    BY <2>1, <2>3
<1>3. CASE snTx' = [snTx EXCEPT ![d].pc = "oops"] /\ UNCHANGED <<snPool, snStopped>>
  BY <1>1, <1>3
<1>4. ASSUME NEW p \in snPool[d], snPool' = [snPool EXCEPT ![d] = @ \ {p}],
             snStopped' = snStopped \cup StopWithLast(d),
             snTx' = [snTx EXCEPT ![d] = [@ EXCEPT !.pc = "enqueues", !.pkt = p]]
      PROVE  \E q \in snPool[d] : /\ TxGoes(d, "enqueues", q)
                                  /\ snPool' = [snPool EXCEPT ![d] = @ \ {q}]
                                  /\ snStopped' = snStopped \cup StopWithLast(d)
  BY <1>2, <1>4
<1> QED
  BY <1>3, <1>4, Zenon DEF snull_get_tx_buffer

(* An interrupt takes a packet to deliver, or goes on.                       *)
LEMMA InterruptGoes ==
  ASSUME SnTypeOK, NEW d \in SnDevs, snull_regular_interrupt(d)
  PROVE  /\ snTx[d].irq \in SnDevs
         /\ \/ \E p \in snRx[snTx[d].irq] : /\ TxGoes(d, "returns", p) /\ p \in SnPackets
                                             /\ snRx' = [snRx EXCEPT ![snTx[d].irq] = @ \ {p}]
            \/ UNCHANGED snRx /\ \E pc \in {"loads", "wakes", "idle"} : TxGoes(d, pc, NoPkt)
<1>0. snTx[d] \in TxThreads /\ snTx[d].irq \in SnDevs
  BY DEF SnTypeOK, TxThreads, snull_regular_interrupt
<1>1. ASSUME NEW p \in snRx[snTx[d].irq],
             snTx' = [snTx EXCEPT ![d] = [@ EXCEPT !.pc = "returns", !.pkt = p]]
      PROVE  TxGoes(d, "returns", p) /\ p \in SnPackets
  <2> DEFINE r == [snTx[d] EXCEPT !.pc = "returns", !.pkt = p]
  <2>0. p \in SnPackets
    BY <1>0 DEF SnTypeOK
  <2>1. r \in TxThreads /\ r.pc = "returns" /\ r.pkt = p
    BY <1>0, <2>0 DEF TxThreads
  <2>2. snTx' = [snTx EXCEPT ![d] = r]
    BY <1>1
  <2> HIDE DEF r
  <2> QED
    BY <2>0, <2>1, <2>2, TxTyped
<1>2. CASE TxGoesOn(d, snTx[d]) /\ UNCHANGED snRx
  BY <1>2, <1>0, GoesOn
<1> QED
  BY <1>0, <1>1, <1>2 DEF snull_regular_interrupt

(* With NAPI it may start the poll of the interface.                         *)
LEMMA NapiGoes ==
  ASSUME SnTypeOK, NEW d \in SnDevs, snull_napi_interrupt(d)
  PROVE  /\ \E pc \in {"loads", "wakes", "idle"} : TxGoes(d, pc, NoPkt)
         /\ \/ UNCHANGED snPoll
            \/ /\ snTx[d].irq \in SnDevs /\ snPoll[snTx[d].irq].pc = "off"
               /\ PollGoes(snTx[d].irq, "tests", snPoll[snTx[d].irq].pkt)
<1>0. snTx[d] \in TxThreads /\ snTx[d].irq \in SnDevs
  BY DEF SnTypeOK, TxThreads, snull_napi_interrupt
<1>1. \E pc \in {"loads", "wakes", "idle"} : TxGoes(d, pc, NoPkt)
  BY GoesOn DEF snull_napi_interrupt
<1>2. CASE snPoll' = [snPoll EXCEPT ![snTx[d].irq].pc = "tests"] /\ snPoll[snTx[d].irq].pc = "off"
  <2>x. PICK x \in SnDevs : x = snTx[d].irq
    BY <1>0
  <2> DEFINE r == [snPoll[x] EXCEPT !.pc = "tests"]
  <2>0. snPoll[x] \in PollThreads
    BY DEF SnTypeOK
  <2>1. r \in PollThreads /\ r.pc = "tests" /\ r.pkt = snPoll[x].pkt
    BY <2>0 DEF PollThreads
  <2>2. snPoll' = [snPoll EXCEPT ![x] = r]
    BY <1>2, <2>x
  <2> HIDE DEF r
  <2>3. PollGoes(x, r.pc, r.pkt)
    BY <2>1, <2>2, PollTyped
  <2>4. PollGoes(x, "tests", snPoll[x].pkt)
    BY <2>1, <2>3
  <2> QED
    BY <1>1, <1>2, <2>x, <2>4
<1> QED
  BY <1>1, <1>2 DEF snull_napi_interrupt

(* A poll takes a packet, starts again, or ends.                             *)
LEMMA PollTakes ==
  ASSUME SnTypeOK, NEW d \in SnDevs, snull_poll(d)
  PROVE  \/ \E p \in snRx[d] : /\ PollGoes(d, "returns", p) /\ p \in SnPackets
                               /\ snRx' = [snRx EXCEPT ![d] = @ \ {p}]
         \/ UNCHANGED snRx /\ PollGoes(d, "tests", snPoll[d].pkt)
         \/ UNCHANGED snRx /\ PollGoes(d, "completes", NoPkt)
<1>0. snPoll[d] \in PollThreads
  BY DEF SnTypeOK
<1>1. ASSUME NEW p \in snRx[d], NEW n \in {snPoll[d].n, snPoll[d].n + 1},
             Polls(d, [snPoll[d] EXCEPT !.pc = "returns", !.pkt = p, !.n = n])
      PROVE  PollGoes(d, "returns", p) /\ p \in SnPackets
  <2> DEFINE r == [snPoll[d] EXCEPT !.pc = "returns", !.pkt = p, !.n = n]
  <2>0. p \in SnPackets
    BY DEF SnTypeOK
  <2>n. n \in Nat
    <3>1. snPoll[d].n \in Nat
      BY <1>0 DEF PollThreads
    <3> QED
      BY <3>1
  <2>1. r \in PollThreads /\ r.pc = "returns" /\ r.pkt = p
    BY <1>0, <2>0, <2>n DEF PollThreads
  <2>2. snPoll' = [snPoll EXCEPT ![d] = r]
    BY <1>1 DEF Polls
  <2> HIDE DEF r
  <2> QED
    BY <2>0, <2>1, <2>2, PollTyped
<1>2. CASE Polls(d, [snPoll[d] EXCEPT !.n = 0]) /\ snPoll[d].pc = "tests" /\ UNCHANGED snRx
  <2> DEFINE r == [snPoll[d] EXCEPT !.n = 0]
  <2>1. r \in PollThreads /\ r.pc = "tests" /\ r.pkt = snPoll[d].pkt
    BY <1>0, <1>2 DEF PollThreads
  <2>2. snPoll' = [snPoll EXCEPT ![d] = r]
    BY <1>2 DEF Polls
  <2> HIDE DEF r
  <2>3. PollGoes(d, "tests", snPoll[d].pkt)
    BY <2>1, <2>2, PollTyped
  <2> QED
    BY <1>2, <2>3
<1>3. CASE Polls(d, [PollOff EXCEPT !.pc = "completes"]) /\ UNCHANGED snRx
  <2> DEFINE r == [PollOff EXCEPT !.pc = "completes"]
  <2>1. r \in PollThreads /\ r.pc = "completes" /\ r.pkt = NoPkt
    BY DEF PollThreads, PollOff, NoPkt
  <2>2. snPoll' = [snPoll EXCEPT ![d] = r]
    BY <1>3 DEF Polls
  <2> HIDE DEF r
  <2>3. PollGoes(d, "completes", NoPkt)
    BY <2>1, <2>2, PollTyped
  <2> QED
    BY <1>3, <2>3
<1>4. /\ snPoll[d].pc = "tests"
      /\ \/ snPoll[d].n < SnQuota /\ \E p \in snRx[d] :
                /\ snRx' = [snRx EXCEPT ![d] = @ \ {p}]
                /\ \E n \in {snPoll[d].n, snPoll[d].n + 1} :
                      Polls(d, [snPoll[d] EXCEPT !.pc = "returns", !.pkt = p, !.n = n])
         \/ Polls(d, [snPoll[d] EXCEPT !.n = 0]) /\ UNCHANGED snRx
         \/ Polls(d, [PollOff EXCEPT !.pc = "completes"]) /\ UNCHANGED snRx
  BY Zenon DEF snull_poll
<1> QED
  <2>1. CASE \E p \in snRx[d] :
                /\ snRx' = [snRx EXCEPT ![d] = @ \ {p}]
                /\ \E n \in {snPoll[d].n, snPoll[d].n + 1} :
                      Polls(d, [snPoll[d] EXCEPT !.pc = "returns", !.pkt = p, !.n = n])
    BY <2>1, <1>1, Zenon
  <2> QED
    BY <2>1, <1>2, <1>3, <1>4

(* It returns the packet.                                                    *)
LEMMA PollReturnsGoes ==
  ASSUME SnTypeOK, NEW d \in SnDevs, PollReturns(d)
  PROVE  PollGoes(d, "returned", snPoll[d].pkt)
<1> DEFINE r == [snPoll[d] EXCEPT !.pc = "returned"]
<1>1. snPoll' = [snPoll EXCEPT ![d] = r]
  BY DEF PollReturns, Polls
<1>2. r \in PollThreads /\ r.pc = "returned" /\ r.pkt = snPoll[d].pkt
  <2>1. snPoll[d] \in PollThreads /\ snPoll[d].pc = "returns"
    BY SnAssumption DEF SnTypeOK, SnAssumption, PollReturns
  <2> QED
    BY <2>1 DEF PollThreads, PollOff, NoPkt
<1> HIDE DEF r
<1> QED
  BY <1>1, <1>2, PollTyped

(* It has looked at it.                                                      *)
LEMMA PollReturnedGoes ==
  ASSUME SnTypeOK, NEW d \in SnDevs, PollReturned(d)
  PROVE  PollGoes(d, "tests", NoPkt)
<1> DEFINE r == [snPoll[d] EXCEPT !.pc = "tests", !.pkt = NoPkt]
<1>1. snPoll' = [snPoll EXCEPT ![d] = r]
  BY DEF PollReturned, Polls
<1>2. r \in PollThreads /\ r.pc = "tests" /\ r.pkt = NoPkt
  <2>1. snPoll[d] \in PollThreads
    BY SnAssumption DEF SnTypeOK, SnAssumption, PollReturned
  <2> QED
    BY <2>1 DEF PollThreads, PollOff, NoPkt
<1> HIDE DEF r
<1> QED
  BY <1>1, <1>2, PollTyped

(* It ends.                                                                  *)
LEMMA PollCompletesGoes ==
  ASSUME SnTypeOK, NEW d \in SnDevs, PollCompletes(d)
  PROVE  PollGoes(d, "off", NoPkt)
<1> DEFINE r == PollOff
<1>1. snPoll' = [snPoll EXCEPT ![d] = r]
  BY DEF PollCompletes, Polls
<1>2. r \in PollThreads /\ r.pc = "off" /\ r.pkt = NoPkt
  <2>1. snPoll[d] \in PollThreads
    BY SnAssumption DEF SnTypeOK, SnAssumption, PollCompletes
  <2> QED
    BY <2>1 DEF PollThreads, PollOff, NoPkt
<1> HIDE DEF r
<1> QED
  BY <1>1, <1>2, PollTyped

(* A thread that finds an interface freed was not at its look.               *)
LEMMA FreedGoes ==
  ASSUME SnTypeOK, NEW d \in SnDevs, Freed(d)
  PROVE  \/ TxGoes(d, "oops", snTx[d].pkt) /\ UNCHANGED snPoll /\ snTx[d].pc # "returned"
         \/ PollGoes(d, "oops", snPoll[d].pkt) /\ UNCHANGED snTx /\ snPoll[d].pc # "returned"
<1>1. CASE snTx' = [snTx EXCEPT ![d].pc = "oops"] /\ UNCHANGED snPoll /\ snTx[d].pc # "returned"
  <2>1. snTx[d] \in TxThreads
    BY DEF SnTypeOK
  <2> DEFINE r == [snTx[d] EXCEPT !.pc = "oops"]
  <2>2. r \in TxThreads /\ r.pc = "oops" /\ r.pkt = snTx[d].pkt
    BY <2>1 DEF TxThreads
  <2>3. snTx' = [snTx EXCEPT ![d] = r]
    BY <1>1
  <2> HIDE DEF r
  <2> QED
    BY <1>1, <2>2, <2>3, TxTyped
<1>2. CASE snPoll' = [snPoll EXCEPT ![d].pc = "oops"] /\ UNCHANGED snTx /\ snPoll[d].pc # "returned"
  <2>1. snPoll[d] \in PollThreads
    BY DEF SnTypeOK
  <2> DEFINE r == [snPoll[d] EXCEPT !.pc = "oops"]
  <2>2. r \in PollThreads /\ r.pc = "oops" /\ r.pkt = snPoll[d].pkt
    BY <2>1 DEF PollThreads
  <2>3. snPoll' = [snPoll EXCEPT ![d] = r]
    BY <1>2
  <2> HIDE DEF r
  <2> QED
    BY <1>2, <2>2, <2>3, PollTyped
<1> QED
  BY <1>1, <1>2 DEF Freed

-----------------------------------------------------------------------------
(* Where packets go                                                          *)

\* No packet moves; packets may only get lost; p goes from one place to another.
Stays == \A q \in SnPackets, k \in Kinds, d \in SnDevs : q \in At(k, d)' <=> q \in At(k, d)
Fewer == \A q \in SnPackets, k \in Kinds, d \in SnDevs : q \in At(k, d)' => q \in At(k, d)
Moves(p, j, d, k, e) ==
    /\ p \in At(j, d)
    /\ \A q \in SnPackets, l \in Kinds, x \in SnDevs :
          q \in At(l, x)' <=> (q \in At(l, x) /\ ~ (q = p /\ l = j /\ x = d)) \/ (q = p /\ l = k /\ x = e)

\* A step of a sender or a poll.
OneMoves ==
    \/ Stays
    \/ \E p \in SnPackets, j, k \in Kinds, d, e \in SnDevs :
          Moves(p, j, d, k, e) /\ (k = "pool" => e = SnHome[p])

(* What a sender holds after its step.                                       *)
LEMMA TxHoldsThen ==
  ASSUME NEW d \in SnDevs, NEW pc, NEW p, TxGoes(d, pc, p)
  PROVE  \A x \in SnDevs : TxHolds(x)' = IF x = d THEN IF pc \in {"enqueues", "returns"} THEN {p} ELSE {}
                                                  ELSE TxHolds(x)
BY DEF TxGoes, TxBecomes, TxHolds

(* What a poll holds after its step.                                         *)
LEMMA PollHoldsThen ==
  ASSUME NEW d \in SnDevs, NEW pc, NEW p, PollGoes(d, pc, p)
  PROVE  \A x \in SnDevs : PollHolds(x)' = IF x = d THEN IF pc = "returns" THEN {p} ELSE {} ELSE PollHolds(x)
BY DEF PollGoes, PollBecomes, PollHolds

(* Threads that do not move hold what they held.                             *)
LEMMA HandsSame ==
  /\ UNCHANGED snTx => \A x \in SnDevs : TxHolds(x)' = TxHolds(x)
  /\ UNCHANGED snPoll => \A x \in SnDevs : PollHolds(x)' = PollHolds(x)
BY DEF TxHolds, PollHolds

(* Four unchanged kinds of places leave every packet where it is.            *)
LEMMA AllSame ==
  ASSUME UNCHANGED <<snPool, snRx>>,
         \A x \in SnDevs : TxHolds(x)' = TxHolds(x), \A x \in SnDevs : PollHolds(x)' = PollHolds(x)
  PROVE  Stays
BY DEF Stays, At, Kinds

\* A move, kind by kind.
Places(p, j, d, k, e) ==
    /\ j \in Kinds /\ k \in Kinds /\ p \in At(j, d)
    /\ \A q \in SnPackets, x \in SnDevs :
          /\ q \in snPool'[x] <=> (q \in snPool[x] /\ ~ (q = p /\ j = "pool" /\ x = d)) \/ (q = p /\ k = "pool" /\ x = e)
          /\ q \in snRx'[x] <=> (q \in snRx[x] /\ ~ (q = p /\ j = "rx" /\ x = d)) \/ (q = p /\ k = "rx" /\ x = e)
          /\ q \in TxHolds(x)' <=> (q \in TxHolds(x) /\ ~ (q = p /\ j = "tx" /\ x = d)) \/ (q = p /\ k = "tx" /\ x = e)
          /\ q \in PollHolds(x)' <=> (q \in PollHolds(x) /\ ~ (q = p /\ j = "poll" /\ x = d)) \/ (q = p /\ k = "poll" /\ x = e)

(* A move stated kind by kind is a move.                                     *)
LEMMA PlacesMove ==
  ASSUME NEW p, NEW j, NEW d, NEW k, NEW e, Places(p, j, d, k, e)
  PROVE  Moves(p, j, d, k, e)
<1>1. ASSUME NEW q \in SnPackets, NEW l \in Kinds, NEW x \in SnDevs
      PROVE  q \in At(l, x)' <=> (q \in At(l, x) /\ ~ (q = p /\ l = j /\ x = d)) \/ (q = p /\ l = k /\ x = e)
  <2>1. CASE l = "pool"
    <3>1. At(l, x) = snPool[x] /\ At(l, x)' = snPool'[x]
      BY <2>1 DEF At
    <3> QED
      BY <1>1, <2>1, <3>1 DEF Places
  <2>2. CASE l = "rx"
    <3>1. At(l, x) = snRx[x] /\ At(l, x)' = snRx'[x]
      BY <2>2 DEF At
    <3> QED
      BY <1>1, <2>2, <3>1 DEF Places
  <2>3. CASE l = "tx"
    <3>1. At(l, x) = TxHolds(x) /\ At(l, x)' = TxHolds(x)'
      BY <2>3 DEF At
    <3> QED
      BY <1>1, <2>3, <3>1 DEF Places
  <2>4. CASE l = "poll"
    <3>1. At(l, x) = PollHolds(x) /\ At(l, x)' = PollHolds(x)'
      BY <2>4 DEF At
    <3> QED
      BY <1>1, <2>4, <3>1 DEF Places
  <2> QED
    BY <2>1, <2>2, <2>3, <2>4 DEF Kinds
<1> QED
  BY <1>1 DEF Moves, Places

(* A sender moves at most one packet, and returns it where it comes from.    *)
LEMMA SenderMoves == ASSUME SnTypeOK, NEW d \in SnDevs, SnSends(d) PROVE OneMoves
<1> USE SnAssumption DEF SnAssumption
<1>1. CASE snull_get_tx_buffer(d)
  <2>1. UNCHANGED <<snRx, snPoll>> /\ TxHolds(d) = {}
    BY <1>1 DEF snull_get_tx_buffer, TxHolds
  <2>2. CASE TxGoes(d, "oops", snTx[d].pkt) /\ UNCHANGED <<snPool, snStopped>>
    <3>1. \A x \in SnDevs : TxHolds(x)' = IF x = d THEN {} ELSE TxHolds(x)
      BY <2>2, TxHoldsThen
    <3> QED
      BY <2>1, <2>2, <3>1, HandsSame, AllSame DEF OneMoves
  <2>3. ASSUME NEW p \in snPool[d], TxGoes(d, "enqueues", p), snPool' = [snPool EXCEPT ![d] = @ \ {p}]
        PROVE  OneMoves
    <3>1. \A x \in SnDevs : TxHolds(x)' = IF x = d THEN {p} ELSE TxHolds(x)
      BY <2>3, TxHoldsThen
    <3>2. \A x \in SnDevs : PollHolds(x)' = PollHolds(x)
      BY <2>1, HandsSame
    <3>3. p \in SnPackets /\ snPool \in [SnDevs -> SUBSET SnPackets]
      BY DEF SnTypeOK
    <3>4. Moves(p, "pool", d, "tx", d)
      <4>1. Places(p, "pool", d, "tx", d)
        BY <2>1, <2>3, <3>1, <3>2, <3>3 DEF Places, At, Kinds
      <4> QED
        BY <4>1, PlacesMove
    <3> QED
      BY <3>3, <3>4 DEF OneMoves, Kinds
  <2> QED
    BY <1>1, <2>2, <2>3, GetGoes
<1>2. CASE snull_enqueue_buf(d)
  <2> DEFINE p == snTx[d].pkt
  <2>1. TxGoes(d, "loads", NoPkt)
    BY <1>2, EnqueueGoes
  <2>2. \A x \in SnDevs : TxHolds(x)' = IF x = d THEN {} ELSE TxHolds(x)
    BY <2>1, TxHoldsThen
  <2>3. UNCHANGED <<snPool, snPoll>> /\ snRx' = [snRx EXCEPT ![SnTwin[d]] = @ \cup {p}] /\ TxHolds(d) = {p}
    BY <1>2 DEF snull_enqueue_buf, TxHolds
  <2>4. \A x \in SnDevs : PollHolds(x)' = PollHolds(x)
    BY <2>3, HandsSame
  <2>5. p \in SnPackets /\ snRx \in [SnDevs -> SUBSET SnPackets] /\ SnTwin[d] \in SnDevs
    BY <1>2 DEF SnTypeOK, TxThreads, snull_enqueue_buf
  <2> HIDE DEF p
  <2>6. Moves(p, "tx", d, "rx", SnTwin[d])
    <4>1. Places(p, "tx", d, "rx", SnTwin[d])
      BY <2>2, <2>3, <2>4, <2>5 DEF Places, At, Kinds
    <4> QED
      BY <4>1, PlacesMove
  <2> QED
    BY <2>5, <2>6 DEF OneMoves, Kinds
<1>3. CASE StatusLoads(d)
  <2>1. TxGoes(d, "stores", snTx[d].pkt)
    BY <1>3, LoadGoes
  <2>2. UNCHANGED <<snPool, snRx, snPoll>> /\ TxHolds(d) = {}
    BY <1>3 DEF StatusLoads, snDevice, TxHolds
  <2>3. \A x \in SnDevs : TxHolds(x)' = TxHolds(x)
    <3>1. \A x \in SnDevs : TxHolds(x)' = IF x = d THEN {} ELSE TxHolds(x)
      BY <2>1, TxHoldsThen
    <3> QED
      BY <2>2, <3>1
  <2> QED
    BY <2>2, <2>3, HandsSame, AllSame DEF OneMoves
<1>4. CASE StatusStores(d)
  <2>1. TxGoes(d, "interrupts", snTx[d].pkt)
    BY <1>4, StoreGoes
  <2>2. UNCHANGED <<snPool, snRx, snPoll>> /\ TxHolds(d) = {}
    BY <1>4 DEF StatusStores, TxHolds
  <2>3. \A x \in SnDevs : TxHolds(x)' = TxHolds(x)
    <3>1. \A x \in SnDevs : TxHolds(x)' = IF x = d THEN {} ELSE TxHolds(x)
      BY <2>1, TxHoldsThen
    <3> QED
      BY <2>2, <3>1
  <2> QED
    BY <2>2, <2>3, HandsSame, AllSame DEF OneMoves
<1>5. CASE Lockup(d)
  <2>1. TxGoes(d, "idle", NoPkt)
    BY <1>5, LockupGoes
  <2>2. UNCHANGED <<snPool, snRx, snPoll>> /\ TxHolds(d) = {}
    BY <1>5 DEF Lockup, TxHolds
  <2>3. \A x \in SnDevs : TxHolds(x)' = TxHolds(x)
    <3>1. \A x \in SnDevs : TxHolds(x)' = IF x = d THEN {} ELSE TxHolds(x)
      BY <2>1, TxHoldsThen
    <3> QED
      BY <2>2, <3>1
  <2> QED
    BY <2>2, <2>3, HandsSame, AllSame DEF OneMoves
<1>6. CASE snull_regular_interrupt(d)
  <2>1. PICK y \in SnDevs : y = snTx[d].irq
    BY <1>6, InterruptGoes
  <2>2. UNCHANGED <<snPool, snPoll>> /\ TxHolds(d) = {}
    BY <1>6 DEF snull_regular_interrupt, TxHolds
  <2>3. \A x \in SnDevs : PollHolds(x)' = PollHolds(x)
    BY <2>2, HandsSame
  <2>4. ASSUME NEW p \in snRx[y], TxGoes(d, "returns", p), p \in SnPackets, snRx' = [snRx EXCEPT ![y] = @ \ {p}]
        PROVE  OneMoves
    <3>1. \A x \in SnDevs : TxHolds(x)' = IF x = d THEN {p} ELSE TxHolds(x)
      BY <2>4, TxHoldsThen
    <3>2. snRx \in [SnDevs -> SUBSET SnPackets]
      BY DEF SnTypeOK
    <3>3. Moves(p, "rx", y, "tx", d)
      <4>1. Places(p, "rx", y, "tx", d)
        BY <2>2, <2>3, <2>4, <3>1, <3>2 DEF Places, At, Kinds
      <4> QED
        BY <4>1, PlacesMove
    <3> QED
      BY <2>4, <3>3 DEF OneMoves, Kinds
  <2>5. ASSUME NEW pc \in {"loads", "wakes", "idle"}, TxGoes(d, pc, NoPkt), UNCHANGED snRx PROVE OneMoves
    BY <2>2, <2>3, <2>5, TxHoldsThen, AllSame DEF OneMoves
  <2> QED
    BY <1>6, <2>1, <2>4, <2>5, InterruptGoes
<1>7. CASE snull_napi_interrupt(d)
  <2>1. UNCHANGED <<snPool, snRx>> /\ TxHolds(d) = {}
    BY <1>7 DEF snull_napi_interrupt, TxHolds
  <2>2. PICK pc \in {"loads", "wakes", "idle"} : TxGoes(d, pc, NoPkt)
    BY <1>7, NapiGoes
  <2>3. \A x \in SnDevs : TxHolds(x)' = TxHolds(x)
    BY <2>1, <2>2, TxHoldsThen
  <2>4. ASSUME NEW y \in SnDevs, snPoll[y].pc = "off", PollGoes(y, "tests", snPoll[y].pkt)
        PROVE  \A x \in SnDevs : PollHolds(x)' = PollHolds(x)
    <3>1. PollHolds(y) = {}
      BY <2>4 DEF PollHolds
    <3>2. \A x \in SnDevs : PollHolds(x)' = IF x = y THEN {} ELSE PollHolds(x)
      BY <2>4, PollHoldsThen
    <3> QED
      BY <3>1, <3>2
  <2>5. \A x \in SnDevs : PollHolds(x)' = PollHolds(x)
    <3>1. CASE UNCHANGED snPoll
      BY <3>1, HandsSame
    <3>2. CASE ~ UNCHANGED snPoll
      <4>1. /\ snTx[d].irq \in SnDevs /\ snPoll[snTx[d].irq].pc = "off"
            /\ PollGoes(snTx[d].irq, "tests", snPoll[snTx[d].irq].pkt)
        BY <1>7, <3>2, NapiGoes, Zenon
      <4> QED
        BY <4>1, <2>4
    <3> QED
      BY <3>1, <3>2
  <2> QED
    BY <2>1, <2>3, <2>5, AllSame DEF OneMoves
<1>8. CASE TxReturns(d)
  <2> DEFINE p == snTx[d].pkt
  <2>1. TxGoes(d, "returned", p)
    BY <1>8, ReturnsGoes
  <2>2. \A x \in SnDevs : TxHolds(x)' = IF x = d THEN {} ELSE TxHolds(x)
    BY <2>1, TxHoldsThen
  <2>3. UNCHANGED <<snRx, snPoll>> /\ snPool' = [snPool EXCEPT ![SnHome[p]] = @ \cup {p}] /\ TxHolds(d) = {p}
    BY <1>8 DEF TxReturns, Returned, PoolOf, TxHolds
  <2>4. \A x \in SnDevs : PollHolds(x)' = PollHolds(x)
    BY <2>3, HandsSame
  <2>5. p \in SnPackets /\ snPool \in [SnDevs -> SUBSET SnPackets] /\ SnHome[p] \in SnDevs
    BY <1>8 DEF SnTypeOK, TxThreads, TxReturns
  <2> HIDE DEF p
  <2>6. Moves(p, "tx", d, "pool", SnHome[p])
    <4>1. Places(p, "tx", d, "pool", SnHome[p])
      BY <2>2, <2>3, <2>4, <2>5 DEF Places, At, Kinds
    <4> QED
      BY <4>1, PlacesMove
  <2> QED
    BY <2>5, <2>6 DEF OneMoves, Kinds
<1>9. CASE TxReturned(d)
  <2>1. UNCHANGED <<snPool, snRx, snPoll>> /\ TxHolds(d) = {}
    BY <1>9 DEF TxReturned, TxHolds
  <2>2. PICK pc \in {"loads", "wakes", "idle"} : TxGoes(d, pc, NoPkt)
    BY <1>9, GoesOn DEF TxReturned
  <2> QED
    BY <2>1, <2>2, TxHoldsThen, HandsSame, AllSame DEF OneMoves
<1>10. CASE snull_tx_timeout(d)
  <2>1. TxGoes(d, "interrupts", NoPkt)
    BY <1>10, TimeoutGoes
  <2>2. UNCHANGED <<snPool, snRx, snPoll>> /\ TxHolds(d) = {}
    BY <1>10 DEF snull_tx_timeout, TxHolds
  <2>3. \A x \in SnDevs : TxHolds(x)' = TxHolds(x)
    <3>1. \A x \in SnDevs : TxHolds(x)' = IF x = d THEN {} ELSE TxHolds(x)
      BY <2>1, TxHoldsThen
    <3> QED
      BY <2>2, <3>1
  <2> QED
    BY <2>2, <2>3, HandsSame, AllSame DEF OneMoves
<1>11. CASE TimeoutWakes(d)
  <2>1. TxGoes(d, "idle", NoPkt)
    BY <1>11, TimeoutWakesGoes
  <2>2. UNCHANGED <<snPool, snRx, snPoll>> /\ TxHolds(d) = {}
    BY <1>11 DEF TimeoutWakes, TxHolds
  <2>3. \A x \in SnDevs : TxHolds(x)' = TxHolds(x)
    <3>1. \A x \in SnDevs : TxHolds(x)' = IF x = d THEN {} ELSE TxHolds(x)
      BY <2>1, TxHoldsThen
    <3> QED
      BY <2>2, <3>1
  <2> QED
    BY <2>2, <2>3, HandsSame, AllSame DEF OneMoves
<1> QED
  BY <1>1, <1>2, <1>3, <1>4, <1>5, <1>6, <1>7, <1>8, <1>9, <1>10, <1>11 DEF SnSends

(* So does a poll.                                                           *)
LEMMA PollMoves == ASSUME SnTypeOK, NEW d \in SnDevs, SnPolls(d) PROVE OneMoves
<1> USE SnAssumption DEF SnAssumption
<1>1. CASE snull_poll(d)
  <2>1. UNCHANGED <<snPool, snTx>> /\ PollHolds(d) = {}
    BY <1>1 DEF snull_poll, PollHolds
  <2>2. \A x \in SnDevs : TxHolds(x)' = TxHolds(x)
    BY <2>1, HandsSame
  <2>3. ASSUME NEW p \in snRx[d], PollGoes(d, "returns", p), p \in SnPackets, snRx' = [snRx EXCEPT ![d] = @ \ {p}]
        PROVE  OneMoves
    <3>1. \A x \in SnDevs : PollHolds(x)' = IF x = d THEN {p} ELSE PollHolds(x)
      BY <2>3, PollHoldsThen
    <3>2. snRx \in [SnDevs -> SUBSET SnPackets]
      BY DEF SnTypeOK
    <3>3. Moves(p, "rx", d, "poll", d)
      <4>1. Places(p, "rx", d, "poll", d)
        BY <2>1, <2>2, <2>3, <3>1, <3>2 DEF Places, At, Kinds
      <4> QED
        BY <4>1, PlacesMove
    <3> QED
      BY <2>3, <3>3 DEF OneMoves, Kinds
  <2>4. ASSUME NEW pc, pc # "returns", NEW p, PollGoes(d, pc, p), UNCHANGED snRx PROVE OneMoves
    BY <2>1, <2>2, <2>4, PollHoldsThen, AllSame DEF OneMoves
  <2>5. "tests" # "returns" /\ "completes" # "returns"
    OBVIOUS
  <2> QED
    BY <1>1, <2>3, <2>4, <2>5, PollTakes
<1>2. CASE PollReturns(d)
  <2> DEFINE p == snPoll[d].pkt
  <2>1. PollGoes(d, "returned", p)
    BY <1>2, PollReturnsGoes
  <2>2. \A x \in SnDevs : PollHolds(x)' = IF x = d THEN {} ELSE PollHolds(x)
    BY <2>1, PollHoldsThen
  <2>3. UNCHANGED <<snRx, snTx>> /\ snPool' = [snPool EXCEPT ![SnHome[p]] = @ \cup {p}] /\ PollHolds(d) = {p}
    BY <1>2 DEF PollReturns, Returned, PoolOf, PollHolds
  <2>4. \A x \in SnDevs : TxHolds(x)' = TxHolds(x)
    BY <2>3, HandsSame
  <2>5. p \in SnPackets /\ snPool \in [SnDevs -> SUBSET SnPackets] /\ SnHome[p] \in SnDevs
    BY <1>2 DEF SnTypeOK, PollThreads, PollReturns
  <2> HIDE DEF p
  <2>6. Moves(p, "poll", d, "pool", SnHome[p])
    <4>1. Places(p, "poll", d, "pool", SnHome[p])
      BY <2>2, <2>3, <2>4, <2>5 DEF Places, At, Kinds
    <4> QED
      BY <4>1, PlacesMove
  <2> QED
    BY <2>5, <2>6 DEF OneMoves, Kinds
<1>3. CASE PollReturned(d)
  <2>1. PollGoes(d, "tests", NoPkt)
    BY <1>3, PollReturnedGoes
  <2>2. UNCHANGED <<snPool, snRx, snTx>> /\ PollHolds(d) = {}
    BY <1>3 DEF PollReturned, PollHolds
  <2> QED
    BY <2>1, <2>2, PollHoldsThen, HandsSame, AllSame DEF OneMoves
<1>4. CASE PollCompletes(d)
  <2>1. PollGoes(d, "off", NoPkt)
    BY <1>4, PollCompletesGoes
  <2>2. UNCHANGED <<snPool, snRx, snTx>> /\ PollHolds(d) = {}
    BY <1>4 DEF PollCompletes, PollHolds
  <2> QED
    BY <2>1, <2>2, PollHoldsThen, HandsSame, AllSame DEF OneMoves
<1> QED
  BY <1>1, <1>2, <1>3, <1>4 DEF SnPolls

(* What a move does to the two statements about places.                      *)
LEMMA MoveKeeps == ASSUME SnOnce, OneMoves PROVE SnOnce' /\ (SnSomewhere /\ UNCHANGED snGone => SnSomewhere')
<1>1. CASE Stays
  BY <1>1 DEF Stays, SnOnce, SnSomewhere, Kinds
<1>2. ASSUME NEW p \in SnPackets, NEW j \in Kinds, NEW k \in Kinds, NEW d \in SnDevs, NEW e \in SnDevs,
             Moves(p, j, d, k, e), k = "pool" => e = SnHome[p]
      PROVE  SnOnce' /\ (SnSomewhere /\ UNCHANGED snGone => SnSomewhere')
  <2>1. SnOnce'
    <3>1. \A q \in SnPackets, x \in SnDevs : q \in At("pool", x)' => x = SnHome[q]
      BY <1>2 DEF Moves, SnOnce, Kinds
    <3>2. \A q \in SnPackets, x, y \in SnDevs, l, m \in Kinds :
             q \in At(l, x)' /\ q \in At(m, y)' => l = m /\ x = y
      BY <1>2 DEF Moves, SnOnce
    <3> QED
      BY <3>1, <3>2 DEF SnOnce
  <2>2. ASSUME SnSomewhere, UNCHANGED snGone, snGone = {}, NEW q \in SnPackets
        PROVE  \E l \in Kinds, x \in SnDevs : q \in At(l, x)'
    <3>1. PICK l \in Kinds, x \in SnDevs : q \in At(l, x)
      BY <2>2 DEF SnSomewhere
    <3>2. CASE q = p
      BY <1>2, <3>2 DEF Moves
    <3>3. CASE q # p
      <4>1. q \in At(l, x)'
        BY <1>2, <2>2, <3>1, <3>3 DEF Moves
      <4> QED
        BY <4>1
    <3> QED
      BY <3>2, <3>3
  <2> QED
    BY <2>1, <2>2 DEF SnSomewhere
<1> QED
  BY <1>1, <1>2 DEF OneMoves

(* Nor can losing packets put one in two places.                             *)
LEMMA FewerKeeps == ASSUME SnOnce, Fewer PROVE SnOnce'
BY DEF SnOnce, Fewer, Kinds

-----------------------------------------------------------------------------
(* Threads keep their type, whatever they do.                                *)
LEMMA ThreadsTyped ==
  ASSUME SnTypeOK, [SnNext]_snVars
  PROVE  snTx' \in [SnDevs -> TxThreads] /\ snPoll' \in [SnDevs -> PollThreads]
<1> DEFINE Typed == snTx' \in [SnDevs -> TxThreads] /\ snPoll' \in [SnDevs -> PollThreads]
<1>0. snTx \in [SnDevs -> TxThreads] /\ snPoll \in [SnDevs -> PollThreads]
  BY DEF SnTypeOK
<1> USE <1>0
<1>1. CASE snull_init_module
  BY <1>1 DEF snull_init_module
<1>2. ASSUME NEW d \in SnDevs, snull_cleanup(d) \/ snull_open(d) \/ snull_release(d) PROVE Typed
  BY <1>2 DEF snull_cleanup, snull_open, snull_release
<1>3. ASSUME NEW d \in SnDevs, snull_get_tx_buffer(d) PROVE Typed
  <2>1. UNCHANGED snPoll
    BY <1>3 DEF snull_get_tx_buffer
  <2> QED
    BY <1>3, <2>1, GetGoes DEF TxGoes
<1>4. ASSUME NEW d \in SnDevs, snull_enqueue_buf(d) PROVE Typed
  <2>1. TxGoes(d, "loads", NoPkt) /\ UNCHANGED snPoll
    BY <1>4, EnqueueGoes DEF snull_enqueue_buf
  <2> QED
    BY <2>1 DEF TxGoes
<1>5. ASSUME NEW d \in SnDevs, StatusLoads(d) PROVE Typed
  <2>1. TxGoes(d, "stores", snTx[d].pkt) /\ UNCHANGED snPoll
    BY <1>5, LoadGoes DEF StatusLoads
  <2> QED
    BY <2>1 DEF TxGoes
<1>6. ASSUME NEW d \in SnDevs, StatusStores(d) PROVE Typed
  <2>1. TxGoes(d, "interrupts", snTx[d].pkt) /\ UNCHANGED snPoll
    BY <1>6, StoreGoes DEF StatusStores
  <2> QED
    BY <2>1 DEF TxGoes
<1>7. ASSUME NEW d \in SnDevs, Lockup(d) PROVE Typed
  <2>1. TxGoes(d, "idle", NoPkt) /\ UNCHANGED snPoll
    BY <1>7, LockupGoes DEF Lockup
  <2> QED
    BY <2>1 DEF TxGoes
<1>8. ASSUME NEW d \in SnDevs, snull_regular_interrupt(d) PROVE Typed
  <2>1. UNCHANGED snPoll
    BY <1>8 DEF snull_regular_interrupt
  <2> QED
    BY <1>8, <2>1, InterruptGoes DEF TxGoes
<1>9. ASSUME NEW d \in SnDevs, snull_napi_interrupt(d) PROVE Typed
  BY <1>9, NapiGoes DEF TxGoes, PollGoes
<1>10. ASSUME NEW d \in SnDevs, TxReturns(d) PROVE Typed
  <2>1. TxGoes(d, "returned", snTx[d].pkt) /\ UNCHANGED snPoll
    BY <1>10, ReturnsGoes DEF TxReturns
  <2> QED
    BY <2>1 DEF TxGoes
<1>11. ASSUME NEW d \in SnDevs, TxReturned(d) PROVE Typed
  <2>1. TxGoesOn(d, snTx[d]) /\ UNCHANGED snPoll
    BY <1>11 DEF TxReturned
  <2> QED
    BY <2>1, GoesOn DEF TxGoes
<1>12. ASSUME NEW d \in SnDevs, snull_tx_timeout(d) PROVE Typed
  <2>1. TxGoes(d, "interrupts", NoPkt) /\ UNCHANGED snPoll
    BY <1>12, TimeoutGoes DEF snull_tx_timeout
  <2> QED
    BY <2>1 DEF TxGoes
<1>13. ASSUME NEW d \in SnDevs, TimeoutWakes(d) PROVE Typed
  <2>1. TxGoes(d, "idle", NoPkt) /\ UNCHANGED snPoll
    BY <1>13, TimeoutWakesGoes DEF TimeoutWakes
  <2> QED
    BY <2>1 DEF TxGoes
<1>14. ASSUME NEW d \in SnDevs, snull_poll(d) PROVE Typed
  <2>1. UNCHANGED snTx
    BY <1>14 DEF snull_poll
  <2> QED
    BY <1>14, <2>1, PollTakes DEF PollGoes
<1>15. ASSUME NEW d \in SnDevs, PollReturns(d) PROVE Typed
  <2>1. PollGoes(d, "returned", snPoll[d].pkt) /\ UNCHANGED snTx
    BY <1>15, PollReturnsGoes DEF PollReturns
  <2> QED
    BY <2>1 DEF PollGoes
<1>16. ASSUME NEW d \in SnDevs, PollReturned(d) PROVE Typed
  <2>1. PollGoes(d, "tests", NoPkt) /\ UNCHANGED snTx
    BY <1>16, PollReturnedGoes DEF PollReturned
  <2> QED
    BY <2>1 DEF PollGoes
<1>17. ASSUME NEW d \in SnDevs, PollCompletes(d) PROVE Typed
  <2>1. PollGoes(d, "off", NoPkt) /\ UNCHANGED snTx
    BY <1>17, PollCompletesGoes DEF PollCompletes
  <2> QED
    BY <2>1 DEF PollGoes
<1>18. ASSUME NEW d \in SnDevs, Freed(d) PROVE Typed
  BY <1>18, FreedGoes DEF TxGoes, PollGoes
<1>19. CASE UNCHANGED snVars
  BY <1>19 DEF snVars
<1> QED
  BY <1>1, <1>2, <1>3, <1>4, <1>5, <1>6, <1>7, <1>8, <1>9, <1>10, <1>11, <1>12, <1>13, <1>14, <1>15,
     <1>16, <1>17, <1>18, <1>19 DEF SnNext, SnSends, SnPolls

\* The lists and the flags.
ListsTyped ==
    /\ snGone \subseteq SnDevs /\ snUp \subseteq SnDevs
    /\ snPool \in [SnDevs -> SUBSET SnPackets] /\ snRx \in [SnDevs -> SUBSET SnPackets]
    /\ snStatus \in [SnDevs -> SUBSET {"rx", "tx"}]
    /\ SnGoneEmpty

(* So do the lists, and an interface that does not exist gets nothing.       *)
LEMMA ListsPreserved == SnTypeOK /\ SnGoneEmpty /\ [SnNext]_snVars => ListsTyped'
<1> SUFFICES ASSUME SnTypeOK, SnGoneEmpty, [SnNext]_snVars PROVE ListsTyped'
  OBVIOUS
<1>0. ListsTyped /\ \A d \in SnDevs : snTx[d] \in TxThreads /\ snPoll[d] \in PollThreads
  BY DEF SnTypeOK, ListsTyped
<1> USE <1>0, SnAssumption DEF SnAssumption, ListsTyped, SnGoneEmpty
<1>1. CASE snull_init_module
  BY <1>1 DEF snull_init_module
<1>2. ASSUME NEW d \in SnDevs, snull_cleanup(d) \/ snull_open(d) \/ snull_release(d) PROVE ListsTyped'
  BY <1>2 DEF snull_cleanup, snull_open, snull_release
<1>3. ASSUME NEW d \in SnDevs, snull_get_tx_buffer(d) PROVE ListsTyped'
  <2>1. UNCHANGED snPool \/ \E p \in snPool[d] : snPool' = [snPool EXCEPT ![d] = @ \ {p}]
    BY <1>3 DEF snull_get_tx_buffer
  <2>2. UNCHANGED <<snGone, snUp, snRx, snStatus>>
    BY <1>3 DEF snull_get_tx_buffer
  <2>3. snPool' \in [SnDevs -> SUBSET SnPackets] /\ \A x \in SnDevs : snPool[x] = {} => snPool'[x] = {}
    BY <2>1
  <2> QED
    BY <2>2, <2>3
<1>4. ASSUME NEW d \in SnDevs, snull_enqueue_buf(d) PROVE ListsTyped'
  <2>1. snTx[d].pkt \in SnPackets /\ SnTwin[d] \in SnDevs
    BY <1>4 DEF snull_enqueue_buf, TxThreads
  <2>2. /\ SnTwin[d] \notin snGone /\ UNCHANGED <<snGone, snUp, snPool, snStatus>>
        /\ snRx' = [snRx EXCEPT ![SnTwin[d]] = @ \cup {snTx[d].pkt}]
    BY <1>4 DEF snull_enqueue_buf
  <2> QED
    BY <2>1, <2>2
<1>5. ASSUME NEW d \in SnDevs, StatusStores(d) PROVE ListsTyped'
  <2>1. PICK new \in SUBSET {"rx", "tx"} : snStatus' = [snStatus EXCEPT ![snTx[d].irq] = new]
    <3>1. snTx[d].seen \in SUBSET {"rx", "tx"}
      BY DEF TxThreads
    <3>2. snTx[d].seen \cup {IF snTx[d].irq = d THEN "tx" ELSE "rx"} \in SUBSET {"rx", "tx"}
      BY <3>1
    <3> QED
      BY <1>5, <3>2 DEF StatusStores
  <2>2. UNCHANGED <<snGone, snUp, snPool, snRx>>
    BY <1>5 DEF StatusStores
  <2>3. snStatus' \in [SnDevs -> SUBSET {"rx", "tx"}]
    BY <2>1
  <2> QED
    BY <2>2, <2>3
<1>6. ASSUME NEW d \in SnDevs, snull_regular_interrupt(d) PROVE ListsTyped'
  <2>1. \/ UNCHANGED snRx
        \/ \E p \in snRx[snTx[d].irq] : snRx' = [snRx EXCEPT ![snTx[d].irq] = @ \ {p}]
    BY <1>6 DEF snull_regular_interrupt
  <2>2. UNCHANGED <<snGone, snUp, snPool>> /\ snStatus' = [snStatus EXCEPT ![snTx[d].irq] = {}]
    BY <1>6 DEF snull_regular_interrupt
  <2>3. snRx' \in [SnDevs -> SUBSET SnPackets] /\ \A x \in SnDevs : snRx[x] = {} => snRx'[x] = {}
    BY <2>1
  <2>4. snStatus' \in [SnDevs -> SUBSET {"rx", "tx"}]
    BY <2>2
  <2> QED
    BY <2>2, <2>3, <2>4
<1>7. ASSUME NEW d \in SnDevs, snull_napi_interrupt(d) PROVE ListsTyped'
  <2>1. UNCHANGED <<snGone, snUp, snPool, snRx>> /\ snStatus' = [snStatus EXCEPT ![snTx[d].irq] = {}]
    BY <1>7 DEF snull_napi_interrupt
  <2> QED
    BY <2>1
<1>8. ASSUME NEW p \in SnPackets, Returned(p), UNCHANGED <<snGone, snUp, snRx, snStatus>> PROVE ListsTyped'
  BY <1>8 DEF Returned, PoolOf
<1>9. ASSUME NEW d \in SnDevs, TxReturns(d) \/ PollReturns(d) PROVE ListsTyped'
  <2>1. PICK p \in SnPackets : Returned(p)
    BY <1>9 DEF TxReturns, PollReturns, TxThreads, PollThreads
  <2>2. UNCHANGED <<snGone, snUp, snRx, snStatus>>
    BY <1>9 DEF TxReturns, PollReturns
  <2> QED
    BY <1>8, <2>1, <2>2
<1>10. ASSUME NEW d \in SnDevs, snull_tx_timeout(d) PROVE ListsTyped'
  <2>1. UNCHANGED <<snGone, snUp, snPool, snRx>> /\ snStatus' = [snStatus EXCEPT ![d] = {"tx"}]
    BY <1>10 DEF snull_tx_timeout
  <2> QED
    BY <2>1
<1>11. ASSUME NEW d \in SnDevs, snull_poll(d) PROVE ListsTyped'
  <2>1. UNCHANGED snRx \/ \E p \in snRx[d] : snRx' = [snRx EXCEPT ![d] = @ \ {p}]
    BY <1>11 DEF snull_poll
  <2>2. UNCHANGED <<snGone, snUp, snPool, snStatus>>
    BY <1>11 DEF snull_poll
  <2> QED
    BY <2>1, <2>2
<1>12. CASE UNCHANGED <<snGone, snUp, snPool, snRx, snStatus>>
  BY <1>12
<1>13. ASSUME NEW d \in SnDevs,
              \/ StatusLoads(d) \/ Lockup(d) \/ TxReturned(d) \/ TimeoutWakes(d)
              \/ PollReturned(d) \/ PollCompletes(d) \/ Freed(d)
       PROVE  ListsTyped'
  BY <1>12, <1>13 DEF StatusLoads, Lockup, TxReturned, TimeoutWakes, PollReturned, PollCompletes, Freed, snDevice
<1>14. CASE UNCHANGED snVars
  BY <1>12, <1>14 DEF snVars, snDevice
<1> QED
  BY <1>1, <1>2, <1>3, <1>4, <1>5, <1>6, <1>7, <1>9, <1>10, <1>11, <1>13, <1>14 DEF SnNext, SnSends, SnPolls

(* No step changes the type of anything.                                     *)
LEMMA SnTypePreserved == SnTypeOK /\ SnGoneEmpty /\ [SnNext]_snVars => SnTypeOK' /\ SnGoneEmpty'
BY ThreadsTyped, ListsPreserved DEF SnTypeOK, ListsTyped

(* A packet stays in one place.                                              *)
LEMMA PlacesPreserved ==
  SnTypeOK /\ SnGoneEmpty /\ SnOnce /\ SnSomewhere /\ [SnNext]_snVars => SnOnce' /\ SnSomewhere'
<1> SUFFICES ASSUME SnTypeOK, SnGoneEmpty, SnOnce, SnSomewhere, [SnNext]_snVars PROVE SnOnce' /\ SnSomewhere'
  OBVIOUS
<1>1. CASE snull_init_module
  <2> USE SnAssumption DEF SnAssumption
  <2>1. \A x \in SnDevs : /\ snPool'[x] = {p \in SnPackets : SnHome[p] = x} /\ snRx'[x] = {}
                          /\ TxHolds(x)' = {} /\ PollHolds(x)' = {}
    BY <1>1 DEF snull_init_module, SnGoneEmpty, TxHolds, PollHolds
  <2>2. \A p \in SnPackets, k \in Kinds, x \in SnDevs : p \in At(k, x)' <=> k = "pool" /\ x = SnHome[p]
    BY <2>1 DEF At, Kinds
  <2>3. SnOnce'
    BY <2>2 DEF SnOnce, Kinds
  <2>4. SnSomewhere'
    BY <2>2 DEF SnSomewhere, Kinds
  <2> QED
    BY <2>3, <2>4
<1>2. ASSUME NEW d \in SnDevs, snull_cleanup(d) PROVE SnOnce' /\ SnSomewhere'
  <2>1. /\ snPool \in [SnDevs -> SUBSET SnPackets] /\ snRx \in [SnDevs -> SUBSET SnPackets]
        /\ snPool' = [snPool EXCEPT ![d] = {}] /\ snRx' = [snRx EXCEPT ![d] = {}]
        /\ UNCHANGED <<snTx, snPoll>> /\ snGone' # {}
    BY <1>2 DEF snull_cleanup, SnTypeOK
  <2>2. \A x \in SnDevs : /\ snPool'[x] \subseteq snPool[x] /\ snRx'[x] \subseteq snRx[x]
                          /\ TxHolds(x)' = TxHolds(x) /\ PollHolds(x)' = PollHolds(x)
    BY <2>1, HandsSame
  <2>3. Fewer
    BY <2>2 DEF Fewer, At, Kinds
  <2> QED
    BY <2>1, <2>3, FewerKeeps DEF SnSomewhere
<1>3. ASSUME NEW d \in SnDevs, snull_open(d) \/ snull_release(d) PROVE SnOnce' /\ SnSomewhere'
  <2>1. UNCHANGED <<snGone, snPool, snRx, snTx, snPoll>>
    BY <1>3 DEF snull_open, snull_release
  <2> QED
    BY <2>1, HandsSame, AllSame, MoveKeeps DEF OneMoves
<1>4. ASSUME NEW d \in SnDevs, SnSends(d) PROVE SnOnce' /\ SnSomewhere'
  <2>1. UNCHANGED snGone
    BY <1>4 DEF SnSends, snull_get_tx_buffer, snull_enqueue_buf, StatusLoads, StatusStores, Lockup,
                snull_regular_interrupt, snull_napi_interrupt, TxReturns, TxReturned, snull_tx_timeout, TimeoutWakes,
                snDevice
  <2> QED
    BY <1>4, <2>1, SenderMoves, MoveKeeps
<1>5. ASSUME NEW d \in SnDevs, SnPolls(d) PROVE SnOnce' /\ SnSomewhere'
  <2>1. UNCHANGED snGone
    BY <1>5 DEF SnPolls, snull_poll, PollReturns, PollReturned, PollCompletes
  <2> QED
    BY <1>5, <2>1, PollMoves, MoveKeeps
<1>6. ASSUME NEW d \in SnDevs, Freed(d) PROVE SnOnce' /\ SnSomewhere'
  <2>1. UNCHANGED <<snGone, snPool, snRx>> /\ snGone # {}
    BY <1>6 DEF Freed, snDevice
  <2>2. \A x \in SnDevs : TxHolds(x)' \subseteq TxHolds(x) /\ PollHolds(x)' \subseteq PollHolds(x)
    <3>1. CASE TxGoes(d, "oops", snTx[d].pkt) /\ UNCHANGED snPoll
      <4>1. \A x \in SnDevs : TxHolds(x)' = IF x = d THEN {} ELSE TxHolds(x)
        BY <3>1, TxHoldsThen
      <4> QED
        BY <3>1, <4>1, HandsSame
    <3>2. CASE PollGoes(d, "oops", snPoll[d].pkt) /\ UNCHANGED snTx
      <4>1. \A x \in SnDevs : PollHolds(x)' = IF x = d THEN {} ELSE PollHolds(x)
        BY <3>2, PollHoldsThen
      <4> QED
        BY <3>2, <4>1, HandsSame
    <3> QED
      BY <1>6, <3>1, <3>2, FreedGoes
  <2>3. Fewer
    BY <2>1, <2>2 DEF Fewer, At, Kinds
  <2> QED
    BY <2>1, <2>3, FewerKeeps DEF SnSomewhere
<1>7. CASE UNCHANGED snVars
  <2>1. UNCHANGED <<snGone, snPool, snRx, snTx, snPoll>>
    BY <1>7 DEF snVars, snDevice
  <2> QED
    BY <2>1, HandsSame, AllSame, MoveKeeps DEF OneMoves
<1> QED
  BY <1>1, <1>2, <1>3, <1>4, <1>5, <1>6, <1>7 DEF SnNext

-----------------------------------------------------------------------------
(* Wake-ups                                                                  *)

(* A sender that is not at its look leaves the looks to come.                *)
LEMMA TxReturningStays ==
  ASSUME NEW d \in SnDevs, NEW pc, NEW p, TxGoes(d, pc, p), snTx[d].pc # "returned", UNCHANGED snPoll
  PROVE  \A q : Returning(q) => Returning(q)'
BY DEF TxGoes, TxBecomes, Returning

(* So does a poll.                                                           *)
LEMMA PollReturningStays ==
  ASSUME NEW d \in SnDevs, NEW pc, NEW p, PollGoes(d, pc, p), snPoll[d].pc # "returned", UNCHANGED snTx
  PROVE  \A q : Returning(q) => Returning(q)'
BY DEF PollGoes, PollBecomes, Returning

(* A step that neither stops a queue nor touches the pools.                  *)
LEMMA CalmKeeps ==
  ASSUME SnWakes, Waiting' \subseteq Waiting, UNCHANGED <<snPool, snLast>>,
         \A q : Returning(q) => Returning(q)'
  PROVE  SnWakes'
BY DEF SnWakes

(* A packet comes back to its pool.                                          *)
LEMMA ReturnedKeeps ==
  ASSUME SnTypeOK, SnWakes, NEW p \in SnPackets, Returned(p), Returning(p)',
         \A x \in SnDevs : p \notin snPool[x], Waiting' = Waiting,
         \A q : Returning(q) => Returning(q)'
  PROVE  SnWakes'
<1> SUFFICES ASSUME NEW e \in Waiting PROVE snPool'[e] = {} \/ \E q \in snPool'[e] \cap snLast' : Returning(q)'
  BY DEF SnWakes
<1>1. /\ e \in SnDevs /\ SnHome[p] \in SnDevs /\ snPool \in [SnDevs -> SUBSET SnPackets]
      /\ snPool' = [snPool EXCEPT ![SnHome[p]] = @ \cup {p}]
      /\ snLast' = IF snPool[SnHome[p]] = {} THEN snLast \cup {p} ELSE snLast \ {p}
  BY SnAssumption DEF SnAssumption, SnTypeOK, Waiting, Returned, Link, PoolOf
<1>2. CASE snPool[e] = {}
  <2>1. CASE e = SnHome[p]
    BY <1>1, <1>2, <2>1
  <2>2. CASE e # SnHome[p]
    BY <1>1, <1>2, <2>2
  <2> QED
    BY <2>1, <2>2
<1>3. CASE snPool[e] # {}
  <2>1. PICK q \in snPool[e] \cap snLast : Returning(q)
    BY <1>3 DEF SnWakes
  <2>2. q # p /\ q \in snPool'[e] /\ q \in snLast'
    BY <1>1, <2>1
  <2> QED
    BY <2>1, <2>2
<1> QED
  BY <1>2, <1>3

(* The thread that has looked at its packet wakes the queue, or does not     *)
(* need to.                                                                  *)
LEMMA LookKeeps ==
  ASSUME SnTypeOK, SnOnce, SnWakes, NEW p \in SnPackets, Wakes(p), UNCHANGED <<snUp, snPool, snLast>>,
         \A q : q # p /\ Returning(q) => Returning(q)'
  PROVE  SnWakes'
<1> SUFFICES ASSUME NEW e \in Waiting' PROVE snPool'[e] = {} \/ \E q \in snPool'[e] \cap snLast' : Returning(q)'
  BY DEF SnWakes
<1>1. e \in Waiting /\ (p \in snLast => e # SnHome[p])
  BY DEF Waiting, Wakes, PoolOf
<1>2. p \in snPool[e] => e = SnHome[p]
  <2>1. e \in SnDevs
    BY <1>1 DEF Waiting, SnTypeOK
  <2> QED
    BY <2>1 DEF SnOnce, At
<1> QED
  BY <1>1, <1>2 DEF SnWakes

(* A wake-up that a stopped queue waits for stays under way.                 *)
LEMMA WakesPreserved == SnTypeOK /\ SnGoneEmpty /\ SnOnce /\ SnWakes /\ [SnNext]_snVars => SnWakes'
<1> SUFFICES ASSUME SnTypeOK, SnGoneEmpty, SnOnce, SnWakes, [SnNext]_snVars PROVE SnWakes'
  OBVIOUS
<1>1. CASE snull_init_module
  <2>1. Waiting' = {}
    BY <1>1 DEF snull_init_module, Waiting, SnGoneEmpty, SnTypeOK
  <2> QED
    BY <2>1 DEF SnWakes
<1>2. ASSUME NEW d \in SnDevs, snull_cleanup(d) PROVE SnWakes'
  <2>1. /\ Waiting' \subseteq Waiting \ {d} /\ UNCHANGED <<snTx, snPoll>>
        /\ snPool \in [SnDevs -> SUBSET SnPackets] /\ snRx \in [SnDevs -> SUBSET SnPackets]
        /\ snPool' = [snPool EXCEPT ![d] = {}] /\ snLast' = snLast \ (snPool[d] \cup snRx[d])
        /\ Waiting \subseteq SnDevs
    BY <1>2 DEF snull_cleanup, Waiting, SnTypeOK
  <2> SUFFICES ASSUME NEW e \in Waiting' PROVE snPool'[e] = {} \/ \E q \in snPool'[e] \cap snLast' : Returning(q)'
    BY DEF SnWakes
  <2>2. e \in SnDevs /\ e # d /\ e \in Waiting /\ snPool'[e] = snPool[e]
    BY <2>1
  <2>3. ASSUME NEW q \in snPool[e] \cap snLast, Returning(q) PROVE q \in snLast' /\ Returning(q)'
    <3>1. q \notin snPool[d] /\ q \notin snRx[d]
      <4>1. q \in SnPackets /\ q \in At("pool", e)
        BY <2>1, <2>2 DEF At
      <4>2. q \notin At("pool", d) /\ q \notin At("rx", d)
        BY <2>2, <4>1 DEF SnOnce, Kinds
      <4> QED
        BY <4>2 DEF At
    <3> QED
      BY <2>1, <2>3, <3>1 DEF Returning
  <2> QED
    BY <2>2, <2>3 DEF SnWakes
<1>3. ASSUME NEW d \in SnDevs, snull_open(d) \/ snull_release(d) PROVE SnWakes'
  <2>1. Waiting' \subseteq Waiting /\ UNCHANGED <<snPool, snLast, snTx, snPoll>>
    BY <1>3 DEF snull_open, snull_release, Waiting
  <2>2. \A q : Returning(q) => Returning(q)'
    BY <2>1 DEF Returning
  <2> QED
    BY <2>1, <2>2, CalmKeeps
<1>4. ASSUME NEW d \in SnDevs, snull_get_tx_buffer(d) PROVE SnWakes'
  <2>1. d \in SnDevs /\ d \notin Waiting /\ snTx[d].pc # "returned" /\ UNCHANGED <<snUp, snLocked, snLast, snPoll>>
    BY <1>4 DEF snull_get_tx_buffer, Waiting
  <2>2. CASE TxGoes(d, "oops", snTx[d].pkt) /\ UNCHANGED <<snPool, snStopped>>
    <3>1. Waiting' = Waiting
      BY <2>1, <2>2 DEF Waiting
    <3> QED
      BY <2>1, <2>2, <3>1, TxReturningStays, CalmKeeps
  <2>3. ASSUME NEW p \in snPool[d], TxGoes(d, "enqueues", p), snPool' = [snPool EXCEPT ![d] = @ \ {p}],
               snStopped' = snStopped \cup StopWithLast(d)
        PROVE  SnWakes'
    <3>1. \A q : Returning(q) => Returning(q)'
      BY <2>1, <2>3, TxReturningStays
    <3>2. snPool \in [SnDevs -> SUBSET SnPackets]
      BY DEF SnTypeOK
    <3>3. StopWithLast(d) = {d} => snPool'[d] = {}
      <4>1. IsFiniteSet(snPool[d])
        BY <3>2, SnAssumption, FS_Subset DEF SnAssumption
      <4>2. Cardinality(snPool[d]) = 1 => \E x : snPool[d] = {x}
        BY <4>1, FS_Singleton
      <4> QED
        BY <2>3, <3>2, <4>2 DEF StopWithLast
    <3> SUFFICES ASSUME NEW e \in Waiting' PROVE snPool'[e] = {} \/ \E q \in snPool'[e] \cap snLast' : Returning(q)'
      BY DEF SnWakes
    <3>4. CASE e = d
      <4>1. StopWithLast(d) = {d}
        BY <2>1, <2>3, <3>4 DEF Waiting, StopWithLast
      <4> QED
        BY <3>3, <3>4, <4>1
    <3>5. CASE e # d
      <4>1. e \in Waiting
        BY <2>1, <2>3, <3>5 DEF Waiting, StopWithLast
      <4>2. snPool'[e] = snPool[e]
        BY <2>3, <3>2, <3>5, <4>1 DEF Waiting, SnTypeOK
      <4> QED
        BY <2>1, <3>1, <4>1, <4>2 DEF SnWakes
    <3> QED
      BY <3>4, <3>5
  <2> QED
    BY <1>4, <2>2, <2>3, GetGoes
<1>5. ASSUME NEW d \in SnDevs, snull_enqueue_buf(d) PROVE SnWakes'
  <2> DEFINE p == snTx[d].pkt
  <2>1. TxGoes(d, "loads", NoPkt)
    BY <1>5, EnqueueGoes
  <2>2. /\ snTx[d].pc = "enqueues" /\ UNCHANGED <<snPoll, snPool>> /\ Waiting' = Waiting /\ snLast \subseteq snLast' \cup {p}
    BY <1>5 DEF snull_enqueue_buf, Link, Waiting
  <2>3. \A q : Returning(q) => Returning(q)'
    BY <2>1, <2>2, TxReturningStays
  <2>4. \A e \in SnDevs : p \notin snPool[e]
    <3>1. p \in SnPackets /\ p \in At("tx", d)
      BY <2>2 DEF SnTypeOK, TxThreads, At, TxHolds
    <3>2. \A e \in SnDevs : p \notin At("pool", e)
      BY <3>1 DEF SnOnce, Kinds
    <3> QED
      BY <3>2 DEF At
  <2>5. Waiting \subseteq SnDevs
    BY DEF Waiting, SnTypeOK
  <2> HIDE DEF p
  <2> QED
    BY <2>2, <2>3, <2>4, <2>5 DEF SnWakes
<1>6. ASSUME NEW d \in SnDevs, StatusLoads(d) PROVE SnWakes'
  <2>1. TxGoes(d, "stores", snTx[d].pkt)
    BY <1>6, LoadGoes
  <2>2. /\ snTx[d].pc # "returned" /\ UNCHANGED <<snPoll, snPool, snLast>>
        /\ Waiting' \subseteq Waiting
    BY <1>6 DEF StatusLoads, snDevice, Waiting
  <2> QED
    BY <2>1, <2>2, TxReturningStays, CalmKeeps
<1>7. ASSUME NEW d \in SnDevs, StatusStores(d) PROVE SnWakes'
  <2>1. TxGoes(d, "interrupts", snTx[d].pkt)
    BY <1>7, StoreGoes
  <2>2. /\ snTx[d].pc # "returned" /\ UNCHANGED <<snPoll, snPool, snLast>>
        /\ Waiting' \subseteq Waiting
    BY <1>7 DEF StatusStores, Waiting
  <2> QED
    BY <2>1, <2>2, TxReturningStays, CalmKeeps
<1>8. ASSUME NEW d \in SnDevs, Lockup(d) PROVE SnWakes'
  <2>1. TxGoes(d, "idle", NoPkt)
    BY <1>8, LockupGoes
  <2>2. /\ snTx[d].pc # "returned" /\ UNCHANGED <<snPoll, snPool, snLast>>
        /\ Waiting' \subseteq Waiting
    BY <1>8 DEF Lockup, Waiting
  <2> QED
    BY <2>1, <2>2, TxReturningStays, CalmKeeps
<1>9. ASSUME NEW d \in SnDevs, snull_regular_interrupt(d) PROVE SnWakes'
  <2>1. PICK pc, p : TxGoes(d, pc, p)
    BY <1>9, InterruptGoes
  <2>2. snTx[d].pc # "returned" /\ UNCHANGED <<snPoll, snPool, snLast>> /\ Waiting' \subseteq Waiting
    BY <1>9 DEF snull_regular_interrupt, Waiting
  <2> QED
    BY <2>1, <2>2, TxReturningStays, CalmKeeps
<1>10. ASSUME NEW d \in SnDevs, snull_napi_interrupt(d) PROVE SnWakes'
  <2>1. PICK pc : TxGoes(d, pc, NoPkt)
    BY <1>10, NapiGoes
  <2>2. snTx[d].pc # "returned" /\ UNCHANGED <<snPool, snLast>> /\ Waiting' \subseteq Waiting
    BY <1>10 DEF snull_napi_interrupt, Waiting
  <2>3. \A x \in SnDevs : snTx[x].pc = "returned" => snTx'[x] = snTx[x]
    BY <2>1, <2>2 DEF TxGoes, TxBecomes
  <2>4. \A x \in SnDevs : snPoll[x].pc = "returned" => snPoll'[x] = snPoll[x]
    BY <1>10, NapiGoes DEF PollGoes, PollBecomes
  <2>5. \A q : Returning(q) => Returning(q)'
    BY <2>3, <2>4 DEF Returning
  <2> QED
    BY <2>2, <2>5, CalmKeeps
<1>11. ASSUME NEW d \in SnDevs, TxReturns(d) PROVE SnWakes'
  <2>p. PICK p \in SnPackets : p = snTx[d].pkt
    BY <1>11 DEF SnTypeOK, TxThreads, TxReturns
  <2>1. TxGoes(d, "returned", p)
    BY <1>11, <2>p, ReturnsGoes
  <2>2. snTx[d].pc = "returns" /\ Returned(p) /\ UNCHANGED snPoll /\ Waiting' = Waiting
    BY <1>11, <2>p DEF TxReturns, Waiting
  <2>3. \A e \in SnDevs : p \notin snPool[e]
    <3>1. p \in At("tx", d)
      BY <2>2, <2>p DEF At, TxHolds
    <3>2. \A e \in SnDevs : p \notin At("pool", e)
      BY <3>1 DEF SnOnce, Kinds
    <3> QED
      BY <3>2 DEF At
  <2>4. Returning(p)' /\ \A q : Returning(q) => Returning(q)'
    <3>1. \A q : Returning(q) => Returning(q)'
      BY <2>1, <2>2, TxReturningStays
    <3> QED
      BY <2>1, <3>1 DEF Returning, TxGoes, TxBecomes
  <2> QED
    BY <2>2, <2>3, <2>4, ReturnedKeeps
<1>12. ASSUME NEW d \in SnDevs, TxReturned(d) PROVE SnWakes'
  <2> DEFINE p == snTx[d].pkt
  <2>1. PICK pc : TxGoes(d, pc, NoPkt)
    BY <1>12, GoesOn DEF TxReturned
  <2>2. snTx[d].pc = "returned" /\ Wakes(p) /\ UNCHANGED <<snUp, snPool, snLast, snPoll>>
    BY <1>12 DEF TxReturned
  <2>3. p \in SnPackets
    BY <2>2 DEF SnTypeOK, TxThreads
  <2>4. \A q : q # p /\ Returning(q) => Returning(q)'
    BY <2>1, <2>2 DEF Returning, TxGoes, TxBecomes
  <2> HIDE DEF p
  <2> QED
    BY <2>2, <2>3, <2>4, LookKeeps
<1>13. ASSUME NEW d \in SnDevs, snull_tx_timeout(d) PROVE SnWakes'
  <2>1. TxGoes(d, "interrupts", NoPkt)
    BY <1>13, TimeoutGoes
  <2>2. /\ snTx[d].pc # "returned" /\ UNCHANGED <<snPoll, snPool, snLast>>
        /\ Waiting' \subseteq Waiting
    BY <1>13 DEF snull_tx_timeout, Waiting
  <2> QED
    BY <2>1, <2>2, TxReturningStays, CalmKeeps
<1>14. ASSUME NEW d \in SnDevs, TimeoutWakes(d) PROVE SnWakes'
  <2>1. TxGoes(d, "idle", NoPkt)
    BY <1>14, TimeoutWakesGoes
  <2>2. /\ snTx[d].pc # "returned" /\ UNCHANGED <<snPoll, snPool, snLast>>
        /\ Waiting' \subseteq Waiting
    BY <1>14 DEF TimeoutWakes, Waiting
  <2> QED
    BY <2>1, <2>2, TxReturningStays, CalmKeeps
<1>15. ASSUME NEW d \in SnDevs, snull_poll(d) PROVE SnWakes'
  <2>1. PICK pc, p : PollGoes(d, pc, p)
    BY <1>15, PollTakes
  <2>2. snPoll[d].pc # "returned" /\ UNCHANGED <<snTx, snPool, snLast>> /\ Waiting' \subseteq Waiting
    BY <1>15 DEF snull_poll, Waiting
  <2> QED
    BY <2>1, <2>2, PollReturningStays, CalmKeeps
<1>16. ASSUME NEW d \in SnDevs, PollReturns(d) PROVE SnWakes'
  <2>p. PICK p \in SnPackets : p = snPoll[d].pkt
    BY <1>16 DEF SnTypeOK, PollThreads, PollReturns
  <2>1. PollGoes(d, "returned", p)
    BY <1>16, <2>p, PollReturnsGoes
  <2>2. snPoll[d].pc = "returns" /\ Returned(p) /\ UNCHANGED snTx /\ Waiting' = Waiting
    BY <1>16, <2>p DEF PollReturns, Waiting
  <2>3. \A e \in SnDevs : p \notin snPool[e]
    <3>1. p \in At("poll", d)
      BY <2>2, <2>p DEF At, PollHolds
    <3>2. \A e \in SnDevs : p \notin At("pool", e)
      BY <3>1 DEF SnOnce, Kinds
    <3> QED
      BY <3>2 DEF At
  <2>4. Returning(p)' /\ \A q : Returning(q) => Returning(q)'
    <3>1. \A q : Returning(q) => Returning(q)'
      BY <2>1, <2>2, PollReturningStays
    <3> QED
      BY <2>1, <3>1 DEF Returning, PollGoes, PollBecomes
  <2> QED
    BY <2>2, <2>3, <2>4, ReturnedKeeps
<1>17. ASSUME NEW d \in SnDevs, PollReturned(d) PROVE SnWakes'
  <2> DEFINE p == snPoll[d].pkt
  <2>1. PollGoes(d, "tests", NoPkt)
    BY <1>17, PollReturnedGoes
  <2>2. snPoll[d].pc = "returned" /\ Wakes(p) /\ UNCHANGED <<snUp, snPool, snLast, snTx>>
    BY <1>17 DEF PollReturned
  <2>3. p \in SnPackets
    BY <2>2 DEF SnTypeOK, PollThreads
  <2>4. \A q : q # p /\ Returning(q) => Returning(q)'
    BY <2>1, <2>2 DEF Returning, PollGoes, PollBecomes
  <2> HIDE DEF p
  <2> QED
    BY <2>2, <2>3, <2>4, LookKeeps
<1>18. ASSUME NEW d \in SnDevs, PollCompletes(d) PROVE SnWakes'
  <2>1. PollGoes(d, "off", NoPkt)
    BY <1>18, PollCompletesGoes
  <2>2. /\ snPoll[d].pc # "returned" /\ UNCHANGED <<snTx, snPool, snLast>>
        /\ Waiting' \subseteq Waiting
    BY <1>18 DEF PollCompletes, Waiting
  <2> QED
    BY <2>1, <2>2, PollReturningStays, CalmKeeps
<1>19. ASSUME NEW d \in SnDevs, Freed(d) PROVE SnWakes'
  <2>1. /\ UNCHANGED <<snPool, snLast>> /\ Waiting' \subseteq Waiting
    BY <1>19 DEF Freed, snDevice, Waiting
  <2>2. CASE TxGoes(d, "oops", snTx[d].pkt) /\ UNCHANGED snPoll /\ snTx[d].pc # "returned"
    BY <2>1, <2>2, TxReturningStays, CalmKeeps
  <2>3. CASE PollGoes(d, "oops", snPoll[d].pkt) /\ UNCHANGED snTx /\ snPoll[d].pc # "returned"
    BY <2>1, <2>3, PollReturningStays, CalmKeeps
  <2> QED
    BY <1>19, <2>2, <2>3, FreedGoes
<1>20. CASE UNCHANGED snVars
  <2>1. Waiting' \subseteq Waiting /\ UNCHANGED <<snPool, snLast, snTx, snPoll>>
    BY <1>20 DEF snVars, snDevice, Waiting
  <2>2. \A q : Returning(q) => Returning(q)'
    BY <2>1 DEF Returning
  <2> QED
    BY <2>1, <2>2, CalmKeeps
<1> QED
  BY <1>1, <1>2, <1>3, <1>4, <1>5, <1>6, <1>7, <1>8, <1>9, <1>10, <1>11, <1>12, <1>13, <1>14, <1>15,
     <1>16, <1>17, <1>18, <1>19, <1>20 DEF SnNext, SnSends, SnPolls

-----------------------------------------------------------------------------
(* The invariant holds of every reachable state.                             *)
LEMMA SnInductive == SnSpec => []SnInv
<1>1. SnInit => SnInv
  <2> SUFFICES ASSUME SnInit PROVE SnInv
    OBVIOUS
  <2> USE SnAssumption DEF SnAssumption, SnInit
  <2>1. TxIdle \in TxThreads /\ PollOff \in PollThreads
    BY DEF TxIdle, PollOff, TxThreads, PollThreads
  <2>2. SnTypeOK
    BY <2>1 DEF SnTypeOK
  <2>3. SnGoneEmpty /\ snGone # {} /\ Waiting = {}
    BY DEF SnGoneEmpty, Waiting
  <2>4. \A x \in SnDevs : snPool[x] = {} /\ snRx[x] = {} /\ TxHolds(x) = {} /\ PollHolds(x) = {}
    BY DEF TxHolds, PollHolds, TxIdle, PollOff
  <2>5. \A x \in SnDevs, k \in Kinds : At(k, x) = {}
    BY <2>4 DEF At, Kinds
  <2> QED
    BY <2>2, <2>3, <2>5 DEF SnInv, SnOnce, SnSomewhere, SnWakes, Kinds
<1>2. SnInv /\ [SnNext]_snVars => SnInv'
  BY SnTypePreserved, PlacesPreserved, WakesPreserved DEF SnInv
<1> QED
  BY <1>1, <1>2, PTL DEF SnSpec

(* snull: no packet is duplicated, and none is lost while both interfaces    *)
(* exist (snull.c:132-186, :287-376, :425-503): a step moves one packet, and *)
(* its place excludes every other, so it goes from one place to one place.   *)
THEOREM PacketsKept == SnSpec => []PacketsConserved
<1>1. SnInv => PacketsConserved
  <2> SUFFICES ASSUME SnInv, NEW p \in SnPackets
               PROVE  LET places == {<<"pool", d>> : d \in {x \in SnDevs : p \in snPool[x]}}
                                    \cup {<<"rx", d>> : d \in {x \in SnDevs : p \in snRx[x]}}
                                    \cup {<<"hand", d>> : d \in InHand(p)}
                      IN  /\ Cardinality(places) <= 1
                          /\ snGone = {} => Cardinality(places) = 1
                          /\ \A d \in SnDevs : p \in snPool[d] => d = SnHome[p]
    BY DEF PacketsConserved
  <2> DEFINE places == {<<"pool", d>> : d \in {x \in SnDevs : p \in snPool[x]}}
                       \cup {<<"rx", d>> : d \in {x \in SnDevs : p \in snRx[x]}}
                       \cup {<<"hand", d>> : d \in InHand(p)}
             Name(k) == IF k \in {"tx", "poll"} THEN "hand" ELSE k
             Here(c, d) == \/ p \in snPool[d] /\ c = <<"pool", d>>
                           \/ p \in snRx[d] /\ c = <<"rx", d>>
                           \/ (p \in TxHolds(d) \/ p \in PollHolds(d)) /\ c = <<"hand", d>>
  <2>1. \A c : c \in places <=> \E k \in Kinds, d \in SnDevs : p \in At(k, d) /\ c = <<Name(k), d>>
    <3>1. \A d : d \in InHand(p) <=> d \in SnDevs /\ (p \in TxHolds(d) \/ p \in PollHolds(d))
      BY DEF InHand, TxHolds, PollHolds
    <3>2. \A c : c \in places <=> \E d \in SnDevs : Here(c, d)
      <4>1. \A c : c \in {<<"pool", d>> : d \in {x \in SnDevs : p \in snPool[x]}}
                    <=> \E d \in SnDevs : p \in snPool[d] /\ c = <<"pool", d>>
        BY Zenon
      <4>2. \A c : c \in {<<"rx", d>> : d \in {x \in SnDevs : p \in snRx[x]}}
                    <=> \E d \in SnDevs : p \in snRx[d] /\ c = <<"rx", d>>
        BY Zenon
      <4>3. \A c : c \in {<<"hand", d>> : d \in InHand(p)}
                    <=> \E d \in SnDevs : (p \in TxHolds(d) \/ p \in PollHolds(d)) /\ c = <<"hand", d>>
        BY <3>1, Zenon
      <4>4. \A c : c \in places <=> \/ c \in {<<"pool", d>> : d \in {x \in SnDevs : p \in snPool[x]}}
                                    \/ c \in {<<"rx", d>> : d \in {x \in SnDevs : p \in snRx[x]}}
                                    \/ c \in {<<"hand", d>> : d \in InHand(p)}
        BY Zenon
      <4> HIDE DEF places
      <4>5. ASSUME NEW c
            PROVE  c \in places <=> \E d \in SnDevs : Here(c, d)
        BY <4>1, <4>2, <4>3, <4>4, Zenon
      <4> QED
        BY <4>5
    <3>3. \A d : /\ At("pool", d) = snPool[d] /\ At("rx", d) = snRx[d]
                 /\ At("tx", d) = TxHolds(d) /\ At("poll", d) = PollHolds(d)
      BY DEF At
    <3>4. Name("pool") = "pool" /\ Name("rx") = "rx" /\ Name("tx") = "hand" /\ Name("poll") = "hand"
      OBVIOUS
    <3> HIDE DEF places, Name
    <3>5. \A c, d : (\E k \in Kinds : p \in At(k, d) /\ c = <<Name(k), d>>)
                  <=> Here(c, d)
      BY <3>3, <3>4, Zenon DEF Kinds
    <3> HIDE DEF Here
    <3>6. ASSUME NEW c
          PROVE  c \in places <=> \E k \in Kinds, d \in SnDevs : p \in At(k, d) /\ c = <<Name(k), d>>
      <4>1. c \in places <=> \E d \in SnDevs : \E k \in Kinds : p \in At(k, d) /\ c = <<Name(k), d>>
        BY <3>2, <3>5, Zenon
      <4> QED
        BY <4>1, Zenon
    <3> QED
      BY <3>6
  <2> HIDE DEF places, Name
  <2>2. \A b, c \in places : b = c
    BY <2>1 DEF SnInv, SnOnce
  <2>3. places = {} \/ \E c : places = {c}
    BY <2>2
  <2>4. Cardinality(places) <= 1 /\ (places # {} => Cardinality(places) = 1)
    <3>1. CASE places = {}
      BY <3>1, FS_EmptySet
    <3>2. CASE \E c : places = {c}
      <4>1. PICK c : places = {c}
        BY <3>2
      <4>2. Cardinality({c}) = 1
        BY FS_Singleton, Zenon
      <4> QED
        BY <4>1, <4>2
    <3> QED
      BY <2>3, <3>1, <3>2
  <2>5. snGone = {} => places # {}
    BY <2>1 DEF SnInv, SnSomewhere
  <2>6. \A d \in SnDevs : p \in snPool[d] => d = SnHome[p]
    BY DEF SnInv, SnOnce, At
  <2> QED
    BY <2>4, <2>5, <2>6 DEF places
<1> QED
  BY <1>1, SnInductive, PTL

(* snull: a queue stopped for want of packets is woken (snull.c:141-160),    *)
(* for any number of packets: while it is stopped nobody can take the packet *)
(* whose return wakes it, so its next is still NULL when the thread looks.   *)
THEOREM QueuesRestart == SnSpec => []QueueRestarts
<1>1. SnInv => QueueRestarts
  <2> SUFFICES ASSUME SnInv, NEW d \in Waiting, snPool[d] # {} PROVE WakeComing(d)
    BY DEF QueueRestarts, Waiting
  <2>1. PICK p \in snPool[d] \cap snLast : Returning(p)
    BY DEF SnInv, SnWakes
  <2>2. PoolOf(p) = d
    BY <2>1 DEF SnInv, SnTypeOK, SnOnce, At, Waiting, PoolOf
  <2> QED
    BY <2>1, <2>2 DEF Returning, WakeComing
<1> QED
  BY <1>1, SnInductive, PTL
=============================================================================
