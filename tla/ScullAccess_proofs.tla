------------------------- MODULE ScullAccess_proofs -------------------------
(* Theorems about ScullAccess, for any processes, users and terminals.       *)
EXTENDS ScullAccess, FiniteSetTheorems, TLAPS

AcTypeOK ==
    /\ acDev \in AcDevices
    /\ acPc \in [AcProcs -> {"out", "busy", "wait", "asleep", "awake", "wakes",
                             "trim", "open", "section"}]
    /\ acAvail \in Int /\ acCount \in Int
    /\ acOwner \in AcUsers
    /\ acDev # "wuid" => \A p \in AcProcs : acPc[p] \notin {"wait", "asleep", "awake", "wakes"}

(* Every step keeps the types, and the device.  Only scullwuid has waiters.   *)
LEMMA AcTypePreserved == AcTypeOK /\ [AcNext]_acVars => AcTypeOK' /\ acDev' = acDev
<1> SUFFICES ASSUME AcTypeOK, [AcNext]_acVars PROVE AcTypeOK' /\ acDev' = acDev
  OBVIOUS
<1> USE AcAssumption DEF AcAssumption, AcTypeOK, AcGoes, AcEnters
<1>1. ASSUME NEW p \in AcProcs, AcTrim(p) \/ AcUse(p) PROVE AcTypeOK' /\ acDev' = acDev
  BY <1>1 DEF AcTrim, AcUse
<1>2. ASSUME NEW p \in AcProcs, AcSingle(p) PROVE AcTypeOK' /\ acDev' = acDev
  BY <1>2 DEF AcSingle, AcSingleOpen, AcSingleBusy, AcSingleRelease
<1>3. ASSUME NEW p \in AcProcs, AcUser(p) PROVE AcTypeOK' /\ acDev' = acDev
  BY <1>3 DEF AcUser, AcUserOpen, AcUserRelease, AcGrab
<1>4. ASSUME NEW p \in AcProcs, AcWuid(p) PROVE AcTypeOK' /\ acDev' = acDev
  BY <1>4 DEF AcWuid, AcWaitOpen, AcWait, AcInterrupted, AcWaitRelease, AcWakes, AcGrab
<1>5. ASSUME NEW p \in AcProcs, AcPriv(p) PROVE AcTypeOK' /\ acDev' = acDev
  BY <1>5 DEF AcPriv, AcPrivOpen, AcPrivRelease
<1>6. CASE AcCleanup \/ UNCHANGED acVars
  BY <1>6 DEF AcCleanup, acVars
<1> QED
  BY <1>1, <1>2, <1>3, <1>4, <1>5, <1>6 DEF AcNext

-----------------------------------------------------------------------------
(* scullsingle                                                               *)

AcCounted == {p \in AcProcs : acPc[p] # "out"}

(* The counter is one less what has been taken by the holder and by losers   *)
(* that have not given it back.                                              *)
SingleInv ==
    /\ AcTypeOK
    /\ acDev = "single" =>
         /\ acAvail = 1 - Cardinality(AcCounted)
         /\ \A p, q \in AcHolders : p = q
         /\ ~ acHurt

(* Processes are finitely many.                                              *)
LEMMA CountedFinite == IsFiniteSet(AcCounted) /\ IsFiniteSet(AcHolders)
  BY AcAssumption, FS_Subset DEF AcAssumption, AcCounted, AcHolders

(* A set without two elements has at most one.                               *)
LEMMA AtMostOne ==
  ASSUME NEW S, IsFiniteSet(S), \A p, q \in S : p = q
  PROVE  Cardinality(S) <= 1
<1>1. CASE S = {}
  BY <1>1, FS_EmptySet
<1>2. CASE S # {}
  <2>1. PICK p \in S : TRUE
    BY <1>2
  <2>2. S = {p}
    BY <2>1
  <2> QED
    BY <2>2, FS_Singleton
<1> QED
  BY <1>1, <1>2

(* scullsingle is never open twice and no data are trimmed under a user      *)
(* (access.c:59-69): who sees the counter at 0 has found nobody counted.      *)
THEOREM SingleExclusive == AcSpec => []OneAtATime
<1>1. AcInit => SingleInv
  <2> SUFFICES ASSUME AcInit PROVE SingleInv
    OBVIOUS
  <2>1. AcCounted = {} /\ AcHolders = {}
    BY DEF AcInit, AcCounted, AcHolders, AcInside
  <2> QED
    BY <2>1, FS_EmptySet, AcAssumption DEF AcAssumption, AcInit, SingleInv, AcTypeOK, AcDevices
<1>2. SingleInv /\ [AcNext]_acVars => SingleInv'
  <2> SUFFICES ASSUME SingleInv, [AcNext]_acVars PROVE SingleInv'
    OBVIOUS
  <2>1. AcTypeOK' /\ acDev' = acDev
    BY AcTypePreserved DEF SingleInv
  <2> SUFFICES ASSUME acDev = "single"
               PROVE  /\ acAvail' = 1 - Cardinality(AcCounted')
                      /\ \A p, q \in AcHolders' : p = q
                      /\ ~ acHurt'
    BY <2>1 DEF SingleInv
  <2>2. /\ acAvail = 1 - Cardinality(AcCounted)
        /\ \A p, q \in AcHolders : p = q
        /\ ~ acHurt /\ AcTypeOK
        /\ Cardinality(AcCounted) \in Nat
    BY CountedFinite, FS_CardinalityType DEF SingleInv
  <2>3. ASSUME NEW p \in AcProcs, acPc[p] = "out", acPc'[p] # "out",
               \A r \in AcProcs \ {p} : acPc'[r] = acPc[r], acAvail' = acAvail - 1
        PROVE  acAvail' = 1 - Cardinality(AcCounted')
    <3>1. AcCounted' = AcCounted \cup {p} /\ p \notin AcCounted
      BY <2>3 DEF AcCounted
    <3>2. Cardinality(AcCounted') = Cardinality(AcCounted) + 1
      BY <3>1, CountedFinite, FS_AddElement
    <3> QED
      BY <2>2, <2>3, <3>2
  <2>4. ASSUME NEW p \in AcProcs, acPc[p] # "out", acPc'[p] = "out",
               \A r \in AcProcs \ {p} : acPc'[r] = acPc[r], acAvail' = acAvail + 1
        PROVE  acAvail' = 1 - Cardinality(AcCounted')
    <3>1. AcCounted' = AcCounted \ {p} /\ p \in AcCounted
      BY <2>4 DEF AcCounted
    <3>2. Cardinality(AcCounted') = Cardinality(AcCounted) - 1
      BY <3>1, CountedFinite, FS_RemoveElement
    <3> QED
      BY <2>2, <2>4, <3>2
  <2>5. ASSUME NEW p \in AcProcs, AcTrim(p) \/ AcUse(p)
        PROVE  /\ AcCounted' = AcCounted /\ AcHolders' = AcHolders
               /\ acAvail' = acAvail /\ ~ acHurt'
    <3>1. acPc[p] \in AcInside /\ acPc'[p] \in AcInside /\ acAvail' = acAvail
      BY <2>5, <2>2 DEF AcTrim, AcUse, AcGoes, AcTypeOK, AcInside
    <3>2. \A r \in AcProcs \ {p} : acPc'[r] = acPc[r]
      BY <2>5, <2>2 DEF AcTrim, AcUse, AcGoes, AcTypeOK
    <3>3. AcCounted' = AcCounted /\ AcHolders' = AcHolders
      BY <3>1, <3>2 DEF AcCounted, AcHolders, AcInside
    <3>4. p \in AcHolders /\ \A r \in AcProcs : acPc[r] = "section" => r \in AcHolders
      BY <3>1 DEF AcHolders, AcInside
    <3>5. ~ acHurt'
      BY <2>2, <2>5, <3>4 DEF AcTrim, AcUse
    <3> QED
      BY <3>1, <3>3, <3>5
  <2>6. ASSUME NEW p \in AcProcs, AcSingleOpen(p)
        PROVE  /\ acAvail' = 1 - Cardinality(AcCounted')
               /\ \A q, r \in AcHolders' : q = r
               /\ ~ acHurt'
    <3>1. /\ acPc[p] = "out" /\ acPc'[p] # "out" /\ acAvail' = acAvail - 1
          /\ \A r \in AcProcs \ {p} : acPc'[r] = acPc[r]
          /\ ~ acHurt'
      BY <2>2, <2>6 DEF AcSingleOpen, AcEnters, AcGoes, AcTypeOK
    <3>2. acAvail' = 1 - Cardinality(AcCounted')
      BY <2>3, <3>1
    <3>3. CASE acAvail' = 0
      <4>1. Cardinality(AcCounted) = 0
        BY <2>2, <3>1, <3>3
      <4>2. AcCounted = {}
        BY <4>1, CountedFinite, FS_EmptySet
      <4>3. AcHolders' \subseteq {p}
        BY <3>1, <4>2 DEF AcHolders, AcCounted, AcInside
      <4> QED
        BY <3>1, <3>2, <4>3
    <3>4. CASE acAvail' # 0
      <4>1. acPc'[p] = "busy"
        BY <2>2, <2>6, <3>4 DEF AcSingleOpen, AcGoes, AcTypeOK
      <4>2. AcHolders' \subseteq AcHolders
        BY <3>1, <4>1 DEF AcHolders, AcInside
      <4> QED
        BY <2>2, <3>1, <3>2, <4>2
    <3> QED
      BY <3>3, <3>4
  <2>7. ASSUME NEW p \in AcProcs, AcSingleBusy(p) \/ AcSingleRelease(p)
        PROVE  /\ acAvail' = 1 - Cardinality(AcCounted')
               /\ \A q, r \in AcHolders' : q = r
               /\ ~ acHurt'
    <3>1. /\ acPc[p] # "out" /\ acPc'[p] = "out" /\ acAvail' = acAvail + 1
          /\ \A r \in AcProcs \ {p} : acPc'[r] = acPc[r]
          /\ ~ acHurt'
      BY <2>2, <2>7 DEF AcSingleBusy, AcSingleRelease, AcGoes, AcTypeOK
    <3>2. AcHolders' \subseteq AcHolders
      BY <3>1 DEF AcHolders, AcInside
    <3> QED
      BY <2>2, <2>4, <3>1, <3>2
  <2>8. ASSUME NEW p \in AcProcs PROVE ~ (AcUser(p) \/ AcWuid(p) \/ AcPriv(p))
    BY <2>2 DEF AcUser, AcWuid, AcPriv, AcUserOpen, AcUserRelease, AcWaitOpen, AcWait,
       AcInterrupted, AcWaitRelease, AcWakes, AcPrivOpen, AcPrivRelease, AcGoes, AcTypeOK
  <2>9. CASE AcCleanup \/ UNCHANGED acVars
    <3>1. AcCounted' = AcCounted /\ AcHolders' = AcHolders
      BY <2>9 DEF AcCleanup, acVars, AcCounted, AcHolders
    <3> QED
      BY <2>2, <2>9, <3>1 DEF AcCleanup, acVars
  <2> QED
    BY <2>2, <2>5, <2>6, <2>7, <2>8, <2>9 DEF AcNext, AcSingle
<1>3. SingleInv => OneAtATime
  BY CountedFinite, AtMostOne DEF SingleInv, OneAtATime
<1> QED
  BY <1>1, <1>2, <1>3, PTL DEF AcSpec

-----------------------------------------------------------------------------
(* sculluid and scullwuid                                                    *)

(* Whoever may come in while files are open is one of the owner's, or root.  *)
OwnerInv ==
    /\ AcTypeOK
    /\ OwnersOnly
    /\ BlockedOpenServed

(* An open that succeeds is counted (access.c:119, :188).                    *)
LEMMA OneHolderMore ==
  ASSUME AcTypeOK, NEW p \in AcProcs, acPc[p] \notin AcInside, acPc'[p] \in AcInside,
         \A r \in AcProcs \ {p} : acPc'[r] = acPc[r],
         acCount = Cardinality(AcHolders), acCount' = acCount + 1
  PROVE  acCount' = Cardinality(AcHolders') /\ AcHolders' = AcHolders \cup {p}
<1>1. AcHolders' = AcHolders \cup {p} /\ p \notin AcHolders
  BY DEF AcHolders
<1> QED
  BY <1>1, CountedFinite, FS_AddElement

(* A release is uncounted (access.c:133, :203).                              *)
LEMMA OneHolderLess ==
  ASSUME AcTypeOK, NEW p \in AcProcs, acPc[p] \in AcInside, acPc'[p] \notin AcInside,
         \A r \in AcProcs \ {p} : acPc'[r] = acPc[r],
         acCount = Cardinality(AcHolders), acCount' = acCount - 1
  PROVE  acCount' = Cardinality(AcHolders') /\ AcHolders' = AcHolders \ {p}
<1>1. AcHolders' = AcHolders \ {p} /\ p \in AcHolders
  BY DEF AcHolders
<1> QED
  BY <1>1, CountedFinite, FS_RemoveElement

Owned == /\ acCount = Cardinality(AcHolders)
         /\ \A p \in AcHolders : acOwner \in {AcUid[p], AcEuid[p]} \/ p \in AcRoot

(* Owner, count and sleepers of sculluid and scullwuid, together: a sleeper    *)
(* is judged by the owner, the owner is kept by the count.                     *)
LEMMA OwnerInvariant == AcSpec => []OwnerInv
<1>1. AcInit => OwnerInv
  <2> SUFFICES ASSUME AcInit PROVE OwnerInv
    OBVIOUS
  <2>1. AcHolders = {}
    BY DEF AcInit, AcHolders, AcInside
  <2> QED
    BY <2>1, FS_EmptySet, AcAssumption
       DEF AcAssumption, AcInit, OwnerInv, AcTypeOK, AcDevices, OwnersOnly, BlockedOpenServed
<1>2. OwnerInv /\ [AcNext]_acVars => OwnerInv'
  <2> SUFFICES ASSUME OwnerInv, [AcNext]_acVars PROVE OwnerInv'
    OBVIOUS
  <2>1. AcTypeOK' /\ acDev' = acDev /\ AcTypeOK
    BY AcTypePreserved DEF OwnerInv
  <2>2. CASE acDev \notin {"uid", "wuid"}
    BY <2>1, <2>2 DEF OwnerInv, OwnersOnly, BlockedOpenServed, AcTypeOK
  <2>3. CASE acDev \in {"uid", "wuid"}
    <3> SUFFICES Owned' /\ BlockedOpenServed'
      BY <2>1 DEF OwnerInv, OwnersOnly, Owned
    <3>1. Owned /\ BlockedOpenServed /\ Cardinality(AcHolders) \in Nat
      BY <2>3, CountedFinite, FS_CardinalityType DEF OwnerInv, OwnersOnly, Owned
    <3>2. acCount = 0 => AcHolders = {}
      BY <3>1, CountedFinite, FS_EmptySet DEF Owned
    <3>3. ASSUME NEW p \in AcProcs, acPc[p] \notin AcInside, acPc[p] # "wakes", AcAllowed(p),
                 acOwner' = AcGrab(p), acCount' = acCount + 1, AcEnters(p)
          PROVE  Owned' /\ BlockedOpenServed'
      <4>1. acPc'[p] \in {"trim", "open"} /\ \A r \in AcProcs \ {p} : acPc'[r] = acPc[r]
        BY <2>1, <3>3 DEF AcEnters, AcTypeOK
      <4>2. acCount' = Cardinality(AcHolders') /\ AcHolders' = AcHolders \cup {p}
        BY <2>1, <3>1, <3>3, <4>1, OneHolderMore DEF Owned, AcInside
      <4>3. acCount' # 0
        BY <3>1, <3>3 DEF Owned
      <4>4. \A r \in AcProcs : AcAllowed(r)' => AcAllowed(r)
        BY <3>3, <4>3 DEF AcAllowed, AcGrab
      <4>5. \A r \in AcHolders' : acOwner' \in {AcUid[r], AcEuid[r]} \/ r \in AcRoot
        BY <3>1, <3>2, <3>3, <4>2 DEF Owned, AcAllowed, AcGrab
      <4>6. BlockedOpenServed'
        BY <3>1, <3>3, <4>1, <4>4 DEF BlockedOpenServed
      <4> QED
        BY <4>2, <4>5, <4>6 DEF Owned
    <3>4. ASSUME AcHolders' = AcHolders, UNCHANGED <<acCount, acOwner>>
          PROVE  Owned' /\ \A r \in AcProcs : AcAllowed(r)' <=> AcAllowed(r)
      BY <3>1, <3>4 DEF Owned, AcAllowed
    <3>5. ASSUME NEW p \in AcProcs, AcTrim(p) \/ AcUse(p) PROVE Owned' /\ BlockedOpenServed'
      <4>1. /\ acPc[p] \in AcInside /\ acPc'[p] \in AcInside /\ UNCHANGED <<acCount, acOwner>>
            /\ \A r \in AcProcs \ {p} : acPc'[r] = acPc[r]
        BY <2>1, <3>5 DEF AcTrim, AcUse, AcGoes, AcTypeOK, AcInside
      <4>2. AcHolders' = AcHolders
        BY <4>1 DEF AcHolders
      <4> QED
        BY <3>1, <3>4, <4>1, <4>2 DEF BlockedOpenServed, AcInside
    <3>6. ASSUME NEW p \in AcProcs, AcUserOpen(p) \/ AcWaitOpen(p)
          PROVE  Owned' /\ BlockedOpenServed'
      <4>1. CASE acPc'[p] = "wait"
        <5>1. /\ acPc[p] \in {"out", "awake"} /\ UNCHANGED <<acCount, acOwner>>
              /\ \A r \in AcProcs \ {p} : acPc'[r] = acPc[r]
          BY <2>1, <3>6, <4>1 DEF AcUserOpen, AcWaitOpen, AcEnters, AcTypeOK
        <5>2. AcHolders' = AcHolders
          BY <4>1, <5>1 DEF AcHolders, AcInside
        <5> QED
          BY <3>1, <3>4, <4>1, <5>1, <5>2 DEF BlockedOpenServed
      <4>2. CASE acPc'[p] # "wait"
        <5>1. /\ acPc[p] \in {"out", "awake"} /\ AcAllowed(p) /\ AcEnters(p)
              /\ acOwner' = AcGrab(p) /\ acCount' = acCount + 1
          BY <2>1, <3>6, <4>2 DEF AcUserOpen, AcWaitOpen, AcTypeOK
        <5> QED
          BY <3>3, <5>1 DEF AcInside
      <4> QED
        BY <4>1, <4>2
    <3>7. ASSUME NEW p \in AcProcs, AcUserRelease(p) \/ AcWaitRelease(p)
          PROVE  Owned' /\ BlockedOpenServed'
      <4>1. /\ acPc[p] = "open" /\ acPc'[p] \in {"out", "wakes"}
            /\ acCount' = acCount - 1 /\ acOwner' = acOwner
            /\ \A r \in AcProcs \ {p} : acPc'[r] = acPc[r]
        BY <2>1, <3>7 DEF AcUserRelease, AcWaitRelease, AcGoes, AcTypeOK
      <4>2. acCount' = Cardinality(AcHolders') /\ AcHolders' = AcHolders \ {p}
        BY <2>1, <3>1, <4>1, OneHolderLess DEF Owned, AcInside
      <4>3. Owned'
        BY <3>1, <4>1, <4>2 DEF Owned
      <4>4. CASE acDev = "uid"
        BY <2>1, <4>1, <4>3, <4>4 DEF BlockedOpenServed, AcTypeOK
      <4>5. CASE acDev = "wuid" /\ acCount = 1
        <5>1. acPc'[p] = "wakes"
          BY <2>1, <3>7, <4>5 DEF AcUserRelease, AcWaitRelease, AcLast, AcGoes, AcTypeOK
        <5> QED
          BY <4>3, <5>1 DEF BlockedOpenServed
      <4>6. CASE acDev = "wuid" /\ acCount # 1
        <5>1. acCount' # 0
          BY <3>1, <4>1, <4>6 DEF Owned
        <5>2. \A r \in AcProcs : AcAllowed(r)' => AcAllowed(r)
          BY <4>1, <5>1 DEF AcAllowed
        <5> QED
          BY <3>1, <4>1, <4>3, <5>2 DEF BlockedOpenServed
      <4> QED
        BY <2>3, <4>4, <4>5, <4>6
    <3>8. ASSUME NEW p \in AcProcs, AcWait(p) \/ AcInterrupted(p)
          PROVE  Owned' /\ BlockedOpenServed'
      <4>1. /\ acPc[p] \in {"wait", "asleep"} /\ UNCHANGED <<acCount, acOwner>>
            /\ acPc'[p] \in {"awake", "out"} \/ (acPc'[p] = "asleep" /\ ~ AcAllowed(p))
            /\ \A r \in AcProcs \ {p} : acPc'[r] = acPc[r]
        BY <2>1, <3>8 DEF AcWait, AcInterrupted, AcGoes, AcTypeOK
      <4>2. AcHolders' = AcHolders
        BY <4>1 DEF AcHolders, AcInside
      <4> QED
        BY <3>1, <3>4, <4>1, <4>2 DEF BlockedOpenServed
    <3>9. ASSUME NEW p \in AcProcs, AcWakes(p) PROVE Owned' /\ BlockedOpenServed'
      <4>1. /\ \A r \in AcProcs : acPc'[r] # "asleep"
            /\ \A r \in AcProcs : acPc'[r] \in AcInside <=> acPc[r] \in AcInside
            /\ UNCHANGED <<acCount, acOwner>>
        BY <2>1, <3>9 DEF AcWakes, AcTypeOK, AcInside
      <4>2. AcHolders' = AcHolders
        BY <4>1 DEF AcHolders
      <4> QED
        BY <3>4, <4>1, <4>2 DEF BlockedOpenServed
    <3>10. ASSUME NEW p \in AcProcs, AcSingle(p) PROVE Owned' /\ BlockedOpenServed'
      <4>1. /\ acPc[p] = "busy" /\ acPc'[p] = "out" /\ UNCHANGED <<acCount, acOwner>>
            /\ \A r \in AcProcs \ {p} : acPc'[r] = acPc[r]
        BY <2>1, <2>3, <3>10 DEF AcSingle, AcSingleOpen, AcSingleBusy, AcSingleRelease, AcGoes, AcTypeOK
      <4>2. AcHolders' = AcHolders
        BY <4>1 DEF AcHolders, AcInside
      <4> QED
        BY <3>1, <3>4, <4>1, <4>2 DEF BlockedOpenServed
    <3>11. CASE AcCleanup \/ UNCHANGED acVars
      <4>1. UNCHANGED <<acPc, acCount, acOwner>>
        BY <3>11 DEF AcCleanup, acVars
      <4>2. AcHolders' = AcHolders
        BY <4>1 DEF AcHolders
      <4> QED
        BY <3>1, <3>4, <4>1, <4>2 DEF BlockedOpenServed
    <3>12. ASSUME NEW p \in AcProcs PROVE ~ AcPriv(p)
      BY <2>3 DEF AcPriv, AcPrivOpen, AcPrivRelease
    <3> QED
      BY <3>5, <3>6, <3>7, <3>8, <3>9, <3>10, <3>11, <3>12 DEF AcNext, AcUser, AcWuid
  <2> QED
    BY <2>2, <2>3
<1> QED
  BY <1>1, <1>2, PTL DEF AcSpec

(* The owner is not replaced while files are open, and the count is the      *)
(* number of these files (access.c:116, :119, :186).                         *)
THEOREM OwnerKept == AcSpec => []OwnersOnly
<1>1. OwnerInv => OwnersOnly
  BY DEF OwnerInv
<1> QED
  BY <1>1, OwnerInvariant, PTL

(* Nobody sleeps before a device that is free for him without a wake-up      *)
(* coming (access.c:203-208).                                                *)
THEOREM BlockedServed == AcSpec => []BlockedOpenServed
<1>1. OwnerInv => BlockedOpenServed
  BY DEF OwnerInv
<1> QED
  BY <1>1, OwnerInvariant, PTL
=============================================================================
