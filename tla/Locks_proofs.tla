---------------------------- MODULE Locks_proofs ----------------------------
(***************************************************************************)
(* What RBMutex and Table keep.  RBMutex, for any numbers of readers,      *)
(* writers and slots: the state word is consistent, the slots count        *)
(* exactly the readers that entered by them, writers exclude each other    *)
(* and the slow readers, and a lock without slots excludes everyone.       *)
(* Table, for any callers, keys and bounds: its rows, locks and timers.    *)
(***************************************************************************)
EXTENDS RBMutex, Table, FiniteSetTheorems, WellFoundedInduction, TLAPS

\* The readers inside by slot s, and by the RWMutex.
Through(s) == {r \in Readers : token[r] = s}
Slow == {r \in Readers : rbPc[r] = "read" /\ token[r] = NoHolder}

Types ==
    /\ bias \in BOOLEAN
    /\ rwReaders \subseteq Readers /\ rwWriter \in Writers \cup {NoHolder}
    /\ rbPc \in [Readers \cup Writers ->
               {"idle", "fast", "slow", "read", "announced", "wait readers", "scan", "write", "leave"}]
    /\ token \in [Readers -> Slots \cup {NoHolder}]
    /\ unseen \in [Writers -> SUBSET Slots]
Counts == writers \in Int /\ counter \in [Slots -> Int]

\* Who stands where in mu.rw.
RWHeld ==
    /\ rwReaders = Slow
    /\ \A w \in Writers : rbPc[w] \in {"wait readers", "scan", "write"} => rwWriter = w
    /\ \A w \in Writers : rbPc[w] \in {"scan", "write"} => rwReaders = {}
TokenInside == \A r \in Readers : token[r] # NoHolder => rbPc[r] = "read"
FastHasSlots == \A r \in Readers : rbPc[r] = "fast" \/ token[r] # NoHolder => Slots # {}

IInv == Types /\ Counts /\ RWHeld /\ TokenInside /\ FastHasSlots /\ BiasOrWriters /\ CountersExact

LEMMA Disjoint ==
    /\ Readers \cap Writers = {} /\ NoHolder \notin Readers \cup Writers \cup Slots
    /\ IsFiniteSet(Readers) /\ IsFiniteSet(Writers) /\ IsFiniteSet(Slots)
BY LockAssumption

-----------------------------------------------------------------------------
LEMMA TypesStep == Types /\ Counts /\ [RBNext]_rbVars => Types' /\ Counts'
<1> SUFFICES ASSUME Types, Counts, [RBNext]_rbVars PROVE Types' /\ Counts' OBVIOUS
<1> USE DEF Types, RBGo, rw
<1>1. ASSUME NEW r \in Readers, ReaderStep(r) PROVE Types' /\ Counts'
  <2>1. CASE LoadState(r)
    <3>1. RBGo(r, "idle", "fast") \/ RBGo(r, "idle", "slow") BY <2>1 DEF LoadState
    <3> QED BY <2>1, <3>1 DEF LoadState, Counts
  <2>2. CASE RLockFast(r)
    <3>1. PICK s \in Slots : counter' = [counter EXCEPT ![s] = @ + 1] /\ token' = [token EXCEPT ![r] = s]
      BY <2>2 DEF RLockFast
    <3>2. counter' \in [Slots -> Int] BY ONLY <3>1, Counts DEF Counts
    <3> QED BY <2>2, <3>1, <3>2 DEF RLockFast, Counts
  <2>3. CASE RLockSlow(r) BY <2>3 DEF RLockSlow, Counts
  <2>4. CASE RUnlock(r)
    <3>1. counter' = counter \/ counter' = [counter EXCEPT ![token[r]] = counter[token[r]] - 1]
      BY <2>4 DEF RUnlock, SlotOf
    <3>2. counter' \in [Slots -> Int] BY ONLY <3>1, Counts DEF Counts
    <3> QED BY <2>4, <3>2 DEF RUnlock, Counts
  <2> QED BY <1>1, <2>1, <2>2, <2>3, <2>4 DEF ReaderStep
<1>2. ASSUME NEW w \in Writers, WriterStep(w) PROVE Types' /\ Counts'
  <2>1. CASE Announce(w)
    <3>1. writers' \in Int
      <4>1. writers' = writers + 1 BY <2>1 DEF Announce
      <4> QED BY ONLY <4>1, Counts DEF Counts
    <3> QED BY <2>1, <3>1 DEF Announce, Counts
  <2>2. CASE RWLockBegin(w) BY <2>2 DEF RWLockBegin, Counts
  <2>3. CASE RWLockEnd(w) BY <2>3 DEF RWLockEnd, Counts
  <2>4. CASE ScanSlot(w)
    <3>1. unseen' \in [Writers -> SUBSET Slots] BY <2>4 DEF ScanSlot
    <3> QED BY <2>4, <3>1 DEF ScanSlot, Counts
  <2>5. CASE ScanDone(w) BY <2>5 DEF ScanDone, Counts
  <2>6. CASE RWUnlock(w) BY <2>6 DEF RWUnlock, Counts
  <2>7. CASE RBLeave(w)
    <3>1. writers' \in Int
      <4>1. writers' = writers - 1 BY <2>7 DEF RBLeave
      <4> QED BY ONLY <4>1, Counts DEF Counts
    <3>2. bias' \in BOOLEAN BY <2>7 DEF RBLeave, BiasBack
    <3> QED BY <2>7, <3>1, <3>2 DEF RBLeave, Counts
  <2> QED BY <1>2, <2>1, <2>2, <2>3, <2>4, <2>5, <2>6, <2>7 DEF WriterStep
<1>3. CASE UNCHANGED rbVars BY <1>3 DEF rbVars, Counts
<1> QED BY <1>1, <1>2, <1>3 DEF RBNext

LEMMA RWStep ==
    ASSUME Types, RWHeld, TokenInside, [RBNext]_rbVars
    PROVE  RWHeld' /\ TokenInside'
<1> USE Disjoint DEF Types, RWHeld, TokenInside, Slow, RBGo
<1>1. ASSUME NEW r \in Readers, ReaderStep(r) PROVE RWHeld' /\ TokenInside'
  <2>0. r \notin Writers OBVIOUS
  <2>1. CASE LoadState(r)
    <3>1. RBGo(r, "idle", "fast") \/ RBGo(r, "idle", "slow") BY <2>1 DEF LoadState
    <3> QED BY <2>0, <2>1, <3>1 DEF LoadState, rw
  <2>2. CASE RLockFast(r)
    <3>1. \A w \in Writers : rbPc'[w] = rbPc[w] BY <2>0, <2>2 DEF RLockFast
    <3>2. PICK s \in Slots : token' = [token EXCEPT ![r] = s] BY <2>2 DEF RLockFast
    <3>3. token'[r] # NoHolder /\ rbPc[r] = "fast" /\ rbPc' = [rbPc EXCEPT ![r] = "read"] BY <2>2, <3>2 DEF RLockFast
    <3>4. Slow' = Slow BY <3>2, <3>3
    <3>5. TokenInside' BY <3>2, <3>3
    <3> QED BY <2>2, <3>1, <3>4, <3>5 DEF RLockFast, rw
  <2>3. CASE RLockSlow(r)
    <3>1. \A w \in Writers : rbPc'[w] = rbPc[w] BY <2>0, <2>3 DEF RLockSlow
    <3>2. rbPc[r] = "slow" /\ rbPc' = [rbPc EXCEPT ![r] = "read"] /\ token' = token BY <2>3 DEF RLockSlow
    <3>3. token[r] = NoHolder BY <3>2
    <3>4. Slow' = Slow \cup {r} BY <3>2, <3>3
    <3>5. \A w \in Writers : rbPc[w] \notin {"wait readers", "scan", "write"} BY <2>3 DEF RLockSlow
    <3> QED BY <2>3, <3>1, <3>2, <3>4, <3>5 DEF RLockSlow
  <2>4. CASE RUnlock(r)
    <3>1. \A w \in Writers : rbPc'[w] = rbPc[w] BY <2>0, <2>4 DEF RUnlock
    <3>2. rbPc' = [rbPc EXCEPT ![r] = "idle"] /\ rwWriter' = rwWriter BY <2>4 DEF RUnlock
    <3>3. CASE token[r] = NoHolder
      <4>1. token' = token /\ rwReaders' = rwReaders \ {r} BY <2>4, <3>3 DEF RUnlock
      <4>2. Slow' = Slow \ {r} BY <3>2, <4>1
      <4> QED BY <3>1, <3>2, <3>3, <4>1, <4>2
    <3>4. CASE token[r] # NoHolder
      <4>1. token' = [token EXCEPT ![r] = NoHolder] /\ rwReaders' = rwReaders BY <2>4, <3>4 DEF RUnlock
      <4>2. Slow' = Slow BY <3>2, <3>4, <4>1
      <4> QED BY <3>1, <3>2, <4>1, <4>2
    <3> QED BY <3>3, <3>4
  <2> QED BY <1>1, <2>1, <2>2, <2>3, <2>4 DEF ReaderStep
<1>2. ASSUME NEW w \in Writers, WriterStep(w) PROVE RWHeld' /\ TokenInside'
  <2>0. w \notin Readers /\ w # NoHolder OBVIOUS
  <2>1. CASE Announce(w) BY <2>0, <2>1 DEF Announce, rw
  <2>2. CASE RWLockBegin(w) BY <2>0, <2>2 DEF RWLockBegin, RWFree
  <2>3. CASE RWLockEnd(w) BY <2>0, <2>3 DEF RWLockEnd, rw
  <2>4. CASE ScanSlot(w) BY <2>0, <2>4 DEF ScanSlot, rw
  <2>5. CASE ScanDone(w) BY <2>0, <2>5 DEF ScanDone, rw
  <2>6. CASE RWUnlock(w) BY <2>0, <2>6 DEF RWUnlock
  <2>7. CASE RBLeave(w) BY <2>0, <2>7 DEF RBLeave, rw
  <2> QED BY <1>2, <2>1, <2>2, <2>3, <2>4, <2>5, <2>6, <2>7 DEF WriterStep
<1>3. CASE UNCHANGED rbVars BY <1>3 DEF rbVars
<1> QED BY <1>1, <1>2, <1>3 DEF RBNext

-----------------------------------------------------------------------------
LEMMA AnnouncedFinite == IsFiniteSet(Announced) /\ Cardinality(Announced) \in Nat
<1>1. IsFiniteSet(Announced) BY Disjoint, FS_Subset DEF Announced
<1> QED BY <1>1, FS_CardinalityType

LEMMA StateStep ==
    ASSUME Types, Counts, BiasOrWriters, [RBNext]_rbVars
    PROVE  BiasOrWriters'
<1> USE Disjoint DEF RBGo
<1>1. ASSUME NEW w \in Writers, Announce(w) PROVE BiasOrWriters'
  <2>0. rbPc[w] = "idle" /\ rbPc'[w] = "announced" /\ \A v \in Writers : v # w => rbPc'[v] = rbPc[v]
    BY <1>1 DEF Announce, Types
  <2>1. w \notin Announced /\ Announced' = Announced \cup {w} BY ONLY <2>0, w \in Writers DEF Announced
  <2>2. Cardinality(Announced') = Cardinality(Announced) + 1 BY <2>1, AnnouncedFinite, FS_AddElement
  <2>3. writers' = writers + 1 /\ bias' = FALSE /\ writers = Cardinality(Announced)
    BY <1>1 DEF Announce, BiasOrWriters
  <2>4. writers' = Cardinality(Announced') /\ writers' # 0 BY ONLY <2>2, <2>3, AnnouncedFinite
  <2> QED BY <2>3, <2>4 DEF BiasOrWriters
<1>2. ASSUME NEW w \in Writers, RBLeave(w) PROVE BiasOrWriters'
  <2>0. rbPc[w] = "leave" /\ rbPc'[w] = "idle" /\ \A v \in Writers : v # w => rbPc'[v] = rbPc[v]
    BY <1>2 DEF RBLeave, Types
  <2>1. w \in Announced /\ Announced' = Announced \ {w} BY ONLY <2>0, w \in Writers DEF Announced
  <2>2. Cardinality(Announced') = Cardinality(Announced) - 1 BY <2>1, AnnouncedFinite, FS_RemoveElement
  <2>3. writers' = writers - 1 /\ writers = Cardinality(Announced) BY <1>2 DEF RBLeave, BiasOrWriters
  <2>4. writers # 0
    <3>1. Announced # {} BY <2>1
    <3>2. Cardinality(Announced) # 0 BY <3>1, AnnouncedFinite, FS_EmptySet
    <3> QED BY <2>3, <3>2
  <2>5. writers' = Cardinality(Announced') /\ (writers' = 0 <=> writers = 1)
    BY ONLY <2>2, <2>3, AnnouncedFinite
  <2>6. bias = FALSE BY <2>4 DEF BiasOrWriters, Types
  <2>7. bias' = IF writers = 1 THEN Slots # {} ELSE FALSE BY <1>2, <2>6 DEF RBLeave, BiasBack
  <2> QED BY <2>5, <2>7 DEF BiasOrWriters
<1>3. CASE writers' = writers /\ bias' = bias /\ Announced' = Announced
  BY <1>3 DEF BiasOrWriters
<1>4. ASSUME NEW r \in Readers, ReaderStep(r)
      PROVE  writers' = writers /\ bias' = bias /\ Announced' = Announced
  <2>1. \A w \in Writers : rbPc'[w] = rbPc[w]
    BY <1>4 DEF ReaderStep, LoadState, RLockFast, RLockSlow, RUnlock, Types
  <2> QED BY <1>4, <2>1 DEF ReaderStep, LoadState, RLockFast, RLockSlow, RUnlock, Announced
<1>5. ASSUME NEW w \in Writers, WriterStep(w), ~Announce(w), ~RBLeave(w)
      PROVE  writers' = writers /\ bias' = bias /\ Announced' = Announced
  <2>1. rbPc[w] # "idle" /\ rbPc'[w] # "idle" /\ \A v \in Writers : v # w => rbPc'[v] = rbPc[v]
    BY <1>5 DEF WriterStep, RWLockBegin, RWLockEnd, ScanSlot, ScanDone, RWUnlock, Types
  <2>2. Announced' = Announced BY <2>1 DEF Announced
  <2> QED BY <1>5, <2>2 DEF WriterStep, RWLockBegin, RWLockEnd, ScanSlot, ScanDone, RWUnlock
<1>6. CASE UNCHANGED rbVars BY <1>3, <1>6 DEF rbVars, Announced
<1> QED BY <1>1, <1>2, <1>3, <1>4, <1>5, <1>6 DEF RBNext

-----------------------------------------------------------------------------
LEMMA FastStep ==
    ASSUME Types, BiasOrWriters, FastHasSlots, [RBNext]_rbVars
    PROVE  FastHasSlots'
<1> USE Disjoint DEF Types, FastHasSlots, RBGo
<1>1. ASSUME NEW r \in Readers, ReaderStep(r) PROVE FastHasSlots'
  <2>1. CASE LoadState(r)
    <3>0. FastState => Slots # {} BY DEF FastState, BiasOrWriters
    <3>1. RBGo(r, "idle", "slow") \/ (RBGo(r, "idle", "fast") /\ FastState) BY <2>1 DEF LoadState
    <3> QED BY <2>1, <3>0, <3>1 DEF LoadState
  <2>2. CASE RLockFast(r) BY <2>2 DEF RLockFast
  <2>3. CASE RLockSlow(r) BY <2>3 DEF RLockSlow
  <2>4. CASE RUnlock(r) BY <2>4 DEF RUnlock
  <2> QED BY <1>1, <2>1, <2>2, <2>3, <2>4 DEF ReaderStep
<1>2. ASSUME NEW w \in Writers, WriterStep(w) PROVE FastHasSlots'
  <2>0. w \notin Readers OBVIOUS
  <2>1. token' = token /\ \A r \in Readers : rbPc'[r] = rbPc[r]
    BY <1>2, <2>0 DEF WriterStep, Announce, RWLockBegin, RWLockEnd, ScanSlot, ScanDone, RWUnlock, RBLeave
  <2> QED BY <2>1
<1>3. CASE UNCHANGED rbVars BY <1>3 DEF rbVars
<1> QED BY <1>1, <1>2, <1>3 DEF RBNext

LEMMA ThroughFinite ==
    ASSUME NEW s PROVE IsFiniteSet(Through(s)) /\ Cardinality(Through(s)) \in Nat
<1>1. IsFiniteSet(Through(s)) BY Disjoint, FS_Subset DEF Through
<1> QED BY <1>1, FS_CardinalityType

LEMMA CountersStep ==
    ASSUME Types, Counts, TokenInside, CountersExact, [RBNext]_rbVars
    PROVE  CountersExact'
<1> USE Disjoint
<1>0. CountersExact <=> \A s \in Slots : counter[s] = Cardinality(Through(s))
  BY DEF CountersExact, Through
<1>a. CountersExact' <=> \A s \in Slots : counter'[s] = Cardinality(Through(s)')
  BY DEF CountersExact, Through
<1>1. ASSUME NEW r \in Readers, RLockFast(r) PROVE CountersExact'
  <2>1. PICK t \in Slots : counter' = [counter EXCEPT ![t] = @ + 1] /\ token' = [token EXCEPT ![r] = t]
    BY <1>1 DEF RLockFast
  <2>2. token[r] = NoHolder BY <1>1 DEF RLockFast, RBGo, TokenInside, Types
  <2>3. ASSUME NEW s \in Slots PROVE counter'[s] = Cardinality(Through(s)')
    <3>1. CASE s = t
      <4>0. r \notin Through(s) BY <2>2, <3>1 DEF Through
      <4>1. Through(s)' = Through(s) \cup {r}
        <5>1. token'[r] = s /\ \A q \in Readers : q # r => token'[q] = token[q]
          BY <2>1, <3>1 DEF Types
        <5> QED BY <5>1 DEF Through
      <4>2. Cardinality(Through(s)') = Cardinality(Through(s)) + 1 BY <4>0, <4>1, ThroughFinite, FS_AddElement
      <4> QED BY <1>0, <2>1, <3>1, <4>2 DEF Counts
    <3>2. CASE s # t
      <4>1. Through(s)' = Through(s) BY <2>1, <2>2, <3>2 DEF Through, Types
      <4> QED BY <1>0, <2>1, <3>2, <4>1 DEF Counts
    <3> QED BY <3>1, <3>2
  <2> QED BY <1>a, <2>3
<1>2. ASSUME NEW r \in Readers, RUnlock(r), token[r] # NoHolder PROVE CountersExact'
  <2>1. /\ counter' = [counter EXCEPT ![token[r]] = @ - 1] /\ token' = [token EXCEPT ![r] = NoHolder]
        /\ token[r] \in Slots
    BY <1>2 DEF RUnlock, SlotOf, Types
  <2>2. ASSUME NEW s \in Slots PROVE counter'[s] = Cardinality(Through(s)')
    <3>1. CASE s = token[r]
      <4>1. r \in Through(s) /\ Through(s)' = Through(s) \ {r} BY <2>1, <3>1 DEF Through, Types
      <4>2. Cardinality(Through(s)') = Cardinality(Through(s)) - 1 BY <4>1, ThroughFinite, FS_RemoveElement
      <4> QED BY <1>0, <2>1, <3>1, <4>2 DEF Counts
    <3>2. CASE s # token[r]
      <4>1. Through(s)' = Through(s) BY <2>1, <3>2 DEF Through, Types
      <4> QED BY <1>0, <2>1, <3>2, <4>1 DEF Counts
    <3> QED BY <3>1, <3>2
  <2> QED BY <1>a, <2>2
<1>3. CASE UNCHANGED <<counter, token>> BY <1>0, <1>a, <1>3 DEF Through
<1>4. ASSUME NEW r \in Readers, ReaderStep(r), ~RLockFast(r), ~(RUnlock(r) /\ token[r] # NoHolder)
      PROVE  UNCHANGED <<counter, token>>
  BY <1>4 DEF ReaderStep, LoadState, RLockSlow, RUnlock
<1>5. ASSUME NEW w \in Writers, WriterStep(w) PROVE UNCHANGED <<counter, token>>
  BY <1>5 DEF WriterStep, Announce, RWLockBegin, RWLockEnd, ScanSlot, ScanDone, RWUnlock, RBLeave
<1>6. CASE UNCHANGED rbVars BY <1>3, <1>6 DEF rbVars
<1> QED BY <1>1, <1>2, <1>3, <1>4, <1>5, <1>6 DEF RBNext

-----------------------------------------------------------------------------
LEMMA Initially == RBInit => IInv
<1> SUFFICES ASSUME RBInit PROVE IInv OBVIOUS
<1> USE Disjoint
<1>1. Types /\ Counts BY DEF RBInit, Types, Counts
<1>2. RWHeld /\ TokenInside /\ FastHasSlots BY DEF RBInit, RWHeld, Slow, TokenInside, FastHasSlots
<1>3. Announced = {} BY DEF RBInit, Announced
<1>4. BiasOrWriters
  <2>1. Cardinality(Announced) = 0 BY <1>3, FS_EmptySet
  <2> QED BY <2>1 DEF RBInit, BiasOrWriters
<1>5. CountersExact
  <2>1. \A s \in Slots : {r \in Readers : token[r] = s} = {} BY DEF RBInit
  <2>2. \A s \in Slots : counter[s] = 0 BY DEF RBInit
  <2> QED BY <2>1, <2>2, FS_EmptySet DEF CountersExact
<1> QED BY <1>1, <1>2, <1>4, <1>5 DEF IInv

THEOREM Invariance == RBSpec => []IInv
<1>1. IInv /\ [RBNext]_rbVars => IInv'
  BY TypesStep, RWStep, StateStep, FastStep, CountersStep DEF IInv
<1> QED BY Initially, <1>1, PTL DEF RBSpec

\* The lock's fields keep their types; no counter is ever taken below zero.
THEOREM TypeCorrect == RBSpec => []RBTypeOK
<1>1. IInv => RBTypeOK
  <2> SUFFICES ASSUME IInv PROVE RBTypeOK OBVIOUS
  <2>1. writers \in Nat BY AnnouncedFinite DEF IInv, BiasOrWriters
  <2>2. \A s \in Slots : counter[s] \in Nat BY ThroughFinite DEF IInv, CountersExact, Through
  <2>3. counter \in [Slots -> Nat] BY <2>2 DEF IInv, Counts
  <2> QED BY <2>1, <2>3 DEF IInv, Types, RBTypeOK
<1> QED BY Invariance, <1>1, PTL

\* The bias bit is set only while no writer is announced, and every slot counts
\* exactly the readers inside by it.
THEOREM StateConsistent == RBSpec => []StateAgrees
<1>1. IInv => StateAgrees BY DEF IInv, StateAgrees
<1> QED BY Invariance, <1>1, PTL

\* A writer is alone among the writers and the readers of the slow way.
THEOREM WriterAlone == RBSpec => []WritersExclude
<1>1. IInv => WritersExclude
  BY Disjoint DEF IInv, RWHeld, Slow, Types, WritersExclude
<1> QED BY Invariance, <1>1, PTL

\* No reader sets out on the fast way beside an announced writer.
THEOREM NoFastBesideWriter == RBSpec => NoFastStartBesideWriter
<1>1. IInv /\ [RBNext]_rbVars => [\A r \in Readers : rbPc[r] = "idle" /\ rbPc'[r] = "fast" => Announced = {}]_rbVars
  <2> SUFFICES ASSUME IInv, RBNext, NEW r \in Readers, rbPc[r] = "idle", rbPc'[r] = "fast"
               PROVE  Announced = {}
    OBVIOUS
  <2>1. LoadState(r) /\ FastState
    BY Disjoint DEF RBNext, ReaderStep, LoadState, RLockFast, RLockSlow, RUnlock, WriterStep, Announce,
       RWLockBegin, RWLockEnd, ScanSlot, ScanDone, RWUnlock, RBLeave, RBGo, IInv, Types
  <2>2. writers = 0 BY <2>1 DEF FastState
  <2>3. Cardinality(Announced) = 0 BY <2>2 DEF IInv, BiasOrWriters
  <2> QED BY <2>3, AnnouncedFinite, FS_EmptySet
<1> QED BY Invariance, <1>1, PTL DEF RBSpec, NoFastStartBesideWriter

\* A lock without slots (the zero value, as in znet/web.go:56) excludes
\* everyone: it is the race of the fast way, and nothing else, that lets a
\* reader in beside a writer.
THEOREM ZeroValueExcludes == Slots = {} => (RBSpec => []MutualExclusion)
<1> SUFFICES ASSUME Slots = {} PROVE RBSpec => []MutualExclusion OBVIOUS
<1>1. IInv => MutualExclusion
  BY Disjoint DEF IInv, RWHeld, Slow, Types, FastHasSlots, MutualExclusion
<1> QED BY Invariance, <1>1, PTL

-----------------------------------------------------------------------------
Inside == {w \in Writers : rbPc[w] = "write"}

\* No writer is inside while mu.rw is free, and only its holder can be.
LEMMA InsideHolds ==
    ASSUME IInv
    PROVE  /\ rwWriter = NoHolder => Inside = {}
           /\ \A w \in Writers : rwWriter = w => Inside \subseteq {w}
           /\ Inside # {} => Slow = {}
BY Disjoint DEF IInv, RWHeld, Inside

\* A step of a reader is a step of the promised lock, or invisible to it.
LEMMA ReaderStepMaps ==
    ASSUME IInv, NEW r \in Readers, ReaderStep(r)
    PROVE  AbstractLock!Next \/ UNCHANGED <<Slow, Inside>>
<1> USE Disjoint DEF IInv, Types, TokenInside, Slow, Inside, RBGo
<1>0. r \notin Writers OBVIOUS
<1>1. Inside' = Inside
  BY <1>0 DEF ReaderStep, LoadState, RLockFast, RLockSlow, RUnlock
<1>2. CASE LoadState(r)
  <2>1. rbPc[r] = "idle" /\ rbPc'[r] # "read" /\ token' = token BY <1>2 DEF LoadState
  <2>2. \A q \in Readers : q # r => rbPc'[q] = rbPc[q] BY <1>2 DEF LoadState
  <2>3. \A q \in Readers : rbPc'[q] = "read" <=> rbPc[q] = "read" BY <2>1, <2>2
  <2>4. Slow' = Slow BY <2>1, <2>3
  <2> QED BY <1>1, <2>4
<1>3. CASE RLockFast(r)
  <2>1. PICK t \in Slots : token' = [token EXCEPT ![r] = t] BY <1>3 DEF RLockFast
  <2>2. rbPc[r] = "fast" /\ rbPc' = [rbPc EXCEPT ![r] = "read"] BY <1>3 DEF RLockFast
  <2>3. token'[r] # NoHolder BY <2>1
  <2>4. \A q \in Readers : q # r => rbPc'[q] = rbPc[q] /\ token'[q] = token[q] BY <2>1, <2>2
  <2>5. Slow' = Slow BY <2>2, <2>3, <2>4
  <2> QED BY <1>1, <2>5
<1>4. CASE RLockSlow(r)
  <2>1. rbPc[r] = "slow" /\ rbPc' = [rbPc EXCEPT ![r] = "read"] /\ token' = token /\ rwWriter = NoHolder
    BY <1>4 DEF RLockSlow
  <2>2. Slow' = Slow \cup {r} BY <2>1
  <2>3. Inside = {} BY <2>1, InsideHolds DEF IInv
  <2>4. AbstractLock!StartRead(r) BY <1>1, <2>2, <2>3 DEF AbstractLock!StartRead
  <2> QED BY <2>4 DEF AbstractLock!Next
<1>5. CASE RUnlock(r)
  <2>1. rbPc[r] = "read" /\ rbPc' = [rbPc EXCEPT ![r] = "idle"] BY <1>5 DEF RUnlock
  <2>2. CASE token[r] = NoHolder
    <3>1. token' = token BY <1>5, <2>2 DEF RUnlock
    <3>2. r \in Slow /\ Slow' = Slow \ {r} BY <2>1, <2>2, <3>1
    <3>3. AbstractLock!StopRead(r) BY <1>1, <3>2 DEF AbstractLock!StopRead
    <3> QED BY <3>3 DEF AbstractLock!Next
  <2>3. CASE token[r] # NoHolder
    <3>1. token' = [token EXCEPT ![r] = NoHolder] BY <1>5, <2>3 DEF RUnlock
    <3> QED BY <1>1, <2>1, <2>3, <3>1
  <2> QED BY <2>2, <2>3
<1> QED BY <1>2, <1>3, <1>4, <1>5 DEF ReaderStep

\* So is a step of a writer: it enters with the last load of its scan, and
\* leaves with the release of mu.rw.
LEMMA WriterStepMaps ==
    ASSUME IInv, NEW w \in Writers, WriterStep(w)
    PROVE  AbstractLock!Next \/ UNCHANGED <<Slow, Inside>>
<1>a. rwWriter = w => Inside \subseteq {w} BY InsideHolds
<1> USE Disjoint DEF IInv, Types, Slow, Inside, RBGo
<1>0. w \notin Readers OBVIOUS
<1>1. Slow' = Slow
  BY <1>0 DEF WriterStep, Announce, RWLockBegin, RWLockEnd, ScanSlot, ScanDone, RWUnlock, RBLeave
<1>2. CASE ScanDone(w)
  <2>1. rbPc[w] = "scan" /\ rbPc' = [rbPc EXCEPT ![w] = "write"] BY <1>2 DEF ScanDone
  <2>2. rwWriter = w /\ Slow = {} BY <2>1 DEF RWHeld
  <2>3. Inside = {} BY <1>a, <2>1, <2>2
  <2>4. Inside' = {w} BY <2>1, <2>3
  <2>5. AbstractLock!StartWrite(w) BY <1>1, <2>2, <2>3, <2>4 DEF AbstractLock!StartWrite
  <2> QED BY <2>5 DEF AbstractLock!Next
<1>3. CASE RWUnlock(w)
  <2>1. rbPc[w] = "write" /\ rbPc' = [rbPc EXCEPT ![w] = "leave"] BY <1>3 DEF RWUnlock
  <2>2. rwWriter = w BY <2>1 DEF RWHeld
  <2>3. Inside = {w} BY <1>a, <2>1, <2>2
  <2>4. Inside' = {} BY <2>1, <2>3
  <2>5. AbstractLock!StopWrite(w) BY <1>1, <2>3, <2>4 DEF AbstractLock!StopWrite
  <2> QED BY <2>5 DEF AbstractLock!Next
<1>4. CASE ~ScanDone(w) /\ ~RWUnlock(w)
  <2>1. rbPc[w] # "write" /\ rbPc'[w] # "write" /\ \A v \in Writers : v # w => rbPc'[v] = rbPc[v]
    BY <1>4 DEF WriterStep, Announce, RWLockBegin, RWLockEnd, ScanSlot, RBLeave
  <2>2. Inside' = Inside BY <2>1
  <2> QED BY <1>1, <2>2
<1> QED BY <1>2, <1>3, <1>4

\* The lock, with the readers of the fast way left out, implements the
\* read-write lock of RWLock: at mutex.go's slow way, nothing is lost.
THEOREM Implements == RBSpec => ImplementsRWLock
<1>1. RBInit => AbstractLock!Init
  BY Disjoint DEF RBInit, AbstractLock!Init
<1>2. IInv /\ [RBNext]_rbVars => [AbstractLock!Next]_<<Slow, Inside>>
  <2>1. ASSUME UNCHANGED rbVars PROVE UNCHANGED <<Slow, Inside>> BY <2>1 DEF rbVars, Slow, Inside
  <2> QED BY <2>1, ReaderStepMaps, WriterStepMaps DEF RBNext
<1>3. [AbstractLock!Next]_<<Slow, Inside>> <=>
      [AbstractLock!Next]_<<{r \in Readers : rbPc[r] = "read" /\ token[r] = NoHolder}, {w \in Writers : rbPc[w] = "write"}>>
  BY DEF Slow, Inside
<1> QED BY <1>1, <1>2, <1>3, Invariance, PTL DEF RBSpec, ImplementsRWLock, AbstractLock!Spec

-----------------------------------------------------------------------------
(* The table: what each call works on stays under one key, an interval     *)
(* always goes with a timer or a scan, and so an item that can expire is   *)
(* never forgotten.                                                         *)

TaLabels == {"idle", "insert", "added", "using", "load", "undo", "touch", "read", "delete", "delete locked",
             "callback", "delete now", "keep", "due", "scan", "sweep"}
\* A deletion knows its key.
DeletesKey == \A p \in Procs : taPc[p] = "delete" => key[p] \in Keys
\* Who looks for work holds no item.
SweepsEmpty == \A x \in Checkers : taPc[x] \in {"idle", "due", "scan", "sweep"} => item[x] = Nothing
\* An interval goes with a timer, or with a scan that is on the way.
IntervalHasTimer ==
    cleanupInterval # 0 => timer # Nothing \/ \E x \in Checkers : taPc[x] \in {"due", "scan"}
\* Where an item is, or is to be: under one key.
IsUnder(i, k) == (k \in Keys /\ items[k] = i) \/ \E p \in Procs : item[p] = i /\ key[p] = k
OneKeyEach == \A i \in Ids : \A k, l : IsUnder(i, k) /\ IsUnder(i, l) => k = l
TaInv == TaTypeOK /\ DeletesKey /\ SweepsEmpty /\ IntervalHasTimer /\ OneKeyEach /\ FollowedUp

LEMMA DurationsPositive ==
    ASSUME TaTypeOK, NEW i \in Ids
    PROVE  /\ Scanned(i) \in Item
           /\ heap[i].life > 0 => Scanned(i).life > 0
           /\ heap[i].life > 0 /\ ~Expired(i) => Remaining(i) \in 1..MaxLife
<1>1. /\ heap[i] \in Item /\ heap[i].life \in 0..MaxLife /\ heap[i].age \in 0..MaxLife /\ heap[i].idle \in 0..MaxLife
      /\ heap[i].interval \in BOOLEAN /\ accessCount \in BOOLEAN /\ MaxLife \in Nat
  BY TableAssumption DEF TaTypeOK, Item
<1>2. CASE heap[i].life > 0 /\ Renewed(i) /\ ~Expired(i)
  <2> DEFINE n == AtMost(2 * heap[i].life, MaxLife)
  <2>1. n \in 0..MaxLife /\ n >= heap[i].life BY <1>1 DEF AtMost
  <2>2. Scanned(i) = [heap[i] EXCEPT !.life = n] BY <1>2 DEF Scanned
  <2> HIDE DEF n
  <2>3. Scanned(i) \in Item /\ Scanned(i).life = n BY <1>1, <2>1, <2>2 DEF Item
  <2>4. heap[i].idle < heap[i].life BY <1>1, <1>2 DEF Expired
  <2> QED BY <1>1, <1>2, <2>1, <2>3, <2>4 DEF Remaining
<1>3. CASE ~(heap[i].life > 0 /\ Renewed(i) /\ ~Expired(i))
  <2>1. Scanned(i) = heap[i] BY <1>3 DEF Scanned
  <2>2. heap[i].life > 0 /\ ~Expired(i) => heap[i].age < heap[i].life BY <1>1, <1>3 DEF Expired
  <2> QED BY <1>1, <1>3, <2>1, <2>2 DEF Remaining
<1> QED BY <1>2, <1>3

LEMMA SmallestIsMember ==
    ASSUME NEW D \in SUBSET (1..MaxLife)
    PROVE  /\ Smallest(D) \in 0..MaxLife
           /\ D # {} => Smallest(D) > 0 /\ Smallest(D) \in D
<1>0. MaxLife \in Nat /\ D \subseteq Nat BY TableAssumption
<1>1. CASE D = {} BY <1>0, <1>1 DEF Smallest
<1>2. CASE D # {}
  <2> DEFINE R == OpToRel(<, Nat)
  <2>1. IsWellFoundedOn(R, Nat) BY NatLessThanWellFounded
  <2>2. \A x, y \in Nat : x < y => <<x, y>> \in R BY DEF OpToRel
  <2> HIDE DEF R
  <2>3. PICK d \in D : \A e \in D : ~(<<e, d>> \in R) BY <1>0, <1>2, <2>1, WFMin
  <2>4. \A e \in D : d <= e
    <3>1. \A e \in D : ~(e < d) BY <1>0, <2>2, <2>3
    <3> QED BY <1>0, <3>1
  <2>5. Smallest(D) \in D BY <1>2, <2>4 DEF Smallest
  <2>6. \A n \in D : n \in 0..MaxLife /\ n > 0 BY <1>0
  <2> QED BY <2>5, <2>6
<1> QED BY <1>1, <1>2

LEMMA TaTyped == TaTypeOK /\ DeletesKey /\ [TaNext]_taVars => TaTypeOK'
<1> SUFFICES ASSUME TaTypeOK, DeletesKey, [TaNext]_taVars PROVE TaTypeOK' OBVIOUS
<1> DEFINE H == [Ids -> Item]
<1>0. /\ Lives \subseteq 0..MaxLife /\ MaxLife \in Nat /\ MaxCalls \in Nat
      /\ Nothing \notin Nat /\ Nothing \notin Ids /\ Nothing \notin Procs /\ TableCallers \cap Checkers = {}
  BY TableAssumption DEF Procs
<1>1. Dead \in Item BY <1>0 DEF Dead, Item
<1>2. \A h \in H : Collect(h) \in H BY <1>1 DEF Collect
<1>3. heap \in H /\ \A i \in Ids : heap[i] \in Item BY DEF TaTypeOK
<1>4. \A i \in Ids, life \in Lives, b \in BOOLEAN : New(i, life, b) \in H
  <2> SUFFICES ASSUME NEW i \in Ids, NEW life \in Lives, NEW b \in BOOLEAN PROVE New(i, life, b) \in H OBVIOUS
  <2>1. [Dead EXCEPT !.life = life, !.interval = b] \in Item BY <1>0, <1>1 DEF Item
  <2> QED BY <1>3, <2>1 DEF New
<1>5. Fresh \subseteq Ids BY DEF Fresh
<1>6. Spare \subseteq {x \in Checkers : taPc[x] = "idle"} BY DEF Spare
<1> HIDE DEF H
<1> DEFINE Pcs == taPc \in [Procs -> TaLabels]
           LockHeld == lock = Nothing \/ (lock \in Procs /\ taPc[lock] \in {"delete locked", "scan"})
           Keyed == key \in [Procs -> Keys \cup {Nothing}] /\ item \in [Procs -> Ids \cup {Nothing}]
           Tabled == /\ items \in [Keys -> Ids \cup {Nothing}] /\ accessCount \in BOOLEAN
                     /\ cleanupInterval \in 0..MaxLife /\ timer \in (0..MaxLife) \cup {Nothing}
           Rest == /\ calls \in 0..MaxCalls /\ expDur \in [TableCallers -> 0..MaxLife]
                   /\ todo \in [Checkers -> SUBSET Keys]
<1>a. TaTypeOK <=> heap \in H /\ Pcs /\ LockHeld /\ Keyed /\ Tabled /\ Rest BY DEF TaTypeOK, H, TaLabels
<1>b. TaTypeOK' <=> heap' \in H /\ Pcs' /\ LockHeld' /\ Keyed' /\ Tabled' /\ Rest' BY DEF TaTypeOK, H, TaLabels
<1>c. ASSUME NEW p \in Procs, NEW a, NEW b \in TaLabels, TaGo(p, a, b) PROVE Pcs'
  BY <1>a, <1>c DEF TaGo, Pcs
<1>d. ASSUME NEW p \in Procs, NEW a, NEW b, TaGo(p, a, b), a \notin {"delete locked", "scan"}, UNCHANGED lock
      PROVE  LockHeld'
  BY <1>a, <1>d DEF TaGo, Pcs, LockHeld
<1>e. ASSUME NEW p \in Procs, NEW k \in Keys \cup {Nothing}, NEW i \in Ids \cup {Nothing}, Holds(p, k, i)
      PROVE  Keyed'
  BY <1>a, <1>e DEF Holds, Keyed
<1>f. ASSUME NEW p \in Procs, Done(p) PROVE Keyed' BY <1>e, <1>f DEF Done
<1>g. ASSUME NEW c \in TableCallers, Begins(c), UNCHANGED <<expDur, todo>> PROVE Rest'
  <2>1. calls' \in 0..MaxCalls
    <3>1. calls \in 0..MaxCalls /\ calls < MaxCalls /\ calls' = calls + 1 BY <1>a, <1>g DEF Begins, Rest
    <3> QED BY <1>0, <3>1
  <2> QED BY <1>a, <1>g, <2>1 DEF Rest
<1>u. UNCHANGED table => Tabled' BY <1>a DEF Tabled, table
<1> HIDE DEF Pcs, LockHeld, Keyed, Tabled, Rest
<1>l. {"idle", "insert", "added", "touch", "read", "using", "load", "undo", "delete", "delete locked", "sweep", "due", "scan"} \subseteq TaLabels
  BY DEF TaLabels
<1> USE DEF Procs
<1>7. ASSUME NEW c \in TableCallers, NEW k \in Keys, NEW life \in Lives, NEW b \in BOOLEAN,
             Set(c, k, life, b) \/ AddLook(c, k, life, b)
      PROVE  TaTypeOK'
  <2>1. heap' \in H BY <1>2, <1>4, <1>5, <1>7 DEF Set, AddLook
  <2>2. PICK i \in Fresh : Holds(c, k, i) BY <1>7 DEF Set, AddLook
  <2>3. Keyed' BY <1>5, <1>e, <2>2
  <2>4. TaGo(c, "idle", "insert") /\ UNCHANGED lock /\ UNCHANGED <<expDur, todo>> /\ Begins(c) BY <1>7 DEF Set, AddLook
  <2>5. Tabled' BY <1>a, <1>7 DEF Set, AddLook, table, Tabled
  <2> QED BY <1>b, <1>c, <1>d, <1>g, <1>l, <2>1, <2>3, <2>4, <2>5
<1>8. ASSUME NEW c \in TableCallers, NEW k \in Keys, MustGet(c, k) PROVE TaTypeOK'
  <2>1. heap' \in H
    <3>1. [Dead EXCEPT !.loading = TRUE] \in Item BY <1>1 DEF Item
    <3> QED BY <1>3, <1>5, <1>8, <3>1 DEF MustGet, H
  <2>2. PICK a \in TaLabels, i \in Ids : TaGo(c, "idle", a) /\ Holds(c, k, i) /\ Tabled'
    <3>1. CASE items[k] # Nothing
      <4>1. items[k] \in Ids BY <1>a, <3>1 DEF Tabled
      <4> QED BY <1>a, <1>l, <1>8, <3>1, <4>1 DEF MustGet, Tabled
    <3>2. CASE items[k] = Nothing
      <4>1. PICK a \in {"load", "using"} : TaGo(c, "idle", a) BY <1>8, <3>2 DEF MustGet
      <4>2. PICK i \in Fresh : Holds(c, k, i) /\ items' = [items EXCEPT ![k] = i] BY <1>8, <3>2 DEF MustGet
      <4>3. Tabled' BY <1>5, <1>a, <1>8, <4>2 DEF MustGet, Tabled
      <4> QED BY <1>5, <1>l, <4>1, <4>2, <4>3
    <3> QED BY <3>1, <3>2
  <2>3. UNCHANGED lock /\ UNCHANGED <<expDur, todo>> /\ Begins(c) BY <1>8 DEF MustGet
  <2> QED BY <1>b, <1>c, <1>d, <1>e, <1>g, <2>1, <2>2, <2>3
<1>9. ASSUME NEW c \in TableCallers, NEW k \in Keys, Get(c, k) \/ Delete(c, k) PROVE TaTypeOK'
  <2>1. PICK a \in TaLabels, i \in Ids \cup {Nothing} : TaGo(c, "idle", a) /\ Holds(c, k, i)
    <3>1. items[k] \in Ids \cup {Nothing} BY <1>a DEF Tabled
    <3> QED BY <1>l, <1>9, <3>1 DEF Get, Delete
  <2>2. UNCHANGED <<table, heap>> /\ UNCHANGED lock /\ UNCHANGED <<expDur, todo>> /\ Begins(c) BY <1>9 DEF Get, Delete
  <2> QED BY <1>3, <1>b, <1>c, <1>d, <1>e, <1>g, <1>u, <2>1, <2>2
<1>10. ASSUME NEW c \in TableCallers, Clear(c) PROVE TaTypeOK'
  <2>1. heap' \in H BY <1>2, <1>3, <1>10 DEF Clear
  <2>2. Tabled' BY <1>0, <1>a, <1>10 DEF Clear, Tabled
  <2>3. Pcs' /\ LockHeld' /\ Keyed' BY <1>a, <1>10 DEF Clear, Pcs, LockHeld, Keyed
  <2>4. Rest' BY <1>g, <1>10 DEF Clear
  <2> QED BY <1>b, <2>1, <2>2, <2>3, <2>4
<1>11. ASSUME NEW c \in TableCallers, Insert(c) \/ Added(c) \/ UndoAdd(c) \/ Read(c) PROVE TaTypeOK'
  <2>1. heap' \in H BY <1>2, <1>3, <1>11 DEF Insert, Added, UndoAdd, Read
  <2>2. CASE Insert(c) BY <1>0, <2>1, <2>2 DEF Insert, TaTypeOK, H, TaGo
  <2>3. CASE Added(c)
    <3>1. taPc[c] = "added" /\ Done(c) /\ UNCHANGED table /\ Rest'
      BY <1>0, <1>a, <2>3 DEF Added, Rest
    <3>2. Pcs' /\ LockHeld'
      <4>1. CASE NeedsCheck(heap[item[c]].life, expDur[c])
        <5>1. PICK x \in Spare : taPc' = [taPc EXCEPT ![c] = "idle", ![x] = "due"] BY <2>3, <4>1 DEF Added
        <5>2. x \in Procs /\ taPc[x] = "idle" BY <1>6, <5>1
        <5>3. UNCHANGED lock BY <2>3 DEF Added
        <5> QED BY <1>a, <1>l, <3>1, <5>1, <5>2, <5>3 DEF Pcs, LockHeld
      <4>2. CASE ~NeedsCheck(heap[item[c]].life, expDur[c])
        <5>1. TaGo(c, "added", "idle") /\ UNCHANGED lock BY <2>3, <3>1, <4>2 DEF Added, TaGo
        <5> QED BY <1>c, <1>d, <1>l, <5>1
      <4> QED BY <4>1, <4>2
    <3> QED BY <1>b, <1>f, <1>u, <2>1, <3>1, <3>2
  <2>4. CASE UndoAdd(c) BY <1>0, <2>1, <2>4 DEF UndoAdd, TaTypeOK, H, TaGo, Done, Holds
  <2>5. CASE Read(c) BY <1>0, <2>1, <2>5 DEF Read, TaTypeOK, H, TaGo, Done, Holds, table
  <2> QED BY <1>11, <2>2, <2>3, <2>4, <2>5
<1>12. ASSUME NEW c \in TableCallers, Touch(c) PROVE TaTypeOK'
  <2>1. \A i \in Ids : [heap[i] EXCEPT !.idle = 0] \in Item BY <1>0, <1>3 DEF Item
  <2>2. [heap EXCEPT ![item[c]].idle = 0] \in H BY <1>3, <2>1 DEF H
  <2>3. heap' \in H BY <1>2, <1>12, <2>2 DEF Touch
  <2> QED BY <1>0, <1>12, <2>3 DEF Touch, TaTypeOK, H, TaGo, Done, Holds, table
<1>13. ASSUME NEW c \in TableCallers, NEW life \in Lives, NEW b \in BOOLEAN, NEW ok \in BOOLEAN, Load(c, life, b, ok)
       PROVE  TaTypeOK'
  <2>1. \A i \in Ids : [heap[i] EXCEPT !.life = life, !.interval = b, !.loading = FALSE] \in Item
    BY <1>0, <1>3 DEF Item
  <2>2. heap' \in H BY <1>3, <1>13, <2>1 DEF Load, H
  <2> QED BY <1>0, <1>13, <2>2 DEF Load, TaTypeOK, H, TaGo, table
<1>23. ASSUME NEW c \in TableCallers, LoaderLocks(c) PROVE TaTypeOK'
  BY <1>0, <1>23 DEF LoaderLocks, TaTypeOK, TaGo, table
<1>14. ASSUME NEW p \in Procs, DeleteLock(p) PROVE TaTypeOK'
  <2>1. UNCHANGED <<table, heap>> /\ Rest' BY <1>a, <1>14 DEF DeleteLock, Rest
  <2>2. CASE items[key[p]] = Nothing
    <3>1. TaGo(p, "delete", After(p)) /\ Done(p) /\ UNCHANGED lock BY <1>14, <2>2 DEF DeleteLock
    <3>2. After(p) \in TaLabels BY <1>l DEF After
    <3> QED BY <1>3, <1>b, <1>c, <1>d, <1>f, <1>u, <2>1, <3>1, <3>2
  <2>3. CASE items[key[p]] # Nothing
    <3>1. TaGo(p, "delete", "delete locked") /\ lock' = p /\ item' = [item EXCEPT ![p] = items[key[p]]]
          /\ key' = [key EXCEPT ![p] = key[p]] /\ lock = Nothing
      BY <1>14, <2>3 DEF DeleteLock, Holds
    <3>2. Pcs' /\ LockHeld' BY <1>a, <1>l, <3>1 DEF Pcs, LockHeld, TaGo
    <3>3. Keyed'
      <4>1. key' = key BY <1>a, <3>1 DEF Keyed
      <4>2. key[p] \in Keys BY <3>1 DEF DeletesKey, TaGo
      <4> QED BY <1>a, <3>1, <4>1, <4>2 DEF Keyed, Tabled
    <3> QED BY <1>3, <1>b, <1>u, <2>1, <3>2, <3>3
  <2> QED BY <2>2, <2>3
<1>15. ASSUME NEW p \in Procs, NEW yes \in BOOLEAN, DeleteUnlock(p) \/ Callback(p, yes) PROVE TaTypeOK'
  BY <1>0, <1>15 DEF DeleteUnlock, Callback, LockFreed, TaTypeOK, TaGo, table
<1>16. ASSUME NEW p \in Procs, DeleteNow(p) PROVE TaTypeOK'
  <2>1. heap' \in H BY <1>2, <1>3, <1>16 DEF DeleteNow
  <2> QED BY <1>0, <1>16, <2>1 DEF DeleteNow, TaTypeOK, H, TaGo, Done, Holds, After
<1>17. ASSUME NEW p \in Procs, Keep(p) PROVE TaTypeOK'
  <2>1. \A i \in Ids : [heap[i] EXCEPT !.idle = 0, !.kept = TRUE] \in Item
    <3> SUFFICES ASSUME NEW i \in Ids PROVE [heap[i] EXCEPT !.idle = 0, !.kept = TRUE] \in Item OBVIOUS
    <3>1. 0 \in 0..MaxLife /\ TRUE \in BOOLEAN BY <1>0
    <3> QED BY <1>3, <3>1 DEF Item
  <2>2. [heap EXCEPT ![item[p]] = [@ EXCEPT !.idle = 0, !.kept = TRUE]] \in H BY <1>3, <2>1 DEF H
  <2>3. heap' \in H BY <1>2, <1>17, <2>2 DEF Keep
  <2> QED BY <1>0, <1>17, <2>3 DEF Keep, TaTypeOK, H, TaGo, Done, Holds, After, table
<1>18. ASSUME NEW x \in Checkers, CheckLock(x) \/ Sweep(x) PROVE TaTypeOK'
  <2>1. heap' \in H BY <1>3, <1>18 DEF CheckLock, Sweep
  <2>2. CASE CheckLock(x)
    <3>1. Pcs' /\ LockHeld' BY <1>a, <1>l, <2>2 DEF CheckLock, TaGo, Pcs, LockHeld
    <3>2. Keyed' /\ Tabled' /\ Rest' BY <1>a, <2>2 DEF CheckLock, Keyed, Tabled, Rest
    <3> QED BY <1>b, <2>1, <3>1, <3>2
  <2>3. CASE Sweep(x)
    <3>1. PICK b \in TaLabels : TaGo(x, "sweep", b) /\ UNCHANGED lock BY <1>l, <2>3 DEF Sweep
    <3>2. Keyed' /\ Rest' BY <1>a, <2>3 DEF Sweep, Keyed, Rest
    <3>3. UNCHANGED table BY <2>3 DEF Sweep
    <3> QED BY <1>b, <1>c, <1>d, <1>u, <2>1, <3>1, <3>2, <3>3
  <2> QED BY <1>18, <2>2, <2>3
<1>19. ASSUME NEW x \in Checkers, ScanItems(x) PROVE TaTypeOK'
  <2>1. heap' \in H BY <1>3, <1>19, DurationsPositive DEF ScanItems, H
  <2>2. Durations \subseteq 1..MaxLife
    <3> SUFFICES ASSUME NEW k \in Keys, items[k] # Nothing, heap[items[k]].life > 0, ~Expired(items[k])
                 PROVE  Remaining(items[k]) \in 1..MaxLife
      BY DEF Durations
    <3>1. items[k] \in Ids BY DEF TaTypeOK
    <3> QED BY <3>1, DurationsPositive
  <2>3. cleanupInterval' \in 0..MaxLife BY <1>19, <2>2, SmallestIsMember DEF ScanItems
  <2>4. timer' \in (0..MaxLife) \cup {Nothing} BY <1>19, <2>3 DEF ScanItems
  <2> QED BY <1>0, <1>19, <2>1, <2>3, <2>4 DEF ScanItems, TaTypeOK, H, TaGo
<1>20. CASE TimerFires
  <2>1. PICK x \in Spare : TaGo(x, "idle", "due") BY <1>20 DEF TimerFires
  <2> QED BY <1>0, <1>6, <1>20, <2>1 DEF TimerFires, TaTypeOK, TaGo
<1>21. CASE Tick
  <2>1. \A i \in Ids : Older(i) \in Item
    <3> SUFFICES ASSUME NEW i \in Ids PROVE Older(i) \in Item OBVIOUS
    <3> DEFINE r == heap[i]
               max == IF r.loading THEN MaxLife ELSE r.life
               a == IF Renewed(i) THEN r.age ELSE AtMost(r.age + 1, max)
               d == IF r.loading \/ r.interval THEN AtMost(r.idle + 1, max) ELSE r.idle
    <3>1. /\ r \in Item /\ r.life \in 0..MaxLife /\ r.age \in 0..MaxLife /\ r.idle \in 0..MaxLife
      BY <1>3 DEF Item
    <3>2. max \in 0..MaxLife BY <1>0, <3>1
    <3> HIDE DEF max
    <3>3. a \in 0..MaxLife /\ d \in 0..MaxLife BY <1>0, <3>1, <3>2 DEF AtMost
    <3>4. Older(i) = [r EXCEPT !.age = a, !.idle = d] BY DEF Older, max
    <3> HIDE DEF a, d, r
    <3> QED BY <3>1, <3>3, <3>4 DEF Item
  <2>2. heap' \in H BY <1>21, <2>1 DEF Tick, H
  <2>3. timer' \in (0..MaxLife) \cup {Nothing}
    <3>1. timer \in (0..MaxLife) \cup {Nothing} /\ timer # 0 BY <1>21 DEF Tick, TaTypeOK
    <3>2. timer' = IF timer = Nothing THEN Nothing ELSE timer - 1 BY <1>21 DEF Tick
    <3>3. CASE timer = Nothing BY <3>2, <3>3
    <3>4. CASE timer # Nothing
      <4>1. timer \in 1..MaxLife BY <1>0, <3>1, <3>4
      <4>2. timer - 1 \in 0..MaxLife BY <1>0, <4>1
      <4> QED BY <3>2, <3>4, <4>2
    <3> QED BY <3>3, <3>4
  <2> QED BY <1>0, <1>21, <2>2, <2>3 DEF Tick, TaTypeOK, H
<1>22. CASE UNCHANGED taVars BY <1>22 DEF taVars, TaTypeOK
<1> QED BY <1>7, <1>8, <1>9, <1>10, <1>11, <1>12, <1>13, <1>14, <1>15, <1>16, <1>17, <1>18, <1>19, <1>20, <1>21, <1>22, <1>23
    DEF TaNext, Call, CallerStep, DeleteStep, CheckStep

LEMMA DeletesKeyStep == TaTypeOK /\ DeletesKey /\ [TaNext]_taVars => DeletesKey'
<1> SUFFICES ASSUME TaTypeOK, DeletesKey, [TaNext]_taVars PROVE DeletesKey' OBVIOUS
<1>0. /\ taPc \in [Procs -> TaLabels] /\ key \in [Procs -> Keys \cup {Nothing}]
      /\ todo \in [Checkers -> SUBSET Keys] /\ TableCallers \subseteq Procs /\ Checkers \subseteq Procs
  BY DEF TaTypeOK, TaLabels, Procs
\* One moves on, and nobody else.
<1>1. ASSUME NEW p \in Procs, NEW a, NEW b, TaGo(p, a, b), b = "delete" => key'[p] \in Keys,
             \A q \in Procs \ {p} : key'[q] = key[q]
      PROVE  DeletesKey'
  BY <1>0, <1>1 DEF DeletesKey, TaGo
<1>2. ASSUME NEW p \in Procs, NEW k, NEW i, Holds(p, k, i)
      PROVE  key'[p] = k /\ \A q \in Procs \ {p} : key'[q] = key[q]
  BY <1>0, <1>2 DEF Holds
<1>3. ASSUME NEW p \in Procs, NEW a, NEW b, TaGo(p, a, b), b # "delete", UNCHANGED key \/ \E k, i : Holds(p, k, i)
      PROVE  DeletesKey'
  BY <1>1, <1>2, <1>3
<1>4. ASSUME NEW c \in TableCallers, NEW k \in Keys, NEW life, NEW b, Set(c, k, life, b) \/ AddLook(c, k, life, b)
      PROVE  DeletesKey'
  BY <1>0, <1>3, <1>4 DEF Set, AddLook
<1>5. ASSUME NEW c \in TableCallers, NEW k \in Keys, MustGet(c, k) \/ Get(c, k) PROVE DeletesKey'
  <2>1. PICK a \in {"touch", "using", "load", "read"} : TaGo(c, "idle", a) BY <1>5 DEF MustGet, Get
  <2>2. \E i : Holds(c, k, i) BY <1>5 DEF MustGet, Get
  <2> QED BY <1>0, <1>3, <2>1, <2>2
<1>6. ASSUME NEW c \in TableCallers, NEW k \in Keys, Delete(c, k) PROVE DeletesKey'
  BY <1>0, <1>1, <1>2, <1>6 DEF Delete
<1>7. ASSUME NEW c \in TableCallers, Insert(c) \/ UndoAdd(c) \/ Read(c) \/ Touch(c) PROVE DeletesKey'
  <2>1. PICK a \in TaLabels, b \in TaLabels \ {"delete"} : TaGo(c, a, b)
    BY <1>7 DEF Insert, UndoAdd, Read, Touch, TaLabels
  <2>2. UNCHANGED key \/ \E k, i : Holds(c, k, i) BY <1>7 DEF Insert, UndoAdd, Read, Touch, Done
  <2> QED BY <1>0, <1>3, <2>1, <2>2
<1>8. ASSUME NEW c \in TableCallers, Added(c) PROVE DeletesKey'
  <2>1. Holds(c, Nothing, Nothing) BY <1>8 DEF Added, Done
  <2>2. \A q \in Procs : taPc'[q] = "delete" => q # c /\ taPc[q] = "delete"
    <3>1. taPc[c] = "added" BY <1>8 DEF Added
    <3>2. CASE NeedsCheck(heap[item[c]].life, expDur[c])
      <4>1. PICK x \in Spare : taPc' = [taPc EXCEPT ![c] = "idle", ![x] = "due"] BY <1>8, <3>2 DEF Added
      <4> QED BY <1>0, <4>1
    <3>3. CASE ~NeedsCheck(heap[item[c]].life, expDur[c]) BY <1>0, <1>8, <3>3 DEF Added
    <3> QED BY <3>2, <3>3
  <2> QED BY <1>0, <1>2, <2>1, <2>2 DEF DeletesKey
<1>9. ASSUME NEW c \in TableCallers, NEW life, NEW b, NEW ok, LoaderLocks(c) \/ Load(c, life, b, ok) PROVE DeletesKey'
  <2>1. PICK a \in TaLabels, d \in TaLabels \ {"delete"} : TaGo(c, a, d) BY <1>9 DEF LoaderLocks, Load, TaLabels
  <2>2. UNCHANGED key BY <1>9 DEF LoaderLocks, Load
  <2> QED BY <1>0, <1>3, <2>1, <2>2
<1>10. ASSUME NEW p \in Procs, DeleteLock(p) PROVE DeletesKey'
  <2>1. PICK b \in TaLabels \ {"delete"} : TaGo(p, "delete", b) BY <1>10 DEF DeleteLock, After, TaLabels
  <2>2. \E k, i : Holds(p, k, i) BY <1>10 DEF DeleteLock, Done
  <2> QED BY <1>3, <2>1, <2>2
<1>11. ASSUME NEW p \in Procs, NEW yes, DeleteUnlock(p) \/ Callback(p, yes) PROVE DeletesKey'
  BY <1>3, <1>11 DEF DeleteUnlock, Callback
<1>12. ASSUME NEW p \in Procs, DeleteNow(p) \/ Keep(p) PROVE DeletesKey'
  <2>1. PICK a \in TaLabels, b \in TaLabels \ {"delete"} : TaGo(p, a, b) BY <1>12 DEF DeleteNow, Keep, After, TaLabels
  <2>2. \E k, i : Holds(p, k, i) BY <1>12 DEF DeleteNow, Keep, Done
  <2> QED BY <1>3, <2>1, <2>2
<1>13. ASSUME NEW x \in Checkers, CheckLock(x) \/ ScanItems(x) PROVE DeletesKey'
  BY <1>0, <1>3, <1>13 DEF CheckLock, ScanItems
<1>14. ASSUME NEW x \in Checkers, Sweep(x) PROVE DeletesKey'
  <2>1. CASE todo[x] = {} /\ TaGo(x, "sweep", "idle") /\ UNCHANGED key BY <1>0, <1>3, <2>1
  <2>2. ASSUME NEW k \in todo[x], TaGo(x, "sweep", "delete"), key' = [key EXCEPT ![x] = k] PROVE DeletesKey'
    BY <1>0, <1>1, <2>2
  <2> QED BY <1>14, <2>1, <2>2 DEF Sweep
<1>15. CASE TimerFires
  <2>1. PICK x \in Spare : TaGo(x, "idle", "due") BY <1>15 DEF TimerFires
  <2>2. x \in Procs BY <1>0, <2>1 DEF Spare
  <2> QED BY <1>3, <1>15, <2>1, <2>2 DEF TimerFires
<1>16. ASSUME UNCHANGED <<taPc, key>> PROVE DeletesKey' BY <1>16 DEF DeletesKey
<1>17. ASSUME NEW c \in TableCallers, Clear(c) PROVE DeletesKey' BY <1>16, <1>17 DEF Clear
<1>18. CASE Tick \/ UNCHANGED taVars BY <1>16, <1>18 DEF Tick, taVars
<1> QED BY <1>4, <1>5, <1>6, <1>7, <1>8, <1>9, <1>10, <1>11, <1>12, <1>13, <1>14, <1>15, <1>17, <1>18
    DEF TaNext, Call, CallerStep, DeleteStep, CheckStep

\* Who will look at item i, under key k.
Sees(p, k, i) ==
    \/ /\ p \in TableCallers /\ item[p] = i
       /\ taPc[p] \in {"insert", "undo"} \/ (taPc[p] = "added" /\ NeedsCheck(heap[i].life, expDur[p]))
    \/ /\ p \in Checkers
       /\ \/ taPc[p] \in {"due", "scan"} \/ k \in todo[p]
          \/ key[p] = k /\ taPc[p] = "delete"
          \/ item[p] = i /\ taPc[p] \in {"delete locked", "callback", "delete now", "keep"}

LEMMA SweepsEmptyStep == TaTypeOK /\ SweepsEmpty /\ [TaNext]_taVars => SweepsEmpty'
<1> SUFFICES ASSUME TaTypeOK, SweepsEmpty, [TaNext]_taVars PROVE SweepsEmpty' OBVIOUS
<1> DEFINE Off == {"idle", "due", "scan", "sweep"}
<1>0. /\ taPc \in [Procs -> TaLabels] /\ item \in [Procs -> Ids \cup {Nothing}]
      /\ TableCallers \cap Checkers = {} /\ TableCallers \subseteq Procs /\ Checkers \subseteq Procs
  BY TableAssumption DEF TaTypeOK, TaLabels, Procs
\* A caller's step changes no checker, but for one that it starts.
<1>1. ASSUME \A x \in Checkers : item'[x] = item[x] /\ (taPc'[x] \in Off => taPc[x] \in Off) PROVE SweepsEmpty'
  BY <1>1 DEF SweepsEmpty
<1>2. ASSUME NEW p \in Procs, NEW b, NEW k, NEW i, taPc' = [taPc EXCEPT ![p] = b], Holds(p, k, i),
             p \in TableCallers \/ b \notin Off \/ i = Nothing
      PROVE  SweepsEmpty'
  <2>1. /\ item'[p] = i /\ taPc'[p] = b
        /\ \A q \in Procs \ {p} : item'[q] = item[q] /\ taPc'[q] = taPc[q]
    BY <1>0, <1>2 DEF Holds
  <2> QED BY <1>0, <1>2, <2>1 DEF SweepsEmpty
<1>3. ASSUME NEW p \in Procs, NEW b, taPc' = [taPc EXCEPT ![p] = b], UNCHANGED item,
             p \in TableCallers \/ b \notin Off \/ taPc[p] \in Off
      PROVE  SweepsEmpty'
  BY <1>0, <1>1, <1>3
<1> HIDE DEF Off
<1>4. ASSUME NEW c \in TableCallers, NEW k, NEW life, NEW b, Set(c, k, life, b) \/ AddLook(c, k, life, b) \/ MustGet(c, k)
                                                           \/ Get(c, k) \/ Delete(c, k)
      PROVE  SweepsEmpty'
  <2>1. PICK d \in TaLabels : TaGo(c, "idle", d) BY <1>4 DEF Set, AddLook, MustGet, Get, Delete, TaLabels
  <2>2. \E i : Holds(c, k, i) BY <1>4 DEF Set, AddLook, MustGet, Get, Delete
  <2> QED BY <1>0, <1>2, <2>1, <2>2 DEF TaGo
<1>5. ASSUME NEW c \in TableCallers, Clear(c) PROVE SweepsEmpty' BY <1>5, <1>1 DEF Clear
<1>6. ASSUME NEW c \in TableCallers, UndoAdd(c) \/ Touch(c) \/ Read(c) PROVE SweepsEmpty'
  <2>1. PICK d \in TaLabels : TaGo(c, d, "idle") /\ Done(c) BY <1>6 DEF UndoAdd, Touch, Read, TaLabels
  <2> QED BY <1>0, <1>2, <2>1 DEF TaGo, Done
<1>7. ASSUME NEW c \in TableCallers, NEW life, NEW b, NEW ok, Insert(c) \/ LoaderLocks(c) \/ Load(c, life, b, ok)
      PROVE  SweepsEmpty'
  <2>1. PICK d \in TaLabels, e \in TaLabels : TaGo(c, d, e) /\ UNCHANGED item
    BY <1>7 DEF Insert, LoaderLocks, Load, TaLabels
  <2> QED BY <1>0, <1>3, <2>1 DEF TaGo
<1>8. ASSUME NEW c \in TableCallers, Added(c) PROVE SweepsEmpty'
  <2>1. \A x \in Checkers : item'[x] = item[x] BY <1>0, <1>8 DEF Added, Done, Holds
  <2>2. \A x \in Checkers : taPc'[x] \in Off => taPc[x] \in Off
    <3>1. CASE NeedsCheck(heap[item[c]].life, expDur[c])
      <4>1. PICK x \in Spare : taPc' = [taPc EXCEPT ![c] = "idle", ![x] = "due"] BY <1>8, <3>1 DEF Added
      <4>2. taPc[x] = "idle" BY <4>1 DEF Spare
      <4> QED BY <1>0, <4>1, <4>2 DEF Off
    <3>2. CASE ~NeedsCheck(heap[item[c]].life, expDur[c]) BY <1>0, <1>8, <3>2 DEF Added
    <3> QED BY <3>1, <3>2
  <2> QED BY <1>1, <2>1, <2>2
<1>9. ASSUME NEW p \in Procs, DeleteLock(p) PROVE SweepsEmpty'
  <2>1. CASE items[key[p]] = Nothing
    <3>1. TaGo(p, "delete", After(p)) /\ Done(p) BY <1>9, <2>1 DEF DeleteLock
    <3> QED BY <1>2, <3>1 DEF TaGo, Done
  <2>2. CASE items[key[p]] # Nothing
    <3>1. TaGo(p, "delete", "delete locked") /\ Holds(p, key[p], items[key[p]]) BY <1>9, <2>2 DEF DeleteLock
    <3>2. \A q \in Procs \ {p} : item'[q] = item[q] /\ taPc'[q] = taPc[q] BY <1>0, <3>1 DEF TaGo, Holds
    <3>3. taPc'[p] = "delete locked" BY <1>0, <3>1 DEF TaGo
    <3> QED BY <1>0, <3>2, <3>3 DEF SweepsEmpty
  <2> QED BY <2>1, <2>2
<1>10. ASSUME NEW p \in Procs, NEW yes, DeleteUnlock(p) \/ Callback(p, yes) PROVE SweepsEmpty'
  <2>1. PICK d \in TaLabels, e \in {"callback", "delete now", "keep"} : TaGo(p, d, e) /\ UNCHANGED item
    BY <1>10 DEF DeleteUnlock, Callback, TaLabels
  <2>2. e \notin Off BY DEF Off
  <2> QED BY <1>3, <2>1, <2>2 DEF TaGo
<1>11. ASSUME NEW p \in Procs, DeleteNow(p) \/ Keep(p) PROVE SweepsEmpty'
  <2>1. PICK d \in TaLabels : TaGo(p, d, After(p)) /\ Done(p) BY <1>11 DEF DeleteNow, Keep, TaLabels
  <2> QED BY <1>2, <2>1 DEF TaGo, Done
<1>12. ASSUME NEW x \in Checkers, CheckLock(x) \/ ScanItems(x) \/ Sweep(x) PROVE SweepsEmpty'
  <2>1. PICK d \in Off, e \in TaLabels : TaGo(x, d, e) /\ UNCHANGED item
    BY <1>12 DEF CheckLock, ScanItems, Sweep, TaLabels, Off
  <2> QED BY <1>0, <1>3, <2>1 DEF TaGo
<1>13. CASE TimerFires
  <2>1. PICK x \in Spare : TaGo(x, "idle", "due") /\ UNCHANGED item BY <1>13 DEF TimerFires
  <2>2. x \in Procs BY <1>0, <2>1 DEF Spare
  <2> QED BY <1>3, <2>1, <2>2 DEF TaGo, Off
<1>14. CASE Tick \/ UNCHANGED taVars BY <1>1, <1>14 DEF Tick, taVars
<1> QED BY <1>4, <1>5, <1>6, <1>7, <1>8, <1>9, <1>10, <1>11, <1>12, <1>13, <1>14
    DEF TaNext, Call, CallerStep, DeleteStep, CheckStep

LEMMA IntervalStep == TaTypeOK /\ DeletesKey /\ IntervalHasTimer /\ [TaNext]_taVars => IntervalHasTimer'
<1> SUFFICES ASSUME TaTypeOK, DeletesKey, IntervalHasTimer, [TaNext]_taVars PROVE IntervalHasTimer' OBVIOUS
<1>0. /\ taPc \in [Procs -> TaLabels] /\ TableCallers \subseteq Procs /\ Checkers \subseteq Procs
      /\ TableCallers \cap Checkers = {} /\ Nothing \notin Nat
  BY TableAssumption DEF TaTypeOK, TaLabels, Procs
<1>n. (0..MaxLife) \subseteq Nat BY TableAssumption
<1>1. ASSUME NEW p \in Procs, NEW a, NEW b, TaGo(p, a, b), a \notin {"due", "scan"},
             UNCHANGED <<cleanupInterval, timer>>
      PROVE  IntervalHasTimer'
  BY <1>0, <1>1 DEF TaGo, IntervalHasTimer
<1>2. ASSUME NEW c \in TableCallers, NEW k, NEW life, NEW b, Set(c, k, life, b) \/ AddLook(c, k, life, b) \/ MustGet(c, k)
                                                           \/ Get(c, k) \/ Delete(c, k)
      PROVE  IntervalHasTimer'
  <2>1. PICK d \in TaLabels : TaGo(c, "idle", d) BY <1>2 DEF Set, AddLook, MustGet, Get, Delete, TaLabels
  <2>2. UNCHANGED <<cleanupInterval, timer>> BY <1>2 DEF Set, AddLook, MustGet, Get, Delete, table
  <2> QED BY <1>0, <1>1, <2>1, <2>2
<1>3. ASSUME NEW c \in TableCallers, Clear(c) PROVE IntervalHasTimer' BY <1>3 DEF Clear, IntervalHasTimer
<1>4. ASSUME NEW c \in TableCallers, NEW life, NEW b, NEW ok,
             Insert(c) \/ LoaderLocks(c) \/ UndoAdd(c) \/ Touch(c) \/ Read(c) \/ Load(c, life, b, ok)
      PROVE  IntervalHasTimer'
  <2>1. PICK d \in TaLabels, e \in TaLabels : TaGo(c, d, e) /\ d \notin {"due", "scan"}
    BY <1>4 DEF Insert, LoaderLocks, UndoAdd, Touch, Read, Load, TaLabels
  <2>2. UNCHANGED <<cleanupInterval, timer>> BY <1>4 DEF Insert, LoaderLocks, UndoAdd, Touch, Read, Load, table
  <2> QED BY <1>0, <1>1, <2>1, <2>2
<1>5. ASSUME NEW c \in TableCallers, Added(c) PROVE IntervalHasTimer'
  <2>1. \A x \in Checkers : taPc[x] \in {"due", "scan"} => taPc'[x] = taPc[x]
    <3>1. taPc[c] = "added" BY <1>5 DEF Added
    <3>2. CASE NeedsCheck(heap[item[c]].life, expDur[c])
      <4>1. PICK x \in Spare : taPc' = [taPc EXCEPT ![c] = "idle", ![x] = "due"] BY <1>5, <3>2 DEF Added
      <4>2. taPc[x] = "idle" BY <4>1 DEF Spare
      <4> QED BY <1>0, <3>1, <4>1, <4>2
    <3>3. CASE ~NeedsCheck(heap[item[c]].life, expDur[c]) BY <1>0, <1>5, <3>1, <3>3 DEF Added
    <3> QED BY <3>2, <3>3
  <2>2. UNCHANGED <<cleanupInterval, timer>> BY <1>5 DEF Added, table
  <2> QED BY <2>1, <2>2 DEF IntervalHasTimer
<1>6. ASSUME NEW p \in Procs, NEW yes, DeleteLock(p) \/ DeleteUnlock(p) \/ DeleteNow(p) \/ Keep(p) \/ Callback(p, yes)
      PROVE  IntervalHasTimer'
  <2>1. PICK d \in TaLabels, e \in TaLabels : TaGo(p, d, e) /\ d \notin {"due", "scan"}
    BY <1>6 DEF DeleteLock, DeleteUnlock, DeleteNow, Keep, Callback, After, TaLabels
  <2>2. UNCHANGED <<cleanupInterval, timer>> BY <1>6 DEF DeleteLock, DeleteUnlock, DeleteNow, Keep, Callback, table
  <2> QED BY <1>1, <2>1, <2>2
<1>7. ASSUME NEW x \in Checkers, CheckLock(x) PROVE IntervalHasTimer'
  BY <1>0, <1>7 DEF CheckLock, TaGo, IntervalHasTimer
<1>8. ASSUME NEW x \in Checkers, ScanItems(x) PROVE IntervalHasTimer'
  <2>1. cleanupInterval' \in Nat
    <3>1. TaTypeOK' BY TaTyped
    <3>2. cleanupInterval' \in 0..MaxLife BY <3>1 DEF TaTypeOK
    <3> QED BY <1>n, <3>2
  <2>2. timer' = IF cleanupInterval' > 0 THEN cleanupInterval' ELSE Nothing BY <1>8 DEF ScanItems
  <2> QED BY <1>0, <2>1, <2>2 DEF IntervalHasTimer
<1>9. ASSUME NEW x \in Checkers, Sweep(x) PROVE IntervalHasTimer'
  <2>1. PICK e \in TaLabels : TaGo(x, "sweep", e) BY <1>9 DEF Sweep, TaLabels
  <2>2. UNCHANGED <<cleanupInterval, timer>> BY <1>9 DEF Sweep, table
  <2> QED BY <1>0, <1>1, <2>1, <2>2
<1>10. CASE TimerFires
  <2>1. PICK x \in Spare : TaGo(x, "idle", "due") BY <1>10 DEF TimerFires
  <2>2. x \in Checkers BY <2>1 DEF Spare
  <2>3. taPc'[x] = "due" BY <1>0, <2>1, <2>2 DEF TaGo
  <2> QED BY <2>2, <2>3 DEF IntervalHasTimer
<1>11. CASE Tick
  <2>1. timer # Nothing => timer' # Nothing
    <3>0. timer \in (0..MaxLife) \cup {Nothing} BY DEF TaTypeOK
    <3>1. timer # Nothing => timer \in Nat /\ timer # 0 BY <1>11, <1>n, <3>0 DEF Tick
    <3>2. timer # Nothing => timer' = timer - 1 BY <1>11 DEF Tick
    <3>3. \A n \in Nat : n # 0 => n - 1 \in Nat OBVIOUS
    <3> QED BY <1>0, <3>1, <3>2, <3>3
  <2> QED BY <1>11, <2>1 DEF Tick, IntervalHasTimer
<1>12. CASE UNCHANGED taVars BY <1>12 DEF taVars, IntervalHasTimer
<1> QED BY <1>2, <1>3, <1>4, <1>5, <1>6, <1>7, <1>8, <1>9, <1>10, <1>11, <1>12
    DEF TaNext, Call, CallerStep, DeleteStep, CheckStep

LEMMA FreshUnused == Fresh \subseteq Ids /\ \A i \in Fresh : i \notin Used
<1>1. CASE Ids \subseteq Used BY <1>1 DEF Fresh
<1>2. CASE ~(Ids \subseteq Used)
  <2>1. \E i \in Ids : i \notin Used BY <1>2
  <2> QED BY <1>2, <2>1 DEF Fresh
<1> QED BY <1>1, <1>2

LEMMA OneKeyStep == TaTypeOK /\ DeletesKey /\ SweepsEmpty /\ OneKeyEach /\ [TaNext]_taVars => OneKeyEach'
<1> SUFFICES ASSUME TaTypeOK, DeletesKey, SweepsEmpty, OneKeyEach, [TaNext]_taVars PROVE OneKeyEach' OBVIOUS
<1>0. /\ key \in [Procs -> Keys \cup {Nothing}] /\ item \in [Procs -> Ids \cup {Nothing}]
      /\ items \in [Keys -> Ids \cup {Nothing}] /\ TableCallers \subseteq Procs /\ Checkers \subseteq Procs
      /\ Nothing \notin Ids
  BY TableAssumption DEF TaTypeOK, Procs
\* An item that is nowhere new, or only where it is made.
<1>1. ASSUME \A i \in Ids : \/ \A k : IsUnder(i, k)' => IsUnder(i, k)
                            \/ \E l : \A k : IsUnder(i, k)' => k = l
      PROVE  OneKeyEach'
  BY <1>1 DEF OneKeyEach
<1>2. ASSUME NEW p \in Procs, NEW k, NEW i, Holds(p, k, i), \A l \in Keys : items'[l] \in {items[l], Nothing, i},
             i \in Ids => IsUnder(i, k) \/ i \notin Used, \A l \in Keys : items'[l] = i /\ items[l] # i => l = k
      PROVE  OneKeyEach'
  <2>1. /\ key'[p] = k \/ k \notin Keys \cup {Nothing}
        /\ item'[p] = i
        /\ \A q \in Procs \ {p} : key'[q] = key[q] /\ item'[q] = item[q]
    BY <1>0, <1>2 DEF Holds
  <2>2. key'[p] = k BY <1>0, <1>2 DEF Holds
  <2>3. \A j \in Ids : j # i => \A l : IsUnder(j, l)' => IsUnder(j, l)
    BY <1>0, <1>2, <2>1, <2>2 DEF IsUnder
  <2>4. ASSUME i \in Ids, IsUnder(i, k) PROVE \A l : IsUnder(i, l)' => IsUnder(i, l)
    BY <1>0, <1>2, <2>1, <2>2, <2>4 DEF IsUnder
  <2>5. ASSUME i \in Ids, i \notin Used PROVE \A l : IsUnder(i, l)' => l = k
    BY <1>0, <1>2, <2>1, <2>2, <2>5 DEF IsUnder, Used
  <2> QED BY <1>1, <1>2, <2>3, <2>4, <2>5
<1>3. ASSUME UNCHANGED <<key, item>>, \A l \in Keys : items'[l] \in {items[l], Nothing} PROVE OneKeyEach'
  <2>1. \A i \in Ids : \A k : IsUnder(i, k)' => IsUnder(i, k) BY <1>0, <1>3 DEF IsUnder
  <2> QED BY <1>1, <2>1
<1>4. ASSUME NEW p \in Procs, Done(p), \A l \in Keys : items'[l] \in {items[l], Nothing} PROVE OneKeyEach'
  <2>1. \A i \in Ids : \A k : IsUnder(i, k)' => IsUnder(i, k)
    <3>1. item'[p] = Nothing /\ \A q \in Procs \ {p} : key'[q] = key[q] /\ item'[q] = item[q]
      BY <1>0, <1>4 DEF Done, Holds
    <3> QED BY <1>0, <1>4, <3>1 DEF IsUnder
  <2> QED BY <1>1, <2>1
<1>5. Fresh \subseteq Ids /\ \A i \in Fresh : i \notin Used BY FreshUnused
<1>6. ASSUME NEW c \in TableCallers, NEW k \in Keys, NEW life, NEW b, Set(c, k, life, b) \/ AddLook(c, k, life, b)
      PROVE  OneKeyEach'
  <2>1. PICK i \in Fresh : Holds(c, k, i) BY <1>6 DEF Set, AddLook
  <2>2. items' = items BY <1>6 DEF Set, AddLook, table
  <2> QED BY <1>0, <1>2, <1>5, <2>1, <2>2
<1>7. ASSUME NEW c \in TableCallers, NEW k \in Keys, MustGet(c, k) PROVE OneKeyEach'
  <2>1. CASE items[k] # Nothing
    <3>1. Holds(c, k, items[k]) /\ items' = items BY <1>7, <2>1 DEF MustGet
    <3>2. PICK i \in Ids : i = items[k] BY <1>0, <2>1
    <3>3. IsUnder(i, k) BY <3>2 DEF IsUnder
    <3> QED BY <1>0, <1>2, <3>1, <3>2, <3>3
  <2>2. CASE items[k] = Nothing
    <3>1. PICK i \in Fresh : Holds(c, k, i) /\ items' = [items EXCEPT ![k] = i] BY <1>7, <2>2 DEF MustGet
    <3> QED BY <1>0, <1>2, <1>5, <3>1
  <2> QED BY <2>1, <2>2
<1>8. ASSUME NEW c \in TableCallers, NEW k \in Keys, Get(c, k) PROVE OneKeyEach'
  <2>1. Holds(c, k, items[k]) /\ items' = items /\ items[k] # Nothing BY <1>8 DEF Get, table
  <2>2. PICK i \in Ids : i = items[k] BY <1>0, <2>1
  <2>3. IsUnder(i, k) BY <2>2 DEF IsUnder
  <2> QED BY <1>0, <1>2, <2>1, <2>2, <2>3
<1>9. ASSUME NEW c \in TableCallers, NEW k \in Keys, Delete(c, k) PROVE OneKeyEach'
  <2>1. Holds(c, k, Nothing) /\ items' = items BY <1>9 DEF Delete, table
  <2> QED BY <1>0, <1>2, <2>1
<1>10. ASSUME NEW c \in TableCallers, Clear(c) PROVE OneKeyEach' BY <1>0, <1>3, <1>10 DEF Clear
\* The item comes under the key that its maker had for it.
<1>11. ASSUME NEW c \in TableCallers, Insert(c) PROVE OneKeyEach'
  <2>1. items' = [items EXCEPT ![key[c]] = item[c]] /\ UNCHANGED <<key, item>> BY <1>11 DEF Insert
  <2>2. \A i \in Ids : \A k : IsUnder(i, k)' => IsUnder(i, k)
    <3> SUFFICES ASSUME NEW i \in Ids, NEW k, IsUnder(i, k)' PROVE IsUnder(i, k) OBVIOUS
    <3>1. CASE k \in Keys /\ items'[k] = i BY <1>0, <2>1, <3>1 DEF IsUnder
    <3>2. CASE ~(k \in Keys /\ items'[k] = i) BY <2>1, <3>2 DEF IsUnder
    <3> QED BY <3>1, <3>2
  <2> QED BY <1>1, <2>2
<1>12. ASSUME NEW c \in TableCallers, Added(c) \/ UndoAdd(c) \/ Touch(c) \/ Read(c) PROVE OneKeyEach'
  <2>1. Done(c) BY <1>12 DEF Added, UndoAdd, Touch, Read
  <2>2. \A l \in Keys : items'[l] \in {items[l], Nothing} BY <1>0, <1>12 DEF Added, UndoAdd, Touch, Read, table
  <2> QED BY <1>0, <1>4, <2>1, <2>2
<1>13. ASSUME NEW c \in TableCallers, NEW life, NEW b, NEW ok, LoaderLocks(c) \/ Load(c, life, b, ok) PROVE OneKeyEach'
  BY <1>3, <1>13 DEF LoaderLocks, Load, table
<1>14. ASSUME NEW p \in Procs, DeleteLock(p) PROVE OneKeyEach'
  <2>1. items' = items BY <1>14 DEF DeleteLock, table
  <2>2. CASE items[key[p]] = Nothing
    <3>1. Done(p) BY <1>14, <2>2 DEF DeleteLock
    <3> QED BY <1>4, <2>1, <3>1
  <2>3. CASE items[key[p]] # Nothing
    <3>1. Holds(p, key[p], items[key[p]]) BY <1>14, <2>3 DEF DeleteLock
    <3>2. PICK k \in Keys : k = key[p] BY <1>14 DEF DeleteLock, DeletesKey
    <3>3. PICK i \in Ids : i = items[k] BY <1>0, <2>3, <3>2
    <3>4. IsUnder(i, k) BY <3>3 DEF IsUnder
    <3> QED BY <1>0, <1>2, <2>1, <3>1, <3>2, <3>3, <3>4
  <2> QED BY <2>2, <2>3
<1>15. ASSUME NEW p \in Procs, NEW yes, DeleteUnlock(p) \/ Callback(p, yes) PROVE OneKeyEach'
  BY <1>3, <1>15 DEF DeleteUnlock, Callback, table
<1>16. ASSUME NEW p \in Procs, DeleteNow(p) \/ Keep(p) PROVE OneKeyEach'
  <2>1. Done(p) BY <1>16 DEF DeleteNow, Keep
  <2>2. \A l \in Keys : items'[l] \in {items[l], Nothing} BY <1>0, <1>16 DEF DeleteNow, Keep, table
  <2> QED BY <1>4, <2>1, <2>2
<1>17. ASSUME NEW x \in Checkers, CheckLock(x) \/ ScanItems(x) PROVE OneKeyEach'
  BY <1>3, <1>17 DEF CheckLock, ScanItems
<1>18. ASSUME NEW x \in Checkers, Sweep(x) PROVE OneKeyEach'
  <2>1. CASE UNCHANGED key BY <1>3, <1>18, <2>1 DEF Sweep, table
  <2>2. ASSUME NEW k \in todo[x], taPc[x] = "sweep", key' = [key EXCEPT ![x] = k] PROVE OneKeyEach'
    <3>1. UNCHANGED <<items, item>> BY <1>18 DEF Sweep, table
    <3>2. item[x] = Nothing BY <2>2, <1>0 DEF SweepsEmpty
    <3>3. \A i \in Ids : \A l : IsUnder(i, l)' => IsUnder(i, l)
      BY <1>0, <2>2, <3>1, <3>2 DEF IsUnder
    <3> QED BY <1>1, <3>3
  <2> QED BY <1>18, <2>1, <2>2 DEF Sweep
<1>19. CASE TimerFires \/ Tick BY <1>3, <1>19 DEF TimerFires, Tick
<1>20. CASE UNCHANGED taVars BY <1>3, <1>20 DEF taVars
<1> QED BY <1>6, <1>7, <1>8, <1>9, <1>10, <1>11, <1>12, <1>13, <1>14, <1>15, <1>16, <1>17, <1>18, <1>19, <1>20
    DEF TaNext, Call, CallerStep, DeleteStep, CheckStep

LEMMA FollowedStep == TaInv /\ [TaNext]_taVars => FollowedUp'
<1> SUFFICES ASSUME TaInv, [TaNext]_taVars PROVE FollowedUp' OBVIOUS
<1>0. /\ taPc \in [Procs -> TaLabels] /\ item \in [Procs -> Ids \cup {Nothing}] /\ key \in [Procs -> Keys \cup {Nothing}]
      /\ items \in [Keys -> Ids \cup {Nothing}] /\ TableCallers \subseteq Procs /\ Checkers \subseteq Procs
      /\ todo \in [Checkers -> SUBSET Keys] /\ expDur \in [TableCallers -> 0..MaxLife]
      /\ Procs = TableCallers \cup Checkers /\ TableCallers \cap Checkers = {} /\ Nothing \notin Ids
      /\ heap \in [Ids -> Item]
  BY TableAssumption DEF TaInv, TaTypeOK, TaLabels, Procs
<1>a. \A k \in Keys, i \in Ids : items[k] = i /\ Mortal(i) => timer # Nothing \/ \E p \in Procs : Sees(p, k, i)
  <2> SUFFICES ASSUME NEW k \in Keys, NEW i \in Ids, items[k] = i, Mortal(i)
               PROVE  timer # Nothing \/ \E p \in Procs : Sees(p, k, i)
    OBVIOUS
  <2>1. timer # Nothing \/ InHand(k, items[k]) BY <1>0 DEF TaInv, FollowedUp
  <2>2. timer # Nothing \/ InHand(k, i) BY <2>1
  <2>3. InHand(k, i) => \E p \in Procs : Sees(p, k, i) BY <1>0 DEF InHand, Sees
  <2> QED BY <2>2, <2>3
<1>b. SUFFICES ASSUME NEW k \in Keys, NEW i \in Ids, items'[k] = i, Mortal(i)'
               PROVE  timer' # Nothing \/ \E p \in Procs : Sees(p, k, i)'
  <2>1. SUFFICES ASSUME NEW k \in Keys, items'[k] # Nothing, Mortal(items[k])'
                 PROVE  timer' # Nothing \/ InHand(k, items[k])'
    BY DEF FollowedUp
  <2>2. TaTypeOK' BY TaTyped DEF TaInv
  <2>3. PICK i \in Ids : items'[k] = i BY <2>1, <2>2 DEF TaTypeOK
  <2>4. Mortal(i)' BY <2>1, <2>3 DEF Mortal
  <2>5. timer' # Nothing \/ \E p \in Procs : Sees(p, k, i)' BY <1>b, <2>3, <2>4
  <2>6. \A p \in Procs : Sees(p, k, i)' => InHand(k, items[k])' BY <2>3 DEF Sees, InHand
  <2> QED BY <2>5, <2>6
<1>c. heap'[i].life > 0 /\ ~heap'[i].loading /\ ~heap'[i].kept BY <1>b DEF Mortal
<1>d. i \in Used' BY <1>b DEF Used
<1>e. \A h : Collect(h)[i] = h[i] BY <1>d DEF Collect
<1>f. items[k] = i => i \in Used BY DEF Used
\* An item is not held under another key.
<1>g. items[k] = i => \A p \in Procs : item[p] = i => key[p] = k BY DEF TaInv, OneKeyEach, IsUnder
\* Nobody turns away.
<1>1. ASSUME items[k] = i, Mortal(i), timer # Nothing => timer' # Nothing,
             \A p \in Procs : Sees(p, k, i) => timer' # Nothing \/ \E q \in Procs : Sees(q, k, i)'
      PROVE  timer' # Nothing \/ \E p \in Procs : Sees(p, k, i)'
  BY <1>1, <1>a
\* One moves on.
<1>2. ASSUME NEW m \in Procs, NEW a, NEW b, TaGo(m, a, b),
             UNCHANGED <<key, item>> \/ \E l, j : Holds(m, l, j),
             \A p \in TableCallers \ {m} : expDur'[p] = expDur[p],
             \A p \in Checkers \ {m} : todo'[p] = todo[p],
             heap'[i].life = heap[i].life, heap'[i].loading = heap[i].loading, heap'[i].kept = heap[i].kept,
             items[k] = i, timer # Nothing => timer' # Nothing,
             Sees(m, k, i) => timer' # Nothing \/ \E q \in Procs : Sees(q, k, i)'
      PROVE  timer' # Nothing \/ \E p \in Procs : Sees(p, k, i)'
  <2>1. \A p \in Procs \ {m} : taPc'[p] = taPc[p] /\ key'[p] = key[p] /\ item'[p] = item[p]
    BY <1>0, <1>2 DEF TaGo, Holds
  <2>2. \A p \in Procs \ {m} : Sees(p, k, i) => Sees(p, k, i)' BY <1>2, <2>1 DEF Sees
  <2>3. Mortal(i) BY <1>2, <1>c DEF Mortal
  <2> QED BY <1>1, <1>2, <2>2, <2>3
<1>3. ASSUME NEW c \in TableCallers, NEW l \in Keys, NEW life, NEW b, Set(c, l, life, b) \/ AddLook(c, l, life, b)
      PROVE  timer' # Nothing \/ \E p \in Procs : Sees(p, k, i)'
  <2>1. PICK j \in Fresh : Holds(c, l, j) /\ heap' = Collect(New(j, life, b)) BY <1>3 DEF Set, AddLook
  <2>2. TaGo(c, "idle", "insert") /\ UNCHANGED <<items, timer, expDur, todo>> BY <1>3 DEF Set, AddLook, table
  <2>3. j \in Ids /\ j # i BY <1>b, <1>f, <2>1, <2>2, FreshUnused
  <2>4. heap'[i] = heap[i] BY <1>0, <1>e, <2>1, <2>3 DEF New
  <2>5. ~Sees(c, k, i) BY <1>0, <2>2 DEF Sees, TaGo
  <2> QED BY <1>0, <1>2, <1>b, <2>1, <2>2, <2>4, <2>5
<1>4. ASSUME NEW c \in TableCallers, NEW l \in Keys, MustGet(c, l)
      PROVE  timer' # Nothing \/ \E p \in Procs : Sees(p, k, i)'
  <2>1. UNCHANGED <<timer, expDur, todo>> BY <1>4 DEF MustGet
  <2>2. CASE items[l] # Nothing
    <3>1. TaGo(c, "idle", "touch") /\ Holds(c, l, items[l]) /\ UNCHANGED <<items, heap>> BY <1>4, <2>2 DEF MustGet
    <3>2. ~Sees(c, k, i) BY <1>0, <3>1 DEF Sees, TaGo
    <3> QED BY <1>0, <1>2, <1>b, <2>1, <3>1, <3>2
  <2>3. CASE items[l] = Nothing
    <3>0. PICK a \in {"load", "using"} : TaGo(c, "idle", a) BY <1>4, <2>3 DEF MustGet
    <3>1. PICK j \in Fresh : /\ Holds(c, l, j) /\ items' = [items EXCEPT ![l] = j]
                             /\ heap' = [heap EXCEPT ![j] = [Dead EXCEPT !.loading = TRUE]]
      BY <1>4, <2>3 DEF MustGet
    <3>2. j \in Ids BY <3>1, FreshUnused
    <3>3. i # j
      <4>1. heap'[j].loading = TRUE BY <1>0, <3>1, <3>2 DEF Dead
      <4> QED BY <1>c, <4>1
    <3>4. items[k] = i /\ heap'[i] = heap[i] BY <1>0, <1>b, <3>1, <3>3
    <3>5. ~Sees(c, k, i) BY <1>0, <3>0 DEF Sees, TaGo
    <3> QED BY <1>0, <1>2, <2>1, <3>0, <3>1, <3>4, <3>5
  <2> QED BY <2>2, <2>3
<1>5. ASSUME NEW c \in TableCallers, NEW l \in Keys, Get(c, l) \/ Delete(c, l)
      PROVE  timer' # Nothing \/ \E p \in Procs : Sees(p, k, i)'
  <2>1. UNCHANGED <<items, heap, timer, expDur, todo>> BY <1>5 DEF Get, Delete, table
  <2>2. PICK b \in TaLabels : TaGo(c, "idle", b) BY <1>5 DEF Get, Delete, TaLabels
  <2>3. \E j : Holds(c, l, j) BY <1>5 DEF Get, Delete
  <2>4. ~Sees(c, k, i) BY <1>0, <2>2 DEF Sees, TaGo
  <2> QED BY <1>0, <1>2, <1>b, <2>1, <2>2, <2>3, <2>4
<1>6. ASSUME NEW c \in TableCallers, Clear(c) PROVE FALSE BY <1>0, <1>6, <1>b DEF Clear
<1>7. ASSUME NEW c \in TableCallers, Insert(c) PROVE timer' # Nothing \/ \E p \in Procs : Sees(p, k, i)'
  <2>1. /\ TaGo(c, "insert", "added") /\ items' = [items EXCEPT ![key[c]] = item[c]]
        /\ expDur' = [expDur EXCEPT ![c] = cleanupInterval]
        /\ UNCHANGED <<cleanupInterval, timer, key, item, todo>> /\ heap' = Collect(heap)
    BY <1>7 DEF Insert
  <2>2. heap'[i] = heap[i] BY <1>e, <2>1
  <2>3. CASE key[c] = k
    <3>1. item'[c] = i /\ taPc'[c] = "added" /\ expDur'[c] = cleanupInterval BY <1>0, <1>b, <2>1, <2>3 DEF TaGo
    <3>2. CASE cleanupInterval = 0
      <4>1. NeedsCheck(heap'[i].life, expDur'[c]) BY <1>c, <3>1, <3>2 DEF NeedsCheck
      <4>2. Sees(c, k, i)' BY <3>1, <4>1 DEF Sees
      <4> QED BY <1>0, <4>2
    <3>3. CASE cleanupInterval # 0
      <4>1. IntervalHasTimer' BY IntervalStep DEF TaInv
      <4>2. timer' # Nothing \/ \E x \in Checkers : taPc'[x] \in {"due", "scan"} BY <2>1, <3>3, <4>1 DEF IntervalHasTimer
      <4>3. \A x \in Checkers : taPc'[x] \in {"due", "scan"} => Sees(x, k, i)' BY DEF Sees
      <4> QED BY <1>0, <4>2, <4>3
    <3> QED BY <3>2, <3>3
  <2>4. CASE key[c] # k
    <3>1. items[k] = i BY <1>0, <1>b, <2>1, <2>4
    <3>2. ~Sees(c, k, i) BY <1>0, <1>g, <2>1, <2>4, <3>1 DEF Sees, TaGo
    <3> QED BY <1>0, <1>2, <2>1, <2>2, <3>1, <3>2
  <2> QED BY <2>3, <2>4
<1>8. ASSUME NEW c \in TableCallers, Added(c) PROVE timer' # Nothing \/ \E p \in Procs : Sees(p, k, i)'
  <2>1. /\ taPc[c] = "added" /\ UNCHANGED <<items, timer, todo>> /\ Holds(c, Nothing, Nothing)
        /\ expDur' = [expDur EXCEPT ![c] = 0] /\ heap' = Collect(heap)
    BY <1>8 DEF Added, Done, table
  <2>2. heap'[i] = heap[i] BY <1>e, <2>1
  <2>3. CASE NeedsCheck(heap[item[c]].life, expDur[c])
    <3>1. PICK x \in Spare : taPc' = [taPc EXCEPT ![c] = "idle", ![x] = "due"] BY <1>8, <2>3 DEF Added
    <3>2. x \in Checkers BY <3>1 DEF Spare
    <3>3. taPc'[x] = "due" BY <1>0, <3>1, <3>2
    <3> QED BY <1>0, <3>2, <3>3 DEF Sees
  <2>4. CASE ~NeedsCheck(heap[item[c]].life, expDur[c])
    <3>1. TaGo(c, "added", "idle") BY <1>8, <2>4 DEF Added, TaGo
    <3>2. ~Sees(c, k, i) BY <1>0, <2>1, <2>4 DEF Sees
    <3> QED BY <1>0, <1>2, <1>b, <2>1, <2>2, <3>1, <3>2
  <2> QED BY <2>3, <2>4
<1>9. ASSUME NEW c \in TableCallers, NEW life, NEW b, NEW ok, Load(c, life, b, ok)
      PROVE  timer' # Nothing \/ \E p \in Procs : Sees(p, k, i)'
  <2>1. PICK d \in {"insert", "undo"} : TaGo(c, "load", d) BY <1>9 DEF Load
  <2>2. /\ UNCHANGED <<items, timer, key, item, expDur, todo>>
        /\ heap' = [heap EXCEPT ![item[c]] = [@ EXCEPT !.life = life, !.interval = b, !.loading = FALSE]]
    BY <1>9 DEF Load, table
  <2>3. CASE item[c] = i
    <3>1. Sees(c, k, i)' BY <1>0, <2>1, <2>2, <2>3 DEF Sees, TaGo
    <3> QED BY <1>0, <3>1
  <2>4. CASE item[c] # i
    <3>1. heap'[i] = heap[i] BY <1>0, <2>2, <2>4
    <3>2. ~Sees(c, k, i) BY <1>0, <2>1 DEF Sees, TaGo
    <3> QED BY <1>0, <1>2, <1>b, <2>1, <2>2, <3>1, <3>2
  <2> QED BY <2>3, <2>4
<1>21. ASSUME NEW c \in TableCallers, LoaderLocks(c) PROVE timer' # Nothing \/ \E p \in Procs : Sees(p, k, i)'
  <2>1. TaGo(c, "using", "load") /\ UNCHANGED <<items, timer, heap, key, item, expDur, todo>>
    BY <1>21 DEF LoaderLocks, table
  <2>2. ~Sees(c, k, i) BY <1>0, <2>1 DEF Sees, TaGo
  <2> QED BY <1>0, <1>2, <1>b, <2>1, <2>2
<1>10. ASSUME NEW c \in TableCallers, UndoAdd(c) PROVE timer' # Nothing \/ \E p \in Procs : Sees(p, k, i)'
  <2>1. /\ TaGo(c, "undo", "idle") /\ items' = [items EXCEPT ![key[c]] = Nothing] /\ Holds(c, Nothing, Nothing)
        /\ UNCHANGED <<timer, expDur, todo>> /\ heap' = Collect(heap)
    BY <1>10 DEF UndoAdd, Done
  <2>2. heap'[i] = heap[i] BY <1>e, <2>1
  <2>3. key[c] # k /\ items[k] = i BY <1>0, <1>b, <2>1
  <2>4. ~Sees(c, k, i) BY <1>0, <1>g, <2>1, <2>3 DEF Sees, TaGo
  <2> QED BY <1>0, <1>2, <2>1, <2>2, <2>3, <2>4
<1>11. ASSUME NEW c \in TableCallers, Touch(c) \/ Read(c) PROVE timer' # Nothing \/ \E p \in Procs : Sees(p, k, i)'
  <2>1. PICK d \in {"touch", "read"} : TaGo(c, d, "idle") BY <1>11 DEF Touch, Read
  <2>2. UNCHANGED <<items, timer, expDur, todo>> /\ Holds(c, Nothing, Nothing) BY <1>11 DEF Touch, Read, Done, table
  <2>3. heap'[i].life = heap[i].life /\ heap'[i].loading = heap[i].loading /\ heap'[i].kept = heap[i].kept
    <3>1. CASE Read(c) BY <1>e, <3>1 DEF Read
    <3>2. CASE Touch(c)
      <4>1. heap'[i] = [heap EXCEPT ![item[c]].idle = 0][i] BY <1>e, <3>2 DEF Touch
      <4>2. heap[i] \in Item BY <1>0
      <4>3. heap'[i] = heap[i] \/ heap'[i] = [heap[i] EXCEPT !.idle = 0] BY <1>0, <4>1
      <4> QED BY <4>2, <4>3 DEF Item
    <3> QED BY <1>11, <3>1, <3>2
  <2>4. ~Sees(c, k, i) BY <1>0, <2>1 DEF Sees, TaGo
  <2> QED BY <1>0, <1>2, <1>b, <2>1, <2>2, <2>3, <2>4
<1>12. ASSUME NEW p \in Procs, DeleteLock(p) PROVE timer' # Nothing \/ \E q \in Procs : Sees(q, k, i)'
  <2>1. UNCHANGED <<items, timer, heap, expDur, todo>> /\ taPc[p] = "delete" BY <1>12 DEF DeleteLock, table
  <2>2. items[k] = i BY <1>b, <2>1
  <2>3. CASE items[key[p]] = Nothing
    <3>1. TaGo(p, "delete", After(p)) /\ Holds(p, Nothing, Nothing) BY <1>12, <2>3 DEF DeleteLock, Done
    <3>2. Sees(p, k, i) => p \in Checkers /\ k \in todo[p] BY <1>0, <2>1, <2>2, <2>3 DEF Sees
    <3>3. Sees(p, k, i) => Sees(p, k, i)' BY <2>1, <3>2 DEF Sees
    <3> QED BY <1>0, <1>2, <2>1, <2>2, <3>1, <3>3
  <2>4. CASE items[key[p]] # Nothing
    <3>1. TaGo(p, "delete", "delete locked") /\ Holds(p, key[p], items[key[p]]) BY <1>12, <2>4 DEF DeleteLock
    <3>2. taPc'[p] = "delete locked" /\ item'[p] = items[key[p]] BY <1>0, <3>1 DEF TaGo, Holds
    <3>3. Sees(p, k, i) => Sees(p, k, i)' BY <1>0, <2>1, <2>2, <3>2 DEF Sees
    <3> QED BY <1>0, <1>2, <2>1, <2>2, <3>1, <3>3
  <2> QED BY <2>3, <2>4
<1>13. ASSUME NEW p \in Procs, NEW yes, DeleteUnlock(p) \/ Callback(p, yes)
       PROVE  timer' # Nothing \/ \E q \in Procs : Sees(q, k, i)'
  <2>1. PICK d \in {"delete locked", "callback"}, e \in {"callback", "delete now", "keep"} : TaGo(p, d, e)
    BY <1>13 DEF DeleteUnlock, Callback
  <2>2. UNCHANGED <<items, timer, heap, key, item, expDur, todo>> BY <1>13 DEF DeleteUnlock, Callback, table
  <2>3. Sees(p, k, i) => Sees(p, k, i)' BY <1>0, <2>1, <2>2 DEF Sees, TaGo
  <2> QED BY <1>0, <1>2, <1>b, <2>1, <2>2, <2>3
<1>14. ASSUME NEW p \in Procs, DeleteNow(p) PROVE timer' # Nothing \/ \E q \in Procs : Sees(q, k, i)'
  <2>1. /\ TaGo(p, "delete now", After(p)) /\ items' = [items EXCEPT ![key[p]] = Nothing] /\ Holds(p, Nothing, Nothing)
        /\ UNCHANGED <<timer, expDur, todo>> /\ heap' = Collect(heap)
    BY <1>14 DEF DeleteNow, Done
  <2>2. heap'[i] = heap[i] BY <1>e, <2>1
  <2>3. key[p] # k /\ items[k] = i BY <1>0, <1>b, <2>1
  <2>4. Sees(p, k, i) => p \in Checkers /\ k \in todo[p] BY <1>0, <1>g, <2>1, <2>3 DEF Sees, TaGo
  <2>5. Sees(p, k, i) => Sees(p, k, i)' BY <2>1, <2>4 DEF Sees
  <2> QED BY <1>0, <1>2, <2>1, <2>2, <2>3, <2>5
<1>15. ASSUME NEW p \in Procs, Keep(p) PROVE timer' # Nothing \/ \E q \in Procs : Sees(q, k, i)'
  <2>1. /\ TaGo(p, "keep", After(p)) /\ Holds(p, Nothing, Nothing) /\ UNCHANGED <<items, timer, expDur, todo>>
        /\ heap' = Collect([heap EXCEPT ![item[p]] = [@ EXCEPT !.idle = 0, !.kept = TRUE]])
    BY <1>15 DEF Keep, Done, table
  <2>2. item[p] # i
    <3>1. heap[i] \in Item BY <1>0
    <3>2. item[p] = i => heap'[i] = [heap[i] EXCEPT !.idle = 0, !.kept = TRUE] BY <1>0, <1>e, <2>1
    <3>3. [heap[i] EXCEPT !.idle = 0, !.kept = TRUE].kept = TRUE BY <3>1 DEF Item
    <3> QED BY <1>c, <3>2, <3>3
  <2>3. heap'[i] = heap[i] BY <1>0, <1>e, <2>1, <2>2
  <2>4. Sees(p, k, i) => p \in Checkers /\ k \in todo[p] BY <1>0, <2>1, <2>2 DEF Sees, TaGo
  <2>5. Sees(p, k, i) => Sees(p, k, i)' BY <2>1, <2>4 DEF Sees
  <2> QED BY <1>0, <1>2, <1>b, <2>1, <2>3, <2>5
<1>16. ASSUME NEW x \in Checkers, CheckLock(x) PROVE timer' # Nothing \/ \E q \in Procs : Sees(q, k, i)'
  BY <1>0, <1>16 DEF CheckLock, TaGo, Sees
\* What the scan does not find expired, it waits for.
<1>17. ASSUME NEW x \in Checkers, ScanItems(x) PROVE timer' # Nothing \/ \E q \in Procs : Sees(q, k, i)'
  <2>1. /\ todo' = [todo EXCEPT ![x] = {l \in Keys : items[l] # Nothing /\ Expired(items[l])}]
        /\ cleanupInterval' = Smallest(Durations) /\ items' = items
        /\ timer' = IF cleanupInterval' > 0 THEN cleanupInterval' ELSE Nothing
        /\ heap' = [j \in Ids |-> IF j \in {items[l] : l \in {m \in Keys : items[m] # Nothing}} THEN Scanned(j) ELSE heap[j]]
    <3>1. {l \in {m \in Keys : items[m] # Nothing} : Expired(items[l])}
          = {l \in Keys : items[l] # Nothing /\ Expired(items[l])}
      OBVIOUS
    <3> QED BY <1>17, <3>1 DEF ScanItems
  <2>2. items[k] = i /\ items[k] # Nothing BY <1>0, <1>b, <2>1
  <2>3. heap'[i] = Scanned(i) BY <2>1, <2>2
  <2>4. TaTypeOK BY DEF TaInv
  <2>5. heap[i].life > 0
    <3>1. heap[i].life \in 0..MaxLife BY <1>0 DEF Item
    <3>2. CASE heap[i].life = 0
      <4>1. ~(heap[i].life > 0) BY <3>2
      <4>2. Scanned(i) = heap[i] BY <4>1 DEF Scanned
      <4> QED BY <1>c, <2>3, <4>1, <4>2
    <3>3. CASE heap[i].life # 0 BY <3>1, <3>3, TableAssumption
    <3> QED BY <3>2, <3>3
  <2>6. CASE Expired(i)
    <3>1. k \in todo'[x] BY <1>0, <2>1, <2>2, <2>6
    <3> QED BY <1>0, <3>1 DEF Sees
  <2>7. CASE ~Expired(i)
    <3>1. Remaining(i) \in Durations BY <2>2, <2>5, <2>7 DEF Durations
    <3>2. Durations \subseteq 1..MaxLife
      <4> SUFFICES ASSUME NEW l \in Keys, items[l] # Nothing, heap[items[l]].life > 0, ~Expired(items[l])
                   PROVE  Remaining(items[l]) \in 1..MaxLife
        BY DEF Durations
      <4>1. items[l] \in Ids BY <1>0
      <4> QED BY <2>4, <4>1, DurationsPositive
    <3>3. Smallest(Durations) > 0 /\ Smallest(Durations) \in 0..MaxLife BY <3>1, <3>2, SmallestIsMember
    <3>4. timer' \in Nat BY <2>1, <3>3, TableAssumption
    <3> QED BY <3>4, TableAssumption
  <2> QED BY <2>6, <2>7
<1>18. ASSUME NEW x \in Checkers, Sweep(x) PROVE timer' # Nothing \/ \E q \in Procs : Sees(q, k, i)'
  <2>1. UNCHANGED <<items, timer, heap, item, expDur>> /\ taPc[x] = "sweep" BY <1>18 DEF Sweep, table
  <2>2. Sees(x, k, i) => k \in todo[x] BY <1>0, <2>1 DEF Sees
  <2>3. CASE todo[x] = {} /\ TaGo(x, "sweep", "idle") /\ UNCHANGED <<key, todo>>
    BY <1>0, <1>2, <1>b, <2>1, <2>2, <2>3
  <2>4. ASSUME NEW l \in todo[x], TaGo(x, "sweep", "delete"), key' = [key EXCEPT ![x] = l],
               todo' = [todo EXCEPT ![x] = @ \ {l}]
        PROVE  timer' # Nothing \/ \E q \in Procs : Sees(q, k, i)'
    <3>1. taPc'[x] = "delete" /\ key'[x] = l /\ todo'[x] = todo[x] \ {l} BY <1>0, <2>4 DEF TaGo
    <3>2. Sees(x, k, i) => Sees(x, k, i)' BY <2>2, <3>1 DEF Sees
    <3>3. Holds(x, l, item[x]) BY <1>0, <2>1, <2>4 DEF Holds
    <3> QED BY <1>0, <1>2, <1>b, <2>1, <2>4, <3>2, <3>3
  <2> QED BY <1>18, <2>3, <2>4 DEF Sweep
<1>19. CASE TimerFires
  <2>1. PICK x \in Spare : TaGo(x, "idle", "due") BY <1>19 DEF TimerFires
  <2>2. x \in Checkers BY <2>1 DEF Spare
  <2>3. taPc'[x] = "due" BY <1>0, <2>1, <2>2 DEF TaGo
  <2> QED BY <1>0, <2>2, <2>3 DEF Sees
<1>20. CASE Tick \/ UNCHANGED taVars
  <2>1. UNCHANGED <<items, taPc, key, item, expDur, todo>> BY <1>20 DEF Tick, taVars
  <2>2. timer # Nothing => timer' # Nothing
    <3>0. timer \in (0..MaxLife) \cup {Nothing} BY DEF TaInv, TaTypeOK
    <3>1. CASE Tick /\ timer # Nothing
      <4>1. timer \in Nat /\ timer # 0 /\ timer' = timer - 1 BY <3>0, <3>1, TableAssumption DEF Tick
      <4>2. timer' \in Nat BY <4>1
      <4> QED BY <4>2, TableAssumption
    <3>2. CASE timer' = timer BY <3>2
    <3> QED BY <1>20, <3>1, <3>2 DEF taVars
  <2>3. heap'[i].life = heap[i].life /\ heap'[i].loading = heap[i].loading /\ heap'[i].kept = heap[i].kept
    <3>1. CASE Tick
      <4>1. heap'[i] = Older(i) BY <3>1 DEF Tick
      <4>2. heap[i] \in Item BY <1>0
      <4> QED BY <4>1, <4>2 DEF Older, Item
    <3>2. CASE UNCHANGED taVars BY <3>2 DEF taVars
    <3> QED BY <1>20, <3>1, <3>2
  <2>4. \A p \in Procs : Sees(p, k, i) => Sees(p, k, i)' BY <2>1, <2>3 DEF Sees
  <2>5. Mortal(i) /\ items[k] = i BY <1>b, <1>c, <2>1, <2>3 DEF Mortal
  <2> QED BY <1>1, <2>2, <2>4, <2>5
<1> QED BY <1>3, <1>4, <1>5, <1>6, <1>7, <1>8, <1>9, <1>10, <1>11, <1>12, <1>13, <1>14, <1>15, <1>16, <1>17,
           <1>18, <1>19, <1>20, <1>21
    DEF TaNext, Call, CallerStep, DeleteStep, CheckStep

\* An item that can expire is never forgotten, whatever is set, loaded, deleted,
\* cleared and scanned in between: for any keys, callers, checks and lifespans.
THEOREM ExpiryIsFollowedUp == TaSpec => []FollowedUp
<1>1. TaInit => TaInv
  <2> SUFFICES ASSUME TaInit PROVE TaInv OBVIOUS
  <2>0. Dead \in Item /\ Nothing \notin Ids /\ 0 \in 0..MaxLife /\ 0 \in 0..MaxCalls
    BY TableAssumption DEF Dead, Item
  <2>1. TaTypeOK BY <2>0 DEF TaInit, TaTypeOK
  <2>2. DeletesKey /\ SweepsEmpty /\ IntervalHasTimer BY DEF TaInit, DeletesKey, SweepsEmpty, IntervalHasTimer, Procs
  <2>3. OneKeyEach BY <2>0 DEF TaInit, OneKeyEach, IsUnder
  <2>4. FollowedUp BY DEF TaInit, FollowedUp
  <2> QED BY <2>1, <2>2, <2>3, <2>4 DEF TaInv
<1>2. TaInv /\ [TaNext]_taVars => TaInv'
  BY TaTyped, DeletesKeyStep, SweepsEmptyStep, IntervalStep, OneKeyStep, FollowedStep DEF TaInv
<1>3. TaInv => FollowedUp BY DEF TaInv
<1> QED BY <1>1, <1>2, <1>3, PTL DEF TaSpec
=============================================================================
