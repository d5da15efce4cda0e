------------------------------ MODULE RBMutex ------------------------------
(***************************************************************************)
(* The reader-biased read-write lock of zsync/mutex.go.                    *)
(*                                                                         *)
(* mu.state packs a bias bit and the number of announced writers.  A       *)
(* reader that loads it with the bit set and no writer only adds one to a  *)
(* slot's counter; any other reader takes the RWMutex.  A writer clears    *)
(* the bit and announces itself, takes the RWMutex and waits until it has  *)
(* seen every slot's counter at zero, one slot after the other.            *)
(*                                                                         *)
(* Left out: writerMomentum, which is read only where the loaded state has *)
(* the bias bit and a writer (mutex.go:106-125), and BiasOrWriters says    *)
(* that there is no such state; the pauses of the scanning loop.           *)
(***************************************************************************)
EXTENDS Integers, FiniteSets

CONSTANTS
    Readers, Writers,   \* goroutines that lock and unlock again and again
    Slots,              \* mu.rslots; the zero value of an RBMutex has none
    NoHolder

ASSUME LockAssumption ==
    /\ IsFiniteSet(Readers) /\ IsFiniteSet(Writers) /\ IsFiniteSet(Slots)
    /\ Readers \cap Writers = {}
    /\ NoHolder \notin Readers \cup Writers \cup Slots

VARIABLES
    bias, writers,      \* mu.state
    counter,            \* mu.rslots[i].counter
    rwReaders, rwWriter,  \* mu.rw: who holds it for reading; the writer that
                        \* holds it, or waits for the readers to leave
    rbPc,
    token,              \* a reader's slot; NoHolder stands for RBToken{p: nil}
    unseen              \* the slots a scanning writer has yet to see at zero

rbVars == <<bias, writers, counter, rwReaders, rwWriter, rbPc, token, unseen>>
rw == <<rwReaders, rwWriter>>

RBInit ==
    /\ bias = (Slots # {}) /\ writers = 0
    /\ counter = [s \in Slots |-> 0]
    /\ rwReaders = {} /\ rwWriter = NoHolder
    /\ rbPc = [p \in Readers \cup Writers |-> "idle"]
    /\ token = [r \in Readers |-> NoHolder]
    /\ unseen = [w \in Writers |-> {}]

RBGo(p, from, to) == rbPc[p] = from /\ rbPc' = [rbPc EXCEPT ![p] = to]

-----------------------------------------------------------------------------
\* RLock: the state is loaded once and not looked at again.
FastState == bias /\ writers = 0

LoadState(r) ==
    /\ RBGo(r, "idle", IF FastState THEN "fast" ELSE "slow")
    /\ UNCHANGED <<bias, writers, counter, rw, token, unseen>>

\* The slot is that of the processor the reader happens to run on.
RLockFast(r) ==
    /\ RBGo(r, "fast", "read")
    /\ \E s \in Slots : counter' = [counter EXCEPT ![s] = @ + 1] /\ token' = [token EXCEPT ![r] = s]
    /\ UNCHANGED <<bias, writers, rw, unseen>>

RLockSlow(r) ==
    /\ RBGo(r, "slow", "read") /\ rwWriter = NoHolder
    /\ rwReaders' = rwReaders \cup {r}
    /\ UNCHANGED <<bias, writers, counter, rwWriter, token, unseen>>

FirstSlot(r) == CHOOSE s \in Slots : TRUE   \* mutant: the slot is computed again
SlotOf(r) == token[r]

RUnlock(r) ==
    /\ RBGo(r, "read", "idle")
    /\ \/ /\ token[r] = NoHolder
          /\ rwReaders' = rwReaders \ {r}
          /\ UNCHANGED <<counter, token>>
       \/ /\ token[r] # NoHolder
          /\ counter' = [counter EXCEPT ![SlotOf(r)] = @ - 1]
          /\ token' = [token EXCEPT ![r] = NoHolder]
          /\ UNCHANGED rwReaders
    /\ UNCHANGED <<bias, writers, rwWriter, unseen>>

-----------------------------------------------------------------------------
\* Lock: the compare-and-swap loop is one atomic change of the state.
Announce(w) ==
    /\ RBGo(w, "idle", "announced")
    /\ bias' = FALSE /\ writers' = writers + 1
    /\ UNCHANGED <<counter, rw, token, unseen>>

\* sync.RWMutex: one writer at a time; a waiting writer keeps new readers out.
TakeRWAnyway == TRUE   \* mutant: mu.rw is not locked
RWFree == rwWriter = NoHolder

RWLockBegin(w) ==
    /\ RBGo(w, "announced", "wait readers") /\ RWFree
    /\ rwWriter' = w
    /\ UNCHANGED <<bias, writers, counter, rwReaders, token, unseen>>

RWLockEnd(w) ==
    /\ RBGo(w, "wait readers", "scan") /\ rwReaders = {}
    /\ unseen' = [unseen EXCEPT ![w] = Slots]
    /\ UNCHANGED <<bias, writers, counter, rw, token>>

SlotBusy(s) == counter[s] > 0

\* One load of the scan, in any order, as the slots are alike; a counter above
\* zero starts it again.
ScanSlot(w) ==
    /\ rbPc[w] = "scan"
    /\ \E s \in unseen[w] :
           unseen' = [unseen EXCEPT ![w] = IF SlotBusy(s) THEN Slots ELSE @ \ {s}]
    /\ UNCHANGED <<bias, writers, counter, rw, rbPc, token>>

ScanDone(w) ==
    /\ RBGo(w, "scan", "write") /\ unseen[w] = {}
    /\ UNCHANGED <<bias, writers, counter, rw, token, unseen>>

\* Unlock releases the RWMutex first and corrects the state after.
RWUnlock(w) ==
    /\ RBGo(w, "write", "leave")
    /\ rwWriter' = NoHolder
    /\ UNCHANGED <<bias, writers, counter, rwReaders, token, unseen>>

BiasAlways == Slots # {}   \* mutant: the bias returns while a writer is announced
BiasBack == IF writers = 1 THEN Slots # {} ELSE bias

RBLeave(w) ==
    /\ RBGo(w, "leave", "idle")
    /\ writers' = writers - 1
    /\ bias' = BiasBack
    /\ UNCHANGED <<counter, rw, token, unseen>>

ReaderStep(r) == LoadState(r) \/ RLockFast(r) \/ RLockSlow(r) \/ RUnlock(r)
WriterStep(w) ==
    \/ Announce(w) \/ RWLockBegin(w) \/ RWLockEnd(w) \/ ScanSlot(w) \/ ScanDone(w)
    \/ RWUnlock(w) \/ RBLeave(w)

RBNext == (\E r \in Readers : ReaderStep(r)) \/ (\E w \in Writers : WriterStep(w))

RBSpec == RBInit /\ [][RBNext]_rbVars

(* Whoever has begun to lock or unlock goes on; nobody has to begin.  A    *)
(* sync.RWMutex lets blocked readers in between two writers, and serves    *)
(* blocked writers in turn: strong fairness of its two entries.            *)
RBFairSpec ==
    /\ RBSpec
    /\ \A r \in Readers :
          WF_rbVars(RLockFast(r)) /\ SF_rbVars(RLockSlow(r)) /\ WF_rbVars(RUnlock(r))
    /\ \A w \in Writers :
          /\ SF_rbVars(RWLockBegin(w)) /\ WF_rbVars(RWLockEnd(w)) /\ WF_rbVars(ScanSlot(w))
          /\ WF_rbVars(ScanDone(w)) /\ WF_rbVars(RWUnlock(w)) /\ WF_rbVars(RBLeave(w))

-----------------------------------------------------------------------------
Announced == {w \in Writers : rbPc[w] # "idle"}

RBTypeOK ==
    /\ bias \in BOOLEAN /\ writers \in Nat
    /\ counter \in [Slots -> Nat]
    /\ rwReaders \subseteq Readers /\ rwWriter \in Writers \cup {NoHolder}
    /\ rbPc \in [Readers \cup Writers ->
               {"idle", "fast", "slow", "read", "announced", "wait readers", "scan", "write", "leave"}]
    /\ token \in [Readers -> Slots \cup {NoHolder}]
    /\ unseen \in [Writers -> SUBSET Slots]

\* The two halves of mu.state agree with each other and with the goroutines:
\* the bias bit is back only when the last announced writer has left, so that
\* no reader ever loads it beside a writer (mutex.go:106 is never taken).
BiasOrWriters ==
    /\ writers = Cardinality(Announced)
    /\ bias <=> Slots # {} /\ writers = 0

\* A slot counts exactly the readers that entered through it: a scan that sees
\* zero has seen that nobody is inside by that slot.
CountersExact ==
    \A s \in Slots : counter[s] = Cardinality({r \in Readers : token[r] = s})

\* The lock's state and slots agree with each other and with the goroutines, whose steps
\* change one of them at a time.
StateAgrees == BiasOrWriters /\ CountersExact

\* Two writers, or a writer and a reader that went the slow way, are never
\* inside together.
WritersExclude ==
    \A w \in Writers : rbPc[w] = "write" =>
        /\ \A v \in Writers : rbPc[v] = "write" => v = w
        /\ \A r \in Readers : rbPc[r] = "read" => token[r] # NoHolder

\* No reader sets out on the fast way while a writer is announced.
NoFastStartBesideWriter ==
    [][\A r \in Readers : rbPc[r] = "idle" /\ rbPc'[r] = "fast" => Announced = {}]_rbVars

\* doc.go:8: "a reader-biased reader/writer mutual exclusion lock".
MutualExclusion ==
    \A w \in Writers : rbPc[w] = "write" =>
        /\ \A v \in Writers : rbPc[v] = "write" => v = w
        /\ \A r \in Readers : rbPc[r] # "read"

\* What is left of the lock when the fast readers are not counted is a
\* read-write lock, step by step; without slots it is the whole lock.
AbstractLock == INSTANCE RWLock WITH
    reading <- {r \in Readers : rbPc[r] = "read" /\ token[r] = NoHolder},
    writing <- {w \in Writers : rbPc[w] = "write"}
ImplementsRWLock == AbstractLock!Spec
=============================================================================
