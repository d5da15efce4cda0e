------------------------------ MODULE MCLocks ------------------------------
(***************************************************************************)
(* The components that lock, the RBMutex and the cache table, for TLC: one *)
(* of them runs in a behaviour, chosen in the initial state, and the other *)
(* rests.                                                                  *)
(***************************************************************************)
EXTENDS RBMutex, Table
SX == INSTANCE SequencesExt

VARIABLE part   \* the component that runs

Parts == {"mutex", "table"}

locksVars == <<part, rbVars, taVars>>

LocksInit == part \in Parts /\ RBInit /\ TaInit

LocksNext ==
    \/ part = "mutex" /\ RBNext /\ UNCHANGED <<part, taVars>>
    \/ part = "table" /\ TaNext /\ UNCHANGED <<part, rbVars>>

(* The fairness that the modules state, the strong and the weak, of one    *)
(* goroutine in each formula: as the part never changes, the i-th ones of  *)
(* the components can share it.                                            *)
ReaderSeq == SX!SetToSeq(Readers)
WriterSeq == SX!SetToSeq(Writers)
CallerSeq == SX!SetToSeq(TableCallers)
CheckerSeq == SX!SetToSeq(Checkers)
KeySeq == SX!SetToSeq(Keys)
Nth(seq, i) == IF i \in DOMAIN seq THEN {seq[i]} ELSE {}

Waiter(i) ==
    /\ part' = part
    /\ \/ part = "mutex" /\ \E r \in Nth(ReaderSeq, i) : RLockSlow(r)
       \/ part = "mutex" /\ \E w \in Nth(WriterSeq, i - 3) : RWLockBegin(w)
       \/ part = "table" /\ \E c \in Nth(CallerSeq, i) : CallerStep(c) \/ DeleteStep(c)
       \/ part = "table" /\ \E x \in Nth(CheckerSeq, i - 2) : CheckStep(x) \/ DeleteStep(x)
       \/ part = "table" /\ i = 5 /\ TimerFires
Runner(i) ==
    /\ part' = part
    /\ \/ part = "mutex" /\ \E r \in Nth(ReaderSeq, i) : RLockFast(r) \/ RUnlock(r)
       \/ part = "mutex" /\ \E w \in Nth(WriterSeq, i - 3) :
             RWLockEnd(w) \/ ScanSlot(w) \/ ScanDone(w) \/ RWUnlock(w) \/ RBLeave(w)
       \/ part = "table" /\ i = 1 /\ Tick
PartVars == IF part = "mutex" THEN rbVars ELSE taVars

LocksFairSpec ==
    /\ LocksInit /\ [][LocksNext]_locksVars
    /\ \A i \in 1..5 : SF_PartVars(Waiter(i)) /\ WF_PartVars(Runner(i))

-----------------------------------------------------------------------------
\* The variables of both components keep to their types; no slot is ever
\* counted below zero.
LocksTypes == RBTypeOK /\ TaTypeOK

\* What somebody waits for, and that it has come: one line for each thing.
Awaited(i) ==
    \* the lock; one reader stands for all, which are alike
    \/ part = "mutex" /\ \E r \in Nth(ReaderSeq, i - 2) : rbPc[r] = "slow"
    \/ part = "mutex" /\ \E w \in Nth(WriterSeq, i) : rbPc[w] = "announced"
    \* table.go:205: the end of a call, although callbacks and loaders use the table
    \/ part = "table" /\ \E c \in Nth(CallerSeq, i) : taPc[c] # "idle"
    \* the deletion of an item whose time is over
    \/ part = "table" /\ \E k \in Nth(KeySeq, i - 2) : Overdue(k)
Come(i) ==
    \/ part = "mutex" /\ \E r \in Nth(ReaderSeq, i - 2) : rbPc[r] = "read"
    \/ part = "mutex" /\ \E w \in Nth(WriterSeq, i) : rbPc[w] = "write"
    \/ part = "table" /\ \E c \in Nth(CallerSeq, i) : taPc[c] = "idle"
    \* or a callback keeps it
    \/ part = "table" /\ \E k \in Nth(KeySeq, i - 2) : ~Overdue(k)
    \* the deadlock of a loader that uses the table
    \/ part = "table" /\ TableJammed

\* Whoever waits for the lock gets it, and whatever the table's callers, checks, callbacks
\* and loaders do, its calls return and what has expired goes, unless a loader jams the table.
WaitsEnd == \A i \in 1..3 : Awaited(i) ~> Come(i)
=============================================================================
