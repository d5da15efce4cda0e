----------------------------- MODULE Coalescer -----------------------------
(***************************************************************************)
(* The function that zsync/coalescer.go returns.  The call that raises     *)
(* running runs fn, again and again while other calls leave a mark in      *)
(* pending; a call that finds running raised leaves a mark and returns.    *)
(*                                                                         *)
(* calls, runs and owed are history: how often the function was called,    *)
(* how often fn was begun, and whose last call no run has begun after.     *)
(***************************************************************************)
EXTENDS Integers, FiniteSets

CONSTANTS
    Callers,    \* goroutines that call the function
    MaxCalls,   \* bound on the calls of a behaviour
    MayPanic    \* whether fn may panic

ASSUME CoalescerAssumption ==
    /\ IsFiniteSet(Callers) /\ MaxCalls \in Nat /\ MayPanic \in BOOLEAN

VARIABLES running, pending, coPc, calls, runs, owed

coVars == <<running, pending, coPc, calls, runs, owed>>

CoInit ==
    /\ running = 0 /\ pending = 0
    /\ coPc = [c \in Callers |-> "idle"]
    /\ calls = 0 /\ runs = 0 /\ owed = {}

CoAt(label) == {c \in Callers : coPc[c] = label}

CoGo(c, from, to) == coPc[c] = from /\ coPc' = [coPc EXCEPT ![c] = to]

Asks(c) == calls < MaxCalls /\ calls' = calls + 1 /\ owed' = owed \cup {c}

RunningOrNot == TRUE   \* mutant: running is not tested
NotRunning == running = 0

\* The compare-and-swap of running.
Enter(c) ==
    /\ CoGo(c, "idle", "start") /\ NotRunning /\ Asks(c)
    /\ running' = 1
    /\ UNCHANGED <<pending, runs>>

FindBusy(c) ==
    /\ CoGo(c, "idle", "add") /\ running = 1 /\ Asks(c)
    /\ UNCHANGED <<running, pending, runs>>

AddPending(c) ==
    /\ CoGo(c, "add", "idle")
    /\ pending' = pending + 1
    /\ UNCHANGED <<running, calls, runs, owed>>

Start(c) ==
    /\ CoGo(c, "start", "fn")
    /\ runs' = runs + 1 /\ owed' = {}
    /\ UNCHANGED <<running, pending, calls>>

Return(c) ==
    /\ CoGo(c, "fn", "swap")
    /\ UNCHANGED <<running, pending, calls, runs, owed>>

\* The deferred store runs, the test of pending does not.
Panic(c) ==
    /\ MayPanic /\ CoGo(c, "fn", "store")
    /\ UNCHANGED <<running, pending, calls, runs, owed>>

KeepMarks == pending          \* mutant: pending is loaded, not swapped
MarksLeft == 0

RunAgain(c) ==
    /\ CoGo(c, "swap", "start") /\ pending > 0
    /\ pending' = MarksLeft
    /\ UNCHANGED <<running, calls, runs, owed>>

NoMarks == pending = 0

NoMore(c) ==
    /\ CoGo(c, "swap", "store") /\ NoMarks
    /\ UNCHANGED <<running, pending, calls, runs, owed>>

PendingCleared == 0   \* mutant: pending is reset together with running
PendingKept == pending

Release(c) ==
    /\ CoGo(c, "store", "idle")
    /\ running' = 0 /\ pending' = PendingKept
    /\ UNCHANGED <<calls, runs, owed>>

CoStep(c) ==
    \/ AddPending(c) \/ Start(c) \/ Return(c) \/ Panic(c)
    \/ RunAgain(c) \/ NoMore(c) \/ Release(c)

CoNext == \E c \in Callers : Enter(c) \/ FindBusy(c) \/ CoStep(c)

CoSpec == CoInit /\ [][CoNext]_coVars

\* A call that has begun goes on, and fn ends; nobody has to call.
CoFairSpec == CoSpec /\ \A c \in Callers : WF_coVars(CoStep(c))

-----------------------------------------------------------------------------
Runner(c) == coPc[c] \in {"start", "fn", "swap", "store"}

CoTypeOK ==
    /\ running \in {0, 1} /\ pending \in 0..MaxCalls
    /\ coPc \in [Callers -> {"idle", "add", "start", "fn", "swap", "store"}]
    /\ calls \in 0..MaxCalls /\ runs \in 0..MaxCalls
    /\ owed \subseteq Callers

\* fn never runs twice at once, and running is up exactly while someone will
\* take it down again, also after a panic.
OneAtATime ==
    /\ \A c, d \in Callers : Runner(c) /\ Runner(d) => c = d
    /\ running = 1 <=> \E c \in Callers : Runner(c)

\* Calls are only ever merged: no run is begun, or is sure to be, that no call
\* of its own asked for.
EveryRunHasACall ==
    runs + pending + Cardinality(CoAt("start")) + Cardinality(CoAt("add")) <= calls

\* A call that no run has followed is still on record: the run to come, a mark,
\* or a mark about to be left.  The next call at the latest makes up for it.
NoCallForgotten ==
    owed # {} => pending > 0 \/ CoAt("start") # {} \/ CoAt("add") # {}

\* coalescer.go:8: "while one execution is running, further calls schedule at
\* least one more run": every call is followed by the beginning of a run.
NoCallLost == owed # {} ~> owed = {}
=============================================================================
