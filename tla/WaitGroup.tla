----------------------------- MODULE WaitGroup -----------------------------
(***************************************************************************)
(* zsync/waitgroup.go: a sync.WaitGroup that runs functions with Go (GoTry *)
(* is the same code), at most Limit of them at a time, and hands the first   *)
(* error to Wait.  The functions are started by one goroutine, which also  *)
(* waits, or by functions that run already.                                *)
(***************************************************************************)
EXTENDS Integers, FiniteSets

CONSTANTS
    Tasks,      \* functions handed to Go
    Limit,      \* capacity of the channel ch
    MaxWaits    \* bound on the calls of Wait

ASSUME WaitGroupAssumption ==
    /\ IsFiniteSet(Tasks) /\ "main" \notin Tasks /\ "none" \notin Tasks
    /\ Limit \in Nat /\ MaxWaits \in Nat

VARIABLES
    slots,      \* elements in ch
    counter,    \* of the sync.WaitGroup
    err,        \* the task whose error is kept, or "none"
    task,       \* where the call of Go for a task, then its goroutine, is
    caller,     \* who called Go for it
    main,       \* the goroutine that waits: "busy", "wait" or "read"
    waits,      \* calls of Wait that have returned
    failed      \* history: the tasks whose function panicked

wgVars == <<slots, counter, err, task, caller, main, waits, failed>>

WGInit ==
    /\ slots = 0 /\ counter = 0 /\ err = "none"
    /\ task = [t \in Tasks |-> "new"]
    /\ caller = [t \in Tasks |-> "none"]
    /\ main = "busy" /\ waits = 0 /\ failed = {}

TasksAt(labels) == {t \in Tasks : task[t] \in labels}

Moves(t, from, to) == task[t] = from /\ task' = [task EXCEPT ![t] = to]

\* g is not inside a call of Go.
FreeToGo(g) == \A t \in TasksAt({"send", "add"}) : caller[t] # g

Runs(g) == FreeToGo(g) /\ IF g = "main" THEN main = "busy" ELSE task[g] = "fn"

Room == slots < Limit

\* Functions are interchangeable: they are started in an order of their own.
WGGo(t, g) ==
    /\ Runs(g) /\ Moves(t, "new", "send")
    /\ t = CHOOSE u \in Tasks : task[u] = "new"
    /\ caller' = [caller EXCEPT ![t] = g]
    /\ UNCHANGED <<slots, counter, err, main, waits, failed>>

Acquire(t) ==
    /\ Room /\ Moves(t, "send", "add")
    /\ slots' = slots + 1
    /\ UNCHANGED <<counter, err, caller, main, waits, failed>>

AddOne(t) ==
    /\ Moves(t, "add", "fn")
    /\ counter' = counter + 1
    /\ UNCHANGED <<slots, err, caller, main, waits, failed>>

FnReturns(t) ==
    /\ Runs(t) /\ Moves(t, "fn", "free")
    /\ UNCHANGED <<slots, counter, err, caller, main, waits, failed>>

FnPanics(t) ==
    /\ Runs(t) /\ Moves(t, "fn", "lock")
    /\ failed' = failed \cup {t}
    /\ UNCHANGED <<slots, counter, err, caller, main, waits>>

LostError(t) == err \* mutant: a panic is recovered and forgotten
FirstError(t) == IF err = "none" THEN t ELSE err

KeepError(t) ==
    /\ Moves(t, "lock", "free")
    /\ err' = FirstError(t)
    /\ UNCHANGED <<slots, counter, caller, main, waits, failed>>

ReleaseSlot(t) ==
    /\ Moves(t, "free", "done")
    /\ slots' = slots - 1
    /\ UNCHANGED <<counter, err, caller, main, waits, failed>>

DoneOne(t) ==
    /\ Moves(t, "done", "over")
    /\ counter' = counter - 1
    /\ UNCHANGED <<slots, err, caller, main, waits, failed>>

WaitCall ==
    /\ main = "busy" /\ FreeToGo("main") /\ waits < MaxWaits
    /\ main' = "wait"
    /\ UNCHANGED <<slots, counter, err, task, caller, waits, failed>>

WaitOver ==
    /\ main = "wait" /\ counter = 0
    /\ main' = "read"
    /\ UNCHANGED <<slots, counter, err, task, caller, waits, failed>>

WaitReturn ==
    /\ main = "read"
    /\ main' = "busy" /\ waits' = waits + 1
    /\ UNCHANGED <<slots, counter, err, task, caller, failed>>

WGTaskStep(t) ==
    \/ Acquire(t) \/ AddOne(t) \/ FnReturns(t) \/ FnPanics(t)
    \/ KeepError(t) \/ ReleaseSlot(t) \/ DoneOne(t)

WGMainStep == WaitOver \/ WaitReturn

WGNext ==
    \/ \E t \in Tasks : (\E g \in Tasks \cup {"main"} : WGGo(t, g)) \/ WGTaskStep(t)
    \/ WaitCall \/ WGMainStep

WGSpec == WGInit /\ [][WGNext]_wgVars

\* Functions end, and a goroutine that can go on does.
WGFairSpec ==
    WGSpec /\ WF_wgVars(WGMainStep) /\ \A t \in Tasks : WF_wgVars(WGTaskStep(t))

-----------------------------------------------------------------------------
Holders == TasksAt({"add", "fn", "lock", "free"})
Counted == TasksAt({"fn", "lock", "free", "done"})

WGTypeOK ==
    /\ slots \in 0..Limit /\ counter \in 0..Cardinality(Tasks)
    /\ err \in Tasks \cup {"none"} /\ failed \subseteq Tasks
    /\ task \in [Tasks -> {"new", "send", "add", "fn", "lock", "free", "done", "over"}]
    /\ caller \in [Tasks -> Tasks \cup {"main", "none"}]
    /\ main \in {"busy", "wait", "read"} /\ waits \in 0..MaxWaits

CountsExact ==
    /\ slots = Cardinality(Holders) /\ counter = Cardinality(Counted)
    /\ slots <= Limit

\* A function that starts another is counted until the other one is.
CallersCounted ==
    \A t \in TasksAt({"send", "add"}) :
        IF caller[t] = "main" THEN main = "busy" ELSE task[caller[t]] = "fn"

ErrorKept == err = "none" <=> failed \subseteq TasksAt({"lock"})

\* When Wait comes back, whatever was started is over, also what running
\* functions started, at most Limit functions ran at a time, and Wait returns
\* an error exactly if one of them panicked.
WaitAnswersForAll ==
    /\ CountsExact /\ CallersCounted /\ ErrorKept
    /\ main = "read" =>
        /\ TasksAt({"new", "over"}) = Tasks
        /\ (err = "none" <=> failed = {})

\* Every slot is held by a function that waits for one.
Jammed == slots = Limit /\ \A t \in Holders : ~FreeToGo(t)
=============================================================================
