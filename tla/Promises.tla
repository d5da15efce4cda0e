------------------------------ MODULE Promises ------------------------------
(***************************************************************************)
(* zsync/promise.go and promise_extension.go: source promises 1..n and the *)
(* promise D that Then, PromiseAll, PromiseRace or PromiseAny makes of     *)
(* them, under the context that MergeContext (zsync/content.go) makes of   *)
(* Parents.  Then puts D under the context of its source.                  *)
(*                                                                         *)
(* A promise is settled with "value" or with an error: "reason", its       *)
(* executor's own, "canceled", a context's, or "nil" where an error that   *)
(* is not there was read.                                                  *)
(***************************************************************************)
EXTENDS Integers, FiniteSets

CONSTANTS
    Sources,    \* the most promises that are combined
    Readers,    \* goroutines that call Done of D
    Parents     \* contexts that are merged

ASSUME PromisesAssumption ==
    /\ Sources \in Nat /\ IsFiniteSet(Readers) /\ Readers \cap (0..Sources) = {}

D == 0
Promises == 0..Sources
Kinds == {"then", "all", "race", "any"}
Errors == {"reason", "canceled", "nil"}
Answers == {"value"} \cup Errors

VARIABLES
    kind, n,        \* how D is made, and of how many sources
    canceled,       \* parents and source contexts that are canceled
    merged,         \* the merged context: "open", "err" or "done"
    outcome,        \* of each promise, or "none"
    timeout,        \* promises whose timeout flag is set
    done,           \* calls of Done: by the readers of D, by D's executor
    counted         \* sources whose error PromiseAny has counted

prVars == <<kind, n, canceled, merged, outcome, timeout, done, counted>>

PrCallers == Readers \cup (1..n)
Target(c) == IF c \in Readers THEN D ELSE c

PrInit ==
    /\ kind \in Kinds /\ n \in 0..Sources /\ (kind = "then" => n = 1)
    /\ canceled = {} /\ merged = "open"
    /\ outcome = [p \in Promises |-> "none"]
    /\ timeout = {} /\ counted = {}
    /\ done = [c \in Readers \cup (1..Sources) |-> "idle"]

\* Done of p's context is closed.
ContextDone(p) ==
    IF p = D /\ kind # "then" THEN merged = "done"
    ELSE (IF p = D THEN 1 ELSE p) \in canceled

\* What ctx.Err of D's context returns.
ContextErr == IF kind # "then" /\ merged = "open" THEN "nil" ELSE "canceled"

CancelContext(x) ==
    /\ x \notin canceled
    /\ canceled' = canceled \cup {x}
    /\ UNCHANGED <<kind, n, merged, outcome, timeout, done, counted>>

\* monitor: whichever parent is seen first.
MonitorErr ==
    /\ merged = "open" /\ canceled \cap Parents # {}
    /\ merged' = "err"
    /\ UNCHANGED <<kind, n, canceled, outcome, timeout, done, counted>>

MonitorClose ==
    /\ merged = "err" /\ merged' = "done"
    /\ UNCHANGED <<kind, n, canceled, outcome, timeout, done, counted>>

\* A source's executor returns, if it ever does.
SettleSource(p, a) ==
    /\ outcome[p] = "none"
    /\ outcome' = [outcome EXCEPT ![p] = a]
    /\ UNCHANGED <<kind, n, canceled, merged, timeout, done, counted>>

\* Whether D's executor calls Done of source s: Then and PromiseAll call
\* one after the other, the others have a goroutine for each.
Calls(s) ==
    /\ s <= n /\ done[s] = "idle"
    /\ kind = "all" => \A e \in 1..(s - 1) : done[e] = "value"

Answer(c, a) ==
    /\ done' = [done EXCEPT ![c] = a]
    /\ UNCHANGED <<kind, n, canceled, merged, outcome, counted>>

DoneEnter(c) ==
    /\ IF c \in Readers THEN done[c] \in {"idle"} \cup Answers ELSE Calls(c)
    /\ UNCHANGED timeout
    /\ Answer(c, IF Target(c) \in timeout THEN "canceled" ELSE "select")

\* When both are ready the select takes either.
DoneSettled(c) ==
    /\ done[c] = "select" /\ outcome[Target(c)] # "none"
    /\ UNCHANGED timeout
    /\ Answer(c, outcome[Target(c)])

DoneContext(c) ==
    /\ done[c] = "select" /\ ContextDone(Target(c))
    /\ UNCHANGED timeout
    /\ Answer(c, "store")

DoneStore(c) ==
    /\ done[c] = "store"
    /\ timeout' = timeout \cup {Target(c)}
    /\ Answer(c, "canceled")

DoneStep(c) ==
    \/ c \notin Readers /\ DoneEnter(c)
    \/ DoneSettled(c) \/ DoneContext(c) \/ DoneStore(c)

\* D's executor returns a.
Settle(a) ==
    /\ outcome[D] = "none"
    /\ outcome' = [outcome EXCEPT ![D] = a]
    /\ UNCHANGED <<kind, n, canceled, merged, timeout, done>>

NoSources == n = 0 /\ Settle("value") /\ UNCHANGED counted

\* A callback returns a value or an error; without one the answer passes.
SettleThen ==
    /\ kind = "then" /\ done[1] \in Answers
    /\ \E a \in {"value", "reason", done[1]} : Settle(a)
    /\ UNCHANGED counted

SomeFulfilled == \E s \in 1..n : done[s] = "value"   \* mutant: the first will do
AllFulfilled == \A s \in 1..n : done[s] = "value"

SettleAll ==
    /\ kind = "all" /\ n > 0
    /\ \/ AllFulfilled /\ Settle("value")
       \/ \E s \in 1..n : done[s] \in Errors /\ Settle(done[s])
    /\ UNCHANGED counted

SettleRace ==
    /\ kind = "race" /\ \E s \in 1..n : done[s] \in Answers /\ Settle(done[s])
    /\ UNCHANGED counted

SettleAny ==
    /\ kind = "any" /\ \E s \in 1..n : done[s] = "value" /\ Settle("value")
    /\ UNCHANGED counted

CountError(s) ==
    /\ kind = "any" /\ done[s] \in Errors /\ s \notin counted
    /\ counted' = counted \cup {s}
    /\ IF counted' = 1..n THEN Settle("reason")
       ELSE outcome[D] = "none" /\ UNCHANGED <<kind, n, canceled, merged, outcome, timeout, done>>

RaceWatches == kind = "race"   \* mutant: PromiseAny waits for its sources only
WatchesContext == kind \in {"race", "any"}

SettleContext ==
    /\ WatchesContext /\ n > 0 /\ ContextDone(D)
    /\ Settle(ContextErr) /\ UNCHANGED counted

Executor ==
    \/ NoSources \/ SettleThen \/ SettleAll \/ SettleRace \/ SettleAny
    \/ SettleContext \/ \E s \in 1..n : CountError(s)

Monitor == MonitorErr \/ MonitorClose

PrNext ==
    \/ \E x \in Parents \cup (1..n) : CancelContext(x)
    \/ \E s \in 1..n, a \in {"value", "reason"} : SettleSource(s, a)
    \/ \E c \in PrCallers : DoneEnter(c) \/ DoneStep(c)
    \/ Executor \/ Monitor

PrSpec == PrInit /\ [][PrNext]_prVars

\* Goroutines that can go on do; nobody has to settle a source, cancel a
\* context or call Done.
PrFairSpec ==
    /\ PrSpec /\ WF_prVars(Executor) /\ WF_prVars(Monitor)
    /\ \A c \in Readers \cup (1..Sources) : WF_prVars(DoneStep(c))

-----------------------------------------------------------------------------
PrTypeOK ==
    /\ kind \in Kinds /\ n \in 0..Sources
    /\ canceled \subseteq Parents \cup (1..n) /\ merged \in {"open", "err", "done"}
    /\ outcome \in [Promises -> {"none"} \cup Answers]
    /\ timeout \subseteq Promises /\ counted \subseteq 1..n
    /\ done \in [Readers \cup (1..Sources) -> {"idle", "select", "store"} \cup Answers]

\* What Done may answer.
DoneHonest(c) ==
    /\ done[c] \in {"value", "reason"} => outcome[Target(c)] = done[c]
    /\ done[c] = "canceled" =>
          ContextDone(Target(c)) \/ outcome[Target(c)] = "canceled"
    /\ done[c] = "store" => ContextDone(Target(c))

Fulfilled == {s \in 1..n : outcome[s] = "value"}
\* Sources that may have answered with an error.
GivenUp == {s \in 1..n : outcome[s] = "reason" \/ s \in canceled}

\* D keeps what its kind promises: PromiseAll is fulfilled only when all are
\* and fails only by a source, PromiseRace ends as a source or its context
\* did, PromiseAny fails with the collected errors only when none is left; an
\* error is never lost, so that a canceled promise is not taken for fulfilled.
PromiseHonest ==
    /\ \A c \in PrCallers : DoneHonest(c)
    /\ \A p \in Promises : outcome[p] # "nil"
    /\ n > 0 => CASE kind = "then" -> outcome[D] # "none" => done[1] \in Answers
                  [] kind = "all" ->
                       /\ outcome[D] = "value" => Fulfilled = 1..n
                       /\ outcome[D] \in Errors => GivenUp # {}
                  [] kind = "race" ->
                       /\ outcome[D] = "value" => Fulfilled # {}
                       /\ outcome[D] = "reason" => GivenUp # {}
                       /\ outcome[D] = "canceled" => GivenUp # {} \/ ContextDone(D)
                  [] kind = "any" ->
                       /\ outcome[D] = "value" => Fulfilled # {}
                       /\ outcome[D] = "reason" => GivenUp = 1..n
                       /\ outcome[D] = "canceled" => ContextDone(D)
=============================================================================
