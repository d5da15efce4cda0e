---------------------------- MODULE Sync_proofs -----------------------------
(***************************************************************************)
(* Proofs about the components whose goroutines wait for each other or     *)
(* hand each other values, answers and jobs: Coalescer and WaitGroup, the  *)
(* promises of zsync, the channel of zutil, the deduplicator of zhttp and  *)
(* the cron table of ztime.  Each part states the invariant that its steps *)
(* keep, the step, and the theorem, which is about the module on its own.  *)
(***************************************************************************)
EXTENDS Coalescer, WaitGroup, Chan, Promises, Dedup, CronJobs,
        FiniteSetTheorems, SequenceTheorems, WellFoundedInduction, TLAPS
-----------------------------------------------------------------------------
(* Coalescer: fn never runs twice at once, no run is without a call of its *)
(* own, and no call is forgotten.                                          *)

CoLabels == {"idle", "add", "start", "fn", "swap", "store"}
CoTypes ==
    /\ running \in {0, 1} /\ coPc \in [Callers -> CoLabels] /\ owed \subseteq Callers
Counts == pending \in Nat /\ calls \in 0..MaxCalls /\ runs \in Nat

CoIInv == CoTypes /\ Counts /\ OneAtATime /\ EveryRunHasACall /\ NoCallForgotten

LEMMA CoAtFinite ==
    ASSUME NEW l PROVE IsFiniteSet(CoAt(l)) /\ Cardinality(CoAt(l)) \in Nat
<1>1. IsFiniteSet(CoAt(l)) BY CoalescerAssumption, FS_Subset DEF CoAt
<1> QED BY <1>1, FS_CardinalityType

\* What a move from one label to another does to the sizes of the sets CoAt.
LEMMA CoAtMoves ==
    ASSUME CoTypes, NEW c \in Callers, NEW from \in CoLabels, NEW to \in CoLabels, from # to, CoGo(c, from, to)
    PROVE  /\ CoAt(from)' = CoAt(from) \ {c} /\ c \in CoAt(from)
           /\ CoAt(to)' = CoAt(to) \cup {c} /\ c \notin CoAt(to)
           /\ \A l \in CoLabels : l # from /\ l # to => CoAt(l)' = CoAt(l)
           /\ Cardinality(CoAt(from)') = Cardinality(CoAt(from)) - 1
           /\ Cardinality(CoAt(to)') = Cardinality(CoAt(to)) + 1
<1>1. coPc[c] = from /\ coPc' = [coPc EXCEPT ![c] = to] /\ coPc \in [Callers -> CoLabels] BY DEF CoGo, CoTypes
<1>2. CoAt(from)' = CoAt(from) \ {c} /\ c \in CoAt(from) BY <1>1 DEF CoAt
<1>3. CoAt(to)' = CoAt(to) \cup {c} /\ c \notin CoAt(to) BY <1>1 DEF CoAt
<1>4. \A l \in CoLabels : l # from /\ l # to => CoAt(l)' = CoAt(l) BY <1>1 DEF CoAt
<1>5. Cardinality(CoAt(from)') = Cardinality(CoAt(from)) - 1 BY <1>2, CoAtFinite, FS_RemoveElement
<1>6. Cardinality(CoAt(to)') = Cardinality(CoAt(to)) + 1 BY <1>3, CoAtFinite, FS_AddElement
<1> QED BY <1>2, <1>3, <1>4, <1>5, <1>6

LEMMA OneStep ==
    ASSUME CoTypes, OneAtATime, [CoNext]_coVars
    PROVE  CoTypes' /\ OneAtATime'
<1> USE DEF CoTypes, CoLabels, OneAtATime, Runner, CoGo
<1>1. ASSUME NEW c \in Callers, Enter(c) PROVE CoTypes' /\ OneAtATime' BY <1>1 DEF Enter, NotRunning, Asks
<1>2. ASSUME NEW c \in Callers, FindBusy(c) PROVE CoTypes' /\ OneAtATime' BY <1>2 DEF FindBusy, Asks
<1>3. ASSUME NEW c \in Callers, CoStep(c) PROVE CoTypes' /\ OneAtATime'
  <2>1. CASE AddPending(c) BY <2>1 DEF AddPending
  <2>2. CASE Start(c) BY <2>2 DEF Start
  <2>3. CASE Return(c) BY <2>3 DEF Return
  <2>4. CASE Panic(c) BY <2>4 DEF Panic
  <2>5. CASE RunAgain(c) BY <2>5 DEF RunAgain
  <2>6. CASE NoMore(c) BY <2>6 DEF NoMore
  <2>7. CASE Release(c) BY <2>7 DEF Release
  <2> QED BY <1>3, <2>1, <2>2, <2>3, <2>4, <2>5, <2>6, <2>7 DEF CoStep
<1>4. CASE UNCHANGED coVars BY <1>4 DEF coVars
<1> QED BY <1>1, <1>2, <1>3, <1>4 DEF CoNext

\* The calls on the way, in the mark and in the runs.
LEMMA CountStep ==
    ASSUME CoTypes, Counts, EveryRunHasACall, [CoNext]_coVars
    PROVE  Counts' /\ EveryRunHasACall'
<1> DEFINE S == Cardinality(CoAt("start"))
           A == Cardinality(CoAt("add"))
<1>a. S \in Nat /\ A \in Nat BY CoAtFinite
<1>b. MaxCalls \in Nat /\ runs + pending + S + A <= calls BY CoalescerAssumption DEF EveryRunHasACall
<1>c. ASSUME Counts', runs' + pending' + S' + A' <= calls' PROVE Counts' /\ EveryRunHasACall'
  BY <1>c DEF EveryRunHasACall
<1>1. ASSUME NEW c \in Callers, Enter(c) PROVE Counts' /\ EveryRunHasACall'
  <2>1. S' = S + 1 /\ A' = A BY <1>1, CoAtMoves DEF Enter, CoLabels
  <2>2. calls < MaxCalls /\ calls' = calls + 1 /\ pending' = pending /\ runs' = runs BY <1>1 DEF Enter, Asks
  <2> QED BY <1>a, <1>b, <1>c, <2>1, <2>2 DEF Counts
<1>2. ASSUME NEW c \in Callers, FindBusy(c) PROVE Counts' /\ EveryRunHasACall'
  <2>1. S' = S /\ A' = A + 1 BY <1>2, CoAtMoves DEF FindBusy, CoLabels
  <2>2. calls < MaxCalls /\ calls' = calls + 1 /\ pending' = pending /\ runs' = runs BY <1>2 DEF FindBusy, Asks
  <2> QED BY <1>a, <1>b, <1>c, <2>1, <2>2 DEF Counts
<1>3. ASSUME NEW c \in Callers, AddPending(c) PROVE Counts' /\ EveryRunHasACall'
  <2>1. S' = S /\ A' = A - 1 BY <1>3, CoAtMoves DEF AddPending, CoLabels
  <2>2. calls' = calls /\ pending' = pending + 1 /\ runs' = runs BY <1>3 DEF AddPending
  <2> QED BY <1>a, <1>b, <1>c, <2>1, <2>2 DEF Counts
<1>4. ASSUME NEW c \in Callers, Start(c) PROVE Counts' /\ EveryRunHasACall'
  <2>1. S' = S - 1 /\ A' = A BY <1>4, CoAtMoves DEF Start, CoLabels
  <2>2. calls' = calls /\ pending' = pending /\ runs' = runs + 1 BY <1>4 DEF Start
  <2> QED BY <1>a, <1>b, <1>c, <2>1, <2>2 DEF Counts
<1>5. ASSUME NEW c \in Callers, RunAgain(c) PROVE Counts' /\ EveryRunHasACall'
  <2>1. S' = S + 1 /\ A' = A BY <1>5, CoAtMoves DEF RunAgain, CoLabels
  <2>2. calls' = calls /\ pending > 0 /\ pending' = 0 /\ runs' = runs BY <1>5 DEF RunAgain, MarksLeft
  <2> QED BY <1>a, <1>b, <1>c, <2>1, <2>2 DEF Counts
<1>6. ASSUME NEW c \in Callers, Return(c) \/ Panic(c) \/ NoMore(c) \/ Release(c)
      PROVE  Counts' /\ EveryRunHasACall'
  <2>1. S' = S /\ A' = A
    <3>1. \E f \in CoLabels \ {"start", "add"}, t \in CoLabels \ {"start", "add"} : f # t /\ CoGo(c, f, t)
      BY <1>6 DEF Return, Panic, NoMore, Release, CoLabels
    <3> QED BY <3>1, CoAtMoves DEF CoLabels
  <2>2. calls' = calls /\ pending' = pending /\ runs' = runs
    BY <1>6 DEF Return, Panic, NoMore, Release, PendingKept
  <2> QED BY <1>a, <1>b, <1>c, <2>1, <2>2 DEF Counts
<1>7. CASE UNCHANGED coVars BY <1>7 DEF coVars, Counts, EveryRunHasACall, CoAt
<1> QED BY <1>1, <1>2, <1>3, <1>4, <1>5, <1>6, <1>7 DEF CoNext, CoStep

LEMMA OwedStep ==
    ASSUME CoTypes, Counts, NoCallForgotten, [CoNext]_coVars
    PROVE  NoCallForgotten'
<1>1. ASSUME NEW c \in Callers, Enter(c) PROVE NoCallForgotten'
  <2>1. c \in CoAt("start")' BY <1>1, CoAtMoves DEF Enter, CoLabels
  <2> QED BY <2>1 DEF NoCallForgotten
<1>2. ASSUME NEW c \in Callers, FindBusy(c) PROVE NoCallForgotten'
  <2>1. c \in CoAt("add")' BY <1>2, CoAtMoves DEF FindBusy, CoLabels
  <2> QED BY <2>1 DEF NoCallForgotten
<1>3. ASSUME NEW c \in Callers, AddPending(c) PROVE NoCallForgotten'
  <2>1. pending' = pending + 1 BY <1>3 DEF AddPending
  <2>2. pending' > 0 BY <2>1 DEF Counts
  <2> QED BY <2>2 DEF NoCallForgotten
<1>4. ASSUME NEW c \in Callers, Start(c) PROVE NoCallForgotten'
  BY <1>4 DEF Start, NoCallForgotten
<1>5. ASSUME NEW c \in Callers, RunAgain(c) PROVE NoCallForgotten'
  <2>1. c \in CoAt("start")' BY <1>5, CoAtMoves DEF RunAgain, CoLabels
  <2> QED BY <2>1 DEF NoCallForgotten
<1>6. ASSUME NEW c \in Callers, Return(c) \/ Panic(c) \/ NoMore(c) \/ Release(c) PROVE NoCallForgotten'
  <2>1. CoAt("start")' = CoAt("start") /\ CoAt("add")' = CoAt("add")
    <3>1. \E f \in CoLabels \ {"start", "add"}, t \in CoLabels \ {"start", "add"} : f # t /\ CoGo(c, f, t)
      BY <1>6 DEF Return, Panic, NoMore, Release, CoLabels
    <3> QED BY <3>1, CoAtMoves DEF CoLabels
  <2>2. pending' = pending /\ owed' = owed BY <1>6 DEF Return, Panic, NoMore, Release, PendingKept
  <2> QED BY <2>1, <2>2 DEF NoCallForgotten
<1>7. CASE UNCHANGED coVars BY <1>7 DEF coVars, NoCallForgotten, CoAt
<1> QED BY <1>1, <1>2, <1>3, <1>4, <1>5, <1>6, <1>7 DEF CoNext, CoStep

LEMMA CoInitially == CoInit => CoIInv
<1> SUFFICES ASSUME CoInit PROVE CoIInv OBVIOUS
<1>1. CoTypes /\ Counts BY CoalescerAssumption DEF CoInit, CoTypes, Counts, CoLabels
<1>2. OneAtATime BY DEF CoInit, OneAtATime, Runner
<1>3. CoAt("start") = {} /\ CoAt("add") = {} BY DEF CoInit, CoAt
<1>4. EveryRunHasACall BY <1>3, FS_EmptySet DEF CoInit, EveryRunHasACall
<1>5. NoCallForgotten BY DEF CoInit, NoCallForgotten
<1> QED BY <1>1, <1>2, <1>4, <1>5 DEF CoIInv

THEOREM CoInvariance == CoSpec => []CoIInv
<1>1. CoIInv /\ [CoNext]_coVars => CoIInv' BY OneStep, CountStep, OwedStep DEF CoIInv
<1> QED BY CoInitially, <1>1, PTL DEF CoSpec

\* The variables keep their types: marks and runs are at most the calls.
THEOREM CoTypeCorrect == CoSpec => []CoTypeOK
<1>1. CoIInv => CoTypeOK
  <2> SUFFICES ASSUME CoIInv PROVE CoTypeOK OBVIOUS
  <2>1. Cardinality(CoAt("start")) \in Nat /\ Cardinality(CoAt("add")) \in Nat BY CoAtFinite
  <2>2. pending \in 0..MaxCalls /\ runs \in 0..MaxCalls
    BY <2>1, CoalescerAssumption DEF CoIInv, Counts, EveryRunHasACall
  <2> QED BY <2>2 DEF CoIInv, CoTypes, Counts, CoLabels, CoTypeOK
<1> QED BY CoInvariance, <1>1, PTL

\* fn never runs twice at once, and running is freed whatever fn does.
THEOREM RunsOneAtATime == CoSpec => []OneAtATime
BY CoInvariance, PTL DEF CoIInv

\* No run is begun without a call of its own.
THEOREM RunsHaveCalls == CoSpec => []EveryRunHasACall
BY CoInvariance, PTL DEF CoIInv

\* A call that no run has followed is still on record.
THEOREM CallsOnRecord == CoSpec => []NoCallForgotten
BY CoInvariance, PTL DEF CoIInv

-----------------------------------------------------------------------------
(* WaitGroup: the channel and the counter count exactly, the first error   *)
(* is kept, and Wait comes back only when whatever was started is over.    *)

WgLabels == {"new", "send", "add", "fn", "lock", "free", "done", "over"}
HoldLabels == {"add", "fn", "lock", "free"}
CountLabels == {"fn", "lock", "free", "done"}

WgTypes ==
    /\ err \in Tasks \cup {"none"} /\ failed \subseteq Tasks
    /\ task \in [Tasks -> WgLabels] /\ caller \in [Tasks -> Tasks \cup {"main", "none"}]
    /\ main \in {"busy", "wait", "read"} 
    /\ waits \in 0..MaxWaits /\ (main # "busy" => waits < MaxWaits)

\* Who called Go is known, and only a function that has panicked is behind its panic.
CallersKnown == \A t \in TasksAt({"send", "add"}) : caller[t] \in Tasks \cup {"main"}
PanicsKnown ==
    /\ \A t \in failed : task[t] \in {"lock", "free", "done", "over"}
    /\ \A t \in Tasks : task[t] = "lock" => t \in failed

AllOver == main = "read" => TasksAt({"new", "over"}) = Tasks

WgIInv == WgTypes /\ CountsExact /\ CallersKnown /\ CallersCounted /\ PanicsKnown /\ ErrorKept /\ AllOver

-----------------------------------------------------------------------------
LEMMA WgAtFinite ==
    ASSUME NEW L PROVE IsFiniteSet(TasksAt(L)) /\ Cardinality(TasksAt(L)) \in Nat
<1>1. IsFiniteSet(TasksAt(L)) BY WaitGroupAssumption, FS_Subset DEF TasksAt
<1> QED BY <1>1, FS_CardinalityType

\* What the step of a task does to the size of a set of those that are at some labels.
LEMMA WgAtMoves ==
    ASSUME WgTypes, NEW t \in Tasks, NEW from \in WgLabels, NEW to \in WgLabels, from # to, Moves(t, from, to), NEW L
    PROVE  LET S == TasksAt(L) IN
           /\ from \in L /\ to \in L => S' = S
           /\ from \notin L /\ to \notin L => S' = S
           /\ from \in L /\ to \notin L => S' = S \ {t} /\ Cardinality(S') = Cardinality(S) - 1
           /\ from \notin L /\ to \in L => S' = S \cup {t} /\ Cardinality(S') = Cardinality(S) + 1
<1> DEFINE S == TasksAt(L)
<1>1. task[t] = from /\ task' = [task EXCEPT ![t] = to] /\ task \in [Tasks -> WgLabels] BY DEF Moves, WgTypes
<1>2. from \in L /\ to \in L => S' = S BY <1>1 DEF TasksAt
<1>3. from \notin L /\ to \notin L => S' = S BY <1>1 DEF TasksAt
<1>4. ASSUME from \in L, to \notin L PROVE S' = S \ {t} /\ Cardinality(S') = Cardinality(S) - 1
  <2>1. S' = S \ {t} /\ t \in S BY <1>1, <1>4 DEF TasksAt
  <2> QED BY <2>1, WgAtFinite, FS_RemoveElement
<1>5. ASSUME from \notin L, to \in L PROVE S' = S \cup {t} /\ Cardinality(S') = Cardinality(S) + 1
  <2>1. S' = S \cup {t} /\ t \notin S BY <1>1, <1>5 DEF TasksAt
  <2> QED BY <2>1, WgAtFinite, FS_AddElement
<1> QED BY <1>2, <1>3, <1>4, <1>5

\* Every step moves one task between two labels, or leaves them all.
LEMMA StepMoves ==
    ASSUME WgTypes, NEW t \in Tasks,
           WGTaskStep(t) \/ \E g \in Tasks \cup {"main"} : WGGo(t, g)
    PROVE  \E from \in WgLabels, to \in WgLabels : from # to /\ Moves(t, from, to)
BY DEF WGTaskStep, WGGo, Acquire, AddOne, FnReturns, FnPanics, KeepError, ReleaseSlot, DoneOne, WgLabels

LEMMA TypesStep == WgTypes /\ [WGNext]_wgVars => WgTypes'
<1> SUFFICES ASSUME WgTypes, [WGNext]_wgVars PROVE WgTypes' OBVIOUS
<1> USE WaitGroupAssumption DEF WgTypes, WgLabels, Moves
<1>1. ASSUME NEW t \in Tasks, NEW g \in Tasks \cup {"main"}, WGGo(t, g) PROVE WgTypes' BY <1>1 DEF WGGo
<1>2. ASSUME NEW t \in Tasks, WGTaskStep(t) PROVE WgTypes'
  <2>1. CASE Acquire(t) BY <2>1 DEF Acquire
  <2>2. CASE AddOne(t) BY <2>2 DEF AddOne
  <2>3. CASE FnReturns(t) BY <2>3 DEF FnReturns
  <2>4. CASE FnPanics(t) BY <2>4 DEF FnPanics
  <2>5. CASE KeepError(t) BY <2>5 DEF KeepError, FirstError
  <2>6. CASE ReleaseSlot(t) BY <2>6 DEF ReleaseSlot
  <2>7. CASE DoneOne(t) BY <2>7 DEF DoneOne
  <2> QED BY <1>2, <2>1, <2>2, <2>3, <2>4, <2>5, <2>6, <2>7 DEF WGTaskStep
<1>3. CASE WaitCall BY <1>3 DEF WaitCall
<1>4. CASE WaitOver BY <1>4 DEF WaitOver
<1>5. CASE WaitReturn
  <2>1. UNCHANGED <<err, task, caller, failed>> /\ main = "read" /\ main' = "busy" /\ waits' = waits + 1
    BY <1>5 DEF WaitReturn
  <2> QED BY <2>1
<1>6. CASE UNCHANGED wgVars BY <1>6 DEF wgVars
<1> QED BY <1>1, <1>2, <1>3, <1>4, <1>5, <1>6 DEF WGNext, WGMainStep

-----------------------------------------------------------------------------
\* The channel has one element for each task between its send and its receive, and the
\* WaitGroup counts each between Add and Done.
LEMMA CountsStep == WgTypes /\ CountsExact /\ [WGNext]_wgVars => CountsExact'
<1> SUFFICES ASSUME WgTypes, CountsExact, [WGNext]_wgVars PROVE CountsExact' OBVIOUS
<1> DEFINE H == Cardinality(TasksAt(HoldLabels))
           C == Cardinality(TasksAt(CountLabels))
<1>a. H \in Nat /\ C \in Nat /\ Limit \in Nat BY WgAtFinite, WaitGroupAssumption
<1>b. slots = H /\ counter = C /\ slots <= Limit
  BY DEF CountsExact, Holders, Counted, HoldLabels, CountLabels
<1>c. ASSUME slots' = H', counter' = C', slots' <= Limit PROVE CountsExact'
  BY <1>c DEF CountsExact, Holders, Counted, HoldLabels, CountLabels
<1>d. ASSUME UNCHANGED <<slots, counter>>, H' = H, C' = C PROVE CountsExact'
  BY <1>b, <1>c, <1>d
<1> HIDE DEF H, C
<1>1. ASSUME NEW t \in Tasks, NEW g \in Tasks \cup {"main"}, WGGo(t, g) PROVE CountsExact'
  <2>1. H' = H /\ C' = C BY <1>1, WgAtMoves DEF WGGo, H, C, WgLabels, HoldLabels, CountLabels
  <2> QED BY <1>1, <1>d, <2>1 DEF WGGo
<1>2. ASSUME NEW t \in Tasks, Acquire(t) PROVE CountsExact'
  <2>1. H' = H + 1 /\ C' = C BY <1>2, WgAtMoves DEF Acquire, H, C, WgLabels, HoldLabels, CountLabels
  <2>2. slots < Limit /\ slots' = slots + 1 /\ counter' = counter BY <1>2 DEF Acquire, Room
  <2> QED BY <1>a, <1>b, <1>c, <2>1, <2>2
<1>3. ASSUME NEW t \in Tasks, AddOne(t) PROVE CountsExact'
  <2>1. H' = H /\ C' = C + 1 BY <1>3, WgAtMoves DEF AddOne, H, C, WgLabels, HoldLabels, CountLabels
  <2>2. slots' = slots /\ counter' = counter + 1 BY <1>3 DEF AddOne
  <2> QED BY <1>a, <1>b, <1>c, <2>1, <2>2
<1>4. ASSUME NEW t \in Tasks, FnReturns(t) \/ FnPanics(t) \/ KeepError(t) PROVE CountsExact'
  <2>1. Moves(t, "fn", "free") \/ Moves(t, "fn", "lock") \/ Moves(t, "lock", "free")
    BY <1>4 DEF FnReturns, FnPanics, KeepError
  <2>2. H' = H /\ C' = C BY <2>1, WgAtMoves DEF H, C, WgLabels, HoldLabels, CountLabels
  <2> QED BY <1>4, <1>d, <2>2 DEF FnReturns, FnPanics, KeepError
<1>5. ASSUME NEW t \in Tasks, ReleaseSlot(t) PROVE CountsExact'
  <2>1. H' = H - 1 /\ C' = C BY <1>5, WgAtMoves DEF ReleaseSlot, H, C, WgLabels, HoldLabels, CountLabels
  <2>2. slots' = slots - 1 /\ counter' = counter BY <1>5 DEF ReleaseSlot
  <2> QED BY <1>a, <1>b, <1>c, <2>1, <2>2
<1>6. ASSUME NEW t \in Tasks, DoneOne(t) PROVE CountsExact'
  <2>1. H' = H /\ C' = C - 1 BY <1>6, WgAtMoves DEF DoneOne, H, C, WgLabels, HoldLabels, CountLabels
  <2>2. slots' = slots /\ counter' = counter - 1 BY <1>6 DEF DoneOne
  <2> QED BY <1>a, <1>b, <1>c, <2>1, <2>2
<1>7. CASE WaitCall \/ WaitOver \/ WaitReturn \/ UNCHANGED wgVars
  <2>1. UNCHANGED <<slots, counter, task>> BY <1>7 DEF WaitCall, WaitOver, WaitReturn, wgVars
  <2> QED BY <1>d, <2>1 DEF H, C, TasksAt
<1> QED BY <1>1, <1>2, <1>3, <1>4, <1>5, <1>6, <1>7 DEF WGNext, WGTaskStep, WGMainStep

\* Go does not return before the function is counted, and until then its caller goes on
\* with nothing else.
LEMMA CallersStep ==
    WgTypes /\ CallersKnown /\ CallersCounted /\ [WGNext]_wgVars => CallersKnown' /\ CallersCounted'
<1> SUFFICES ASSUME WgTypes, CallersKnown, CallersCounted, [WGNext]_wgVars PROVE CallersKnown' /\ CallersCounted'
  OBVIOUS
<1> USE WaitGroupAssumption DEF WgTypes, WgLabels, Moves, TasksAt, CallersKnown, CallersCounted
<1>1. ASSUME NEW t \in Tasks, NEW g \in Tasks \cup {"main"}, WGGo(t, g) PROVE CallersKnown' /\ CallersCounted'
  BY <1>1 DEF WGGo, Runs
<1>2. ASSUME NEW t \in Tasks, WGTaskStep(t) PROVE CallersKnown' /\ CallersCounted'
  <2>1. CASE Acquire(t) BY <2>1 DEF Acquire
  <2>2. CASE AddOne(t) BY <2>2 DEF AddOne
  <2>3. CASE FnReturns(t) BY <2>3 DEF FnReturns, Runs, FreeToGo
  <2>4. CASE FnPanics(t) BY <2>4 DEF FnPanics, Runs, FreeToGo
  <2>5. CASE KeepError(t) BY <2>5 DEF KeepError
  <2>6. CASE ReleaseSlot(t) BY <2>6 DEF ReleaseSlot
  <2>7. CASE DoneOne(t) BY <2>7 DEF DoneOne
  <2> QED BY <1>2, <2>1, <2>2, <2>3, <2>4, <2>5, <2>6, <2>7 DEF WGTaskStep
<1>3. CASE WaitCall BY <1>3 DEF WaitCall, FreeToGo
<1>4. CASE WaitOver BY <1>4 DEF WaitOver
<1>5. CASE WaitReturn BY <1>5 DEF WaitReturn
<1>6. CASE UNCHANGED wgVars BY <1>6 DEF wgVars
<1> QED BY <1>1, <1>2, <1>3, <1>4, <1>5, <1>6 DEF WGNext, WGMainStep

\* There is an error as soon as a panic has been recovered, and no sooner.
LEMMA ErrorStep == WgTypes /\ PanicsKnown /\ ErrorKept /\ [WGNext]_wgVars => PanicsKnown' /\ ErrorKept'
<1> SUFFICES ASSUME WgTypes, PanicsKnown, ErrorKept, [WGNext]_wgVars PROVE PanicsKnown' /\ ErrorKept'
  OBVIOUS
<1> USE WaitGroupAssumption DEF WgTypes, WgLabels, Moves, TasksAt, PanicsKnown, ErrorKept
<1>1. ASSUME NEW t \in Tasks, NEW g \in Tasks \cup {"main"}, WGGo(t, g) PROVE PanicsKnown' /\ ErrorKept'
  BY <1>1 DEF WGGo
<1>2. ASSUME NEW t \in Tasks, WGTaskStep(t) PROVE PanicsKnown' /\ ErrorKept'
  <2>1. CASE Acquire(t) BY <2>1 DEF Acquire
  <2>2. CASE AddOne(t) BY <2>2 DEF AddOne
  <2>3. CASE FnReturns(t) BY <2>3 DEF FnReturns
  <2>4. CASE FnPanics(t) BY <2>4 DEF FnPanics
  <2>5. CASE KeepError(t) BY <2>5 DEF KeepError, FirstError
  <2>6. CASE ReleaseSlot(t) BY <2>6 DEF ReleaseSlot
  <2>7. CASE DoneOne(t) BY <2>7 DEF DoneOne
  <2> QED BY <1>2, <2>1, <2>2, <2>3, <2>4, <2>5, <2>6, <2>7 DEF WGTaskStep
<1>3. CASE WaitCall \/ WaitOver \/ WaitReturn \/ UNCHANGED wgVars
  BY <1>3 DEF WaitCall, WaitOver, WaitReturn, wgVars
<1> QED BY <1>1, <1>2, <1>3 DEF WGNext, WGMainStep

\* At zero nothing that is counted is left, and so nothing that somebody is just starting.
LEMMA NothingLeft ==
    ASSUME WgTypes, CountsExact, CallersKnown, CallersCounted, main # "busy", counter = 0
    PROVE  TasksAt({"new", "over"}) = Tasks
<1>1. Counted = {}
  <2>1. IsFiniteSet(Counted) BY WgAtFinite DEF Counted
  <2>2. Cardinality(Counted) = 0 BY DEF CountsExact
  <2> QED BY <2>1, <2>2, FS_EmptySet
<1>2. \A t \in Tasks : task[t] \notin CountLabels BY <1>1 DEF Counted, TasksAt, CountLabels
<1>3. \A t \in Tasks : task[t] \notin {"send", "add"}
  BY <1>2 DEF CallersKnown, CallersCounted, TasksAt, CountLabels
<1> QED BY <1>2, <1>3 DEF TasksAt, WgTypes, WgLabels, CountLabels

\* Between the end of the wait and the reading of the error nothing starts.
LEMMA OverStep == WgIInv /\ [WGNext]_wgVars => AllOver'
<1> SUFFICES ASSUME WgIInv, [WGNext]_wgVars, main' = "read" PROVE TasksAt({"new", "over"})' = Tasks
  BY DEF AllOver
<1> USE DEF WgIInv
<1>1. CASE WaitOver
  <2>1. TasksAt({"new", "over"}) = Tasks BY <1>1, NothingLeft DEF WaitOver
  <2> QED BY <1>1, <2>1 DEF WaitOver, TasksAt
<1>2. CASE main = "read"
  <2>1. \A t \in Tasks : task[t] \in {"new", "over"} BY <1>2 DEF AllOver, TasksAt
  <2>2. ASSUME NEW t \in Tasks, NEW g \in Tasks \cup {"main"}, WGGo(t, g) PROVE FALSE
    BY <1>2, <2>1, <2>2, WaitGroupAssumption DEF WGGo, Runs
  <2>3. ASSUME NEW t \in Tasks, WGTaskStep(t) PROVE FALSE
    BY <2>1, <2>3
       DEF WGTaskStep, Acquire, AddOne, FnReturns, FnPanics, KeepError, ReleaseSlot, DoneOne, Moves
  <2>4. task' = task
    BY <2>2, <2>3 DEF WGNext, WGMainStep, WaitCall, WaitOver, WaitReturn, wgVars
  <2> QED BY <2>1, <2>4 DEF TasksAt
<1>3. CASE main # "read" /\ ~WaitOver
  <2>1. ASSUME NEW t \in Tasks, NEW g \in Tasks \cup {"main"}, WGGo(t, g) PROVE main' = main
    BY <2>1 DEF WGGo
  <2>2. ASSUME NEW t \in Tasks, WGTaskStep(t) PROVE main' = main
    BY <2>2 DEF WGTaskStep, Acquire, AddOne, FnReturns, FnPanics, KeepError, ReleaseSlot, DoneOne
  <2> QED BY <1>3, <2>1, <2>2 DEF WGNext, WGMainStep, WaitCall, WaitReturn, wgVars
<1> QED BY <1>1, <1>2, <1>3

-----------------------------------------------------------------------------
LEMMA WgInitially == WGInit => WgIInv
<1> SUFFICES ASSUME WGInit PROVE WgIInv OBVIOUS
<1> USE WaitGroupAssumption DEF WGInit
<1>1. WgTypes BY DEF WgTypes, WgLabels
<1>2. Holders = {} /\ Counted = {} BY DEF Holders, Counted, TasksAt
<1>3. CountsExact BY <1>2, FS_EmptySet DEF CountsExact
<1>4. CallersKnown /\ CallersCounted BY DEF CallersKnown, CallersCounted, TasksAt
<1>5. PanicsKnown /\ ErrorKept /\ AllOver BY DEF PanicsKnown, ErrorKept, AllOver
<1> QED BY <1>1, <1>3, <1>4, <1>5 DEF WgIInv

THEOREM WgInvariance == WGSpec => []WgIInv
<1>1. WgIInv /\ [WGNext]_wgVars => WgIInv' BY TypesStep, CountsStep, CallersStep, ErrorStep, OverStep DEF WgIInv
<1> QED BY WgInitially, <1>1, PTL DEF WGSpec

\* The variables keep their types: the counter is at most the number of the functions.
THEOREM WgTypeCorrect == WGSpec => []WGTypeOK
<1>1. WgIInv => WGTypeOK
  <2> SUFFICES ASSUME WgIInv PROVE WGTypeOK OBVIOUS
  <2>1. slots \in 0..Limit BY WgAtFinite, WaitGroupAssumption DEF WgIInv, CountsExact, Holders
  <2>2. counter \in 0..Cardinality(Tasks)
    <3>1. Cardinality(Counted) <= Cardinality(Tasks) BY WaitGroupAssumption, FS_Subset DEF Counted, TasksAt
    <3>2. Cardinality(Tasks) \in Nat BY WaitGroupAssumption, FS_CardinalityType
    <3> QED BY <3>1, <3>2, WgAtFinite DEF WgIInv, CountsExact, Counted
  <2> QED BY <2>1, <2>2 DEF WgIInv, WgTypes, WgLabels, WGTypeOK
<1> QED BY WgInvariance, <1>1, PTL

\* Wait comes back when whatever was started is over, with an error exactly if one of
\* them panicked, and at most Limit of them ever run at once.
THEOREM WaitIsAnswered == WGSpec => []WaitAnswersForAll
<1>1. WgIInv => WaitAnswersForAll
  <2> SUFFICES ASSUME WgIInv PROVE WaitAnswersForAll OBVIOUS
  <2>1. ASSUME main = "read" PROVE TasksAt({"lock"}) = {}
    BY <2>1 DEF WgIInv, AllOver, TasksAt
  <2> QED BY <2>1 DEF WgIInv, AllOver, ErrorKept, WaitAnswersForAll
<1> QED BY WgInvariance, <1>1, PTL

-----------------------------------------------------------------------------
(* The channel: what is on its way is numbered without a gap, wherever the *)
(* pump has it.                                                            *)

ChTypes ==
    /\ in \in Seq(Nat) /\ q \in Seq(Nat) /\ out \in Seq(Nat) /\ received \in Nat
    /\ pump \in {"recv", "both", "drain", "flush", "end"}
InSequence(s, first) == \A i \in 1..Len(s) : s[i] = first + i
PumpKnows ==
    /\ pump = "recv" => q = <<>>
    /\ pump = "both" => q # <<>>
    /\ pump \in {"drain", "flush", "end"} => InClosed
    /\ pump \in {"flush", "end"} => in = <<>>
    /\ outClosed <=> pump = "end"
    /\ pump = "end" => q = <<>>
    /\ pump \in {"recv", "both"} => qlen = Len(q)
ChInv == ChTypes /\ InSequence(OnTheWay, received) /\ PumpKnows

\* Facts about sequences of numbers, in the form the proofs below use.
LEMMA Concat ==
    ASSUME NEW a \in Seq(Nat), NEW b \in Seq(Nat)
    PROVE  /\ Len(a) \in Nat /\ Len(b) \in Nat
           /\ a \o b \in Seq(Nat) /\ Len(a \o b) = Len(a) + Len(b)
           /\ \A i \in 1..(Len(a) + Len(b)) :
                 (a \o b)[i] = IF i <= Len(a) THEN a[i] ELSE b[i - Len(a)]
BY ConcatProperties, LenProperties

LEMMA Regroup ==
    ASSUME NEW a \in Seq(Nat), NEW b \in Seq(Nat), NEW c \in Seq(Nat)
    PROVE  (a \o b) \o c = a \o (b \o c)
BY ConcatAssociative

LEMMA Same == ASSUME NEW a \in Seq(Nat), NEW b \in Seq(Nat), Len(a) = Len(b),
                     \A i \in 1..Len(a) : a[i] = b[i]
              PROVE  a = b
BY SeqEqual

\* A value that moves from the head of b to the end of a stays in its place.
LEMMA HandOver ==
    ASSUME NEW a \in Seq(Nat), NEW b \in Seq(Nat), b # <<>>
    PROVE  /\ Append(a, Head(b)) \in Seq(Nat) /\ Tail(b) \in Seq(Nat)
           /\ Append(a, Head(b)) \o Tail(b) = a \o b
<1>1. /\ Head(b) \in Nat /\ Tail(b) \in Seq(Nat) /\ Len(Tail(b)) = Len(b) - 1
      /\ Len(b) \in Nat /\ Len(b) > 0 /\ Len(a) \in Nat
  OBVIOUS
<1> DEFINE c == Append(a, Head(b))
<1>2. /\ c \in Seq(Nat) /\ Len(c) = Len(a) + 1 /\ c[Len(a) + 1] = Head(b)
      /\ \A i \in 1..Len(a) : c[i] = a[i]
  BY <1>1
<1>3. /\ c \o Tail(b) \in Seq(Nat) /\ a \o b \in Seq(Nat)
      /\ Len(c \o Tail(b)) = Len(c) + Len(Tail(b)) /\ Len(a \o b) = Len(a) + Len(b)
  BY <1>1, <1>2, Concat
<1> HIDE DEF c
<1>4. ASSUME NEW i \in 1..(Len(a) + Len(b)) PROVE (c \o Tail(b))[i] = (a \o b)[i]
  <2>1. (a \o b)[i] = IF i <= Len(a) THEN a[i] ELSE b[i - Len(a)] BY Concat
  <2>2. i \in 1..(Len(c) + Len(Tail(b))) BY <1>1, <1>2
  <2>3. (c \o Tail(b))[i] = IF i <= Len(c) THEN c[i] ELSE Tail(b)[i - Len(c)]
    BY <1>1, <1>2, <2>2, Concat
  <2>4. CASE i <= Len(a)
    <3>1. i \in 1..Len(a) /\ i <= Len(c) BY <1>1, <1>2, <2>4
    <3> QED BY <1>2, <2>1, <2>3, <3>1
  <2>5. CASE i = Len(a) + 1
    <3>1. Head(b) = b[1] BY <1>1
    <3>2. i - Len(a) = 1 /\ ~(i <= Len(a)) /\ i <= Len(c) BY <1>1, <1>2, <2>5
    <3>3. (a \o b)[i] = b[1] BY <2>1, <3>2
    <3>4. (c \o Tail(b))[i] = c[Len(a) + 1] BY <2>3, <2>5, <3>2
    <3> QED BY <1>2, <3>1, <3>3, <3>4
  <2>6. CASE i > Len(a) + 1
    <3>1. i - Len(c) \in 1..(Len(b) - 1) /\ (i - Len(c)) + 1 = i - Len(a) BY <1>1, <1>2, <2>6
    <3>2. \A j \in 1..(Len(b) - 1) : Tail(b)[j] = b[j + 1] BY <1>1
    <3>3. Tail(b)[i - Len(c)] = b[i - Len(a)] BY <3>1, <3>2
    <3>4. ~(i <= Len(a)) /\ ~(i <= Len(c)) BY <1>1, <1>2, <2>6
    <3> QED BY ONLY <2>1, <2>3, <3>3, <3>4
  <2>7. i <= Len(a) \/ i = Len(a) + 1 \/ i > Len(a) + 1 BY <1>1
  <2> QED BY <2>4, <2>5, <2>6, <2>7
<1>5. c \o Tail(b) = a \o b
  <2>1. Len(c \o Tail(b)) = Len(a) + Len(b) BY <1>1, <1>2, <1>3
  <2> QED BY <1>3, <1>4, <2>1, Same
<1> QED BY <1>1, <1>2, <1>5 DEF c

\* The sequence keeps its numbers without its first, and with one more.
LEMMA TailInSequence ==
    ASSUME NEW s \in Seq(Nat), NEW k \in Nat, s # <<>>, InSequence(s, k)
    PROVE  InSequence(Tail(s), k + 1)
<1>1. Len(s) \in Nat /\ Len(s) > 0 /\ Len(Tail(s)) = Len(s) - 1 OBVIOUS
<1>2. ASSUME NEW i \in 1..Len(Tail(s)) PROVE Tail(s)[i] = (k + 1) + i
  <2>0. i \in 1..(Len(s) - 1) BY <1>1
  <2>3. i + 1 \in 1..Len(s) BY <1>1, <2>0
  <2>4. Tail(s)[i] = s[i + 1] BY <1>1, <2>0
  <2>1. i + 1 \in 1..Len(s) /\ Tail(s)[i] = s[i + 1] BY <2>3, <2>4
  <2>2. s[i + 1] = k + (i + 1) BY <2>1 DEF InSequence
  <2> QED BY <1>1, <2>1, <2>2
<1> QED BY <1>2 DEF InSequence

LEMMA AppendInSequence ==
    ASSUME NEW s \in Seq(Nat), NEW k \in Nat, InSequence(s, k)
    PROVE  InSequence(Append(s, k + Len(s) + 1), k)
<1>1. Len(s) \in Nat /\ Len(Append(s, k + Len(s) + 1)) = Len(s) + 1 OBVIOUS
<1>2. ASSUME NEW i \in 1..(Len(s) + 1) PROVE Append(s, k + Len(s) + 1)[i] = k + i
  <2>1. CASE i \in 1..Len(s) BY <1>1, <2>1 DEF InSequence
  <2>2. CASE i = Len(s) + 1 BY <1>1, <2>2
  <2> QED BY <1>1, <2>1, <2>2
<1> QED BY <1>1, <1>2 DEF InSequence

LEMMA ConcatAppend ==
    ASSUME NEW a \in Seq(Nat), NEW b \in Seq(Nat), NEW x \in Nat
    PROVE  a \o Append(b, x) = Append(a \o b, x)
<1> DEFINE c == Append(b, x)
           d == Append(a \o b, x)
<1>0. Len(a) \in Nat /\ Len(b) \in Nat OBVIOUS
<1>1. a \o b \in Seq(Nat) /\ Len(a \o b) = Len(a) + Len(b) BY Concat
<1>2. /\ c \in Seq(Nat) /\ Len(c) = Len(b) + 1 /\ c[Len(b) + 1] = x
      /\ \A i \in 1..Len(b) : c[i] = b[i]
  BY <1>0
<1>3. /\ d \in Seq(Nat) /\ Len(d) = Len(a) + Len(b) + 1 /\ d[Len(a) + Len(b) + 1] = x
      /\ \A i \in 1..(Len(a) + Len(b)) : d[i] = (a \o b)[i]
  BY <1>0, <1>1
<1> HIDE DEF c, d
<1>4. a \o c \in Seq(Nat) /\ Len(a \o c) = Len(a) + (Len(b) + 1)
  <2>1. a \o c \in Seq(Nat) /\ Len(a \o c) = Len(a) + Len(c) BY <1>2, Concat
  <2> QED BY <1>2, <2>1
<1>5. ASSUME NEW i \in 1..(Len(a) + Len(b) + 1) PROVE (a \o c)[i] = d[i]
  <2>0. i \in 1..(Len(a) + Len(c)) BY <1>0, <1>2
  <2>1. (a \o c)[i] = IF i <= Len(a) THEN a[i] ELSE c[i - Len(a)] BY <1>2, <2>0, Concat
  <2>2. CASE i = Len(a) + Len(b) + 1
    <3>1. i - Len(a) = Len(b) + 1 /\ ~(i <= Len(a)) BY <1>0, <2>2
    <3> QED BY <1>2, <1>3, <2>1, <2>2, <3>1
  <2>3. CASE i # Len(a) + Len(b) + 1
    <3>1. i \in 1..(Len(a) + Len(b)) BY <1>0, <2>3
    <3>2. (a \o b)[i] = IF i <= Len(a) THEN a[i] ELSE b[i - Len(a)] BY <3>1, Concat
    <3>3. ~(i <= Len(a)) => i - Len(a) \in 1..Len(b) BY <1>0, <3>1
    <3> QED BY <1>2, <1>3, <2>1, <3>1, <3>2, <3>3
  <2> QED BY <2>2, <2>3
<1>6. Len(a \o c) = Len(d) BY <1>0, <1>3, <1>4
<1>7. a \o c = d BY <1>0, <1>3, <1>4, <1>5, <1>6, Same
<1> QED BY <1>7 DEF c, d

LEMMA ConcatTail ==
    ASSUME NEW a \in Seq(Nat), NEW b \in Seq(Nat), a # <<>>
    PROVE  Tail(a) \o b = Tail(a \o b) /\ a \o b # <<>>
<1>0. Len(a) \in Nat /\ Len(a) > 0 /\ Len(b) \in Nat /\ Tail(a) \in Seq(Nat) /\ Len(Tail(a)) = Len(a) - 1
  OBVIOUS
<1>1. a \o b \in Seq(Nat) /\ Len(a \o b) = Len(a) + Len(b) BY Concat
<1>2. a \o b # <<>> BY <1>0, <1>1
<1>3. /\ Tail(a \o b) \in Seq(Nat) /\ Len(Tail(a \o b)) = Len(a) + Len(b) - 1
      /\ \A i \in 1..(Len(a) + Len(b) - 1) : Tail(a \o b)[i] = (a \o b)[i + 1]
  BY <1>0, <1>1, <1>2
<1>4. Tail(a) \o b \in Seq(Nat) /\ Len(Tail(a) \o b) = (Len(a) - 1) + Len(b)
  BY <1>0, Concat
<1>5. ASSUME NEW i \in 1..((Len(a) - 1) + Len(b)) PROVE (Tail(a) \o b)[i] = Tail(a \o b)[i]
  <2>0. i + 1 \in 1..(Len(a) + Len(b)) /\ i \in 1..(Len(a) + Len(b) - 1) BY <1>0
  <2>1. (a \o b)[i + 1] = IF i + 1 <= Len(a) THEN a[i + 1] ELSE b[(i + 1) - Len(a)]
    BY <2>0, Concat
  <2>2. (Tail(a) \o b)[i] = IF i <= Len(Tail(a)) THEN Tail(a)[i] ELSE b[i - Len(Tail(a))]
    BY <1>0, Concat
  <2>3. CASE i <= Len(a) - 1
    <3>1. Tail(a)[i] = a[i + 1] BY <1>0, <2>3
    <3>2. i + 1 <= Len(a) /\ i <= Len(Tail(a)) BY <1>0, <2>3
    <3> QED BY <1>3, <2>0, <2>1, <2>2, <3>1, <3>2
  <2>4. CASE ~(i <= Len(a) - 1)
    <3>1. ~(i + 1 <= Len(a)) /\ ~(i <= Len(Tail(a))) /\ (i + 1) - Len(a) = i - Len(Tail(a))
      BY <1>0, <2>4
    <3> QED BY <1>3, <2>0, <2>1, <2>2, <3>1
  <2> QED BY <2>3, <2>4
<1>6. Len(Tail(a) \o b) = Len(Tail(a \o b)) BY <1>0, <1>3, <1>4
<1> QED BY <1>2, <1>3, <1>4, <1>5, <1>6, Same

\* OnTheWay as the three parts, associated either way.
LEMMA Ways ==
    ASSUME ChTypes
    PROVE  /\ OnTheWay = out \o (q \o in) /\ OnTheWay = (out \o q) \o in
           /\ OnTheWay \in Seq(Nat) /\ q \o in \in Seq(Nat) /\ out \o q \in Seq(Nat)
<1>1. q \o in \in Seq(Nat) /\ out \o q \in Seq(Nat) BY Concat DEF ChTypes
<1>2. (out \o q) \o in \in Seq(Nat) BY <1>1, Concat DEF ChTypes
<1>3. (out \o q) \o in = out \o (q \o in) BY Regroup DEF ChTypes
<1> QED BY <1>1, <1>2, <1>3 DEF OnTheWay

LEMMA ChStep == ChInv /\ [ChNext]_chVars => ChInv'
<1> SUFFICES ASSUME ChInv, [ChNext]_chVars PROVE ChInv' OBVIOUS
<1> USE DEF PumpKnows, InClosed
<1>0. ChTypes /\ InSequence(OnTheWay, received) /\ PumpKnows BY DEF ChInv
\* A step that hands values on inside leaves the whole as it was.
<1>a. ASSUME ChTypes', OnTheWay' = OnTheWay, received' = received, PumpKnows' PROVE ChInv'
  BY <1>0, <1>a DEF ChInv, InSequence
<1>1. CASE Send
  <2> DEFINE x == received + Len(OnTheWay) + 1
  <2>1. x \in Nat BY <1>0, Ways DEF ChTypes
  <2>2. ChTypes' /\ PumpKnows' BY <1>0, <1>1, <2>1 DEF ChTypes, Send
  <2>3. OnTheWay' = Append(OnTheWay, x)
    <3>1. OnTheWay' = (out \o q) \o Append(in, x) BY <1>1 DEF Send, OnTheWay
    <3>2. in \in Seq(Nat) /\ out \o q \in Seq(Nat) BY <1>0, Ways DEF ChTypes
    <3>3. (out \o q) \o Append(in, x) = Append((out \o q) \o in, x) BY ONLY <2>1, <3>2, ConcatAppend
    <3> QED BY <3>1, <3>3 DEF OnTheWay
  <2>4. InSequence(Append(OnTheWay, x), received) BY <1>0, Ways, AppendInSequence DEF ChTypes
  <2> QED BY <1>1, <2>2, <2>3, <2>4 DEF ChInv, Send
<1>2. CASE Recv
  <2>1. ChTypes' /\ PumpKnows' BY <1>0, <1>2 DEF ChTypes, Recv
  <2>2. OnTheWay' = Tail(OnTheWay) /\ OnTheWay # <<>>
    <3>1. OnTheWay' = Tail(out) \o (q \o in)
      <4>1. OnTheWay' = (Tail(out) \o q) \o in BY <1>2 DEF Recv, OnTheWay
      <4>2. Tail(out) \in Seq(Nat) BY <1>0, <1>2 DEF ChTypes, Recv
      <4>3. (Tail(out) \o q) \o in = Tail(out) \o (q \o in) BY <1>0, <4>2, Regroup DEF ChTypes
      <4> QED BY <4>1, <4>3
    <3>2. out # <<>> BY <1>2 DEF Recv
    <3> QED BY <1>0, <3>1, <3>2, Ways, ConcatTail DEF ChTypes
  <2>3. InSequence(Tail(OnTheWay), received + 1) BY <1>0, <2>2, Ways, TailInSequence DEF ChTypes
  <2> QED BY <1>2, <2>1, <2>2, <2>3 DEF ChInv, Recv
<1>3. CASE CloseFlag \/ ChClose
  BY <1>0, <1>a, <1>3 DEF CloseFlag, ChClose, CloseIn, CloseSignal, ChTypes, OnTheWay
<1>4. CASE PumpTakes \/ Drain
  <2>1. in # <<>> /\ in' = Tail(in) /\ q' = Append(q, Head(in)) /\ UNCHANGED <<out, received>>
    BY <1>4 DEF PumpTakes, Drain
  <2>2. q' \in Seq(Nat) /\ in' \in Seq(Nat) /\ q' \o in' = q \o in
    BY <1>0, <2>1, HandOver DEF ChTypes
  <2>3. ChTypes' BY <1>0, <1>4, <2>1, <2>2 DEF ChTypes, PumpTakes, Drain
  <2>4. OnTheWay' = out \o (q' \o in')
    <3>1. OnTheWay' = (out \o q') \o in' BY <2>1 DEF OnTheWay
    <3>2. out \in Seq(Nat) /\ q' \in Seq(Nat) /\ in' \in Seq(Nat) BY <1>0, <2>2 DEF ChTypes
    <3>3. (out \o q') \o in' = out \o (q' \o in') BY <3>2, Regroup
    <3> QED BY <3>1, <3>3
  <2>5. OnTheWay' = OnTheWay BY <1>0, <2>2, <2>4, Ways
  <2>6. Len(q') = Len(q) + 1 /\ q' # <<>> /\ Len(q) \in Nat
    <3>1. q \in Seq(Nat) /\ Head(in) \in Nat BY <1>0, <2>1 DEF ChTypes
    <3>2. q' = Append(q, Head(in)) BY <2>1
    <3> QED BY ONLY <3>1, <3>2
  <2>7. PumpKnows' BY <1>0, <1>4, <2>6 DEF PumpTakes, Drain
  <2> QED BY <1>a, <2>1, <2>3, <2>5, <2>7
<1>5. CASE PumpGives \/ Flush
  <2>1. /\ q # <<>> /\ q' = Tail(q) /\ out' = Append(out, Head(q))
        /\ UNCHANGED <<in, received>>
    BY <1>0, <1>5 DEF PumpGives, Flush
  <2>2. q' \in Seq(Nat) /\ out' \in Seq(Nat) /\ out' \o q' = out \o q
    BY <1>0, <2>1, HandOver DEF ChTypes
  <2>3. ChTypes' BY <1>0, <1>5, <2>1, <2>2 DEF ChTypes, PumpGives, Flush, QueueNext
  <2>4. OnTheWay' = OnTheWay BY <2>1, <2>2 DEF OnTheWay
  <2>5. /\ Len(q') = Len(q) - 1 /\ Len(q) \in Nat
        /\ (Len(q) = 1 => q' = <<>>) /\ (Len(q) # 1 => q' # <<>>)
    <3>1. q \in Seq(Nat) /\ q # <<>> /\ q' = Tail(q) BY <1>0, <2>1 DEF ChTypes
    <3>2. Len(q) \in Nat /\ Len(q') = Len(q) - 1 /\ q' \in Seq(Nat) BY ONLY <3>1
    <3>3. q' = <<>> <=> Len(q') = 0 BY <3>2, EmptySeq
    <3> QED BY ONLY <3>2, <3>3
  <2>6. PumpKnows' BY <1>0, <1>5, <2>5 DEF PumpGives, Flush, QueueNext
  <2> QED BY <1>a, <2>1, <2>3, <2>4, <2>6
<1>6. CASE PumpShuts \/ Drained \/ Flushed
  BY <1>0, <1>a, <1>6 DEF PumpShuts, Drained, InputGone, Flushed, ChTypes, OnTheWay
<1>7. CASE UNCHANGED chVars BY <1>0, <1>a, <1>7 DEF chVars, ChTypes, OnTheWay
<1> QED BY <1>1, <1>2, <1>3, <1>4, <1>5, <1>6, <1>7 DEF ChNext, ChPump

\* Whatever in accepted comes out once and in order, also when Close comes in
\* between, for any sizes of the buffers.
THEOREM ChanKeepsOrder == ChSpec => []ChanInOrder
<1>1. ChInit => ChInv
  <2> SUFFICES ASSUME ChInit PROVE ChInv OBVIOUS
  <2>1. in = <<>> /\ q = <<>> /\ out = <<>> /\ pump = "recv" /\ received = 0 /\ qlen = 0 /\ outClosed = FALSE
    BY DEF ChInit
  <2>2. ChTypes BY <2>1 DEF ChTypes
  <2>3. Len(OnTheWay) = 0
    <3>1. OnTheWay \in Seq(Nat) BY <2>2, Ways
    <3>2. <<>> \in Seq(Nat) OBVIOUS
    <3>3. out \o q = <<>> /\ (out \o q) \o in = <<>> BY <2>1, <3>2, ConcatEmptySeq
    <3> QED BY <3>3 DEF OnTheWay
  <2>4. InSequence(OnTheWay, received) BY <2>3 DEF InSequence
  <2> QED BY <2>1, <2>2, <2>4 DEF ChInv, PumpKnows
<1>2. ChInv => ChanInOrder
  <2> SUFFICES ASSUME ChInv PROVE ChanInOrder OBVIOUS
  <2>1. \A i \in 1..Len(OnTheWay) : OnTheWay[i] = received + i BY DEF ChInv, InSequence
  <2> QED BY <2>1 DEF ChInv, PumpKnows, ChanInOrder
<1> QED BY <1>1, <1>2, ChStep, PTL DEF ChSpec

-----------------------------------------------------------------------------
(* Promises: what has been answered is never taken back, and an answer has *)
(* its reason in the source or the context it came from.                   *)

\* A source ends as its executor returned; its caller knows why it gave up.
SourceOutcomes == \A s \in 1..Sources : outcome[s] \in {"none", "value", "reason"}
TimeoutsDone == \A p \in timeout : ContextDone(p)
CallersHonest == \A c \in PrCallers : DoneHonest(c) /\ done[c] # "nil"
CountedGaveUp == \A s \in counted : s \in 1..n /\ done[s] \in {"reason", "canceled"}
NeverNil == outcome[D] # "nil"
DHonest ==
    n > 0 =>
    /\ kind = "then" => (outcome[D] # "none" => done[1] \in Answers)
    /\ kind = "all" => /\ outcome[D] = "value" => Fulfilled = 1..n
                       /\ outcome[D] \in Errors => GivenUp # {}
    /\ kind = "race" => /\ outcome[D] = "value" => Fulfilled # {}
                        /\ outcome[D] = "reason" => GivenUp # {}
                        /\ outcome[D] = "canceled" => GivenUp # {} \/ ContextDone(D)
    /\ kind = "any" => /\ outcome[D] = "value" => Fulfilled # {}
                       /\ outcome[D] = "reason" => GivenUp = 1..n
                       /\ outcome[D] = "canceled" => ContextDone(D)

PrInv ==
    /\ PrTypeOK /\ (kind = "then" => n = 1)
    /\ SourceOutcomes /\ TimeoutsDone /\ CallersHonest /\ CountedGaveUp /\ NeverNil /\ DHonest

LEMMA PrNumbers ==
    ASSUME PrTypeOK
    PROVE  /\ n \in Nat /\ n <= Sources /\ Sources \in Nat /\ 1..n \subseteq 1..Sources
           /\ D \notin 1..Sources /\ D \in Promises /\ 1..Sources \subseteq Promises
           /\ Readers \cap (1..Sources) = {} /\ PrCallers \subseteq Readers \cup (1..Sources)
           /\ \A s \in 1..n : s \in PrCallers /\ Target(s) = s /\ s \notin Readers
           /\ \A c \in PrCallers : Target(c) \in Promises
<1>1. Sources \in Nat /\ Readers \cap (0..Sources) = {} BY PromisesAssumption
<1>2. n \in 0..Sources BY DEF PrTypeOK
<1>3. n \in Nat /\ n <= Sources BY <1>1, <1>2
<1>4. 1..n \subseteq 1..Sources /\ 1..Sources \subseteq 0..Sources /\ 0 \notin 1..Sources /\ 0 \in 0..Sources
  BY <1>1, <1>3
<1>5. Readers \cap (1..Sources) = {} BY <1>1, <1>4
<1> QED BY <1>1, <1>3, <1>4, <1>5 DEF D, Promises, PrCallers, Target

\* What no step takes back.
Onward ==
    /\ UNCHANGED <<kind, n>> /\ canceled \subseteq canceled' /\ (merged = "done" => merged' = "done")
    /\ \A p \in Promises : outcome[p] # "none" => outcome'[p] = outcome[p]
    /\ \A s \in 1..n : done[s] \in Answers => done'[s] = done[s]

LEMMA PrOnward ==
    ASSUME PrTypeOK, [PrNext]_prVars
    PROVE  Onward /\ PrTypeOK'
<1>0. /\ 1..n \subseteq 1..Sources /\ D \in Promises /\ 1..Sources \subseteq Promises /\ D \notin 1..Sources
      /\ \A s \in 1..n : s \notin Readers
      /\ PrCallers \subseteq Readers \cup (1..Sources)
      /\ \A c \in PrCallers : Target(c) \in Promises
  BY PrNumbers
<1> USE <1>0 DEF PrTypeOK, Onward, Answers, Errors
<1>1. ASSUME NEW x \in Parents \cup (1..n), CancelContext(x) PROVE Onward /\ PrTypeOK'
  BY <1>1 DEF CancelContext
<1>2. CASE Monitor BY <1>2 DEF Monitor, MonitorErr, MonitorClose
<1>3. ASSUME NEW s \in 1..n, NEW a \in {"value", "reason"}, SettleSource(s, a)
      PROVE  Onward /\ PrTypeOK'
  BY <1>3 DEF SettleSource
<1>4. ASSUME NEW c \in PrCallers, DoneEnter(c) \/ DoneStep(c) PROVE Onward /\ PrTypeOK'
  <2>1. c \in Readers \/ done[c] \in {"idle", "select", "store"}
    BY <1>4 DEF DoneEnter, DoneStep, DoneSettled, DoneContext, DoneStore, Calls
  <2>2. /\ UNCHANGED <<kind, n, canceled, merged, outcome, counted>>
        /\ \E a \in {"select", "store"} \cup Answers : done' = [done EXCEPT ![c] = a]
        /\ timeout' \subseteq Promises
    BY <1>4 DEF DoneEnter, DoneStep, DoneSettled, DoneContext, DoneStore, Answer
  <2> QED BY <2>1, <2>2
<1>5. ASSUME NEW a \in Answers, Settle(a), counted' \subseteq 1..n PROVE Onward /\ PrTypeOK'
  BY <1>5 DEF Settle
<1>6. CASE Executor
  <2>1. CASE NoSources BY <1>5, <2>1 DEF NoSources
  <2>2. CASE SettleThen BY <1>5, <2>2 DEF SettleThen
  <2>3. CASE SettleAll BY <1>5, <2>3 DEF SettleAll
  <2>4. CASE SettleRace BY <1>5, <2>4 DEF SettleRace
  <2>5. CASE SettleAny BY <1>5, <2>5 DEF SettleAny
  <2>6. CASE SettleContext BY <1>5, <2>6 DEF SettleContext, ContextErr
  <2>7. ASSUME NEW s \in 1..n, CountError(s) PROVE Onward /\ PrTypeOK'
    <3>1. counted' \subseteq 1..n BY <2>7 DEF CountError
    <3>2. Settle("reason") \/ UNCHANGED <<kind, n, canceled, merged, outcome, timeout, done>>
      BY <2>7 DEF CountError
    <3> QED BY <1>5, <3>1, <3>2
  <2> QED BY <1>6, <2>1, <2>2, <2>3, <2>4, <2>5, <2>6, <2>7 DEF Executor
<1>7. CASE UNCHANGED prVars BY <1>7 DEF prVars
<1> QED BY <1>1, <1>2, <1>3, <1>4, <1>6, <1>7 DEF PrNext

\* So a context stays done, a fulfilled source fulfilled, and so on.
LEMMA PrKeeps ==
    ASSUME PrTypeOK, Onward
    PROVE  /\ \A p \in Promises : ContextDone(p) => ContextDone(p)'
           /\ Fulfilled \subseteq Fulfilled' /\ GivenUp \subseteq GivenUp'
           /\ PrCallers' = PrCallers /\ \A c : Target(c)' = Target(c)
<1>1. /\ Fulfilled \subseteq Fulfilled' /\ GivenUp \subseteq GivenUp'
  <2>1. 1..n \subseteq Promises BY PrNumbers
  <2> QED BY <2>1 DEF Onward, Fulfilled, GivenUp
<1> QED BY <1>1 DEF Onward, ContextDone, PrCallers, Target

LEMMA DdCallersStep ==
    ASSUME PrInv, [PrNext]_prVars, Onward
    PROVE  TimeoutsDone' /\ CallersHonest'
<1>0. /\ PrTypeOK /\ SourceOutcomes /\ TimeoutsDone /\ CallersHonest /\ NeverNil BY DEF PrInv
<1>1. /\ 1..n \subseteq 1..Sources /\ D \in Promises /\ 1..Sources \subseteq Promises
      /\ \A c \in PrCallers : Target(c) \in Promises
      /\ PrCallers \subseteq Readers \cup (1..Sources)
  BY <1>0, PrNumbers
<1>2. /\ \A p \in Promises : ContextDone(p) => ContextDone(p)'
      /\ PrCallers' = PrCallers /\ \A c : Target(c)' = Target(c)
  BY <1>0, PrKeeps
<1>3. \A p \in Promises : outcome[p] # "nil"
  BY <1>0, PromisesAssumption DEF NeverNil, SourceOutcomes, Promises, D
\* Whoever does not move stays honest: outcomes are kept.
<1>4. ASSUME NEW c \in PrCallers, done'[c] = done[c]
      PROVE  DoneHonest(c)' /\ done'[c] # "nil"
  <2>1. Target(c) \in Promises /\ Target(c)' = Target(c) BY <1>1, <1>2
  <2>2. outcome[Target(c)] # "none" => outcome'[Target(c)] = outcome[Target(c)] BY <2>1 DEF Onward
  <2>3. ContextDone(Target(c)) => ContextDone(Target(c))' BY <1>2, <2>1
  <2>4. DoneHonest(c) /\ done[c] # "nil" BY <1>0 DEF CallersHonest
  <2> QED BY <1>4, <2>1, <2>2, <2>3, <2>4 DEF DoneHonest
<1>5. ASSUME UNCHANGED <<done, timeout>> PROVE TimeoutsDone' /\ CallersHonest'
  BY <1>0, <1>2, <1>4, <1>5 DEF TimeoutsDone, CallersHonest, PrTypeOK
<1>6. ASSUME NEW c \in PrCallers, DoneEnter(c) \/ DoneStep(c) PROVE TimeoutsDone' /\ CallersHonest'
  <2> DEFINE t == Target(c)
  <2>1. t \in Promises /\ UNCHANGED <<kind, n, canceled, merged, outcome>>
    BY <1>1, <1>6 DEF DoneEnter, DoneStep, DoneSettled, DoneContext, DoneStore, Answer
  <2>2. ContextDone(t)' = ContextDone(t) /\ t' = t BY <2>1 DEF ContextDone, Target
  <2>3. \A d \in PrCallers : d # c => done'[d] = done[d]
    BY <1>0, <1>1, <1>6 DEF DoneEnter, DoneStep, DoneSettled, DoneContext, DoneStore, Answer, PrTypeOK
  <2>a. \A a : Answer(c, a) => done'[c] = a BY <1>0, <1>1 DEF Answer, PrTypeOK
  <2> HIDE DEF t
  <2>4. TimeoutsDone'
    <3>1. CASE DoneStore(c)
      <4>1. ContextDone(t) BY <1>0, <3>1 DEF DoneStore, CallersHonest, DoneHonest, t
      <4>2. timeout' = timeout \cup {t} BY <3>1 DEF DoneStore, t
      <4>3. \A p \in timeout' : p \in Promises /\ ContextDone(p) BY <1>0, <2>1, <4>1, <4>2 DEF TimeoutsDone, PrTypeOK
      <4> QED BY <1>2, <4>3 DEF TimeoutsDone
    <3>2. CASE ~DoneStore(c)
      <4>1. timeout' = timeout BY <1>6, <3>2 DEF DoneEnter, DoneStep, DoneSettled, DoneContext
      <4> QED BY <1>0, <1>2, <4>1 DEF TimeoutsDone, PrTypeOK
    <3> QED BY <3>1, <3>2
  <2>5. DoneHonest(c)' /\ done'[c] # "nil"
    <3>1. CASE DoneEnter(c)
      <4>1. done'[c] = IF t \in timeout THEN "canceled" ELSE "select" BY <3>1, <2>a DEF DoneEnter, t
      <4>2. t \in timeout => ContextDone(t)' BY <1>0, <2>2 DEF TimeoutsDone
      <4> QED BY <2>2, <4>1, <4>2 DEF DoneHonest, t
    <3>2. CASE DoneSettled(c)
      <4>1. done'[c] = outcome[t] /\ outcome[t] # "none" BY <2>a, <3>2 DEF DoneSettled, t
      <4>2. outcome[t] \in Answers /\ outcome[t] # "nil" BY <1>0, <1>3, <2>1, <4>1 DEF PrTypeOK
      <4>3. done'[c] = outcome'[t'] BY <2>1, <2>2, <4>1
      <4> QED BY <4>1, <4>2, <4>3 DEF DoneHonest, Answers, Errors, t
    <3>3. CASE DoneContext(c)
      <4>1. done'[c] = "store" /\ ContextDone(t) BY <2>a, <3>3 DEF DoneContext, t
      <4> QED BY <2>2, <4>1 DEF DoneHonest, t
    <3>4. CASE DoneStore(c)
      <4>1. done'[c] = "canceled" BY <2>a, <3>4 DEF DoneStore
      <4>2. ContextDone(t) BY <1>0, <3>4 DEF DoneStore, CallersHonest, DoneHonest, t
      <4> QED BY <2>2, <4>1, <4>2 DEF DoneHonest, t
    <3> QED BY <1>6, <3>1, <3>2, <3>3, <3>4 DEF DoneStep
  <2>6. \A d \in PrCallers : DoneHonest(d)' /\ done'[d] # "nil" BY <1>4, <2>3, <2>5
  <2> QED BY <1>2, <2>4, <2>6 DEF CallersHonest
<1>7. ASSUME NEW x, CancelContext(x) PROVE TimeoutsDone' /\ CallersHonest'
  BY <1>5, <1>7 DEF CancelContext
<1>8. ASSUME NEW s, NEW a, SettleSource(s, a) PROVE TimeoutsDone' /\ CallersHonest'
  BY <1>5, <1>8 DEF SettleSource
<1>9. CASE Executor \/ Monitor
  <2>1. UNCHANGED <<done, timeout>>
    BY <1>9 DEF Executor, Monitor, MonitorErr, MonitorClose, NoSources, SettleThen, SettleAll, SettleRace,
       SettleAny, SettleContext, CountError, Settle
  <2> QED BY <1>5, <2>1
<1>10. CASE UNCHANGED prVars BY <1>5, <1>10 DEF prVars
<1> QED BY <1>6, <1>7, <1>8, <1>9, <1>10 DEF PrNext

\* What the answer of Done from a source says about the source.
LEMMA AnswerMeans ==
    ASSUME PrInv, NEW s \in 1..n
    PROVE  /\ done[s] = "value" => s \in Fulfilled
           /\ done[s] \in Errors => s \in GivenUp /\ done[s] \in {"reason", "canceled"}
<1>1. s \in PrCallers /\ Target(s) = s /\ s \in 1..Sources /\ s # D BY PrNumbers DEF PrInv
<1>2. DoneHonest(s) /\ done[s] # "nil" /\ outcome[s] \in {"none", "value", "reason"}
  BY <1>1 DEF PrInv, CallersHonest, SourceOutcomes
<1> QED BY <1>1, <1>2 DEF DoneHonest, ContextDone, Fulfilled, GivenUp, Errors, D

\* D is settled by its executor alone, and by each kind as it promises.
LEMMA SettledHonest ==
    ASSUME PrInv, PrTypeOK', Onward, Executor, outcome'[D] # outcome[D]
    PROVE  DHonest' /\ NeverNil' /\ CountedGaveUp'
<1>0. PrTypeOK /\ NeverNil /\ CountedGaveUp /\ (kind = "then" => n = 1) BY DEF PrInv
<1>1. /\ Fulfilled \subseteq Fulfilled' /\ GivenUp \subseteq GivenUp' /\ D \in Promises
      /\ (ContextDone(D) => ContextDone(D)') /\ kind' = kind /\ n' = n /\ n \in Nat
  BY <1>0, PrKeeps, PrNumbers DEF Onward
<1>2. Fulfilled' \subseteq 1..n /\ GivenUp' \subseteq 1..n BY <1>1 DEF Fulfilled, GivenUp
<1>3. ASSUME NEW a \in Answers, Settle(a) PROVE outcome'[D] = a /\ done' = done
  BY <1>0, <1>1, <1>3 DEF Settle, PrTypeOK
<1>4. ASSUME counted' = counted, done' = done PROVE CountedGaveUp'
  BY <1>0, <1>1, <1>4 DEF CountedGaveUp
<1> USE DEF Answers, Errors
<1>5. CASE NoSources BY <1>1, <1>3, <1>4, <1>5 DEF NoSources, DHonest, NeverNil
<1>6. CASE SettleThen
  <2>1. n = 1 /\ kind = "then" /\ done[1] \in Answers BY <1>0, <1>6 DEF SettleThen
  <2>2. 1 \in 1..n BY <2>1
  <2>3. done[1] # "nil" BY <2>1, <2>2, AnswerMeans
  <2>4. PICK a \in {"value", "reason", done[1]} : Settle(a) BY <1>6 DEF SettleThen
  <2>5. outcome'[D] = a /\ done' = done BY <1>3, <2>1, <2>4
  <2> QED BY <1>1, <1>4, <1>6, <2>1, <2>3, <2>5 DEF SettleThen, DHonest, NeverNil
<1>7. CASE SettleAll
  <2>1. CASE AllFulfilled /\ Settle("value")
    <3>1. Fulfilled' = 1..n BY <1>1, <1>2, <2>1, AnswerMeans DEF AllFulfilled
    <3> QED BY <1>1, <1>3, <1>4, <1>7, <2>1, <3>1 DEF SettleAll, DHonest, NeverNil
  <2>2. ASSUME NEW s \in 1..n, done[s] \in Errors, Settle(done[s]) PROVE DHonest' /\ NeverNil' /\ CountedGaveUp'
    <3>1. s \in GivenUp' /\ done[s] \in {"reason", "canceled"} BY <1>1, <2>2, AnswerMeans
    <3>2. outcome'[D] = done[s] /\ done' = done BY <1>3, <2>2
    <3> QED BY <1>1, <1>4, <1>7, <3>1, <3>2 DEF SettleAll, DHonest, NeverNil
  <2> QED BY <1>7, <2>1, <2>2 DEF SettleAll
<1>8. CASE SettleRace
  <2>1. PICK s \in 1..n : done[s] \in Answers /\ Settle(done[s]) BY <1>8 DEF SettleRace
  <2>2. outcome'[D] = done[s] /\ done' = done BY <1>3, <2>1
  <2>3. CASE done[s] = "value"
    <3>1. s \in Fulfilled' BY <1>1, <2>3, AnswerMeans
    <3> QED BY <1>1, <1>4, <1>8, <2>2, <2>3, <3>1 DEF SettleRace, DHonest, NeverNil
  <2>4. CASE done[s] \in Errors
    <3>1. s \in GivenUp' /\ done[s] \in {"reason", "canceled"} BY <1>1, <2>4, AnswerMeans
    <3> QED BY <1>1, <1>4, <1>8, <2>2, <3>1 DEF SettleRace, DHonest, NeverNil
  <2> QED BY <2>1, <2>3, <2>4
<1>9. CASE SettleAny
  <2>1. PICK s \in 1..n : done[s] = "value" /\ Settle("value") BY <1>9 DEF SettleAny
  <2>2. s \in Fulfilled' BY <1>1, <2>1, AnswerMeans
  <2> QED BY <1>1, <1>3, <1>4, <1>9, <2>1, <2>2 DEF SettleAny, DHonest, NeverNil
<1>10. CASE SettleContext
  <2>1. kind \in {"race", "any"} /\ ContextDone(D) /\ Settle(ContextErr) /\ counted' = counted
    BY <1>10 DEF SettleContext, WatchesContext
  <2>2. ContextErr = "canceled" BY <2>1 DEF ContextDone, ContextErr
  <2> QED BY <1>1, <1>3, <1>4, <2>1, <2>2 DEF DHonest, NeverNil
<1>11. ASSUME NEW s \in 1..n, CountError(s) PROVE DHonest' /\ NeverNil' /\ CountedGaveUp'
  <2>1. /\ kind = "any" /\ done[s] \in Errors /\ counted' = counted \cup {s}
        /\ Settle("reason") /\ counted' = 1..n
    BY <1>11 DEF CountError
  <2>2. outcome'[D] = "reason" /\ done' = done BY <1>3, <2>1
  <2>3. \A e \in counted' : e \in 1..n /\ done[e] \in {"reason", "canceled"}
    BY <1>0, <2>1, AnswerMeans DEF CountedGaveUp
  <2>4. GivenUp' = 1..n BY <1>1, <1>2, <2>1, <2>3, AnswerMeans
  <2> QED BY <1>1, <2>1, <2>2, <2>3, <2>4 DEF DHonest, NeverNil, CountedGaveUp
<1> QED BY <1>5, <1>6, <1>7, <1>8, <1>9, <1>10, <1>11 DEF Executor

LEMMA PrStep == PrInv /\ [PrNext]_prVars => PrInv'
<1> SUFFICES ASSUME PrInv, [PrNext]_prVars PROVE PrInv' OBVIOUS
<1>0. PrTypeOK /\ SourceOutcomes /\ CountedGaveUp /\ NeverNil /\ DHonest BY DEF PrInv
<1>1. Onward /\ PrTypeOK' BY <1>0, PrOnward
<1>2. TimeoutsDone' /\ CallersHonest' BY <1>1, DdCallersStep
<1>3. /\ D \in Promises /\ D \notin 1..Sources /\ 1..n \subseteq 1..Sources /\ 1..Sources \subseteq Promises
      /\ n \in Nat /\ (n > 0 => 1 \in 1..n)
  BY <1>0, PrNumbers
<1>4. SourceOutcomes'
  <2>1. \A s \in 1..Sources : outcome'[s] = outcome[s] \/ outcome'[s] \in {"value", "reason"}
    <3>1. ASSUME NEW p \in 1..n, NEW a \in {"value", "reason"}, SettleSource(p, a)
          PROVE  \A s \in 1..Sources : outcome'[s] = outcome[s] \/ outcome'[s] \in {"value", "reason"}
      BY <1>0, <1>3, <3>1 DEF SettleSource, PrTypeOK
    <3>2. CASE Executor
      <4>1. ASSUME NEW a, Settle(a) PROVE \A s \in 1..Sources : outcome'[s] = outcome[s]
        BY <1>0, <1>3, <4>1 DEF Settle, PrTypeOK
      <4> QED BY <3>2, <4>1 DEF Executor, NoSources, SettleThen, SettleAll, SettleRace, SettleAny,
                 SettleContext, CountError
    <3>3. CASE Monitor \/ UNCHANGED prVars BY <3>3 DEF Monitor, MonitorErr, MonitorClose, prVars
    <3>4. ASSUME NEW x, CancelContext(x) PROVE outcome' = outcome BY <3>4 DEF CancelContext
    <3>5. ASSUME NEW c, DoneEnter(c) \/ DoneStep(c) PROVE outcome' = outcome
      BY <3>5 DEF DoneEnter, DoneStep, DoneSettled, DoneContext, DoneStore, Answer
    <3> QED BY <3>1, <3>2, <3>3, <3>4, <3>5 DEF PrNext
  <2> QED BY <1>0, <2>1 DEF SourceOutcomes
<1>5. CASE outcome'[D] = outcome[D] /\ counted' = counted
  <2>1. /\ Fulfilled \subseteq Fulfilled' /\ GivenUp \subseteq GivenUp' /\ kind' = kind /\ n' = n
        /\ (ContextDone(D) => ContextDone(D)')
        /\ Fulfilled' \subseteq 1..n /\ GivenUp' \subseteq 1..n
    BY <1>0, <1>1, <1>3, PrKeeps DEF Onward, Fulfilled, GivenUp
  <2>2. \A s \in 1..n : done[s] \in Answers => done'[s] = done[s] BY <1>1 DEF Onward
  <2>3. NeverNil' BY <1>0, <1>5 DEF NeverNil
  <2>4. CountedGaveUp' BY <1>0, <1>5, <2>1, <2>2 DEF CountedGaveUp, Answers, Errors
  <2>5. DHonest' BY <1>0, <1>3, <1>5, <2>1, <2>2 DEF DHonest
  <2> QED BY <1>1, <1>2, <1>4, <2>1, <2>3, <2>4, <2>5 DEF PrInv
<1>6. CASE Executor /\ outcome'[D] # outcome[D]
  BY <1>1, <1>2, <1>4, <1>6, SettledHonest DEF PrInv, Onward
<1>7. ASSUME NEW s \in 1..n, CountError(s), outcome'[D] = outcome[D] PROVE PrInv'
  <2>1. /\ Fulfilled \subseteq Fulfilled' /\ GivenUp \subseteq GivenUp' /\ kind' = kind /\ n' = n
        /\ (ContextDone(D) => ContextDone(D)')
        /\ Fulfilled' \subseteq 1..n /\ GivenUp' \subseteq 1..n
    BY <1>0, <1>1, <1>3, PrKeeps DEF Onward, Fulfilled, GivenUp
  <2>2. done' = done /\ counted' = counted \cup {s} /\ done[s] \in Errors BY <1>7 DEF CountError, Settle
  <2>3. NeverNil' BY <1>0, <1>7 DEF NeverNil
  <2>4. CountedGaveUp' BY <1>0, <2>1, <2>2, AnswerMeans DEF CountedGaveUp
  <2>5. DHonest' BY <1>0, <1>3, <1>7, <2>1, <2>2 DEF DHonest
  <2> QED BY <1>1, <1>2, <1>4, <2>1, <2>3, <2>4, <2>5 DEF PrInv
<1>8. \/ outcome'[D] = outcome[D] /\ counted' = counted
      \/ Executor /\ outcome'[D] # outcome[D]
      \/ \E s \in 1..n : CountError(s) /\ outcome'[D] = outcome[D]
  <2>1. ASSUME NEW p \in 1..n, NEW a, SettleSource(p, a) PROVE outcome'[D] = outcome[D] /\ counted' = counted
    BY <1>0, <1>3, <2>1 DEF SettleSource, PrTypeOK
  <2>2. CASE Executor
    BY <2>2 DEF Executor, NoSources, SettleThen, SettleAll, SettleRace, SettleAny, SettleContext
  <2>3. CASE Monitor \/ UNCHANGED prVars BY <2>3 DEF Monitor, MonitorErr, MonitorClose, prVars
  <2>4. ASSUME NEW x, CancelContext(x) PROVE outcome' = outcome /\ counted' = counted BY <2>4 DEF CancelContext
  <2>5. ASSUME NEW c, DoneEnter(c) \/ DoneStep(c) PROVE outcome' = outcome /\ counted' = counted
    BY <2>5 DEF DoneEnter, DoneStep, DoneSettled, DoneContext, DoneStore, Answer
  <2> QED BY <2>1, <2>2, <2>3, <2>4, <2>5 DEF PrNext
<1> QED BY <1>5, <1>6, <1>7, <1>8

\* A promise made of others is settled only as its kind promises, and Done
\* answers an error only where there is one, in any order of settling,
\* cancelling and waiting, for any number of sources and readers.
THEOREM PromisesAreHonest == PrSpec => []PromiseHonest
<1>1. PrInit => PrInv
  <2> SUFFICES ASSUME PrInit PROVE PrInv OBVIOUS
  <2>1. PrTypeOK
    <3>1. Readers \cup (1..Sources) = Readers \cup (1..Sources) OBVIOUS
    <3> QED BY <3>1 DEF PrInit, PrTypeOK
  <2>2. \A c \in PrCallers : done[c] = "idle" BY <2>1, PrNumbers DEF PrInit
  <2>3. outcome[D] = "none" /\ \A s \in 1..Sources : outcome[s] = "none"
    BY <2>1, PrNumbers DEF PrInit
  <2> QED BY <2>1, <2>2, <2>3 DEF PrInit, PrInv, SourceOutcomes, TimeoutsDone, CallersHonest, DoneHonest,
       CountedGaveUp, NeverNil, DHonest, Answers, Errors
<1>2. PrInv => PromiseHonest
  <2> SUFFICES ASSUME PrInv PROVE PromiseHonest OBVIOUS
  <2>1. \A c \in PrCallers : DoneHonest(c) BY DEF PrInv, CallersHonest
  <2>2. \A p \in Promises : outcome[p] # "nil"
    BY PromisesAssumption DEF PrInv, NeverNil, SourceOutcomes, Promises, D
  <2>3. kind \in Kinds /\ DHonest BY DEF PrInv, PrTypeOK
  <2> QED BY <2>1, <2>2, <2>3 DEF PromiseHonest, DHonest, Kinds
<1> QED BY <1>1, <1>2, PrStep, PTL DEF PrSpec

-----------------------------------------------------------------------------
(* The deduplicator: what an entry in use is for never changes, and one     *)
(* that is open has a call that will fill it.                               *)

DdTypes ==
    /\ clock \in Nat /\ window \in Nat
    /\ entries \in [Requests -> Entry \cup {0}]
    /\ cell \in [Entry -> [request : Requests \cup {"none"}, expireAt : Nat,
                           state : {"open", "done", "lost"}]]
    /\ ask \in [Askers -> [at : {"idle", "wait", "fetch"}, r : Requests \cup {"none"}, e : Entry \cup {0}]]
IdleHasNone == \A a \in Askers : ask[a].at = "idle" => ask[a].e = 0
CallsMatch ==
    \A a \in Askers : ask[a].at # "idle" => ask[a].e \in Entry /\ cell[ask[a].e].request = ask[a].r
TableMatches == \A r \in Requests : entries[r] # 0 => cell[entries[r]].request = r
HasCall(e) == \E b \in Askers : ask[b].at = "fetch" /\ ask[b].e = e
OpenHasCall == \A e \in Referenced : e # 0 /\ cell[e].state = "open" => HasCall(e)
TableLimited == Cardinality(InTable(entries)) <= MaxCacheSize
DdInv == DdTypes /\ IdleHasNone /\ CallsMatch /\ TableMatches /\ OpenHasCall /\ TableLimited

\* The table is finite, and what is in a part of it is in it.
LEMMA TableFinite ==
    ASSUME NEW f PROVE  IsFiniteSet(InTable(f)) /\ Cardinality(InTable(f)) \in Nat
<1>1. InTable(f) \in SUBSET Requests BY DEF InTable
<1>2. IsFiniteSet(InTable(f)) BY <1>1, FS_Subset, DedupAssumption
<1> QED BY <1>2, FS_CardinalityType

\* Whatever cleanup takes out, the table is within its limit again.
LEMMA CleanedIsWithin ==
    ASSUME NEW f \in [Requests -> Entry \cup {0}], NEW late, NEW g \in CleanedUp(f, late),
           Cardinality(InTable(f)) <= MaxCacheSize + 1
    PROVE  /\ g \in [Requests -> Entry \cup {0}] /\ \A r \in Requests : g[r] \in {f[r], 0}
           /\ Cardinality(InTable(g)) <= MaxCacheSize
<1>0. MaxCacheSize \in Nat /\ MaxCacheSize > 0 BY DedupAssumption
<1>1. CASE Cardinality(InTable(f)) <= MaxCacheSize
  <2>1. g = f BY <1>1 DEF CleanedUp
  <2> QED BY <1>1, <2>1
<1>2. CASE ~(Cardinality(InTable(f)) <= MaxCacheSize)
  <2>1. PICK S \in ExpiredOf(f, late) :
            g \in (LET h == WithoutThem(f, S) IN
                   IF Cardinality(InTable(h)) <= MaxCacheSize THEN {h}
                   ELSE {WithoutThem(h, T) : T \in FSE!kSubset(HalfOf(h), InTable(h))})
    BY <1>2 DEF CleanedUp
  <2> DEFINE h == WithoutThem(f, S)
  <2>2. h \in [Requests -> Entry \cup {0}] /\ \A r \in Requests : h[r] \in {f[r], 0} BY DEF WithoutThem
  <2>3. InTable(h) \in SUBSET InTable(f) BY <2>2 DEF InTable
  <2>4. Cardinality(InTable(h)) <= MaxCacheSize + 1
    <3>1. Cardinality(InTable(h)) <= Cardinality(InTable(f)) BY <2>3, TableFinite, FS_Subset
    <3> HIDE DEF h
    <3>2. Cardinality(InTable(h)) \in Nat /\ Cardinality(InTable(f)) \in Nat BY TableFinite
    <3> QED BY ONLY <1>0, <3>1, <3>2, Cardinality(InTable(f)) <= MaxCacheSize + 1
  <2>5. CASE Cardinality(InTable(h)) <= MaxCacheSize
    <3>1. g = h BY <2>1, <2>5
    <3> QED BY <2>2, <2>5, <3>1
  <2>6. CASE ~(Cardinality(InTable(h)) <= MaxCacheSize)
    <3>1. PICK T \in FSE!kSubset(HalfOf(h), InTable(h)) : g = WithoutThem(h, T) BY <2>1, <2>6
    <3> HIDE DEF h
    <3>2. T \in SUBSET InTable(h) /\ Cardinality(T) = HalfOf(h)
      <4>1. T \in SUBSET InTable(h) /\ FSE!Cardinality(T) = HalfOf(h) BY DEF FSE!kSubset
      <4>2. FSE!Cardinality(T) = Cardinality(T) BY DEF FSE!Cardinality, Cardinality
      <4> QED BY <4>1, <4>2
    <3> DEFINE m == Cardinality(InTable(h))
    <3>3. m \in Nat /\ IsFiniteSet(InTable(h)) BY TableFinite
    <3>4. HalfOf(h) = m \div 2 BY DEF HalfOf
    <3>5. g \in [Requests -> Entry \cup {0}] /\ \A r \in Requests : g[r] \in {h[r], 0}
      BY <2>2, <3>1 DEF WithoutThem
    <3>6. InTable(g) \cup T = InTable(h) /\ InTable(g) \cap T = {} /\ InTable(g) \in SUBSET InTable(h)
      BY <2>2, <3>1, <3>2 DEF WithoutThem, InTable
    <3>7. IsFiniteSet(T) BY <3>2, <3>3, FS_Subset
    <3>8. Cardinality(InTable(h)) = Cardinality(InTable(g)) + Cardinality(T) - Cardinality(InTable(g) \cap T)
      BY <3>6, <3>7, TableFinite, FS_Union
    <3>9. Cardinality(InTable(g) \cap T) = 0 BY <3>6, FS_EmptySet
    <3>10. Cardinality(InTable(g)) \in Nat BY TableFinite
    <3> DEFINE k == Cardinality(InTable(g))
    <3>11. m = k + (m \div 2) - 0 /\ ~(m <= MaxCacheSize) /\ m <= MaxCacheSize + 1 /\ k \in Nat
      BY <2>4, <2>6, <3>2, <3>4, <3>8, <3>9, <3>10
    <3> HIDE DEF m, k
    <3>12. k <= MaxCacheSize BY ONLY <1>0, <3>3, <3>11
    <3> QED BY <2>2, <3>5, <3>12 DEF k
  <2> QED BY <2>5, <2>6
<1> QED BY <1>1, <1>2

\* Who asks for nothing leaves an entry free: there are as many as could be used.
LEMMA OneIsFree ==
    ASSUME DdTypes, NEW a \in Askers, ask[a].e = 0
    PROVE  \E x \in Entry : x \notin Referenced
<1> DEFINE R == Requests
           O == Askers \ {a}
           E1 == {entries[r] : r \in R}
           E2 == {ask[b].e : b \in O}
           nr == Cardinality(R)
           na == Cardinality(Askers)
<1>1. IsFiniteSet(R) /\ IsFiniteSet(Askers) /\ nr \in Nat /\ na \in Nat
  BY DedupAssumption, FS_CardinalityType
<1>2. IsFiniteSet(O) /\ Cardinality(O) = na - 1 BY <1>1, FS_RemoveElement
<1>3. IsFiniteSet(E1) /\ Cardinality(E1) <= nr
  <2> DEFINE f == [r \in R |-> entries[r]]
  <2>1. f \in Surjection(R, E1) BY DEF Surjection
  <2> HIDE DEF f, E1
  <2> QED BY <1>1, <2>1, FS_Surjection
<1>4. IsFiniteSet(E2) /\ Cardinality(E2) <= na - 1
  <2> DEFINE f == [b \in O |-> ask[b].e]
  <2>1. f \in Surjection(O, E2) BY DEF Surjection
  <2> HIDE DEF f, E2, O
  <2> QED BY <1>2, <2>1, FS_Surjection
<1>5. IsFiniteSet(Entry) /\ Cardinality(Entry) = nr + na /\ 0 \notin Entry
  <2>1. Entry = 1..(nr + na) BY DEF Entry
  <2> HIDE DEF nr, na
  <2>2. nr + na \in Nat /\ nr + na \in Int /\ 1 \in Int BY <1>1
  <2>3. IsFiniteSet(1..(nr + na)) /\ Cardinality(1..(nr + na)) = IF 1 > nr + na THEN 0 ELSE (nr + na) - 1 + 1
    BY <2>2, FS_Interval
  <2>4. (IF 1 > nr + na THEN 0 ELSE (nr + na) - 1 + 1) = nr + na /\ 0 \notin 1..(nr + na) BY ONLY <2>2
  <2> QED BY <2>1, <2>3, <2>4
<1>6. Referenced \subseteq E1 \cup E2 \cup {0} BY DEF Referenced
<1>7. CASE Entry \subseteq Referenced
  <2>1. Entry \in SUBSET (E1 \cup E2) BY <1>5, <1>6, <1>7
  <2> HIDE DEF E1, E2
  <2>2. IsFiniteSet(E1 \cup E2) /\ Cardinality(E1 \cup E2) = Cardinality(E1) + Cardinality(E2) - Cardinality(E1 \cap E2)
    BY <1>3, <1>4, FS_Union
  <2>3. Cardinality(E1 \cap E2) \in Nat /\ Cardinality(E1) \in Nat /\ Cardinality(E2) \in Nat
        /\ Cardinality(E1 \cup E2) \in Nat
    <3>1. E1 \cap E2 \in SUBSET E1 OBVIOUS
    <3>2. IsFiniteSet(E1 \cap E2) BY <1>3, <3>1, FS_Subset
    <3> QED BY <1>3, <1>4, <2>2, <3>2, FS_CardinalityType
  <2>4. Cardinality(Entry) <= Cardinality(E1 \cup E2) BY <2>1, <2>2, FS_Subset
  <2> HIDE DEF nr, na
  <2> QED BY ONLY <1>1, <1>3, <1>4, <1>5, <2>2, <2>3, <2>4
<1> QED BY <1>7

LEMMA DdStep == DdInv /\ [DdNext]_ddVars => DdInv'
<1> SUFFICES ASSUME DdInv, [DdNext]_ddVars PROVE DdInv' OBVIOUS
<1>0. /\ DdTypes /\ IdleHasNone /\ CallsMatch /\ TableMatches /\ OpenHasCall /\ TableLimited
      /\ MaxCacheSize \in Nat /\ Windows \subseteq Nat
  BY DedupAssumption DEF DdInv
<1>00. 0 \notin Entry
  <2>1. Cardinality(Requests) + Cardinality(Askers) \in Nat BY DedupAssumption, FS_CardinalityType
  <2> QED BY <2>1 DEF Entry
<1> DEFINE Cells == [request : Requests \cup {"none"}, expireAt : Nat, state : {"open", "done", "lost"}]
<1>b. Blank \in Cells BY DEF Blank
<1>q. Quiet.at = "idle" /\ Quiet.e = 0 /\ Quiet.r = "none" BY DEF Quiet
\* A step that takes something out of use, and fills in an entry perhaps.
<1>1. ASSUME NEW c \in [Entry -> Cells],
             UNCHANGED <<clock, window>>, Collected(c),
             entries' \in [Requests -> Entry \cup {0}], \A r \in Requests : entries'[r] \in {entries[r], 0},
             ask' \in [Askers -> [at : {"idle", "wait", "fetch"}, r : Requests \cup {"none"}, e : Entry \cup {0}]],
             \A b \in Askers : ask'[b] \in {ask[b], Quiet},
             \A e \in Entry : /\ c[e].request = cell[e].request
                              /\ c[e].state = "open" => /\ cell[e].state = "open"
                                                        /\ \A b \in Askers : ask[b].at = "fetch" /\ ask[b].e = e => ask'[b] = ask[b]
      PROVE  DdInv'
  <2>1. Entry' = Entry BY DEF Entry
  <2>2. \A e \in Referenced' : e = 0 \/ (e \in Referenced /\ e \in Entry)
    BY <1>0, <1>1, <1>q DEF Referenced, DdTypes
  <2>3. cell' \in [Entry -> Cells] /\ \A e \in Entry : e \in Referenced' => cell'[e] = c[e]
    BY <1>1, <1>b DEF Collected
  <2>4. DdTypes' BY <1>0, <1>1, <2>1, <2>3 DEF DdTypes
  <2>5. IdleHasNone' BY <1>0, <1>1, <1>q DEF IdleHasNone
  <2>6. CallsMatch'
    <3>1. ASSUME NEW b \in Askers, ask'[b].at # "idle"
          PROVE  ask'[b].e \in Entry /\ cell'[ask'[b].e].request = ask'[b].r
      <4>1. ask'[b] = ask[b] BY <1>1, <1>q, <3>1
      <4>2. ask[b].e \in Entry /\ cell[ask[b].e].request = ask[b].r BY <1>0, <3>1, <4>1 DEF CallsMatch
      <4>3. ask'[b].e \in Referenced' BY DEF Referenced
      <4> QED BY <1>1, <2>3, <4>1, <4>2, <4>3
    <3> QED BY <2>1, <3>1 DEF CallsMatch
  <2>7. TableMatches'
    <3>1. ASSUME NEW r \in Requests, entries'[r] # 0 PROVE cell'[entries'[r]].request = r
      <4>1. entries'[r] = entries[r] /\ entries'[r] \in Entry /\ entries'[r] \in Referenced'
        BY <1>1, <3>1 DEF Referenced
      <4>2. cell[entries[r]].request = r BY <1>0, <3>1, <4>1 DEF TableMatches
      <4> QED BY <1>1, <2>3, <4>1, <4>2
    <3> QED BY <3>1 DEF TableMatches
  <2>8. OpenHasCall'
    <3>1. ASSUME NEW e \in Referenced', e # 0, cell'[e].state = "open" PROVE HasCall(e)'
      <4>1. e \in Referenced /\ e \in Entry BY <2>2, <3>1
      <4>2. c[e].state = "open" BY <2>3, <3>1, <4>1
      <4>3. cell[e].state = "open" BY <1>1, <4>1, <4>2
      <4>4. PICK b \in Askers : ask[b].at = "fetch" /\ ask[b].e = e
        BY <1>0, <3>1, <4>1, <4>3 DEF OpenHasCall, HasCall
      <4>5. ask'[b] = ask[b] BY <1>1, <4>1, <4>2, <4>4
      <4> QED BY <4>4, <4>5 DEF HasCall
    <3> QED BY <3>1 DEF OpenHasCall
  <2>9. TableLimited'
    <3>1. InTable(entries') \in SUBSET InTable(entries) BY <1>1 DEF InTable
    <3>2. Cardinality(InTable(entries')) <= Cardinality(InTable(entries)) BY <3>1, TableFinite, FS_Subset
    <3>3. Cardinality(InTable(entries')) \in Nat /\ Cardinality(InTable(entries)) \in Nat BY TableFinite
    <3>4. InTable(entries)' = InTable(entries') BY DEF InTable
    <3> QED BY <1>0, <3>2, <3>3, <3>4 DEF TableLimited
  <2> QED BY <2>4, <2>5, <2>6, <2>7, <2>8, <2>9 DEF DdInv
<1>2. ASSUME NEW a \in Askers, NEW r \in Requests, Join(a, r) PROVE DdInv'
  <2> DEFINE x == entries[r]
             s == [at |-> "wait", r |-> r, e |-> x]
  <2>1. x # 0 /\ x \in Entry /\ x \in Referenced BY <1>0, <1>2 DEF Join, InDate, DdTypes, Referenced
  <2>2. /\ ask' = [ask EXCEPT ![a] = s] /\ ask[a].at = "idle"
        /\ UNCHANGED <<clock, window, entries, cell>>
    BY <1>2 DEF Join
  <2>3. DdTypes' BY <1>0, <2>1, <2>2 DEF DdTypes, Entry
  <2>4. ask'[a] = s /\ \A b \in Askers : b # a => ask'[b] = ask[b] BY <1>0, <2>2 DEF DdTypes
  <2>5. s.at = "wait" /\ s.r = r /\ s.e = x OBVIOUS
  <2>6. cell[x].request = r BY <1>0, <2>1 DEF TableMatches
  <2> HIDE DEF x, s
  <2>7. IdleHasNone' BY <1>0, <2>4, <2>5 DEF IdleHasNone
  <2>8. CallsMatch' BY <1>0, <2>1, <2>2, <2>4, <2>5, <2>6 DEF CallsMatch, Entry
  <2>9. TableMatches' /\ TableLimited' BY <1>0, <2>2 DEF TableMatches, TableLimited, InTable
  <2>10. OpenHasCall'
    <3>1. \A e \in Referenced' : e \in Referenced BY <2>1, <2>2, <2>4, <2>5 DEF Referenced
    <3>2. \A e : HasCall(e) => HasCall(e)' BY <2>2, <2>4 DEF HasCall
    <3> QED BY <1>0, <2>2, <3>1, <3>2 DEF OpenHasCall
  <2> QED BY <2>3, <2>7, <2>8, <2>9, <2>10 DEF DdInv
<1>3. ASSUME NEW a \in Askers, NEW r \in Requests, Fetch(a, r) PROVE DdInv'
  <2> DEFINE e == CHOOSE x \in Entry : x \notin Referenced
             f == [entries EXCEPT ![r] = e]
             late == {x \in InTable(f) : x # r /\ Late(f[x])}
             z == [request |-> r, expireAt |-> clock + window, state |-> "open"]
             c == [cell EXCEPT ![e] = z]
             s == [at |-> "fetch", r |-> r, e |-> e]
  <2>1. /\ ask[a].at = "idle" /\ entries' \in CleanedUp(f, late)
        /\ ask' = [ask EXCEPT ![a] = s] /\ Collected(c) /\ UNCHANGED <<clock, window>>
    BY <1>3 DEF Fetch
  <2>2. e \in Entry /\ e \notin Referenced BY <1>0, <2>1, OneIsFree DEF IdleHasNone
  <2> HIDE DEF e
  <2>3. f \in [Requests -> Entry \cup {0}] /\ f[r] = e /\ \A x \in Requests : x # r => f[x] = entries[x]
    BY <1>0, <2>2 DEF DdTypes
  <2>4. c \in [Entry -> Cells] /\ c[e] = z /\ \A x \in Entry : x # e => c[x] = cell[x]
    <3>1. z \in Cells BY <1>0 DEF DdTypes
    <3> QED BY <1>0, <2>2, <3>1 DEF DdTypes
  <2>5. z.request = r /\ s.at = "fetch" /\ s.r = r /\ s.e = e OBVIOUS
  <2>6. Cardinality(InTable(f)) <= MaxCacheSize + 1
    <3>1. InTable(f) = InTable(entries) \cup {r} BY <1>00, <2>2, <2>3 DEF InTable
    <3> HIDE DEF f
    <3>2. Cardinality(InTable(f)) = IF r \in InTable(entries) THEN Cardinality(InTable(entries))
                                    ELSE Cardinality(InTable(entries)) + 1
      BY <3>1, TableFinite, FS_AddElement
    <3>3. Cardinality(InTable(entries)) \in Nat BY TableFinite
    <3> QED BY <1>0, <3>2, <3>3 DEF TableLimited
  <2> HIDE DEF f, late, c
  <2>7. /\ entries' \in [Requests -> Entry \cup {0}] /\ \A x \in Requests : entries'[x] \in {f[x], 0}
        /\ Cardinality(InTable(entries')) <= MaxCacheSize
    BY <2>1, <2>3, <2>6, CleanedIsWithin
  <2>8. ask'[a] = s /\ \A b \in Askers : b # a => ask'[b] = ask[b] BY <1>0, <2>1 DEF DdTypes
  <2>9. cell' \in [Entry -> Cells] /\ \A x \in Entry : x \in Referenced' => cell'[x] = c[x]
    BY <1>b, <2>1, <2>4 DEF Collected
  <2>10. DdTypes'
    <3>1. s \in [at : {"idle", "wait", "fetch"}, r : Requests \cup {"none"}, e : Entry \cup {0}] BY <2>2
    <3> HIDE DEF s
    <3>2. ask' \in [Askers -> [at : {"idle", "wait", "fetch"}, r : Requests \cup {"none"}, e : Entry \cup {0}]]
      BY <1>0, <2>1, <3>1 DEF DdTypes
    <3> QED BY <1>0, <2>1, <2>7, <2>9, <3>2 DEF DdTypes, Entry
  <2> HIDE DEF s, z
  <2>11. IdleHasNone' BY <1>0, <2>5, <2>8 DEF IdleHasNone
  <2>12. CallsMatch'
    <3>1. ASSUME NEW b \in Askers, ask'[b].at # "idle"
          PROVE  ask'[b].e \in Entry /\ cell'[ask'[b].e].request = ask'[b].r
      <4>1. ask'[b].e \in Referenced' BY DEF Referenced
      <4>2. CASE b = a BY <2>2, <2>4, <2>5, <2>8, <2>9, <4>1, <4>2
      <4>3. CASE b # a
        <5>1. ask[b].e \in Entry /\ cell[ask[b].e].request = ask[b].r /\ ask'[b] = ask[b]
          BY <1>0, <2>8, <3>1, <4>3 DEF CallsMatch
        <5>2. ask[b].e # e BY <2>2 DEF Referenced
        <5> QED BY <2>4, <2>9, <4>1, <5>1, <5>2
      <4> QED BY <4>2, <4>3
    <3> QED BY <3>1 DEF CallsMatch, Entry
  <2>13. TableMatches'
    <3>1. ASSUME NEW x \in Requests, entries'[x] # 0 PROVE cell'[entries'[x]].request = x
      <4>1. entries'[x] = f[x] /\ entries'[x] \in Entry /\ entries'[x] \in Referenced'
        BY <2>7, <3>1 DEF Referenced
      <4>2. CASE x = r BY <2>3, <2>4, <2>5, <2>9, <4>1, <4>2
      <4>3. CASE x # r
        <5>1. f[x] = entries[x] /\ entries[x] # e BY <2>2, <2>3, <4>3 DEF Referenced
        <5>2. cell[entries[x]].request = x BY <1>0, <3>1, <4>1, <5>1 DEF TableMatches
        <5> QED BY <2>4, <2>9, <4>1, <5>1, <5>2
      <4> QED BY <4>2, <4>3
    <3> QED BY <3>1 DEF TableMatches
  <2>14. OpenHasCall'
    <3>1. ASSUME NEW x \in Referenced', x # 0, cell'[x].state = "open" PROVE HasCall(x)'
      <4>1. CASE x = e BY <2>5, <2>8, <4>1 DEF HasCall
      <4>2. CASE x # e
        <5>1. x \in Referenced
          BY <2>3, <2>5, <2>7, <2>8, <3>1, <4>2 DEF Referenced
        <5>2. x \in Entry BY <1>0, <3>1, <5>1 DEF Referenced, DdTypes
        <5>3. cell[x].state = "open" BY <2>4, <2>9, <3>1, <4>2, <5>2
        <5>4. PICK b \in Askers : ask[b].at = "fetch" /\ ask[b].e = x
          BY <1>0, <3>1, <5>1, <5>3 DEF OpenHasCall, HasCall
        <5>5. b # a BY <2>1, <5>4
        <5> QED BY <2>8, <5>4, <5>5 DEF HasCall
      <4> QED BY <4>1, <4>2
    <3> QED BY <3>1 DEF OpenHasCall
  <2>15. TableLimited' BY <2>7 DEF TableLimited, InTable
  <2> QED BY <2>10, <2>11, <2>12, <2>13, <2>14, <2>15 DEF DdInv
<1>4. ASSUME NEW a \in Askers, NEW v \in {"done", "lost"}, ask[a].at = "fetch",
             ask' = [ask EXCEPT ![a] = Quiet], UNCHANGED <<clock, window, entries>>,
             Collected([cell EXCEPT ![ask[a].e].state = v])
      PROVE  DdInv'
  <2> DEFINE e == ask[a].e
             c == [cell EXCEPT ![e].state = v]
  <2>1. e \in Entry BY <1>0, <1>4 DEF CallsMatch
  <2>2. ask'[a] = Quiet /\ \A b \in Askers : b # a => ask'[b] = ask[b] BY <1>0, <1>4 DEF DdTypes
  <2>3. Quiet \in [at : {"idle", "wait", "fetch"}, r : Requests \cup {"none"}, e : Entry \cup {0}] BY DEF Quiet
  <2>4. ask' \in [Askers -> [at : {"idle", "wait", "fetch"}, r : Requests \cup {"none"}, e : Entry \cup {0}]]
    BY <1>0, <1>4, <2>3 DEF DdTypes
  <2>c. Collected(c) BY <1>4
  <2> HIDE DEF e
  <2>5. c \in [Entry -> Cells] /\ c[e].state = v /\ c[e].request = cell[e].request
        /\ \A x \in Entry : x # e => c[x] = cell[x]
    BY <1>0, <1>4, <2>1 DEF DdTypes
  <2> HIDE DEF c
  <2>6. \A x \in Entry : /\ c[x].request = cell[x].request
                         /\ c[x].state = "open" => /\ cell[x].state = "open"
                                                   /\ \A b \in Askers : ask[b].at = "fetch" /\ ask[b].e = x => ask'[b] = ask[b]
    BY <1>4, <2>2, <2>5 DEF e
  <2>7. /\ entries' \in [Requests -> Entry \cup {0}] /\ \A r \in Requests : entries'[r] \in {entries[r], 0}
        /\ \A b \in Askers : ask'[b] \in {ask[b], Quiet}
    BY <1>0, <1>4, <2>2 DEF DdTypes
  <2> QED BY <1>1, <1>4, <2>c, <2>4, <2>5, <2>6, <2>7
<1>5. ASSUME NEW a \in Askers, Answered(a) \/ Panics(a) PROVE DdInv'
  BY <1>4, <1>5 DEF Answered, Answering, Panics
<1>6. ASSUME NEW a \in Askers, Shared(a) PROVE DdInv'
  <2>1. /\ ask[a].at = "wait" /\ ask' = [ask EXCEPT ![a] = Quiet]
        /\ UNCHANGED <<clock, window, entries>> /\ Collected(cell)
    BY <1>6 DEF Shared
  <2>2. ask'[a] = Quiet /\ \A b \in Askers : b # a => ask'[b] = ask[b] BY <1>0, <2>1 DEF DdTypes
  <2>3. Quiet \in [at : {"idle", "wait", "fetch"}, r : Requests \cup {"none"}, e : Entry \cup {0}] BY DEF Quiet
  <2>4. ask' \in [Askers -> [at : {"idle", "wait", "fetch"}, r : Requests \cup {"none"}, e : Entry \cup {0}]]
    BY <1>0, <2>1, <2>3 DEF DdTypes
  <2>5. /\ cell \in [Entry -> Cells]
        /\ entries' \in [Requests -> Entry \cup {0}] /\ \A r \in Requests : entries'[r] \in {entries[r], 0}
        /\ \A b \in Askers : ask'[b] \in {ask[b], Quiet}
        /\ \A b \in Askers : ask[b].at = "fetch" => ask'[b] = ask[b]
    BY <1>0, <2>1, <2>2 DEF DdTypes
  <2> QED BY <1>1, <2>1, <2>4, <2>5
<1>7. CASE DdClear
  <2>1. /\ entries' = [r \in Requests |-> 0] /\ UNCHANGED <<clock, window, ask>> /\ Collected(cell)
    BY <1>7 DEF DdClear
  <2>2. /\ cell \in [Entry -> Cells]
        /\ entries' \in [Requests -> Entry \cup {0}] /\ \A r \in Requests : entries'[r] \in {entries[r], 0}
        /\ \A b \in Askers : ask'[b] = ask[b]
        /\ ask' \in [Askers -> [at : {"idle", "wait", "fetch"}, r : Requests \cup {"none"}, e : Entry \cup {0}]]
    BY <1>0, <2>1 DEF DdTypes
  <2> QED BY <1>1, <2>1, <2>2
<1>8. ASSUME NEW w \in Windows, SetWindow(w) \/ DdTick \/ UNCHANGED ddVars PROVE DdInv'
  <2>1. UNCHANGED <<entries, cell, ask>> /\ clock' \in Nat /\ window' \in Nat
    BY <1>0, <1>8 DEF SetWindow, DdTick, ddVars, DdTypes
  <2>2. DdTypes' BY <1>0, <2>1 DEF DdTypes, Entry
  <2>3. IdleHasNone' /\ CallsMatch' /\ TableMatches' /\ TableLimited'
    BY <1>0, <2>1 DEF IdleHasNone, CallsMatch, TableMatches, TableLimited, InTable, Entry
  <2>4. OpenHasCall' BY <1>0, <2>1 DEF OpenHasCall, HasCall, Referenced
  <2> QED BY <2>2, <2>3, <2>4 DEF DdInv
<1>9. \E w \in Windows : TRUE BY DedupAssumption
<1> QED BY <1>2, <1>3, <1>5, <1>6, <1>7, <1>8, <1>9 DEF DdNext

\* One who waits in the deduplicator waits for an answer to its own request,
\* which a call is still making unless that has panicked, and the table keeps
\* to its limit: for any callers, requests, windows and limit.
THEOREM DedupIsSound == DdSpec => []DedupSound
<1>1. DdInit => DdInv
  <2> SUFFICES ASSUME DdInit PROVE DdInv OBVIOUS
  <2>1. entries = [r \in Requests |-> 0] /\ ask = [a \in Askers |-> Quiet]
        /\ cell = [e \in Entry |-> Blank] /\ clock = 0 /\ window \in Nat
    BY DedupAssumption DEF DdInit
  <2>2. DdTypes BY <2>1 DEF DdTypes, Quiet, Blank
  <2>3. \A a \in Askers : ask[a].at = "idle" /\ ask[a].e = 0 BY <2>1 DEF Quiet
  <2>4. \A e \in Referenced : e = 0 BY <2>1, <2>3 DEF Referenced
  <2>5. TableLimited
    <3>1. InTable(entries) = {} BY <2>1 DEF InTable
    <3> QED BY <3>1, FS_EmptySet, DedupAssumption DEF TableLimited
  <2>6. TableMatches BY <2>1 DEF TableMatches
  <2> QED BY <2>2, <2>3, <2>4, <2>5, <2>6 DEF DdInv, IdleHasNone, CallsMatch, OpenHasCall
<1>2. DdInv => DedupSound
  <2> SUFFICES ASSUME DdInv PROVE DedupSound OBVIOUS
  <2>1. ASSUME NEW a \in Askers, ask[a].at = "wait"
        PROVE  /\ cell[ask[a].e].request = ask[a].r
               /\ cell[ask[a].e].state = "open" => \E b \in Askers : ask[b].at = "fetch" /\ ask[b].e = ask[a].e
    <3>1. ask[a].e \in Entry /\ cell[ask[a].e].request = ask[a].r BY <2>1 DEF DdInv, CallsMatch
    <3>2. ask[a].e # 0
      <4>1. Cardinality(Requests) + Cardinality(Askers) \in Nat BY DedupAssumption, FS_CardinalityType
      <4> QED BY <3>1, <4>1 DEF Entry
    <3>3. ask[a].e \in Referenced BY DEF Referenced
    <3> QED BY <3>1, <3>2, <3>3 DEF DdInv, OpenHasCall, HasCall
  <2> QED BY <2>1 DEF DdInv, TableMatches, TableLimited, DedupSound
<1> QED BY <1>1, <1>2, DdStep, PTL DEF DdSpec

-----------------------------------------------------------------------------
(* The cron table: NextTime is always the first time of the expression      *)
(* after the clock of the job's last start, or of its Add.                  *)

CjPasses == [at : {"idle", "range", "fire", "measure", "sleep", "awake", "over"}, now : Nat,
             todo : SUBSET Jobs, job : Jobs \cup {"none"}, sleep : Nat, wake : Nat]
CjTypes ==
    /\ ticks \in Nat /\ jobTable \in SUBSET Jobs /\ overlapped \in BOOLEAN
    /\ times \in [Jobs -> SUBSET Nat] /\ nextTime \in [Jobs -> Nat]
    /\ pass \in [Passers -> CjPasses] /\ ran \in [Jobs -> [due : Nat, now : Nat]]

AddedOnce == \A j \in jobTable : times[j] # {}
NextIsFirst == \A j \in Jobs : nextTime[j] = NextOf(times[j], ran[j].now)
OnePass == ~overlapped => \A p, o \in Passers : InPass(p) /\ InPass(o) => p = o
\* A pass that is to start a job has seen it due, and nobody else starts it.
FiresWhatIsDue ==
    \A p \in Passers : pass[p].at = "fire" =>
        /\ pass[p].job \in Jobs /\ times[pass[p].job] # {}
        /\ ~overlapped => DueAt(pass[p].job, pass[p].now)
\* One that is to measure has the job that it met.
MeasuresAJob == \A p \in Passers : pass[p].at = "measure" => pass[p].job \in Jobs
StartedWhenDue == ~overlapped => \A j \in Jobs : ran[j].due <= ran[j].now
CjInv == /\ CjTypes /\ AddedOnce /\ NextIsFirst /\ OnePass /\ FiresWhatIsDue /\ MeasuresAJob
         /\ StartedWhenDue

\* A set of numbers that is not empty has a least one.
LEMMA Least ==
    ASSUME NEW S \in SUBSET Nat, S # {}
    PROVE  \E x \in S : \A y \in S : x <= y
<1> DEFINE R == OpToRel(<, Nat)
<1>1. IsWellFoundedOn(R, Nat) BY NatLessThanWellFounded
<1>2. \A x, y \in Nat : x < y => <<x, y>> \in R BY DEF OpToRel
<1> HIDE DEF R
<1>3. PICK x \in S : \A y \in S : ~(<<y, x>> \in R) BY <1>1, WFMin
<1>4. \A y \in S : ~(y < x) BY <1>2, <1>3
<1> QED BY <1>4

\* NextOf finds the first time of S after t, and 0 stands for none.
LEMMA NextOfIs ==
    ASSUME NEW S \in SUBSET Nat, NEW t \in Nat
    PROVE  /\ NextOf(S, t) \in Nat
           /\ NextOf(S, t) # 0 => NextOf(S, t) \in S /\ NextOf(S, t) > t
           /\ \A x \in S : x > t => NextOf(S, t) # 0 /\ NextOf(S, t) <= x
<1>1. CASE Later(S, t) = {} BY <1>1 DEF NextOf, Later
<1>2. CASE Later(S, t) # {}
  <2> DEFINE z == NextOf(S, t)
  <2>1. \E x \in Later(S, t) : \A y \in Later(S, t) : x <= y BY <1>2, Least DEF Later
  <2>2. z \in Later(S, t) /\ \A y \in Later(S, t) : z <= y BY <1>2, <2>1 DEF NextOf
  <2> HIDE DEF z
  <2>3. z \in S /\ z \in Nat /\ z > t /\ z # 0 /\ \A x \in S : x > t => z <= x
    BY <2>2 DEF Later
  <2> QED BY <2>3 DEF z
<1> QED BY <1>1, <1>2

LEMMA CjStep == CjInv /\ [CjNext]_cjVars => CjInv'
<1> SUFFICES ASSUME CjInv, [CjNext]_cjVars PROVE CjInv' OBVIOUS
<1>0. /\ CjTypes /\ AddedOnce /\ NextIsFirst /\ OnePass /\ FiresWhatIsDue /\ MeasuresAJob /\ StartedWhenDue
      /\ Second \in Nat \ {0} /\ Horizon \in Nat
  BY CronJobsAssumption DEF CjInv
<1> USE DEF CjInv, CjTypes, CjPasses, Asleep, InPass, DueAt
<1>1. ASSUME NEW j \in Jobs, NEW S \in Times, AddJob(j, S) PROVE CjInv'
  <2>1. S \in SUBSET Nat /\ NextOf(S, ticks) \in Nat BY <1>0, CronJobsAssumption, NextOfIs
  <2>2. CjTypes' /\ UNCHANGED <<pass, overlapped>> BY <1>0, <1>1, <2>1 DEF AddJob
  <2>3. times[j] = {} /\ \A k \in Jobs : k # j => times'[k] = times[k] /\ nextTime'[k] = nextTime[k] /\ ran'[k] = ran[k]
    BY <1>0, <1>1 DEF AddJob
  <2>4. times'[j] = S /\ S # {} /\ nextTime'[j] = NextOf(S, ticks) /\ ran'[j].now = ticks /\ ran'[j].due = 0
    BY <1>0, <1>1 DEF AddJob
  <2>5. AddedOnce' BY <1>0, <1>1, <2>3, <2>4 DEF AddedOnce, AddJob
  <2>6. NextIsFirst' BY <1>0, <2>3, <2>4 DEF NextIsFirst
  <2>7. OnePass' BY <1>0, <2>2 DEF OnePass
  <2>8. FiresWhatIsDue' /\ MeasuresAJob' BY <1>0, <2>2, <2>3 DEF FiresWhatIsDue, MeasuresAJob
  <2>9. StartedWhenDue' BY <1>0, <2>2, <2>3, <2>4 DEF StartedWhenDue
  <2> QED BY <2>2, <2>5, <2>6, <2>7, <2>8, <2>9
<1>2. ASSUME NEW j, RemoveJob(j) \/ CronStop \/ CjTick PROVE CjInv'
  BY <1>0, <1>2 DEF RemoveJob, CronStop, CjTick, AddedOnce, NextIsFirst, OnePass, FiresWhatIsDue, MeasuresAJob, StartedWhenDue
\* A step of one pass that starts no job.
<1>3. ASSUME NEW p \in Passers, CjTypes', UNCHANGED <<jobTable, times, nextTime, ran>>,
             overlapped => overlapped', \A o \in Passers : o # p => pass'[o] = pass[o],
             overlapped' \/ ((InPass(p))' => InPass(p)) \/ \A o \in Passers \ {p} : ~InPass(o),
             pass'[p].at = "fire" => /\ pass'[p].job \in jobTable
                                     /\ DueAt(pass'[p].job, pass'[p].now),
             pass'[p].at = "measure" => pass'[p].job \in Jobs
      PROVE  CjInv'
  <2>1. AddedOnce' /\ NextIsFirst' /\ StartedWhenDue' BY <1>0, <1>3 DEF AddedOnce, NextIsFirst, StartedWhenDue
  <2>2. OnePass' BY <1>0, <1>3 DEF OnePass
  <2>3. FiresWhatIsDue' BY <1>0, <1>3 DEF FiresWhatIsDue, AddedOnce
  <2>4. MeasuresAJob' BY <1>0, <1>3 DEF MeasuresAJob
  <2> QED BY <1>3, <2>1, <2>2, <2>3, <2>4
<1>4. ASSUME NEW p \in Passers, PassBegins(p) PROVE CjInv'
  <2>1. PICK s \in CjPasses : pass' = [pass EXCEPT ![p] = s] /\ s.at \in {"over", "range"}
    <3>1. CASE p = "loop" /\ stopped
      <4> DEFINE s == [Asleep EXCEPT !.at = "over"]
      <4>1. s \in CjPasses /\ s.at = "over" BY <1>0
      <4>2. pass' = [pass EXCEPT ![p] = s] BY <1>4, <3>1 DEF PassBegins
      <4> HIDE DEF s
      <4> QED BY ONLY <4>1, <4>2
    <3>2. CASE ~(p = "loop" /\ stopped)
      <4> DEFINE s == [Asleep EXCEPT !.at = "range", !.now = ticks, !.todo = jobTable]
      <4>1. s \in CjPasses /\ s.at = "range" BY <1>0
      <4>2. pass' = [pass EXCEPT ![p] = s] BY <1>4, <3>2 DEF PassBegins
      <4> HIDE DEF s
      <4> QED BY ONLY <4>1, <4>2
    <3> QED BY <3>1, <3>2
  <2>2. pass'[p] = s /\ \A o \in Passers : o # p => pass'[o] = pass[o] BY <1>0, <2>1
  <2>3. /\ overlapped' \in BOOLEAN /\ (overlapped => overlapped')
        /\ overlapped' \/ ~(InPass(p))' \/ \A o \in Passers \ {p} : ~InPass(o)
    <3>1. CASE p = "loop" /\ stopped
      <4>1. overlapped' = overlapped /\ pass' = [pass EXCEPT ![p] = [Asleep EXCEPT !.at = "over"]]
        BY <1>4, <3>1 DEF PassBegins
      <4>2. pass'[p].at = "over" BY <1>0, <4>1
      <4> QED BY <1>0, <4>1, <4>2
    <3>2. CASE ~(p = "loop" /\ stopped)
      <4>1. overlapped' = (overlapped \/ \E o \in Passers \ {p} : InPass(o)) BY <1>4, <3>2 DEF PassBegins
      <4> QED BY ONLY <1>0, <4>1 DEF CjTypes
    <3> QED BY <3>1, <3>2
  <2>4. UNCHANGED <<ticks, jobTable, times, nextTime, ran>> BY <1>4 DEF PassBegins
  <2>5. CjTypes' BY <1>0, <2>1, <2>3, <2>4
  <2> QED BY <1>3, <2>1, <2>2, <2>3, <2>4, <2>5
<1>5. ASSUME NEW p \in Passers, NEW j \in Jobs, Look(p, j) PROVE CjInv'
  BY <1>0, <1>3, <1>5 DEF Look
<1>6. ASSUME NEW p \in Passers, Measure(p) PROVE CjInv'
  <2>1. nextTime[pass[p].job] - pass[p].now \in Int BY <1>0, <1>6 DEF Measure, MeasuresAJob
  <2> DEFINE left == nextTime[pass[p].job] - pass[p].now
             best == IF left > 0 /\ left < pass[p].sleep THEN left ELSE pass[p].sleep
             s == [pass[p] EXCEPT !.at = "range", !.job = "none", !.sleep = best]
  <2>2. best \in Nat BY <1>0, <2>1
  <2>3. pass' = [pass EXCEPT ![p] = s] /\ UNCHANGED <<ticks, jobTable, times, nextTime, ran, overlapped>>
    BY <1>6 DEF Measure
  <2> HIDE DEF best
  <2>4. s \in CjPasses /\ s.at = "range" BY <1>0, <2>2
  <2> HIDE DEF s
  <2>5. CjTypes' BY <1>0, <2>3, <2>4
  <2>6. InPass(p) BY <1>6 DEF Measure
  <2>7. pass'[p] = s /\ \A o \in Passers : o # p => pass'[o] = pass[o] BY <1>0, <2>3
  <2> QED BY <1>3, <2>3, <2>4, <2>5, <2>6, <2>7
<1>7. ASSUME NEW p \in Passers, PassEnds(p) PROVE CjInv'
  <2>1. Capped(ticks + pass[p].sleep) \in Nat BY <1>0 DEF Capped
  <2>2. CjTypes' BY <1>0, <1>7, <2>1 DEF PassEnds
  <2>3. pass'[p].at \in {"sleep", "idle"} /\ \A o \in Passers : o # p => pass'[o] = pass[o]
    BY <1>0, <1>7 DEF PassEnds
  <2> QED BY <1>3, <1>7, <2>2, <2>3 DEF PassEnds
<1>8. CASE Wakes
  <2>1. CASE "loop" \in Passers
    <3>1. CjTypes' BY <1>0, <1>8, <2>1 DEF Wakes
    <3>2. pass'["loop"].at = "awake" /\ \A o \in Passers : o # "loop" => pass'[o] = pass[o]
      BY <1>0, <1>8, <2>1 DEF Wakes
    <3> QED BY <1>3, <1>8, <2>1, <3>1, <3>2 DEF Wakes
  <2>2. CASE "loop" \notin Passers
    <3>1. pass' = pass BY <1>0, <1>8, <2>2 DEF Wakes
    <3> QED BY <1>0, <1>8, <3>1
           DEF Wakes, AddedOnce, NextIsFirst, OnePass, FiresWhatIsDue, MeasuresAJob, StartedWhenDue
  <2> QED BY <2>1, <2>2
<1>9. ASSUME NEW p \in Passers, FireJob(p) PROVE CjInv'
  <2> DEFINE j == pass[p].job
             t == pass[p].now
  <2>1. j \in Jobs /\ times[j] # {} /\ t \in Nat /\ (~overlapped => nextTime[j] <= t)
    BY <1>0, <1>9 DEF FireJob, FiresWhatIsDue
  <2>2. NextOf(times[j], t) \in Nat BY <1>0, <2>1, NextOfIs
  <2>3. /\ ran' = [ran EXCEPT ![j] = [due |-> nextTime[j], now |-> t]]
        /\ nextTime' = [nextTime EXCEPT ![j] = NextOf(times[j], t)]
        /\ pass' = [pass EXCEPT ![p].at = "measure"]
        /\ UNCHANGED <<ticks, jobTable, times, overlapped>>
    BY <1>9 DEF FireJob, NextFrom
  <2>4. InPass(p) BY <1>9 DEF FireJob
  <2> HIDE DEF j, t
  <2>5. CjTypes' BY <1>0, <2>1, <2>2, <2>3
  <2>6. AddedOnce' BY <1>0, <2>3 DEF AddedOnce
  <2>7. /\ \A k \in Jobs : k # j => ran'[k] = ran[k] /\ nextTime'[k] = nextTime[k]
        /\ ran'[j].due = nextTime[j] /\ ran'[j].now = t /\ nextTime'[j] = NextOf(times[j], t)
    BY <1>0, <2>1, <2>3
  <2>8. NextIsFirst' BY <1>0, <2>3, <2>7 DEF NextIsFirst
  <2>9. StartedWhenDue' BY <1>0, <2>1, <2>3, <2>7 DEF StartedWhenDue
  <2>10. /\ \A o \in Passers : o # p => pass'[o] = pass[o]
         /\ pass'[p].at = "measure" /\ pass'[p].job = j
    BY <1>0, <2>3 DEF j
  <2>11. OnePass' BY <1>0, <2>3, <2>4, <2>10 DEF OnePass
  <2>12. FiresWhatIsDue'
    <3>1. ASSUME NEW o \in Passers, pass'[o].at = "fire", ~overlapped PROVE FALSE
      <4>1. o # p /\ InPass(o) BY <2>10, <3>1
      <4> QED BY <1>0, <2>4, <3>1, <4>1 DEF OnePass
    <3> QED BY <1>0, <2>3, <2>10, <3>1 DEF FiresWhatIsDue
  <2>13. MeasuresAJob' BY <1>0, <2>1, <2>10 DEF MeasuresAJob
  <2> QED BY <2>5, <2>6, <2>8, <2>9, <2>11, <2>12, <2>13
<1>10. CASE UNCHANGED cjVars
  BY <1>0, <1>10 DEF cjVars, AddedOnce, NextIsFirst, OnePass, FiresWhatIsDue, MeasuresAJob, StartedWhenDue
<1> QED BY <1>1, <1>2, <1>4, <1>5, <1>6, <1>7, <1>8, <1>9, <1>10 DEF CjNext, PassStep

\* However jobs are added and removed, and whoever calls ForceRun, no job runs
\* before its time, twice for one, or past one that was left, unless passes
\* overlap: for any expressions, and any number of jobs and passers.
THEOREM CronRunsOnTime == CjSpec => []RunsOnTime
<1>1. CjInit => CjInv
  <2> SUFFICES ASSUME CjInit PROVE CjInv OBVIOUS
  <2>1. CjTypes BY CronJobsAssumption DEF CjInit, CjTypes, CjPasses, Asleep
  <2>2. \A j \in Jobs : nextTime[j] = 0 /\ times[j] = {} /\ ran[j].now = 0 /\ ran[j].due = 0 BY DEF CjInit
  <2>3. NextIsFirst
    <3>1. Later({}, 0) = {} BY DEF Later
    <3> QED BY <2>2, <3>1 DEF NextIsFirst, NextOf
  <2>4. \A p \in Passers : pass[p].at = "idle" BY DEF CjInit, Asleep
  <2> QED BY <2>1, <2>2, <2>3, <2>4 DEF CjInit, CjInv, AddedOnce, OnePass, InPass, FiresWhatIsDue,
       MeasuresAJob, StartedWhenDue
<1>2. CjInv => RunsOnTime
  <2> SUFFICES ASSUME CjInv, ~overlapped, NEW j \in Jobs
               PROVE  /\ ran[j].due <= ran[j].now
                      /\ nextTime[j] # 0 => nextTime[j] \in times[j] /\ nextTime[j] > ran[j].now
                      /\ \A t \in times[j] : t > ran[j].now => nextTime[j] # 0 /\ nextTime[j] <= t
    BY DEF RunsOnTime
  <2>1. times[j] \in SUBSET Nat /\ ran[j].now \in Nat BY DEF CjInv, CjTypes
  <2>2. nextTime[j] = NextOf(times[j], ran[j].now) /\ ran[j].due <= ran[j].now
    BY DEF CjInv, NextIsFirst, StartedWhenDue
  <2> QED BY <2>1, <2>2, NextOfIs
<1> QED BY <1>1, <1>2, CjStep, PTL DEF CjSpec
=============================================================================
