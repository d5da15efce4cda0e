------------------------------ MODULE MCSync ------------------------------
(***************************************************************************)
(* The components whose goroutines wait for each other, for TLC: one of    *)
(* them runs in a behaviour, chosen in the initial state, and the others   *)
(* rest.                                                                   *)
(***************************************************************************)
EXTENDS Coalescer, WaitGroup, Chan, Promises, Dedup, CronJobs, MCBalancer, MCWebRequests
SX == INSTANCE SequencesExt

VARIABLE part   \* the component that runs

Parts == {"coalescer", "waitgroup", "chan", "promises", "dedup", "cron", "balancer", "nodes", "web"}

syncVars == <<part, coVars, wgVars, chVars, prVars, ddVars, cjVars, rqVars, vars>>

SyncInit ==
    /\ part \in Parts
    /\ CoInit /\ WGInit /\ ChInit /\ Init
    /\ PrInit /\ (part = "promises" \/ (kind = "then" /\ n = 1))
    /\ DdInit /\ (part = "dedup" \/ window = CHOOSE w \in Windows : TRUE)
    /\ CjInit /\ (part = "cron" \/ crew = CHOOSE c \in Crews : TRUE)
    /\ RqInit /\ (part = "web" \/ site = CHOOSE s \in Sites : TRUE)

CoAlone == part = "coalescer" /\ UNCHANGED <<part, wgVars, chVars, prVars, ddVars, cjVars, rqVars, vars>>
WGAlone == part = "waitgroup" /\ UNCHANGED <<part, coVars, chVars, prVars, ddVars, cjVars, rqVars, vars>>
ChAlone == part = "chan" /\ UNCHANGED <<part, coVars, wgVars, prVars, ddVars, cjVars, rqVars, vars>>
PrAlone == part = "promises" /\ UNCHANGED <<part, coVars, wgVars, chVars, ddVars, cjVars, rqVars, vars>>
DdAlone == part = "dedup" /\ UNCHANGED <<part, coVars, wgVars, chVars, prVars, cjVars, rqVars, vars>>
CjAlone == part = "cron" /\ UNCHANGED <<part, coVars, wgVars, chVars, prVars, ddVars, rqVars, vars>>
BaAlone == UNCHANGED <<part, coVars, wgVars, chVars, prVars, ddVars, cjVars, rqVars>>
RqAlone == part = "web" /\ UNCHANGED <<part, coVars, wgVars, chVars, prVars, ddVars, cjVars, vars>>

\* The contexts given to a combined promise are all alike: they are canceled in one order.
ParentsInOrder == \A x \in canceled \cap Parents : \A y \in Parents : y < x => y \in canceled

SyncNext ==
    \/ CoAlone /\ CoNext
    \/ WGAlone /\ WGNext
    \/ ChAlone /\ ChNext
    \/ PrAlone /\ PrNext /\ ParentsInOrder'
    \/ DdAlone /\ DdNext
    \/ CjAlone /\ CjNext
    \/ part = "balancer" /\ BaAlone /\ CallsNext
    \/ part = "nodes" /\ BaAlone /\ NodesNext
    \/ RqAlone /\ RqNext

(* The fairness that the modules state, of one goroutine in each formula:  *)
(* as the part never changes, the i-th goroutines of the components can    *)
(* share one.                                                              *)
CallerSeq == SX!SetToSeq(Callers)
TaskSeq == SX!SetToSeq(Tasks)
DoneSeq == SX!SetToSeq(Readers \cup (1..Sources))
ReaderSeq == SX!SetToSeq(Readers)
AskerSeq == SX!SetToSeq(Askers)
JobSeq == SX!SetToSeq(Jobs)
RunnerSeq == SX!SetToSeq(Runners)
VisitSeq == SX!SetToSeq(Visits)
ProcSeq == SX!SetToSeq(Procs)
Nth(seq, i) == IF i \in DOMAIN seq THEN {seq[i]} ELSE {}

Goroutine(i) ==
    /\ part' = part
    /\ \/ part = "coalescer" /\ \E c \in Nth(CallerSeq, i) : CoStep(c)
       \/ part = "waitgroup" /\ i = 1 /\ WGMainStep
       \/ part = "waitgroup" /\ \E t \in Nth(TaskSeq, i - 1) : WGTaskStep(t)
       \/ part = "chan" /\ ((i = 1 /\ ChPump) \/ (i = 2 /\ ChClose) \/ (i = 3 /\ Recv))
       \/ part = "promises" /\ ((i = 1 /\ Executor) \/ (i = 2 /\ Monitor))
       \/ part = "promises" /\ \E c \in Nth(DoneSeq, i - 2) : DoneStep(c)
       \/ part = "dedup" /\ \E a \in Nth(AskerSeq, i) : DdAskerStep(a)
       \/ part = "cron" /\ ((i = 1 /\ LoopStep) \/ (i = 2 /\ CjTick))
       \/ part = "balancer" /\ \E r \in Nth(RunnerSeq, i) : RunStep(r)
       \/ part = "web" /\ \E p \in Nth(ProcSeq, i) : RqGoes(p)
PartVars ==
    CASE part = "coalescer" -> coVars [] part = "waitgroup" -> wgVars [] part = "chan" -> chVars
      [] part = "promises" -> prVars [] part = "dedup" -> ddVars [] part = "cron" -> cjVars
      [] part \in {"balancer", "nodes"} -> vars [] part = "web" -> rqVars

SyncFairSpec == SyncInit /\ [][SyncNext]_syncVars /\ \A i \in 1..5 : WF_PartVars(Goroutine(i))

-----------------------------------------------------------------------------
\* The variables of the components that have a type invariant keep to their types; dedup,
\* cron and web have none.
SyncTypes ==
    CASE part = "coalescer" -> CoTypeOK
      [] part = "waitgroup" -> WGTypeOK
      [] part = "chan" -> ChTypeOK
      [] part = "promises" -> PrTypeOK
      [] part \in {"balancer", "nodes"} -> TypeOK
      [] OTHER -> TRUE

\* What somebody waits for, and that it has come: one line for each thing.
Awaited(i) ==
    \* a mark that a call left in the coalescer before fn returned
    \/ part = "coalescer" /\ i = 1 /\ pending > 0 /\ CoAt("swap") # {} /\ owed # {}
    \* the end of WaitGroup.Wait
    \/ part = "waitgroup" /\ i = 1 /\ main = "wait"
    \* values that a Chan has accepted; the end of a closed one
    \/ part = "chan" /\ ((i = 1 /\ OnTheWay # <<>>) \/ (i = 2 /\ closing = "flag"))
    \* the outcome of a combined promise, and the return of Done
    \/ part = "promises" /\ i = 1 /\ \/ \A s \in 1..n : outcome[s] # "none"
                                     \/ kind \in {"race", "any"} /\ canceled \cap Parents # {}
    \/ part = "promises" /\ \E r \in Nth(ReaderSeq, i - 1) :
          done[r] = "select" /\ (outcome[D] # "none" \/ ContextDone(D))
    \* the answer of a request that another makes
    \/ part = "dedup" /\ \E a \in Nth(AskerSeq, i) : ask[a].at = "wait"
    \* the run of a job that is due
    \/ part = "cron" /\ \E j \in Nth(JobSeq, i) : j \in jobTable /\ nextTime[j] \in 1..ticks
    \* the end of a call through the balancer
    \/ part = "balancer" /\ \E r \in Nth(RunnerSeq, i) : pc[r] # "idle"
    \* the answer to a request
    \/ part = "web" /\ \E r \in Nth(VisitSeq, i) : proc[<<r, "main">>].at # "idle"
Come(i) ==
    \/ part = "coalescer" /\ owed = {}
    \/ part = "waitgroup" /\ (main = "busy" \/ Jammed)
    \/ part = "chan" /\ ((i = 1 /\ OnTheWay = <<>>) \/ (i = 2 /\ outClosed /\ out = <<>>))
    \/ part = "promises" /\ i = 1 /\ outcome[D] # "none"
    \/ part = "promises" /\ \E r \in Nth(ReaderSeq, i - 1) : done[r] \in Answers
    \* unless that request panics
    \/ part = "dedup" /\ \E a \in Nth(AskerSeq, i) : ask[a].at # "wait" \/ cell[ask[a].e].state = "lost"
    \/ part = "cron" /\ \E j \in Nth(JobSeq, i) : j \notin jobTable \/ nextTime[j] \notin 1..ticks \/ stopped
    \/ part = "balancer" /\ \E r \in Nth(RunnerSeq, i) : pc[r] \in Returned
    \/ part = "web" /\ \E r \in Nth(VisitSeq, i) : proc[<<r, "main">>].at = "gone"

\* In every component what somebody waits for comes, whatever the others do.
WaitsEnd == \A i \in 1..2 : Awaited(i) ~> Come(i)
=============================================================================
