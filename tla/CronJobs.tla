----------------------------- MODULE CronJobs -----------------------------
(***************************************************************************)
(* The JobTable of ztime/cron/cron.go: Add, remove, ForceRun, Run and Stop *)
(* on a clock.  The expression of a job is the set of times at which it    *)
(* must run; that Next finds the least that is later is CronExpr's part.   *)
(* A pass of ForceRun takes job.mu three times for each job, and is cut    *)
(* there; it may meet a job that is added while it ranges over the table,  *)
(* or not.                                                                 *)
(***************************************************************************)
EXTENDS Integers, FiniteSets

CONSTANTS
    Jobs,       \* jobs that are ever added, each once
    Times,      \* the sets of times that expressions may stand for
    Passers,    \* goroutines: "loop" is Run, the others call ForceRun
    Crews,      \* who takes part: sets of jobs and passers
    Second,     \* the longest sleep of Run
    Horizon     \* bound on the clock

ASSUME CronJobsAssumption ==
    /\ Second \in Nat \ {0} /\ Horizon \in Nat /\ IsFiniteSet(Jobs)
    /\ Crews \subseteq SUBSET (Jobs \cup Passers)
    /\ \A S \in Times : S \subseteq 1..Horizon

VARIABLES
    crew, ticks, jobTable, stopped,
    times, nextTime,  \* of a job: the expression and NextTime, 0 for the zero time
    pass,             \* pass[p]: where it is, its now, the jobs to meet, the one it
                      \* is at, nextTime, and when the loop wakes
    ran,              \* history: NextTime and the clock of the pass when the job was
                      \* last started; first, of Add
    overlapped        \* history: have two passes overlapped

cjVars == <<crew, ticks, jobTable, stopped, times, nextTime, pass, ran, overlapped>>

Asleep == [at |-> "idle", now |-> 0, todo |-> {}, job |-> "none", sleep |-> Second, wake |-> 0]

\* Expression.Next: the zero time if there is none.
Later(S, t) == {x \in S : x > t}
NextOf(S, t) == IF Later(S, t) = {} THEN 0 ELSE CHOOSE x \in Later(S, t) : \A y \in Later(S, t) : x <= y

CjInit ==
    /\ crew \in Crews /\ ticks = 1 /\ jobTable = {} /\ stopped = FALSE
    /\ times = [j \in Jobs |-> {}] /\ nextTime = [j \in Jobs |-> 0]
    /\ pass = [p \in Passers |-> Asleep]
    /\ ran = [j \in Jobs |-> [due |-> 0, now |-> 0]] /\ overlapped = FALSE

InPass(p) == pass[p].at \in {"range", "fire", "measure"}

AddJob(j, S) ==
    /\ j \in crew \ jobTable /\ times[j] = {} /\ S # {}
    /\ jobTable' = jobTable \cup {j}
    /\ times' = [times EXCEPT ![j] = S]
    /\ nextTime' = [nextTime EXCEPT ![j] = NextOf(S, ticks)]
    /\ ran' = [ran EXCEPT ![j] = [due |-> 0, now |-> ticks]]
    /\ UNCHANGED <<crew, ticks, stopped, pass, overlapped>>

RemoveJob(j) ==
    /\ j \in jobTable /\ jobTable' = jobTable \ {j}
    /\ UNCHANGED <<crew, ticks, stopped, times, nextTime, pass, ran, overlapped>>

CronStop ==
    /\ stopped' = TRUE
    /\ UNCHANGED <<crew, ticks, jobTable, times, nextTime, pass, ran, overlapped>>

\* Run, for the loop: the look at stop.  A pass begins.
PassBegins(p) ==
    /\ p \in crew
    /\ pass[p].at \in (IF p = "loop" THEN {"idle", "awake"} ELSE {"idle"})
    /\ IF p = "loop" /\ stopped
       THEN pass' = [pass EXCEPT ![p] = [Asleep EXCEPT !.at = "over"]] /\ UNCHANGED overlapped
       ELSE /\ pass' = [pass EXCEPT ![p] = [Asleep EXCEPT !.at = "range", !.now = ticks, !.todo = jobTable]]
            /\ overlapped' = (overlapped \/ \E q \in Passers \ {p} : InPass(q))
    /\ UNCHANGED <<crew, ticks, jobTable, stopped, times, nextTime, ran>>

\* The next job that Range meets; one that was removed is not met any more.
DueAt(j, now) == nextTime[j] <= now
Look(p, j) ==
    /\ pass[p].at = "range" /\ j \in pass[p].todo \cap jobTable
    /\ pass' = [pass EXCEPT ![p].at = IF DueAt(j, pass[p].now) THEN "fire" ELSE "measure",
                            ![p].job = j, ![p].todo = @ \ {j}]
    /\ UNCHANGED <<crew, ticks, jobTable, stopped, times, nextTime, ran, overlapped>>

\* go cronjob.run(), and NextTime.
NextFromOwn(j, now) == NextOf(times[j], nextTime[j])  \* mutant: what was missed is made up for
NextFrom(j, now) == NextOf(times[j], now)
FireJob(p) ==
    /\ pass[p].at = "fire"
    /\ LET j == pass[p].job IN
       /\ ran' = [ran EXCEPT ![j] = [due |-> nextTime[j], now |-> pass[p].now]]
       /\ nextTime' = [nextTime EXCEPT ![j] = NextFrom(j, pass[p].now)]
    /\ pass' = [pass EXCEPT ![p].at = "measure"]
    /\ UNCHANGED <<crew, ticks, jobTable, stopped, times, overlapped>>

\* The shortest of the times left, but for the jobs that are due.
Measure(p) ==
    /\ pass[p].at = "measure"
    /\ LET left == nextTime[pass[p].job] - pass[p].now IN
       pass' = [pass EXCEPT ![p].at = "range", ![p].job = "none",
                            ![p].sleep = IF left > 0 /\ left < @ THEN left ELSE @]
    /\ UNCHANGED <<crew, ticks, jobTable, stopped, times, nextTime, ran, overlapped>>

\* The clock stops at Horizon + 1, which stands for all the time after Horizon.
Capped(t) == IF t > Horizon THEN Horizon + 1 ELSE t

\* Range is over.  The loop sleeps from now on for as long as it has found.
PassEnds(p) ==
    /\ pass[p].at = "range" /\ pass[p].todo \cap jobTable = {}
    /\ pass' = [pass EXCEPT ![p] =
          IF p = "loop" THEN [Asleep EXCEPT !.at = "sleep", !.wake = Capped(ticks + pass[p].sleep)] ELSE Asleep]
    /\ UNCHANGED <<crew, ticks, jobTable, stopped, times, nextTime, ran, overlapped>>

Wakes ==
    /\ pass["loop"].at = "sleep" /\ pass["loop"].wake <= ticks
    /\ pass' = [pass EXCEPT !["loop"] = [Asleep EXCEPT !.at = "awake"]]
    /\ UNCHANGED <<crew, ticks, jobTable, stopped, times, nextTime, ran, overlapped>>

CjTick ==
    /\ ticks <= Horizon /\ ticks' = ticks + 1
    /\ UNCHANGED <<crew, jobTable, stopped, times, nextTime, pass, ran, overlapped>>

PassStep(p) == FireJob(p) \/ Measure(p) \/ PassEnds(p) \/ \E j \in Jobs : Look(p, j)
LoopStep == PassStep("loop") \/ PassBegins("loop") \/ Wakes

CjNext ==
    \/ \E p \in Passers : PassBegins(p) \/ PassStep(p)
    \/ Wakes \/ CjTick \/ CronStop
    \/ \E j \in Jobs : RemoveJob(j) \/ \E S \in Times : AddJob(j, S)

CjSpec == CjInit /\ [][CjNext]_cjVars

\* Run goes on, and time passes.
CjFairSpec == CjSpec /\ WF_cjVars(LoopStep) /\ WF_cjVars(CjTick)

-----------------------------------------------------------------------------
\* Unless passes overlap, a job runs at a time of its expression or later, and
\* its next time is the first that comes after the clock of the pass that
\* started it: none runs twice, and none is left out but those that had gone by
\* when the pass began.
RunsOnTime ==
    ~overlapped => \A j \in Jobs :
        /\ ran[j].due <= ran[j].now
        /\ nextTime[j] # 0 => nextTime[j] \in times[j] /\ nextTime[j] > ran[j].now
        /\ \A t \in times[j] : t > ran[j].now => nextTime[j] # 0 /\ nextTime[j] <= t
=============================================================================
