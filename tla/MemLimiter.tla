----------------------------- MODULE MemLimiter -----------------------------
(***************************************************************************)
(* MemoryLimiter of zutil/mem.go: a monitor and whoever calls Refresh read *)
(* the memory in use, and decide whether to pause; UpdateLimit, Start and  *)
(* Stop come at any time.  A section under mu is one step, but for Start,  *)
(* which Stop does not wait for.  OnStats only gets a copy and is left     *)
(* out.                                                                    *)
(***************************************************************************)
EXTENDS Integers, FiniteSets

CONSTANTS
    MemUsers,        \* goroutines that call it
    MonitorLoop,     \* the monitor's
    Usages,          \* bytes in use that the runtime may report
    MemLimits,       \* limits of New and UpdateLimit
    PauseThreshold,  \* in percent
    PrevLimit,       \* the runtime's limit before New
    MaxMemChecks     \* bound on the checks

ASSUME MemAssumption ==
    /\ Usages \subseteq Nat /\ MemLimits \subseteq Nat \ {0} /\ PrevLimit \in Nat
    /\ PauseThreshold \in 1..100 /\ MonitorLoop \notin MemUsers

VARIABLES
    enableGC, hasOnPause,        \* the configuration, and whether onPause is set
    memLimit, runtimeLimit,      \* config.Limit, and what debug.SetMemoryLimit was given
    currentUsage, peakUsage,     \* stats
    paused, checkID,
    memStarted, memCanceled, memWg,
    memCall,                     \* memCall[u]: the step that u's call, or the monitor, has reached
    memSays,                     \* decisions that were taken: the check's number and its answer
    memCrossed                   \* history: an UpdateLimit met another or a Stop, or a Start met a Stop

meVars == <<enableGC, hasOnPause, memLimit, runtimeLimit, currentUsage, peakUsage, paused, checkID,
            memStarted, memCanceled, memWg, memCall, memSays, memCrossed>>

MemProcs == MemUsers \cup {MonitorLoop}
MemRest == [at |-> "idle", val |-> 0, pause |-> FALSE]
InStep(steps) == {u \in MemProcs : memCall[u].at \in steps}
MemGoes(u, from, call) == memCall[u].at = from /\ memCall' = [memCall EXCEPT ![u] = call]
\* mu: only Start keeps it over a step.
MemFree == InStep({"add"}) = {}

MeInit ==
    /\ enableGC \in BOOLEAN /\ hasOnPause \in BOOLEAN
    /\ memLimit \in MemLimits /\ runtimeLimit = memLimit
    /\ currentUsage = 0 /\ peakUsage = 0
    /\ paused = FALSE /\ checkID = 0
    /\ memStarted = FALSE /\ memCanceled = FALSE /\ memWg = 0
    /\ memCall = [u \in MemProcs |-> IF u = MonitorLoop THEN [MemRest EXCEPT !.at = "none"] ELSE MemRest]
    /\ memSays = {} /\ memCrossed = FALSE

-----------------------------------------------------------------------------
\* Refresh, of a caller or at a tick: the runtime is asked before mu is taken.
ReadMem(u) ==
    /\ checkID + Cardinality(InStep({"stats", "check"})) < MaxMemChecks
    /\ \E a \in Usages : MemGoes(u, "idle", [MemRest EXCEPT !.at = "stats", !.val = a])
    /\ UNCHANGED <<enableGC, hasOnPause, memLimit, runtimeLimit, currentUsage, peakUsage, paused, checkID,
                   memStarted, memCanceled, memWg, memSays, memCrossed>>
Stats(a) == currentUsage' = a /\ peakUsage' = IF a > peakUsage THEN a ELSE peakUsage
UpdateStats(u) ==
    /\ MemFree /\ MemGoes(u, "stats", [MemRest EXCEPT !.at = "check"])
    /\ Stats(memCall[u].val)
    /\ UNCHANGED <<enableGC, hasOnPause, memLimit, runtimeLimit, paused, checkID, memStarted, memCanceled,
                   memWg, memSays, memCrossed>>

Over == currentUsage * 100 > PauseThreshold * memLimit
WellBelow == currentUsage * 1000 < 9 * PauseThreshold * memLimit
Decides(id, pause) == paused' = pause /\ memSays' = memSays \cup {[id |-> id, pause |-> pause]}
\* checkMemoryUsage: over the threshold a collection, and then the callback or the pause,
\* whatever the collection has freed.
CheckOver(u) ==
    /\ MemFree /\ Over /\ checkID' = checkID + 1
    /\ IF enableGC THEN \E a \in Usages : Stats(a) ELSE UNCHANGED <<currentUsage, peakUsage>>
    /\ IF hasOnPause THEN MemGoes(u, "check", [MemRest EXCEPT !.at = "callback", !.val = checkID'])
                          /\ UNCHANGED <<paused, memSays>>
       ELSE MemGoes(u, "check", MemRest) /\ Decides(checkID', TRUE)
    /\ UNCHANGED <<enableGC, hasOnPause, memLimit, runtimeLimit, memStarted, memCanceled, memWg, memCrossed>>
CheckBelow(u) ==
    /\ MemFree /\ ~Over /\ checkID' = checkID + 1
    /\ MemGoes(u, "check", MemRest)
    /\ IF paused /\ WellBelow THEN Decides(checkID', FALSE) ELSE UNCHANGED <<paused, memSays>>
    /\ UNCHANGED <<enableGC, hasOnPause, memLimit, runtimeLimit, currentUsage, peakUsage, memStarted,
                   memCanceled, memWg, memCrossed>>
OnPauseReturns(u) ==
    /\ \E v \in BOOLEAN : MemGoes(u, "callback", [memCall[u] EXCEPT !.at = "verdict", !.pause = v])
    /\ UNCHANGED <<enableGC, hasOnPause, memLimit, runtimeLimit, currentUsage, peakUsage, paused, checkID,
                   memStarted, memCanceled, memWg, memSays, memCrossed>>
AnyVerdict(id) == TRUE   \* mutant: whichever callback is the last decides
NewestVerdict(id) == id = checkID
Verdict(u) ==
    /\ MemFree /\ MemGoes(u, "verdict", MemRest)
    /\ IF NewestVerdict(memCall[u].val) THEN Decides(memCall[u].val, memCall[u].pause)
       ELSE UNCHANGED <<paused, memSays>>
    /\ UNCHANGED <<enableGC, hasOnPause, memLimit, runtimeLimit, currentUsage, peakUsage, checkID, memStarted,
                   memCanceled, memWg, memCrossed>>
OnPause ==
    /\ MemFree /\ hasOnPause' = ~hasOnPause
    /\ UNCHANGED <<enableGC, memLimit, runtimeLimit, currentUsage, peakUsage, paused, checkID, memStarted,
                   memCanceled, memWg, memCall, memSays, memCrossed>>

-----------------------------------------------------------------------------
\* UpdateLimit: the limiter's, under mu, and then the runtime's.
UpdateLimit(u) ==
    /\ u \in MemUsers /\ MemFree
    /\ \E l \in MemLimits : memLimit' = l /\ MemGoes(u, "idle", [MemRest EXCEPT !.at = "runtime", !.val = l])
    /\ memCrossed' = (memCrossed \/ memCanceled \/ InStep({"runtime"}) # {})
    /\ UNCHANGED <<enableGC, hasOnPause, runtimeLimit, currentUsage, peakUsage, paused, checkID, memStarted,
                   memCanceled, memWg, memSays>>
SetRuntimeLimit(u) ==
    /\ MemGoes(u, "runtime", MemRest) /\ runtimeLimit' = memCall[u].val
    /\ UNCHANGED <<enableGC, hasOnPause, memLimit, currentUsage, peakUsage, paused, checkID, memStarted,
                   memCanceled, memWg, memSays, memCrossed>>

MayStart == ~memStarted /\ ~memCanceled
Start(u) ==
    /\ u \in MemUsers /\ MemFree /\ MayStart
    /\ MemGoes(u, "idle", [MemRest EXCEPT !.at = "add"])
    /\ UNCHANGED <<enableGC, hasOnPause, memLimit, runtimeLimit, currentUsage, peakUsage, paused, checkID,
                   memStarted, memCanceled, memWg, memSays, memCrossed>>
StartAdds(u) ==
    /\ memCall[u].at = "add"
    /\ memCall' = [memCall EXCEPT ![u] = MemRest, ![MonitorLoop].at = "idle"]
    /\ memStarted' = TRUE /\ memWg' = memWg + 1
    /\ memCrossed' = (memCrossed \/ memCanceled)
    /\ UNCHANGED <<enableGC, hasOnPause, memLimit, runtimeLimit, currentUsage, peakUsage, paused, checkID,
                   memCanceled, memSays>>
MonitorEnds ==
    /\ memCanceled /\ MemGoes(MonitorLoop, "idle", [MemRest EXCEPT !.at = "none"])
    /\ memWg' = memWg - 1
    /\ UNCHANGED <<enableGC, hasOnPause, memLimit, runtimeLimit, currentUsage, peakUsage, paused, checkID,
                   memStarted, memCanceled, memSays, memCrossed>>

Stop(u) ==
    /\ u \in MemUsers /\ MemGoes(u, "idle", [MemRest EXCEPT !.at = "wait"])
    /\ memCanceled' = TRUE
    /\ memCrossed' = (memCrossed \/ InStep({"runtime"}) # {})
    /\ UNCHANGED <<enableGC, hasOnPause, memLimit, runtimeLimit, currentUsage, peakUsage, paused, checkID,
                   memStarted, memWg, memSays>>
Unwaited == TRUE   \* mutant: Stop cancels and does not wait
MonitorDone == memWg = 0
StopRestores(u) ==
    /\ MonitorDone /\ MemGoes(u, "wait", [MemRest EXCEPT !.at = "stopped"])
    /\ runtimeLimit' = PrevLimit
    /\ UNCHANGED <<enableGC, hasOnPause, memLimit, currentUsage, peakUsage, paused, checkID, memStarted,
                   memCanceled, memWg, memSays, memCrossed>>

MeProcStep(u) == ReadMem(u) \/ UpdateStats(u) \/ CheckOver(u) \/ CheckBelow(u) \/ OnPauseReturns(u) \/ Verdict(u)
MeNext ==
    \/ \E u \in MemProcs : MeProcStep(u)
    \/ \E u \in MemProcs :
        UpdateLimit(u) \/ SetRuntimeLimit(u) \/ Start(u) \/ StartAdds(u) \/ Stop(u) \/ StopRestores(u)
    \/ OnPause \/ MonitorEnds

MeSpec == MeInit /\ [][MeNext]_meVars

-----------------------------------------------------------------------------
\* However refreshes, callbacks and calls overlap: paused is what the newest check that
\* came to a decision has said, never the late answer of an older callback; the peak
\* is never below what was measured; and unless calls crossed, the runtime has the
\* limiter's limit, and from the end of Stop on its former one with no monitor left.
LimiterSound ==
    /\ memSays # {} => paused = (CHOOSE d \in memSays : \A e \in memSays : e.id <= d.id).pause
    /\ currentUsage <= peakUsage
    /\ ~memCrossed =>
        /\ InStep({"runtime"}) = {} /\ ~memCanceled => runtimeLimit = memLimit
        /\ InStep({"stopped"}) # {} => runtimeLimit = PrevLimit /\ memCall[MonitorLoop].at = "none"
=============================================================================
