------------------------------ MODULE Cleaner ------------------------------
(***************************************************************************)
(* The background cleaner of zcache/fast/lru.go: Set starts it, it stops   *)
(* itself when the cache has been idle or empty for long, and Close stops  *)
(* it.  The fields that Close, Set and the cleaner share without the mutex *)
(* are read and written one step at a time.  A bucket (FastCache, the      *)
(* module, is one) holds one item here, told by when it expires.  Time is  *)
(* in steps of ztime.Clock, which are longer than any step of the code.    *)
(***************************************************************************)
EXTENDS Integers, FiniteSets

CONSTANTS
    Setters,     \* goroutines that call Set
    Closes,      \* goroutines that call Close, and the finalizer
    Mask,        \* mask: buckets 0..Mask
    Expiration, IdleAfter,
    Thresholds,  \* the thresholds of short, medium and long idleness, as records
    Inflation,   \* Clock()*1000 counts nanoseconds, and clean takes it for milliseconds
    MaxClock, MaxStarts,  \* bounds on the clock and the starts
    IdxWrap               \* stands for the 2^16 at which cleanIdx begins anew

ASSUME CleanerAssumption ==
    /\ {Mask, IdleAfter} \subseteq Nat /\ {Expiration, Inflation, MaxClock, MaxStarts, IdxWrap} \subseteq Nat \ {0}
    /\ \A t \in Thresholds : {t.short, t.medium, t.long} \subseteq Nat

VARIABLES
    lazyCleaner, thresholds, clock,
    bucket,             \* bucket[b]: when its item expires, 0 without one
    lastActiveMs, lastAccessMs, cleanerLevel, cleanIdx,
    cleanerOn, stopCh,  \* stopCh: the number of a channel, 0 for nil
    closedChs,          \* the channels that are closed
    cleaners,           \* cleaners[c]: the goroutine that listens to channel c
    setter, closer,     \* the calls of Set and of Close
    shared              \* history: a Close met a Set, another Close, or a cleaner started after
                        \* a Close that has not had a tick

clVars == <<lazyCleaner, thresholds, clock, bucket, lastActiveMs, lastAccessMs, cleanerLevel, cleanIdx, cleanerOn,
            stopCh, closedChs, cleaners, setter, closer, shared>>

Chs == 1..MaxStarts
Buckets == 0..Mask
NoCleaner == [at |-> "none", now |-> 0, old |-> 0, idle |-> 0, k |-> 0]
Resting == [NoCleaner EXCEPT !.at = "select"]
Started(c) == [cleaners EXCEPT ![c] = Resting]

ClInit ==
    /\ lazyCleaner \in BOOLEAN /\ thresholds \in Thresholds /\ clock = 1
    /\ bucket = [b \in Buckets |-> 0]
    /\ lastActiveMs = 1 /\ lastAccessMs = 1 /\ cleanerLevel = 0 /\ cleanIdx = 0
    /\ cleanerOn = ~lazyCleaner /\ stopCh = IF lazyCleaner THEN 0 ELSE 1
    /\ closedChs = {}
    /\ cleaners = [c \in Chs |-> IF c = 1 /\ ~lazyCleaner THEN Resting ELSE NoCleaner]
    /\ setter = [s \in Setters |-> "idle"]
    /\ closer = [x \in Closes |-> "idle"]
    /\ shared = FALSE

Setting == \E s \in Setters : setter[s] # "idle"
ClosingNow == \E x \in Closes : closer[x] # "idle"
SGoes(s, from, to) == setter[s] = from /\ setter' = [setter EXCEPT ![s] = to]
XGoes(x, from, to) == closer[x] = from /\ closer' = [closer EXCEPT ![x] = to]
CGoes(c, cleaner) == cleaners' = [cleaners EXCEPT ![c] = cleaner]

-----------------------------------------------------------------------------
\* set: put under the lock of the bucket, and markActive.
Put(s, b) ==
    /\ SGoes(s, "idle", "stamp")
    /\ bucket' = [bucket EXCEPT ![b] = clock + Expiration]
    /\ shared' = (shared \/ ClosingNow)
    /\ UNCHANGED <<lazyCleaner, thresholds, clock, lastActiveMs, lastAccessMs, cleanerLevel, cleanIdx, cleanerOn, stopCh,
                   closedChs, cleaners, closer>>
\* The clock is read once, and both stamps are stored; nobody reads them the other way round.
Stamp(s) ==
    /\ SGoes(s, "stamp", "level") /\ lastActiveMs' = clock /\ lastAccessMs' = clock
    /\ UNCHANGED <<lazyCleaner, thresholds, clock, bucket, cleanerLevel, cleanIdx, cleanerOn, stopCh,
                   closedChs, cleaners, closer, shared>>
LevelLook(s) ==
    /\ SGoes(s, "level", IF cleanerLevel > 0 THEN "zero" ELSE IF lazyCleaner THEN "start" ELSE "idle")
    /\ UNCHANGED <<lazyCleaner, thresholds, clock, bucket, lastActiveMs, lastAccessMs, cleanerLevel, cleanIdx, cleanerOn,
                   stopCh, closedChs, cleaners, closer, shared>>
LevelZero(s) ==
    /\ SGoes(s, "zero", IF lazyCleaner THEN "start" ELSE "idle")
    /\ cleanerLevel' = 0
    /\ UNCHANGED <<lazyCleaner, thresholds, clock, bucket, lastActiveMs, lastAccessMs, cleanIdx, cleanerOn, stopCh,
                   closedChs, cleaners, closer, shared>>

\* startCleaner and stopCleaner, each under cleanerMu.
StartsAlways(on) == TRUE   \* mutant: a cleaner for every Set
Starts(on) == ~on
StartCleaner(s) ==
    LET new == CHOOSE c \in Chs : cleaners[c].at = "none" /\ \A d \in Chs : d < c => cleaners[d].at # "none" IN
    /\ SGoes(s, "start", "idle")
    /\ IF Starts(cleanerOn)
       THEN /\ \E c \in Chs : cleaners[c].at = "none"
            /\ cleaners' = Started(new) /\ cleanerOn' = TRUE
            /\ stopCh' = IF stopCh = 0 THEN new ELSE stopCh
       ELSE UNCHANGED <<cleaners, cleanerOn, stopCh>>
    /\ UNCHANGED <<lazyCleaner, thresholds, clock, bucket, lastActiveMs, lastAccessMs, cleanerLevel, cleanIdx, closedChs,
                   closer, shared>>
StopCleaner ==
    IF cleanerOn
    THEN closedChs' = closedChs \cup ({stopCh} \ {0}) /\ cleanerOn' = FALSE /\ stopCh' = 0
    ELSE UNCHANGED <<closedChs, cleanerOn, stopCh>>

-----------------------------------------------------------------------------
\* The goroutine: at a tick clean, which it may choose too when its channel is closed.
LevelOf(idle) ==
    CASE idle * Inflation < thresholds.short -> 0 [] idle * Inflation < thresholds.medium -> 1
      [] idle * Inflation < thresholds.long -> 2 [] OTHER -> 3
CleanBegins(c) ==
    /\ cleaners[c].at = "select"
    /\ CGoes(c, [cleaners[c] EXCEPT !.at = "level", !.now = clock, !.old = cleanerLevel, !.idle = clock - lastAccessMs])
    /\ UNCHANGED <<lazyCleaner, thresholds, clock, bucket, lastActiveMs, lastAccessMs, cleanerLevel, cleanIdx, cleanerOn,
                   stopCh, closedChs, setter, closer, shared>>
CleanLevel(c) ==
    LET me == cleaners[c]
        level == LevelOf(me.idle)
        cycle == IF level = 0 THEN 1 ELSE IF level = 1 THEN 2 ELSE 5
        rests == level # 3 /\ cleanIdx % cycle # 0
    IN
    /\ me.at = "level"
    /\ cleanerLevel' = IF me.old = level THEN cleanerLevel ELSE level
    /\ cleanIdx' = IF rests THEN (cleanIdx + 1) % IdxWrap ELSE cleanIdx
    /\ CGoes(c, IF level # 3 /\ rests THEN Resting ELSE [me EXCEPT !.at = IF level = 3 THEN "stop" ELSE "sweep"])
    /\ UNCHANGED <<lazyCleaner, thresholds, clock, bucket, lastActiveMs, lastAccessMs, cleanerOn, stopCh, closedChs,
                   setter, closer, shared>>
CleanBucket(c) ==
    LET me == cleaners[c]
        b == cleanIdx % (Mask + 1)
    IN
    /\ me.at = "sweep"
    /\ bucket' = [bucket EXCEPT ![b] = IF @ <= me.now THEN 0 ELSE @]
    /\ cleanIdx' = (cleanIdx + 1) % IdxWrap
    /\ CGoes(c, IF IdleAfter > 0 /\ cleanIdx' % (Mask + 1) = 0 THEN [me EXCEPT !.at = "empty"] ELSE Resting)
    /\ UNCHANGED <<lazyCleaner, thresholds, clock, lastActiveMs, lastAccessMs, cleanerLevel, cleanerOn, stopCh, closedChs,
                   setter, closer, shared>>
\* The buckets one after the other, and when all were empty the time of the last Set.
LooksEmpty(c) ==
    LET me == cleaners[c] IN
    /\ me.at = "empty"
    /\ CGoes(c, IF me.k <= Mask
                THEN IF bucket[me.k] = 0 THEN [me EXCEPT !.k = @ + 1] ELSE Resting
                ELSE IF (me.now - lastActiveMs) * Inflation >= IdleAfter THEN [me EXCEPT !.at = "stop"] ELSE Resting)
    /\ UNCHANGED <<lazyCleaner, thresholds, clock, bucket, lastActiveMs, lastAccessMs, cleanerLevel, cleanIdx, cleanerOn,
                   stopCh, closedChs, setter, closer, shared>>
CleanStops(c) ==
    /\ cleaners[c].at = "stop" /\ StopCleaner
    /\ CGoes(c, Resting)
    /\ UNCHANGED <<lazyCleaner, thresholds, clock, bucket, lastActiveMs, lastAccessMs, cleanerLevel, cleanIdx, setter,
                   closer, shared>>
CleanerReturns(c) ==
    /\ cleaners[c].at = "select" /\ c \in closedChs
    /\ CGoes(c, [NoCleaner EXCEPT !.at = "gone"])
    /\ UNCHANGED <<lazyCleaner, thresholds, clock, bucket, lastActiveMs, lastAccessMs, cleanerLevel, cleanIdx, cleanerOn,
                   stopCh, closedChs, setter, closer, shared>>

-----------------------------------------------------------------------------
\* Close: the level, stopCleaner, and then the channel, which it reads three times.
Close(x) ==
    /\ XGoes(x, "idle", IF cleanerLevel >= 0 THEN "stop" ELSE "nil?")
    /\ cleanerLevel' = -1
    /\ shared' = (shared \/ ClosingNow \/ Setting \/ (cleanerLevel < 0 /\ cleanerOn))
    /\ UNCHANGED <<lazyCleaner, thresholds, clock, bucket, lastActiveMs, lastAccessMs, cleanIdx, cleanerOn, stopCh,
                   closedChs, cleaners, setter>>
CloseLeaves(x) ==   \* mutant: the cleaner is left to its channel
    /\ XGoes(x, "stop", "nil?")
    /\ UNCHANGED <<lazyCleaner, thresholds, clock, bucket, lastActiveMs, lastAccessMs, cleanerLevel, cleanIdx, cleanerOn,
                   stopCh, closedChs, cleaners, setter, shared>>
CloseStops(x) ==
    /\ XGoes(x, "stop", "nil?") /\ StopCleaner
    /\ UNCHANGED <<lazyCleaner, thresholds, clock, bucket, lastActiveMs, lastAccessMs, cleanerLevel, cleanIdx, cleaners,
                   setter, shared>>
CloseLooks(x) ==
    /\ \/ XGoes(x, "nil?", IF stopCh = 0 THEN "idle" ELSE "open?")
       \/ XGoes(x, "open?", IF stopCh \in closedChs THEN "idle" ELSE "close")
    /\ UNCHANGED <<lazyCleaner, thresholds, clock, bucket, lastActiveMs, lastAccessMs, cleanerLevel, cleanIdx, cleanerOn,
                   stopCh, closedChs, cleaners, setter, shared>>
\* To close nil, or what is closed, is a panic.
CloseCloses(x) ==
    /\ XGoes(x, "close", IF stopCh \in closedChs \cup {0} THEN "panic" ELSE "idle")
    /\ closedChs' = closedChs \cup ({stopCh} \ {0})
    /\ UNCHANGED <<lazyCleaner, thresholds, clock, bucket, lastActiveMs, lastAccessMs, cleanerLevel, cleanIdx, cleanerOn,
                   stopCh, cleaners, setter, shared>>

ClTick ==
    /\ clock < MaxClock /\ clock' = clock + 1
    \* a Set reads the clock between its put and its stamps
    /\ UNCHANGED <<lazyCleaner, thresholds, bucket, lastActiveMs, lastAccessMs, cleanerLevel, cleanIdx, cleanerOn, stopCh,
                   closedChs, cleaners, setter, closer, shared>>

CleanerStep(c) ==
    CleanBegins(c) \/ CleanLevel(c) \/ CleanBucket(c) \/ LooksEmpty(c) \/ CleanStops(c)
ClNext ==
    \/ \E s \in Setters :
        \/ \E b \in Buckets : Put(s, b)
        \/ Stamp(s) \/ LevelLook(s) \/ LevelZero(s) \/ StartCleaner(s)
    \/ \E c \in Chs : CleanerStep(c) \/ CleanerReturns(c)
    \/ \E x \in Closes : Close(x) \/ CloseStops(x) \/ CloseLooks(x) \/ CloseCloses(x)
    \/ ClTick

ClSpec == ClInit /\ [][ClNext]_clVars

-----------------------------------------------------------------------------
Listening == {c \in Chs : cleaners[c].at \notin {"none", "gone"} /\ c \notin closedChs}

\* As long as no Close comes together with a Set or another Close, and none follows a Set
\* that followed a Close before the next tick (which leaves cleanerOn set with a closed
\* channel), however the Sets and the cleaners that stop themselves interleave: one goroutine listens to the channel when
\* cleanerOn says so and none otherwise, so that none is left behind; and Close never panics.
CleanerSound ==
    ~shared =>
        /\ Listening = IF cleanerOn THEN {stopCh} ELSE {}
        /\ \A x \in Closes : closer[x] # "panic"

\* lru.go: "LongIdleThreshold sets when to stop cleaning entirely".
StopsWhenLongIdle ==
    \A c \in Chs : cleaners[c].at = "stop" /\ LevelOf(cleaners[c].idle) = 3 => cleaners[c].idle >= thresholds.long
=============================================================================
