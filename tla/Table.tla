------------------------------- MODULE Table -------------------------------
(***************************************************************************)
(* The cache table of zcache/table.go: callers that set, add, load, get,   *)
(* delete and clear, and the goroutines of expirationCheck, which scan the *)
(* items, set the timer of the next scan and delete what has expired.      *)
(*                                                                         *)
(* lock is the table's mutex; a critical section is one step unless it     *)
(* waits inside for an item's lock, which only the loader of MustGet holds *)
(* for long (loading).  Time is relative: an item has an age and the time  *)
(* since its last access, the timer what is left of its duration, and Tick *)
(* moves them all.  An item that nothing refers to any more is Dead.       *)
(*                                                                         *)
(* Left out: the data; the queries that change nothing (Count, ForEach,    *)
(* MostAccessed, Exists); access counts; the clock that expirationCheck    *)
(* reads just before it locks is read with the scan.                       *)
(***************************************************************************)
EXTENDS Integers, FiniteSets

CONSTANTS
    Keys, TableCallers,
    Checkers,       \* bound: goroutines of expirationCheck at a time
    Ids,            \* names for items
    Lives,          \* the lifespans given
    MaxLife,        \* bound: the longest lifespan and the greatest age told apart
    MayKeep,        \* whether the delete callbacks may answer false
    MaxCalls,       \* bound: how many calls begin
    LoaderUses,     \* whether the function given to MustGet may use the table
    Nothing

ASSUME TableAssumption ==
    /\ IsFiniteSet(Keys) /\ IsFiniteSet(Ids)
    /\ TableCallers \cap Checkers = {}
    /\ MaxLife \in Nat /\ Lives \subseteq 0..MaxLife
    /\ MaxCalls \in Nat /\ MayKeep \in BOOLEAN /\ LoaderUses \in BOOLEAN
    /\ Nothing \notin Keys \cup Ids \cup TableCallers \cup Checkers \cup Nat

Procs == TableCallers \cup Checkers

VARIABLES
    items, accessCount, cleanupInterval,
    timer,              \* what is left of cleanupTimer, Nothing when it is stopped
    heap,               \* the items
    lock, taPc, key, item,
    expDur,             \* cleanupInterval as addInternal read it
    todo,               \* expiredKeys
    calls               \* how many calls have begun

taVars == <<items, accessCount, cleanupInterval, timer, heap, lock, taPc, key, item, expDur, todo, calls>>
table == <<items, accessCount, cleanupInterval, timer>>

Item == [life : 0..MaxLife, age : 0..MaxLife, idle : 0..MaxLife,
         interval : BOOLEAN, loading : BOOLEAN,
         kept : BOOLEAN]    \* history: a callback has refused to delete it
Dead == [life |-> 0, age |-> 0, idle |-> 0, interval |-> FALSE, loading |-> FALSE, kept |-> FALSE]

TaInit ==
    /\ items = [k \in Keys |-> Nothing] /\ accessCount = FALSE
    /\ cleanupInterval = 0 /\ timer = Nothing
    /\ heap = [i \in Ids |-> Dead]
    /\ lock = Nothing
    /\ taPc = [p \in Procs |-> "idle"]
    /\ key = [p \in Procs |-> Nothing] /\ item = [p \in Procs |-> Nothing]
    /\ expDur = [c \in TableCallers |-> 0] /\ todo = [x \in Checkers |-> {}]
    /\ calls = 0

TaGo(p, from, to) == taPc[p] = from /\ taPc' = [taPc EXCEPT ![p] = to]

Used == {items[k] : k \in Keys} \cup {item[p] : p \in Procs}
\* The heap h without what is no longer referred to.
Collect(h) == [i \in Ids |-> IF i \in Used' THEN h[i] ELSE Dead]

\* p begins to work on k, with item i.
Holds(p, k, i) == key' = [key EXCEPT ![p] = k] /\ item' = [item EXCEPT ![p] = i]
Done(p) == Holds(p, Nothing, Nothing)

Begins(c) == taPc[c] = "idle" /\ calls < MaxCalls /\ calls' = calls + 1

\* The goroutine that a go statement starts.
Spare == LET off == {x \in Checkers : taPc[x] = "idle"} IN IF off = {} THEN {} ELSE {CHOOSE x \in off : TRUE}

\* NewCacheItem; i is the name it gets.
New(i, life, interval) ==
    [heap EXCEPT ![i] = [Dead EXCEPT !.life = life, !.interval = interval]]
Fresh == IF Ids \subseteq Used THEN {} ELSE {CHOOSE i \in Ids : i \notin Used}

-----------------------------------------------------------------------------
\* SetRaw and the second half of Add make the item before they lock.
Set(c, k, life, interval) ==
    /\ Begins(c) /\ TaGo(c, "idle", "insert")
    /\ accessCount' = (accessCount \/ interval)
    /\ UNCHANGED <<items, cleanupInterval, timer, lock, expDur, todo>>
    /\ \E i \in Fresh : Holds(c, k, i) /\ heap' = Collect(New(i, life, interval))

AddLook(c, k, life, interval) ==
    /\ Begins(c) /\ lock = Nothing /\ items[k] = Nothing
    /\ TaGo(c, "idle", "insert")
    /\ UNCHANGED <<table, lock, expDur, todo>>
    /\ \E i \in Fresh : Holds(c, k, i) /\ heap' = Collect(New(i, life, interval))

\* addInternal.
Insert(c) ==
    /\ lock = Nothing /\ TaGo(c, "insert", "added")
    /\ items' = [items EXCEPT ![key[c]] = item[c]]
    /\ expDur' = [expDur EXCEPT ![c] = cleanupInterval]
    /\ UNCHANGED <<accessCount, cleanupInterval, timer, lock, key, item, todo, calls>>
    /\ heap' = Collect(heap)

OnlyShorter(life, exp) == life > 0 /\ life < exp   \* mutant: no timer yet is not looked at
NeedsCheck(life, exp) == life > 0 /\ (exp = 0 \/ life < exp)

Added(c) ==
    /\ taPc[c] = "added"
    /\ IF NeedsCheck(heap[item[c]].life, expDur[c])
       THEN \E x \in Spare : taPc' = [taPc EXCEPT ![c] = "idle", ![x] = "due"]
       ELSE taPc' = [taPc EXCEPT ![c] = "idle"]
    /\ expDur' = [expDur EXCEPT ![c] = 0]
    /\ UNCHANGED <<table, lock, todo, calls>>
    /\ Done(c) /\ heap' = Collect(heap)

\* MustGet: the item is in the table, locked, while the loader works.
MustGet(c, k) ==
    /\ Begins(c) /\ lock = Nothing
    /\ \/ /\ items[k] # Nothing
          /\ TaGo(c, "idle", "touch") /\ Holds(c, k, items[k])
          /\ UNCHANGED <<items, heap>>
       \/ /\ items[k] = Nothing
          /\ \E at \in {"load"} \cup (IF LoaderUses THEN {"using"} ELSE {}) : TaGo(c, "idle", at)
          /\ \E i \in Fresh :
                /\ Holds(c, k, i) /\ items' = [items EXCEPT ![k] = i]
                /\ heap' = [heap EXCEPT ![i] = [Dead EXCEPT !.loading = TRUE]]
    /\ UNCHANGED <<accessCount, cleanupInterval, timer, lock, expDur, todo>>

\* The loader takes the table's lock, with the item's lock held.
LoaderLocks(c) ==
    /\ lock = Nothing /\ TaGo(c, "using", "load")
    /\ UNCHANGED <<table, heap, lock, key, item, expDur, todo, calls>>

Load(c, life, interval, ok) ==
    /\ TaGo(c, "load", IF ok THEN "insert" ELSE "undo")
    /\ heap' = [heap EXCEPT ![item[c]] = [@ EXCEPT !.life = life, !.interval = interval, !.loading = FALSE]]
    /\ UNCHANGED <<table, lock, key, item, expDur, todo, calls>>

UndoAdd(c) ==
    /\ lock = Nothing /\ TaGo(c, "undo", "idle")
    /\ items' = [items EXCEPT ![key[c]] = Nothing]
    /\ Done(c) /\ heap' = Collect(heap)
    /\ UNCHANGED <<accessCount, cleanupInterval, timer, lock, expDur, todo, calls>>

\* GetT and Get: the answer of loadNotCallback, when there is one, is set.
Get(c, k) ==
    /\ Begins(c) /\ lock = Nothing /\ items[k] # Nothing
    /\ TaGo(c, "idle", IF accessCount THEN "touch" ELSE "read") /\ Holds(c, k, items[k])
    /\ UNCHANGED <<table, heap, lock, expDur, todo>>

\* keepAlive and Data, which wait for a loader.
Touch(c) ==
    /\ TaGo(c, "touch", "idle") /\ ~heap[item[c]].loading
    /\ UNCHANGED <<table, lock, expDur, todo, calls>>
    /\ Done(c) /\ heap' = Collect([heap EXCEPT ![item[c]].idle = 0])

Read(c) ==
    /\ TaGo(c, "read", "idle") /\ ~heap[item[c]].loading
    /\ UNCHANGED <<table, lock, expDur, todo, calls>>
    /\ Done(c) /\ heap' = Collect(heap)

Clear(c) ==
    /\ Begins(c) /\ lock = Nothing
    /\ items' = [k \in Keys |-> Nothing] /\ cleanupInterval' = 0 /\ timer' = Nothing
    /\ UNCHANGED <<accessCount, lock, taPc, key, item, expDur, todo>>
    /\ heap' = Collect(heap)

-----------------------------------------------------------------------------
\* Delete, of callers and of expirationCheck, which goes on with its next key.
Delete(c, k) ==
    /\ Begins(c) /\ TaGo(c, "idle", "delete") /\ Holds(c, k, Nothing)
    /\ UNCHANGED <<table, heap, lock, expDur, todo>>

After(p) == IF p \in Checkers THEN "sweep" ELSE "idle"

DeleteLock(p) ==
    /\ taPc[p] = "delete" /\ lock = Nothing
    /\ IF items[key[p]] = Nothing
       THEN TaGo(p, "delete", After(p)) /\ Done(p) /\ UNCHANGED lock
       ELSE TaGo(p, "delete", "delete locked") /\ Holds(p, key[p], items[key[p]]) /\ lock' = p
    /\ UNCHANGED <<table, heap, expDur, todo, calls>>

LockStays == lock   \* mutant: the table stays locked for the callbacks
LockFreed == Nothing

\* The item's callback is read under its lock; then the table is unlocked.
DeleteUnlock(p) ==
    /\ TaGo(p, "delete locked", "callback") /\ ~heap[item[p]].loading
    /\ lock' = LockFreed
    /\ UNCHANGED <<table, heap, key, item, expDur, todo, calls>>

\* Callbacks may use the table.
Callback(p, yes) ==
    /\ TaGo(p, "callback", IF yes THEN "delete now" ELSE "keep") /\ lock = Nothing
    /\ UNCHANGED <<table, heap, lock, key, item, expDur, todo, calls>>

\* Whatever is under the key by now is deleted.
DeleteNow(p) ==
    /\ lock = Nothing /\ TaGo(p, "delete now", After(p))
    /\ items' = [items EXCEPT ![key[p]] = Nothing]
    /\ Done(p) /\ heap' = Collect(heap)
    /\ UNCHANGED <<accessCount, cleanupInterval, timer, lock, expDur, todo, calls>>

Keep(p) ==
    /\ lock = Nothing /\ TaGo(p, "keep", After(p)) /\ Done(p)
    /\ UNCHANGED <<table, lock, expDur, todo, calls>>
    /\ heap' = Collect([heap EXCEPT ![item[p]] = [@ EXCEPT !.idle = 0, !.kept = TRUE]])

-----------------------------------------------------------------------------
\* expirationCheck.
CheckLock(x) ==
    /\ lock = Nothing /\ TaGo(x, "due", "scan")
    /\ lock' = x /\ timer' = Nothing
    /\ UNCHANGED <<items, accessCount, cleanupInterval, heap, key, item, expDur, todo, calls>>

Renewed(i) == accessCount /\ heap[i].interval
Expired(i) ==
    /\ heap[i].life > 0
    /\ IF Renewed(i) THEN heap[i].idle >= heap[i].life ELSE heap[i].age >= heap[i].life

AtMost(n, max) == IF n > max THEN max ELSE n

\* A renewed item that has not expired gets twice its lifespan.
Scanned(i) ==
    IF heap[i].life > 0 /\ Renewed(i) /\ ~Expired(i)
    THEN [heap[i] EXCEPT !.life = AtMost(2 * @, MaxLife)] ELSE heap[i]

Remaining(i) == Scanned(i).life - (IF Renewed(i) THEN heap[i].idle ELSE heap[i].age)

Durations ==
    {Remaining(items[k]) : k \in {k \in Keys : items[k] # Nothing /\ heap[items[k]].life > 0 /\ ~Expired(items[k])}}
Smallest(durations) ==
    IF durations = {} THEN 0 ELSE CHOOSE d \in durations : \A e \in durations : d <= e

ScanItems(x) ==
    LET present == {k \in Keys : items[k] # Nothing} IN
    /\ taPc[x] = "scan" /\ \A k \in present : ~heap[items[k]].loading
    /\ TaGo(x, "scan", "sweep")
    /\ todo' = [todo EXCEPT ![x] = {k \in present : Expired(items[k])}]
    /\ heap' = [i \in Ids |-> IF i \in {items[k] : k \in present} THEN Scanned(i) ELSE heap[i]]
    /\ cleanupInterval' = Smallest(Durations)
    /\ timer' = IF cleanupInterval' > 0 THEN cleanupInterval' ELSE Nothing
    /\ lock' = Nothing
    /\ UNCHANGED <<items, accessCount, key, item, expDur, calls>>

Sweep(x) ==
    /\ taPc[x] = "sweep"
    /\ \/ todo[x] = {} /\ TaGo(x, "sweep", "idle") /\ UNCHANGED <<key, todo>>
       \/ \E k \in todo[x] :
             /\ TaGo(x, "sweep", "delete") /\ key' = [key EXCEPT ![x] = k]
             /\ todo' = [todo EXCEPT ![x] = @ \ {k}]
    /\ UNCHANGED <<table, heap, lock, item, expDur, calls>>

TimerFires ==
    /\ timer = 0 /\ timer' = Nothing
    /\ \E x \in Spare : TaGo(x, "idle", "due")
    /\ UNCHANGED <<items, accessCount, cleanupInterval, heap, lock, key, item, expDur, todo, calls>>

\* Ages are told apart only as far as a scan does: up to the lifespan, and up
\* to MaxLife while that is not known.
Older(i) ==
    LET max == IF heap[i].loading THEN MaxLife ELSE heap[i].life IN
    [heap[i] EXCEPT !.age = IF Renewed(i) THEN @ ELSE AtMost(@ + 1, max),
                    !.idle = IF heap[i].loading \/ heap[i].interval THEN AtMost(@ + 1, max) ELSE @]

Tick ==
    /\ timer # 0
    /\ timer' = IF timer = Nothing THEN Nothing ELSE timer - 1
    /\ heap' = [i \in Ids |-> Older(i)]
    /\ UNCHANGED <<items, accessCount, cleanupInterval, lock, taPc, key, item, expDur, todo, calls>>

-----------------------------------------------------------------------------
Call(c) ==
    \/ \E k \in Keys, life \in Lives, interval \in BOOLEAN :
          Set(c, k, life, interval) \/ AddLook(c, k, life, interval)
    \/ \E k \in Keys : MustGet(c, k) \/ Get(c, k) \/ Delete(c, k)
    \/ Clear(c)

CallerStep(c) ==
    \/ Insert(c) \/ Added(c) \/ LoaderLocks(c) \/ UndoAdd(c) \/ Touch(c) \/ Read(c)
    \/ \E life \in Lives, interval \in BOOLEAN, ok \in BOOLEAN : Load(c, life, interval, ok)

DeleteStep(p) ==
    \/ DeleteLock(p) \/ DeleteUnlock(p) \/ DeleteNow(p) \/ Keep(p)
    \/ \E yes \in BOOLEAN : (yes \/ MayKeep) /\ Callback(p, yes)

CheckStep(x) == CheckLock(x) \/ ScanItems(x) \/ Sweep(x)

TaNext ==
    \/ \E c \in TableCallers : Call(c) \/ CallerStep(c)
    \/ \E p \in Procs : DeleteStep(p)
    \/ \E x \in Checkers : CheckStep(x)
    \/ TimerFires \/ Tick

TaSpec == TaInit /\ [][TaNext]_taVars

(* Whoever has begun goes on, loaders and callbacks return, time passes    *)
(* and timers fire.  sync.Mutex serves who has waited long (its starvation *)
(* mode): strong fairness.                                                 *)
TaFairSpec ==
    /\ TaSpec /\ WF_taVars(Tick) /\ SF_taVars(TimerFires)
    /\ \A c \in TableCallers : SF_taVars(CallerStep(c) \/ DeleteStep(c))
    /\ \A x \in Checkers : SF_taVars(CheckStep(x) \/ DeleteStep(x))

-----------------------------------------------------------------------------
TaTypeOK ==
    /\ items \in [Keys -> Ids \cup {Nothing}] /\ accessCount \in BOOLEAN
    /\ cleanupInterval \in 0..MaxLife /\ timer \in (0..MaxLife) \cup {Nothing}
    /\ heap \in [Ids -> Item]
    /\ lock = Nothing \/ (lock \in Procs /\ taPc[lock] \in {"delete locked", "scan"})
    /\ taPc \in [Procs -> {"idle", "insert", "added", "using", "load", "undo", "touch", "read", "delete", "delete locked",
                         "callback", "delete now", "keep", "due", "scan", "sweep"}]
    /\ key \in [Procs -> Keys \cup {Nothing}] /\ item \in [Procs -> Ids \cup {Nothing}]
    /\ calls \in 0..MaxCalls
    /\ expDur \in [TableCallers -> 0..MaxLife] /\ todo \in [Checkers -> SUBSET Keys]

Mortal(i) == heap[i].life > 0 /\ ~heap[i].loading /\ ~heap[i].kept

\* Whether somebody is on the way who will look at item i, under key k.
InHand(k, i) ==
    \/ \E c \in TableCallers : item[c] = i /\ taPc[c] \in {"insert", "undo"}
    \/ \E c \in TableCallers : item[c] = i /\ taPc[c] = "added" /\ NeedsCheck(heap[i].life, expDur[c])
    \/ \E x \in Checkers :
          \/ taPc[x] \in {"due", "scan"} \/ k \in todo[x]
          \/ key[x] = k /\ taPc[x] = "delete"
          \/ item[x] = i /\ taPc[x] \in {"delete locked", "callback", "delete now", "keep"}

\* An item that can expire is never forgotten: a timer runs, or somebody is on
\* the way, whatever is set, deleted, cleared and scanned in between.
FollowedUp ==
    \A k \in Keys : items[k] # Nothing /\ Mortal(items[k]) => timer # Nothing \/ InHand(k, items[k])

\* Nothing leaves this state: a deletion or a check holds the table and waits for the lock
\* of an item whose loader waits for the table.
TableJammed ==
    \E c \in TableCallers :
        /\ taPc[c] = "using"
        /\ \E p \in Procs :
              /\ lock = p
              /\ \/ taPc[p] = "delete locked" /\ item[p] = item[c]
                 \/ taPc[p] = "scan" /\ \E k \in Keys : items[k] = item[c]

Overdue(k) ==
    LET i == items[k] IN i # Nothing /\ Mortal(i) /\ ~heap[i].interval /\ Expired(i)
=============================================================================
