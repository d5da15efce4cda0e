------------------------------- MODULE Dedup -------------------------------
(***************************************************************************)
(* RequestDeduplicator of zhttp/dedup.go: calls for the same request wait  *)
(* for the one that makes it, and get a clone of its answer.  A request is *)
(* a model value, as its hash; an answer is the number of the entry that   *)
(* was filled with it.  Entries are never touched after they are done.     *)
(***************************************************************************)
EXTENDS Integers, FiniteSets
FSE == INSTANCE FiniteSetsExt

CONSTANTS
    Askers,       \* goroutines that call Do
    Requests,     \* what they ask for
    MaxCacheSize, \* of the configuration
    Windows,      \* the windows that SetWindow may set
    MaxNow        \* bound on the clock

ASSUME DedupAssumption ==
    /\ {MaxCacheSize, MaxNow} \subseteq Nat /\ MaxCacheSize > 0
    /\ IsFiniteSet(Requests) /\ IsFiniteSet(Askers) /\ Windows \subseteq Nat /\ Windows # {}

VARIABLES
    clock, window,
    entries,   \* entries[r]: the entry in the table, 0 for none
    cell,      \* the entries: what for, until when, "open", "done" or "lost"
    ask        \* ask[a]: where a call is, its request, its entry, its answer

ddVars == <<clock, window, entries, cell, ask>>

\* Entries are numbered, and the numbers of those that nobody leads to used again.
Entry == 1..(Cardinality(Requests) + Cardinality(Askers))
Blank == [request |-> "none", expireAt |-> 0, state |-> "open"]
Quiet == [at |-> "idle", r |-> "none", e |-> 0]

DdInit ==
    /\ clock = 0 /\ window \in Windows
    /\ entries = [r \in Requests |-> 0]
    /\ cell = [e \in Entry |-> Blank]
    /\ ask = [a \in Askers |-> Quiet]

-----------------------------------------------------------------------------
\* cleanup, of a table f over its limit: first expired entries, a quarter of the
\* table at most (and only the first one met if that is less than one), then
\* as many as half the table, done or not, in the order of the map.
InTable(f) == {r \in Requests : f[r] # 0}
WithoutThem(f, S) == [r \in Requests |-> IF r \in S THEN 0 ELSE f[r]]
ExpiredOf(f, late) ==
    LET q == Cardinality(InTable(f)) \div 4
        sizes == IF q > 0 THEN {IF q < Cardinality(late) THEN q ELSE Cardinality(late)}
                 ELSE (IF late = {} THEN {} ELSE {1}) \cup (IF late = InTable(f) THEN {} ELSE {0})
    IN  UNION {FSE!kSubset(k, late) : k \in sizes}
HalfOf(f) == Cardinality(InTable(f)) \div 2
CleanedOfLate(f, late) ==    \* mutant: only expired entries are evicted
    IF Cardinality(InTable(f)) <= MaxCacheSize THEN {f}
    ELSE {WithoutThem(f, S) : S \in ExpiredOf(f, late)}
CleanedUp(f, late) ==
    IF Cardinality(InTable(f)) <= MaxCacheSize THEN {f}
    ELSE UNION {LET g == WithoutThem(f, S) IN
                IF Cardinality(InTable(g)) <= MaxCacheSize THEN {g}
                ELSE {WithoutThem(g, T) : T \in FSE!kSubset(HalfOf(g), InTable(g))}
                : S \in ExpiredOf(f, late)}

Late(e) == clock > cell[e].expireAt

\* Entries in use; the others are garbage.
Referenced == {entries[r] : r \in Requests} \cup {ask[a].e : a \in Askers}
Collected(c) == cell' = [e \in Entry |-> IF e \in Referenced' THEN c[e] ELSE Blank]
InDate(r) == entries[r] # 0 /\ ~Late(entries[r])

\* Do, up to the release of rd.mu.  A call that finds deduplication off touches
\* none of this, and is left out with its switch.
Join(a, r) ==
    /\ ask[a].at = "idle" /\ InDate(r)
    /\ ask' = [ask EXCEPT ![a] = [at |-> "wait", r |-> r, e |-> entries[r]]]
    /\ UNCHANGED <<clock, window, entries, cell>>

Fetch(a, r) ==
    /\ ask[a].at = "idle" /\ ~InDate(r)
    /\ LET e == CHOOSE x \in Entry : x \notin Referenced
           f == [entries EXCEPT ![r] = e]
           late == {x \in InTable(f) : x # r /\ Late(f[x])}
       IN  /\ entries' \in CleanedUp(f, late)
           /\ ask' = [ask EXCEPT ![a] = [at |-> "fetch", r |-> r, e |-> e]]
           /\ Collected([cell EXCEPT ![e] =
                 [request |-> r, expireAt |-> clock + window, state |-> "open"]])
    /\ UNCHANGED <<clock, window>>

\* fn has returned, with an answer or an error, which are kept and shared alike: the entry
\* is filled, and those who wait are woken.
Answering(e) == [cell EXCEPT ![e].state = "done"]
Answered(a) ==
    /\ ask[a].at = "fetch"
    /\ ask' = [ask EXCEPT ![a] = Quiet]
    /\ UNCHANGED <<clock, window, entries>>
    /\ Collected(Answering(ask[a].e))

\* fn panics: the entry is never done.
Panics(a) ==
    /\ ask[a].at = "fetch"
    /\ ask' = [ask EXCEPT ![a] = Quiet]
    /\ UNCHANGED <<clock, window, entries>>
    /\ Collected([cell EXCEPT ![ask[a].e].state = "lost"])

\* One who waits finds the entry done, at once or when woken, and takes a clone.
Shared(a) ==
    /\ ask[a].at = "wait" /\ cell[ask[a].e].state = "done"
    /\ ask' = [ask EXCEPT ![a] = Quiet]
    /\ UNCHANGED <<clock, window, entries>>
    /\ Collected(cell)

DdClear ==
    /\ entries' = [r \in Requests |-> 0]
    /\ UNCHANGED <<clock, window, ask>>
    /\ Collected(cell)
SetWindow(w) ==
    /\ window' = w
    /\ UNCHANGED <<clock, entries, cell, ask>>
DdTick ==
    /\ clock < MaxNow /\ clock' = clock + 1
    /\ UNCHANGED <<window, entries, cell, ask>>

DdNext ==
    \/ \E a \in Askers :
          \/ \E r \in Requests : Join(a, r) \/ Fetch(a, r)
          \/ Answered(a) \/ Panics(a) \/ Shared(a)
    \/ DdClear \/ DdTick
    \/ \E w \in Windows : SetWindow(w)

DdSpec == DdInit /\ [][DdNext]_ddVars

\* fn returns or panics, and those who are woken go on.
DdAskerStep(a) == Answered(a) \/ Panics(a) \/ Shared(a)
DdFairSpec == DdSpec /\ \A a \in Askers : WF_ddVars(DdAskerStep(a))

-----------------------------------------------------------------------------
\* However calls, expiry, eviction and Clear interleave: the table stays within
\* its limit; one who waits does so for a request of its own kind, which
\* somebody is still making unless it has panicked, though its entry may have
\* left the table long ago.
DedupSound ==
    /\ Cardinality(InTable(entries)) <= MaxCacheSize
    /\ \A r \in Requests : entries[r] # 0 => cell[entries[r]].request = r
    /\ \A a \in Askers : ask[a].at = "wait" =>
          /\ cell[ask[a].e].request = ask[a].r
          /\ cell[ask[a].e].state = "open" => \E b \in Askers : ask[b].at = "fetch" /\ ask[b].e = ask[a].e
=============================================================================
