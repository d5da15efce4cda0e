----------------------------- MODULE FastCache -----------------------------
(***************************************************************************)
(* One bucket of the cache of zcache/fast: an LRU list (utils.go) of Cap   *)
(* nodes and, behind it, a second one of Cap2 nodes for what has been read *)
(* once.  Each operation holds the bucket's lock; buckets share nothing.   *)
(*                                                                         *)
(* A value is told apart only by whether it is the last one set for its    *)
(* key ("new") or not ("old").  exp is the time left: a Tick lowers it to  *)
(* -1 at least; Never stands for an expireAt of zero.                      *)
(***************************************************************************)
EXTENDS Integers, FiniteSets, Sequences

CONSTANTS
    FKeys,      \* keys
    Cap, Cap2,  \* capacities of the two lists
    TwoLevels,  \* whether there may be a second list: subset of BOOLEAN
    FLives,     \* expirations that Set is called with
    MaxSize,    \* bound on size, which is not lowered when Get finds an expired item
    Never       \* the expireAt of an item that does not expire

ASSUME FastAssumption ==
    /\ Cap \in Nat \ {0} /\ Cap2 \in Nat \ {0} /\ TwoLevels \subseteq BOOLEAN
    /\ FLives \subseteq Nat /\ MaxSize \in Nat /\ Never \in Nat \ {0} /\ "none" \notin FKeys

VARIABLES
    two,        \* whether there is a second list
    lru         \* the two lists

fcVars == <<two, lru>>

-----------------------------------------------------------------------------
(* lruCache.  dl holds the links of the nodes, with the head and the tail  *)
(* at 0; hash holds the node of a key, or 0.                               *)

NoNode == [key |-> "none", val |-> "none", exp |-> Never, dead |-> FALSE]

EmptyList(cap) ==
    [last |-> 0, size |-> 0, hash |-> [k \in FKeys |-> 0],
     nodes |-> [i \in 1..cap |-> NoNode],
     dl |-> [i \in 0..cap |-> [p |-> 0, n |-> 0]]]

AdjustLinksLate(c, x, f, t) ==   \* mutant: the old end is not linked to x
    IF c.dl[x][f] = 0 THEN c
    ELSE [c EXCEPT !.dl = [c.dl EXCEPT
            ![c.dl[x][t]][f] = c.dl[x][f], ![c.dl[x][f]][t] = c.dl[x][t],
            ![x][f] = 0, ![x][t] = c.dl[0][t], ![0][t] = x]]

\* adjust: node x goes to the t end of the list.
Adjust(c, x, f, t) ==
    IF c.dl[x][f] = 0 THEN c
    ELSE [c EXCEPT !.dl = [c.dl EXCEPT
            ![c.dl[x][t]][f] = c.dl[x][f], ![c.dl[x][f]][t] = c.dl[x][t],
            ![x][f] = 0, ![x][t] = c.dl[0][t],
            ![c.dl[0][t]][f] = x, ![0][t] = x]]

ToFront(c, x) == Adjust(c, x, "p", "n")
ToBack(c, x) == Adjust(c, x, "n", "p")

Item(k, v, e) == [key |-> k, val |-> v, exp |-> e, dead |-> FALSE]

Grown(c, x) == IF c.nodes[x].dead THEN c.size + 1 ELSE c.size

Put(c, k, v, e) ==
    LET x == c.hash[k]
        tail == c.dl[0].p
        new == c.last + 1
        Fill(y, hash) == [c EXCEPT !.nodes[y] = Item(k, v, e), !.size = Grown(c, y), !.hash = hash]
    IN  IF x # 0 THEN ToFront(Fill(x, c.hash), x)
        ELSE IF c.last = Cardinality(DOMAIN c.nodes)
        THEN ToFront(Fill(tail, [c.hash EXCEPT ![c.nodes[tail].key] = 0, ![k] = tail]), tail)
        ELSE [c EXCEPT !.last = new, !.size = @ + 1, !.hash[k] = new, !.nodes[new] = Item(k, v, e),
                !.dl = [c.dl EXCEPT ![c.dl[0].n].p = new, ![new] = [p |-> 0, n |-> c.dl[0].n], ![0].n = new]]

Holds(c, k) == c.hash[k] # 0 /\ ~c.nodes[c.hash[k]].dead

\* delete; the value of a dead node is never read again.
Drop(c, k) ==
    LET x == c.hash[k] IN
    ToBack([c EXCEPT !.nodes[x].dead = TRUE, !.nodes[x].exp = Never, !.nodes[x].val = "none",
                     !.size = IF @ > 0 THEN @ - 1 ELSE 0], x)

Expired(i) == i.exp # Never /\ i.exp <= 0
Served(i) == ~i.dead /\ (i.exp = Never \/ i.exp >= 0)

\* The nodes that the links lead to from the front.
Walk(c) ==
    LET W[i \in 0..Cardinality(DOMAIN c.nodes), x \in DOMAIN c.dl] ==
            IF x = 0 \/ i = 0 THEN <<>> ELSE <<x>> \o W[i - 1, c.dl[x].n]
    IN  W[Cardinality(DOMAIN c.nodes), c.dl[0].n]

FirstExpired(c) ==
    LET w == Walk(c)
        S == {i \in 1..Len(w) : ~c.nodes[w[i]].dead /\ Expired(c.nodes[w[i]])}
    IN  IF S = {} THEN 0 ELSE CHOOSE i \in S : \A j \in S : i <= j

\* cleanExpired and forEach follow the link of a node that delete has moved to
\* the end: they stop at the first expired one.
Cleaned(c) ==
    LET i == FirstExpired(c) IN IF i = 0 THEN c ELSE Drop(c, c.nodes[Walk(c)[i]].key)

-----------------------------------------------------------------------------
FcInit ==
    /\ two \in TwoLevels
    /\ lru = <<EmptyList(Cap), EmptyList(Cap2)>>

\* History: no value of k is the last one any more.
Aged(c, k) ==
    [c EXCEPT !.nodes = [i \in DOMAIN @ |->
        IF @[i].key = k /\ @[i].val = "new" THEN [@[i] EXCEPT !.val = "old"] ELSE @[i]]]

FSet(k, e) ==
    /\ \A l \in 1..2 : lru[l].size < MaxSize
    /\ lru' = <<Put(Aged(lru[1], k), k, "new", e), Aged(lru[2], k)>>
    /\ UNCHANGED two

\* getValue: an expired item is marked, and stays where get has moved it.
GetValue(c, k) ==
    LET x == c.hash[k]
        d == ToFront(c, x)
    IN  IF x = 0 THEN c
        ELSE IF Served(c.nodes[x]) THEN d
        ELSE [d EXCEPT !.nodes[x].dead = TRUE, !.nodes[x].val = "none"]

FGet(k) ==
    /\ LET i == lru[1].nodes[lru[1].hash[k]] IN
       lru' = IF ~two THEN <<GetValue(lru[1], k), lru[2]>>
              ELSE IF Holds(lru[1], k)
              THEN <<Drop(lru[1], k), Put(lru[2], k, i.val, i.exp)>>
              ELSE <<lru[1], GetValue(lru[2], k)>>
    /\ UNCHANGED two

Without(c, k) == IF Holds(c, k) THEN Drop(c, k) ELSE c
BothLevels(k) == <<Without(lru[1], k), Without(lru[2], k)>>

FDelete(k) ==
    /\ lru' = BothLevels(k)
    /\ UNCHANGED two

\* ForEach, which hands the live items to its walker on the way, and the
\* cleaner do the same to the lists.
CleanExpired ==
    /\ lru' = <<Cleaned(lru[1]), Cleaned(lru[2])>>
    /\ UNCHANGED two

Older(c) ==
    [c EXCEPT !.nodes = [i \in DOMAIN @ |->
        IF @[i].exp \in {Never, -1} THEN @[i] ELSE [@[i] EXCEPT !.exp = @ - 1]]]

FTick ==
    /\ lru' = <<Older(lru[1]), Older(lru[2])>>
    /\ UNCHANGED two

FcNext ==
    \/ \E k \in FKeys : FGet(k) \/ FDelete(k) \/ \E e \in FLives \cup {Never} : FSet(k, e)
    \/ CleanExpired \/ FTick

FcSpec == FcInit /\ [][FcNext]_fcVars

-----------------------------------------------------------------------------
Live(c) == {k \in FKeys : Holds(c, k)}

\* The links form one list through all the nodes in use, in both directions,
\* and hash leads to the one node of each key.
ListSound(c) ==
    LET w == Walk(c) IN
    /\ Len(w) = c.last /\ {w[i] : i \in 1..Len(w)} = 1..c.last
    /\ c.dl[0].p = IF c.last = 0 THEN 0 ELSE w[c.last]
    /\ \A i \in 1..c.last : c.dl[w[i]].p = IF i = 1 THEN 0 ELSE w[i - 1]
    /\ \A i \in 1..c.last : c.dl[w[i]].n = IF i = c.last THEN 0 ELSE w[i + 1]
    /\ \A i \in 1..c.last : c.hash[c.nodes[i].key] = i
    /\ \A k \in FKeys : c.hash[k] # 0 => c.nodes[c.hash[k]].key = k

\* However items are set, read, moved between the lists, expire and are thrown
\* out, the links and the index stay sound, a list is never taken for empty
\* while it holds an item, and the first list holds nothing but the last
\* value set for a key.
CacheSound ==
    /\ \A l \in 1..2 : ListSound(lru[l]) /\ lru[l].size >= Cardinality(Live(lru[l]))
    /\ \A k \in Live(lru[1]) : lru[1].nodes[lru[1].hash[k]].val = "new"
=============================================================================
