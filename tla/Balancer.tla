------------------------------ MODULE Balancer ------------------------------
(***************************************************************************)
(* The load balancer of zpool/balancer.go: calls of RunByKeys choose a     *)
(* node, raise its count of connections, call it and try again on failure, *)
(* while other goroutines add, remove, mark, weigh and walk the nodes.     *)
(*                                                                         *)
(* What happens under mu is one step: RBMutex.tla says when its lock does  *)
(* exclude.  The counts and failure times are atomics that calls change    *)
(* without the lock; every test and every change of them is a step (one read of    *)
(* several nodes, for a list or for the least score, is one step).         *)
(* Random and weighted choice, which any index may come out of, are one    *)
(* strategy here.                                                          *)
(***************************************************************************)
EXTENDS Integers, Sequences, FiniteSets

CONSTANTS
    Keys, Runners, Admins,
    Asked,          \* [Runners -> SUBSET Keys]: the keys argument; {} is nil
    Strategy,       \* [Runners -> {"random", "round robin", "least conn"}]
    MaxConns,       \* [Keys -> Nat]: the option, 0 for no limit
    Weights,        \* weights given to Add and SetWeight
    First,          \* the keys already added, with the default weight 1
    Cooldown,
    Outcomes,       \* what the callback may do, a subset of AllOutcomes
    None,
    MaxGen,         \* bound: how often a key is added
    MaxOps,         \* bound: how many administrative operations begin
    Beside,         \* bound: how many calls there are in a behaviour with such operations
    MaxTime,        \* bound: the clock
    IdxPeriod       \* a common multiple of the possible numbers of nodes

AllOutcomes == {"ok", "error", "bad", "bad error", "panic"}

ASSUME BalancerAssumption ==
    /\ IsFiniteSet(Runners)
    /\ Asked \in [Runners -> SUBSET Keys]
    /\ Strategy \in [Runners -> {"random", "round robin", "least conn"}]
    /\ MaxConns \in [Keys -> Nat] /\ 1 \in Weights /\ Weights \subseteq Nat /\ Cooldown \in Nat
    /\ Outcomes \subseteq AllOutcomes
    /\ First \in Seq(Keys) /\ \A i, j \in DOMAIN First : First[i] = First[j] => i = j
    /\ MaxGen \in Nat \ {0} /\ MaxOps \in Nat /\ Beside \in Nat /\ MaxTime \in Nat \ {0} /\ IdxPeriod \in Nat \ {0}
    /\ None \notin Keys /\ None \notin Keys \X (1..MaxGen)

\* A balancerNode: the g-th that Add made for the key.
Nodes == Keys \X (1..MaxGen)
max(n) == MaxConns[n[1]]

VARIABLES
    nodes, nodeKeys, lastNodeIdx,     \* the Balancer
    total, failedAt, weight,          \* the nodes
    now, made, ops,                   \* the clock; nodes made; operations begun
    pc, list, cand, sel, left,        \* RunByKeys: nodes, availableNodes, the
                                      \* node, and the retries that are left
    apc, akey, walk, saw              \* Admins: operation, key, keys to walk, and
                                      \* what the walk saw of the node
admin == <<nodes, nodeKeys, weight, made, ops, apc, akey, walk, saw>>
run == <<lastNodeIdx, pc, list, cand, sel, left>>
vars == <<nodes, nodeKeys, lastNodeIdx, total, failedAt, weight, now, made, ops,
          pc, list, cand, sel, left, apc, akey, walk, saw>>

Init ==
    /\ nodeKeys = First /\ lastNodeIdx = 0
    /\ made = [k \in Keys |-> IF \E i \in DOMAIN First : First[i] = k THEN 1 ELSE 0]
    /\ nodes = [k \in Keys |-> IF made[k] = 1 THEN <<k, 1>> ELSE None]
    /\ total = [n \in Nodes |-> 0] /\ failedAt = [n \in Nodes |-> 0]
    /\ weight = [n \in Nodes |-> 1]
    /\ now = 1 /\ ops = 0
    /\ pc = [r \in Runners |-> "idle"]
    /\ list = [r \in Runners |-> <<>>] /\ cand = [r \in Runners |-> <<>>]
    /\ sel = [r \in Runners |-> None] /\ left = [r \in Runners |-> 0]
    /\ apc = [a \in Admins |-> "idle"] /\ akey = [a \in Admins |-> None]
    /\ walk = [a \in Admins |-> <<>>] /\ saw = [a \in Admins |-> None]

Go(r, from, to) == pc[r] = from /\ pc' = [pc EXCEPT ![r] = to]
AGo(a, from, to) == apc[a] = from /\ apc' = [apc EXCEPT ![a] = to]

IndexOf(s, x) == CHOOSE i \in DOMAIN s : s[i] = x
\* s without its i-th entry, which the last one replaces.
SwapRemove(s, i) == SubSeq([s EXCEPT ![i] = s[Len(s)]], 1, Len(s) - 1)

Cooling(n) == failedAt[n] > 0 /\ now - failedAt[n] <= Cooldown
Overfull(n) == max(n) > 0 /\ total[n] > max(n)

-----------------------------------------------------------------------------
\* RunByKeys.
Available(asked) ==
    LET Takes(k) == (asked = {} \/ k \in asked) /\ ~Cooling(nodes[k]) /\ ~Overfull(nodes[k])
        keys == SelectSeq(nodeKeys, Takes)
    IN  [i \in DOMAIN keys |-> nodes[keys[i]]]

Called == {r \in Runners : pc[r] # "idle"}

Begin(r) ==
    /\ Go(r, "idle", IF nodeKeys = <<>> THEN "no nodes" ELSE "get")
    /\ ops = 0 \/ Cardinality(Called) < Beside
    /\ UNCHANGED <<total, failedAt, now, lastNodeIdx, list, cand, sel, left, admin>>

GetNodes(r) ==
    LET found == Available(Asked[r]) IN
    /\ Go(r, "get", IF found = <<>> THEN "no node" ELSE "attempt")
    /\ list' = [list EXCEPT ![r] = found]
    /\ left' = [left EXCEPT ![r] = Len(found)]
    /\ UNCHANGED <<total, failedAt, now, lastNodeIdx, cand, sel, admin>>

\* One round of DoRetry; it starts with a copy of the list.
Attempt(r) ==
    /\ Go(r, "attempt", IF list[r] = <<>> THEN "failed" ELSE "pick")
    /\ cand' = [cand EXCEPT ![r] = list[r]]
    /\ UNCHANGED <<total, failedAt, now, lastNodeIdx, list, sel, left, admin>>

score(n) == (total[n] * 100) \div weight[n]

\* A list of one node is not chosen from.
choosesBy(r, strategy) == Len(list[r]) > 1 /\ Strategy[r] = strategy

\* Whether the i-th of the remaining nodes c may be chosen.
MayChoose(r, c, i) ==
    \/ Len(list[r]) = 1 \/ Strategy[r] = "random"
    \/ choosesBy(r, "round robin") /\ i = (lastNodeIdx' % Len(c)) + 1
    \/ /\ choosesBy(r, "least conn")   \* the first of the least scores
       /\ \A j \in DOMAIN c : score(c[i]) <= score(c[j])
       /\ \A j \in 1..(i - 1) : score(c[i]) < score(c[j])

NoScore(r) == choosesBy(r, "least conn") /\ \E i \in DOMAIN cand[r] : weight[cand[r][i]] = 0

Pick(r) ==
    /\ Go(r, "pick", "test") /\ ~NoScore(r)
    /\ lastNodeIdx' = IF choosesBy(r, "round robin") THEN (lastNodeIdx + 1) % IdxPeriod ELSE lastNodeIdx
    /\ \E i \in DOMAIN cand[r] : MayChoose(r, cand[r], i) /\ sel' = [sel EXCEPT ![r] = cand[r][i]]
    /\ UNCHANGED <<total, failedAt, now, list, cand, left, admin>>

\* The division by a weight of zero is not recovered from.
PickPanics(r) ==
    /\ Go(r, "pick", "panicked") /\ NoScore(r)
    /\ UNCHANGED <<total, failedAt, now, lastNodeIdx, list, cand, sel, left, admin>>

Test(r) ==
    /\ pc[r] = "test"
    /\ IF ~Overfull(sel[r]) THEN Go(r, "test", "take") /\ UNCHANGED cand
       ELSE /\ cand' = [cand EXCEPT ![r] = SwapRemove(@, IndexOf(@, sel[r]))]
            /\ Go(r, "test", IF cand'[r] = <<>> THEN "failed" ELSE "pick")
    /\ UNCHANGED <<total, failedAt, now, lastNodeIdx, list, sel, left, admin>>

Take(r) ==
    /\ Go(r, "take", "test again")
    /\ total' = [total EXCEPT ![sel[r]] = @ + 1]
    /\ UNCHANGED <<failedAt, now, lastNodeIdx, list, cand, sel, left, admin>>

TestedAlready(n) == FALSE   \* mutant: the second test of the limit is left out
TooMany(n) == Overfull(n)

\* The count of a node that is refused here is not taken back.
TestAgain(r) ==
    /\ Go(r, "test again", IF TooMany(sel[r]) THEN "refresh" ELSE "call")
    /\ UNCHANGED <<total, failedAt, now, lastNodeIdx, list, cand, sel, left, admin>>

\* The callback runs and ends; a failure without error is success to DoRetry.
Call(r, outcome) ==
    /\ Go(r, "call", IF outcome \in {"ok", "bad"} THEN "end" ELSE "end error")
    /\ failedAt' = IF outcome \in {"bad", "bad error"} THEN [failedAt EXCEPT ![sel[r]] = now] ELSE failedAt
    /\ UNCHANGED <<total, now, lastNodeIdx, list, cand, sel, left, admin>>

CountStays(n) == total   \* mutant: a connection is not given back
CountDown(n) == [total EXCEPT ![n] = @ - 1]

End(r) ==
    /\ Go(r, "end", "done") \/ Go(r, "end error", "refresh")
    /\ total' = CountDown(sel[r])
    /\ UNCHANGED <<failedAt, now, lastNodeIdx, list, cand, sel, left, admin>>

ListAgain(r) == Available(Asked[r])

Refresh(r) ==
    /\ Go(r, "refresh", "failed")
    /\ list' = [list EXCEPT ![r] = ListAgain(r)]
    /\ UNCHANGED <<total, failedAt, now, lastNodeIdx, cand, sel, left, admin>>

RetriesLeft(r) == left[r] - 1

Failed(r) ==
    /\ Go(r, "failed", IF left[r] = 0 THEN "no node" ELSE "attempt")
    /\ left' = [left EXCEPT ![r] = IF @ = 0 THEN 0 ELSE RetriesLeft(r)]
    /\ cand' = [cand EXCEPT ![r] = <<>>] /\ sel' = [sel EXCEPT ![r] = None]
    /\ UNCHANGED <<total, failedAt, now, lastNodeIdx, list, admin>>

RunStep(r) ==
    \/ GetNodes(r) \/ Attempt(r) \/ Pick(r) \/ PickPanics(r) \/ Test(r) \/ Take(r) \/ TestAgain(r)
    \/ \E o \in Outcomes : Call(r, o)
    \/ End(r) \/ Refresh(r) \/ Failed(r)

-----------------------------------------------------------------------------
\* The other operations.
Op(a) == apc[a] = "idle" /\ ops < MaxOps /\ Cardinality(Called) <= Beside /\ ops' = ops + 1

AddLook(a, k) ==
    /\ Op(a) /\ made[k] < MaxGen
    /\ IF nodes[k] = None
       THEN AGo(a, "idle", "add") /\ akey' = [akey EXCEPT ![a] = k]
       ELSE UNCHANGED <<apc, akey>>
    /\ UNCHANGED <<run, total, failedAt, now, nodes, nodeKeys, weight, made, walk, saw>>

NotLookedAgain(k) == TRUE   \* mutant: the lock is taken without a second look
StillAbsent(k) == nodes[k] = None

AddInsert(a) ==
    LET k == akey[a] IN
    /\ AGo(a, "add", "idle") /\ akey' = [akey EXCEPT ![a] = None]
    /\ \/ /\ StillAbsent(k) /\ made[k] < MaxGen
          /\ made' = [made EXCEPT ![k] = @ + 1]
          /\ nodes' = [nodes EXCEPT ![k] = <<k, made'[k]>>]
          /\ nodeKeys' = Append(nodeKeys, k)
          /\ \E w \in Weights : weight' = [weight EXCEPT ![<<k, made'[k]>>] = w]
       \/ ~StillAbsent(k) /\ UNCHANGED <<made, nodes, nodeKeys, weight>>
    /\ UNCHANGED <<run, total, failedAt, now, ops, walk, saw>>

Remove(a, k) ==
    /\ Op(a) /\ nodes[k] # None
    /\ nodes' = [nodes EXCEPT ![k] = None]
    /\ nodeKeys' = SwapRemove(nodeKeys, IndexOf(nodeKeys, k))
    /\ UNCHANGED <<run, total, failedAt, now, weight, made, apc, akey, walk, saw>>

Mark(a, k, available) ==
    /\ Op(a) /\ nodes[k] # None
    /\ failedAt' = [failedAt EXCEPT ![nodes[k]] = IF available THEN 0 ELSE now]
    /\ UNCHANGED <<run, total, now, nodes, nodeKeys, weight, made, apc, akey, walk, saw>>

SetWeight(a, k, w) ==
    /\ Op(a) /\ nodes[k] # None /\ w >= 1
    /\ weight' = [weight EXCEPT ![nodes[k]] = w]
    /\ UNCHANGED <<run, total, failedAt, now, nodes, nodeKeys, made, apc, akey, walk, saw>>

WalkBegin(a) ==
    /\ Op(a) /\ AGo(a, "idle", "walk")
    /\ walk' = [walk EXCEPT ![a] = nodeKeys]
    /\ saw' = [saw EXCEPT ![a] = [at |-> now, failed |-> 0, available |-> FALSE]]
    /\ UNCHANGED <<run, total, failedAt, now, nodes, nodeKeys, weight, made, akey>>

WalkLook(a) ==
    /\ walk[a] # <<>>
    /\ LET n == nodes[Head(walk[a])]
           at == saw[a].at
       IN  IF n = None
           THEN apc[a] = "walk" /\ walk' = [walk EXCEPT ![a] = Tail(@)] /\ UNCHANGED <<apc, saw>>
           ELSE /\ AGo(a, "walk", "walk fn") /\ UNCHANGED walk
                /\ saw' = [saw EXCEPT ![a] =
                     [at |-> at, failed |-> failedAt[n],
                      available |-> ~(failedAt[n] > 0 /\ at - failedAt[n] <= Cooldown)]]
    /\ UNCHANGED <<run, total, failedAt, now, nodes, nodeKeys, weight, made, ops, akey>>

\* The callback's answer, and the node looked up again without the lock.
WalkSet(a, normal) ==
    LET k == Head(walk[a])
        n == nodes[k]
    IN
    /\ AGo(a, "walk fn", "walk") /\ walk' = [walk EXCEPT ![a] = Tail(@)]
    /\ failedAt' = IF n = None THEN failedAt
                   ELSE IF ~normal /\ saw[a].available THEN [failedAt EXCEPT ![n] = saw[a].at]
                   ELSE IF normal /\ saw[a].failed > 0 THEN [failedAt EXCEPT ![n] = 0]
                   ELSE failedAt
    /\ UNCHANGED <<run, total, now, nodes, nodeKeys, weight, made, ops, akey, saw>>

WalkEnd(a) ==
    /\ walk[a] = <<>> /\ AGo(a, "walk", "idle") /\ saw' = [saw EXCEPT ![a] = None]
    /\ UNCHANGED <<run, total, failedAt, now, nodes, nodeKeys, weight, made, ops, akey, walk>>

AdminStep(a) ==
    \/ \E k \in Keys :
          \/ AddLook(a, k) \/ Remove(a, k)
          \/ \E b \in BOOLEAN : Mark(a, k, b)
          \/ \E w \in Weights : SetWeight(a, k, w)
    \/ AddInsert(a)
    \/ WalkBegin(a) \/ WalkLook(a) \/ WalkEnd(a)
    \/ \E b \in BOOLEAN : WalkSet(a, b)

Tick ==
    /\ now < MaxTime /\ now' = now + 1
    /\ UNCHANGED <<run, total, failedAt, admin>>

Next == (\E r \in Runners : Begin(r) \/ RunStep(r)) \/ (\E a \in Admins : AdminStep(a)) \/ Tick

Spec == Init /\ [][Next]_vars

\* A call that has begun goes on, and callbacks return.
FairSpec == Spec /\ \A r \in Runners : WF_vars(RunStep(r))

-----------------------------------------------------------------------------
Returned == {"done", "no node", "no nodes", "panicked"}

TypeOK ==
    /\ nodes \in [Keys -> Nodes \cup {None}] /\ nodeKeys \in Seq(Keys)
    /\ lastNodeIdx \in 0..(IdxPeriod - 1)
    /\ total \in [Nodes -> Nat] /\ failedAt \in [Nodes -> 0..MaxTime] /\ weight \in [Nodes -> Weights]
    /\ now \in 1..MaxTime /\ made \in [Keys -> 0..MaxGen] /\ ops \in 0..MaxOps
    /\ pc \in [Runners -> {"idle", "get", "attempt", "pick", "test", "take", "test again", "call",
                           "end", "end error", "refresh", "failed"} \cup Returned]
    /\ list \in [Runners -> Seq(Nodes)] /\ cand \in [Runners -> Seq(Nodes)]
    /\ sel \in [Runners -> Nodes \cup {None}] /\ left \in [Runners -> 0..Cardinality(Keys)]
    /\ apc \in [Admins -> {"idle", "add", "walk", "walk fn"}]
    /\ akey \in [Admins -> Keys \cup {None}] /\ walk \in [Admins -> Seq(Keys)]

\* nodeKeys lists the keys of the map, each once.
KeysMatchNodes ==
    /\ {nodeKeys[i] : i \in DOMAIN nodeKeys} = {k \in Keys : nodes[k] # None}
    /\ \A i, j \in DOMAIN nodeKeys : nodeKeys[i] = nodeKeys[j] => i = j

Connected(n) == {r \in Runners : sel[r] = n /\ pc[r] \in {"test again", "call", "end", "end error"}}
Calling(n) == {r \in Runners : sel[r] = n /\ pc[r] \in {"call", "end", "end error"}}

\* A node never has more callbacks at work than its limit, although the limit
\* is tested and the count raised in separate steps.
LimitHolds == \A n \in Nodes : max(n) > 0 => Cardinality(Calling(n)) <= max(n)

\* No connection goes uncounted, and a node without a limit counts exactly.
NoneUncounted ==
    \A n \in Nodes :
        /\ Cardinality(Connected(n)) <= total[n]
        /\ max(n) = 0 => total[n] = Cardinality(Connected(n))

\* balancer.go:74, of the count: "Current active connections".
CountsAreConnections == \A n \in Nodes : total[n] = Cardinality(Connected(n))
=============================================================================
