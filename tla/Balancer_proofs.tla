--------------------------- MODULE Balancer_proofs ---------------------------
(***************************************************************************)
(* Proofs about Balancer, for any nodes, calls and operations: no          *)
(* connection goes uncounted, and a limit holds although it is tested and  *)
(* the count raised in separate steps, and the list of keys is that of the *)
(* nodes.  The argument for the limit is that a call which passes the      *)
(* second test has already been counted.                                   *)
(***************************************************************************)
EXTENDS Balancer, FiniteSetTheorems, TLAPS

\* The labels of a call that holds no connection, and all labels.
Away == {"idle", "get", "attempt", "pick", "test", "take", "refresh", "failed"} \cup Returned
Labels == Away \cup {"test again", "call", "end", "end error"}

Types ==
    /\ pc \in [Runners -> Labels]
    /\ sel = [r \in Runners |-> sel[r]]
    /\ total \in [Nodes -> Int]
IInv == Types /\ NoneUncounted /\ LimitHolds

LEMMA NodeLimits == ASSUME NEW n \in Nodes PROVE max(n) \in Nat
BY BalancerAssumption DEF Nodes, max

LEMMA ConnectedFinite ==
    ASSUME NEW n
    PROVE  /\ IsFiniteSet(Connected(n)) /\ Cardinality(Connected(n)) \in Nat
           /\ IsFiniteSet(Calling(n)) /\ Cardinality(Calling(n)) \in Nat
           /\ Calling(n) \subseteq Connected(n)
           /\ Cardinality(Calling(n)) <= Cardinality(Connected(n))
<1>1. Calling(n) \subseteq Connected(n) /\ Connected(n) \subseteq Runners BY DEF Calling, Connected
<1>2. IsFiniteSet(Connected(n)) BY <1>1, BalancerAssumption, FS_Subset
<1>3. IsFiniteSet(Calling(n)) /\ Cardinality(Calling(n)) <= Cardinality(Connected(n))
  BY <1>1, <1>2, FS_Subset
<1> QED BY <1>1, <1>2, <1>3, FS_CardinalityType

\* A step that leaves the counts and those who are connected as they are.
LEMMA Quiet ==
    ASSUME IInv, Types', total' = total,
           \A n \in Nodes : Connected(n)' = Connected(n) /\ Calling(n)' = Calling(n)
    PROVE  IInv'
BY DEF IInv, NoneUncounted, LimitHolds, max

\* A call that moves between such labels may change its node.
LEMMA QuietMove ==
    ASSUME IInv, NEW r \in Runners, NEW from \in Away, NEW to \in Away, Go(r, from, to), total' = total,
           sel' = sel \/ \E n : sel' = [sel EXCEPT ![r] = n]
    PROVE  IInv'
<1>1. pc[r] = from /\ pc' = [pc EXCEPT ![r] = to] /\ to \in Labels BY DEF Go, Labels
<1>2. Types' BY <1>1 DEF IInv, Types
<1>3. \A q \in Runners : q # r => pc'[q] = pc[q] /\ sel'[q] = sel[q] BY <1>1 DEF IInv, Types
<1>4. pc[r] \in Away /\ pc'[r] \in Away BY <1>1 DEF IInv, Types
<1>5. \A n \in Nodes : Connected(n)' = Connected(n) /\ Calling(n)' = Calling(n)
  BY <1>3, <1>4 DEF Connected, Calling, Away, Returned
<1> QED BY <1>2, <1>5, Quiet

LEMMA TakeStep ==
    ASSUME IInv, NEW r \in Runners, Take(r) PROVE IInv'
<1>1. /\ pc[r] = "take" /\ pc' = [pc EXCEPT ![r] = "test again"] /\ sel' = sel
      /\ total' = [total EXCEPT ![sel[r]] = @ + 1]
  BY DEF Take, Go
<1>2. Types'
  <2>1. pc' \in [Runners -> Labels] BY <1>1 DEF IInv, Types, Labels, Away, Returned
  <2>2. total' \in [Nodes -> Int]
    <3>1. total \in [Nodes -> Int] BY DEF IInv, Types
    <3>2. total' = [n \in Nodes |-> total'[n]] BY <1>1, <3>1
    <3>3. ASSUME NEW n \in Nodes PROVE total'[n] \in Int
      <4>1. CASE n = sel[r]
        <5>1. total'[n] = total[n] + 1 BY <1>1, <3>1, <4>1
        <5>2. total[n] \in Int BY <3>1
        <5> QED BY ONLY <5>1, <5>2
      <4>2. CASE n # sel[r] BY <1>1, <3>1, <4>2
      <4> QED BY <4>1, <4>2
    <3> QED BY ONLY <3>2, <3>3
  <2> QED BY <1>1, <2>1, <2>2 DEF IInv, Types
<1>3. ASSUME NEW n \in Nodes
      PROVE  /\ Calling(n)' = Calling(n)
             /\ Cardinality(Connected(n)') - Cardinality(Connected(n)) = total'[n] - total[n]
  <2>1. Calling(n)' = Calling(n) BY <1>1 DEF IInv, Types, Calling
  <2>2. CASE sel[r] = n
    <3>1. r \notin Connected(n) /\ Connected(n)' = Connected(n) \cup {r}
      BY <1>1, <2>2 DEF IInv, Types, Connected
    <3>2. Cardinality(Connected(n)') = Cardinality(Connected(n)) + 1
      BY <3>1, ConnectedFinite, FS_AddElement
    <3>3. total'[n] = total[n] + 1 /\ total[n] \in Int BY <1>1, <2>2 DEF IInv, Types
    <3> QED BY <2>1, <3>2, <3>3, ConnectedFinite
  <2>3. CASE sel[r] # n
    <3>1. Connected(n)' = Connected(n) BY <1>1, <2>3 DEF IInv, Types, Connected
    <3>2. total'[n] = total[n] /\ total[n] \in Int BY <1>1, <2>3 DEF IInv, Types
    <3> QED BY <2>1, <3>1, <3>2, ConnectedFinite
  <2> QED BY <2>2, <2>3
<1>4. NoneUncounted'
  <2> SUFFICES ASSUME NEW n \in Nodes
               PROVE  /\ Cardinality(Connected(n)') <= total'[n]
                      /\ max(n) = 0 => total'[n] = Cardinality(Connected(n)')
    BY DEF NoneUncounted, max
  <2>1. Cardinality(Connected(n)) \in Nat /\ Cardinality(Connected(n)') \in Nat
    BY ConnectedFinite, <1>3, <1>2, FS_CardinalityType, BalancerAssumption, FS_Subset DEF Connected
  <2>2. total[n] \in Int /\ total'[n] \in Int BY <1>2 DEF IInv, Types
  <2>3. Cardinality(Connected(n)) <= total[n] /\ (max(n) = 0 => total[n] = Cardinality(Connected(n)))
    BY DEF IInv, NoneUncounted
  <2> QED BY <1>3, <2>1, <2>2, <2>3
<1>5. LimitHolds' BY <1>3 DEF IInv, LimitHolds, max
<1> QED BY <1>2, <1>4, <1>5 DEF IInv

LEMMA TestAgainStep ==
    ASSUME IInv, NEW r \in Runners, TestAgain(r) PROVE IInv'
<1>1. /\ pc[r] = "test again" /\ sel' = sel /\ total' = total
      /\ pc' = [pc EXCEPT ![r] = IF TooMany(sel[r]) THEN "refresh" ELSE "call"]
  BY DEF TestAgain, Go
<1>2. Types' BY <1>1 DEF IInv, Types, Labels, Away
<1>3. ASSUME NEW n \in Nodes, sel[r] # n PROVE Connected(n)' = Connected(n) /\ Calling(n)' = Calling(n)
  BY <1>1, <1>3 DEF IInv, Types, Connected, Calling
<1>4. CASE TooMany(sel[r])
  <2>1. pc' = [pc EXCEPT ![r] = "refresh"] BY <1>1, <1>4
  <2>2. ASSUME NEW n \in Nodes, sel[r] = n
        PROVE  /\ Connected(n)' = Connected(n) \ {r} /\ r \in Connected(n)
               /\ Calling(n)' = Calling(n) /\ max(n) > 0
    BY <1>1, <1>4, <2>1, <2>2 DEF IInv, Types, Connected, Calling, TooMany, Overfull
  <2>3. ASSUME NEW n \in Nodes, sel[r] = n
        PROVE  Cardinality(Connected(n)') <= total'[n] /\ (max(n) = 0 => total'[n] = Cardinality(Connected(n)'))
    <3>1. Cardinality(Connected(n)') = Cardinality(Connected(n)) - 1
      BY <2>2, <2>3, ConnectedFinite, FS_RemoveElement
    <3>2. Cardinality(Connected(n)) <= total[n] /\ total[n] \in Int BY DEF IInv, Types, NoneUncounted
    <3>3. max(n) # 0 BY <2>2, <2>3, NodeLimits
    <3>4. total'[n] = total[n] /\ Cardinality(Connected(n)) \in Nat BY <1>1, ConnectedFinite
    <3> QED BY <3>1, <3>2, <3>3, <3>4
  <2>4. NoneUncounted' BY <1>1, <1>3, <2>3 DEF IInv, NoneUncounted, max
  <2>5. LimitHolds' BY <1>3, <2>2 DEF IInv, LimitHolds, max
  <2> QED BY <1>2, <2>4, <2>5 DEF IInv
<1>5. CASE ~TooMany(sel[r])
  <2>1. pc' = [pc EXCEPT ![r] = "call"] BY <1>1, <1>5
  <2>2. \A n \in Nodes : Connected(n)' = Connected(n) BY <1>1, <2>1 DEF IInv, Types, Connected
  <2>3. NoneUncounted' BY <1>1, <2>2 DEF IInv, NoneUncounted, max
  <2>4. ASSUME NEW n \in Nodes, sel[r] = n, max(n) > 0 PROVE Cardinality(Calling(n)') <= max(n)
    <3>1. total[n] <= max(n)
      <4>1. ~(total[n] > max(n)) BY <1>5, <2>4 DEF TooMany, Overfull
      <4>2. total[n] \in Int BY DEF IInv, Types
      <4> QED BY <4>1, <4>2, NodeLimits
    <3>2. Calling(n)' \subseteq Connected(n) BY <2>2 DEF Connected, Calling
    <3>3. Cardinality(Calling(n)') <= Cardinality(Connected(n)) /\ Cardinality(Calling(n)') \in Nat
      BY <3>2, ConnectedFinite, FS_Subset, FS_CardinalityType
    <3>4. Cardinality(Connected(n)) <= total[n] /\ total[n] \in Int BY DEF IInv, Types, NoneUncounted
    <3> QED BY <3>1, <3>3, <3>4, ConnectedFinite, NodeLimits
  <2>5. LimitHolds' BY <1>3, <2>4 DEF IInv, LimitHolds, max
  <2> QED BY <1>2, <2>3, <2>5 DEF IInv
<1> QED BY <1>4, <1>5

LEMMA CallStep ==
    ASSUME IInv, NEW r \in Runners, NEW o, Call(r, o) PROVE IInv'
<1>1. /\ pc[r] = "call" /\ sel' = sel /\ total' = total
      /\ pc' = [pc EXCEPT ![r] = "end"] \/ pc' = [pc EXCEPT ![r] = "end error"]
  BY DEF Call, Go
<1>2. Types' BY <1>1 DEF IInv, Types, Labels
<1>3. \A n \in Nodes : Connected(n)' = Connected(n) /\ Calling(n)' = Calling(n)
  BY <1>1 DEF IInv, Types, Connected, Calling
<1> QED BY <1>1, <1>2, <1>3, Quiet

LEMMA EndStep ==
    ASSUME IInv, NEW r \in Runners, End(r) PROVE IInv'
<1>1. /\ pc[r] \in {"end", "end error"} /\ sel' = sel
      /\ pc' = [pc EXCEPT ![r] = "done"] \/ pc' = [pc EXCEPT ![r] = "refresh"]
      /\ total' = [total EXCEPT ![sel[r]] = @ - 1]
  BY DEF End, Go, CountDown
<1>2. Types'
  <2>1. pc' \in [Runners -> Labels] BY <1>1 DEF IInv, Types, Labels, Away, Returned
  <2>2. total' \in [Nodes -> Int]
    <3>1. total \in [Nodes -> Int] BY DEF IInv, Types
    <3>2. total' = [n \in Nodes |-> total'[n]] BY <1>1, <3>1
    <3>3. ASSUME NEW n \in Nodes PROVE total'[n] \in Int
      <4>1. CASE n = sel[r]
        <5>1. total'[n] = total[n] - 1 BY <1>1, <3>1, <4>1
        <5>2. total[n] \in Int BY <3>1
        <5> QED BY ONLY <5>1, <5>2
      <4>2. CASE n # sel[r] BY <1>1, <3>1, <4>2
      <4> QED BY <4>1, <4>2
    <3> QED BY ONLY <3>2, <3>3
  <2> QED BY <1>1, <2>1, <2>2 DEF IInv, Types
<1>3. ASSUME NEW n \in Nodes, sel[r] # n
      PROVE  Connected(n)' = Connected(n) /\ Calling(n)' = Calling(n) /\ total'[n] = total[n]
  BY <1>1, <1>3 DEF IInv, Types, Connected, Calling
<1>4. ASSUME NEW n \in Nodes, sel[r] = n
      PROVE  /\ Cardinality(Connected(n)') = Cardinality(Connected(n)) - 1
             /\ Cardinality(Calling(n)') = Cardinality(Calling(n)) - 1
             /\ total'[n] = total[n] - 1
  <2>1. r \in Connected(n) /\ Connected(n)' = Connected(n) \ {r}
    BY <1>1, <1>4 DEF IInv, Types, Connected
  <2>2. r \in Calling(n) /\ Calling(n)' = Calling(n) \ {r}
    BY <1>1, <1>4 DEF IInv, Types, Calling
  <2>3. total'[n] = total[n] - 1 BY <1>1, <1>4 DEF IInv, Types
  <2> QED BY <2>1, <2>2, <2>3, ConnectedFinite, FS_RemoveElement
<1>5. ASSUME NEW n \in Nodes
      PROVE  Cardinality(Connected(n)') <= total'[n] /\ (max(n) = 0 => total'[n] = Cardinality(Connected(n)'))
  <2>1. /\ Cardinality(Connected(n)) <= total[n] /\ total[n] \in Int
        /\ max(n) = 0 => total[n] = Cardinality(Connected(n))
    BY DEF IInv, Types, NoneUncounted
  <2> QED BY <1>3, <1>4, <2>1, ConnectedFinite
<1>6. NoneUncounted' BY <1>5 DEF NoneUncounted, max
<1>7. ASSUME NEW n \in Nodes, max(n) > 0 PROVE Cardinality(Calling(n)') <= max(n)
  <2>1. Cardinality(Calling(n)) <= max(n) BY <1>7 DEF IInv, LimitHolds
  <2> QED BY <1>3, <1>4, <2>1, ConnectedFinite, NodeLimits
<1>8. LimitHolds' BY <1>7 DEF LimitHolds, max
<1> QED BY <1>2, <1>6, <1>8 DEF IInv

\* A step that moves no call.
LEMMA StillStep ==
    ASSUME IInv, pc' = pc, sel' = sel, total' = total PROVE IInv'
<1>1. Types' BY DEF IInv, Types
<1>2. \A n \in Nodes : Connected(n)' = Connected(n) /\ Calling(n)' = Calling(n) BY DEF Connected, Calling
<1> QED BY <1>1, <1>2, Quiet

LEMMA RunnerStep ==
    ASSUME IInv, NEW r \in Runners, Begin(r) \/ RunStep(r) PROVE IInv'
<1> USE DEF Away, Returned
<1>1. CASE Begin(r)
  <2>1. Go(r, "idle", "no nodes") \/ Go(r, "idle", "get") BY <1>1 DEF Begin
  <2> QED BY <1>1, <2>1, QuietMove DEF Begin
<1>2. CASE GetNodes(r)
  <2>1. Go(r, "get", "no node") \/ Go(r, "get", "attempt") BY <1>2 DEF GetNodes
  <2> QED BY <1>2, <2>1, QuietMove DEF GetNodes
<1>3. CASE Attempt(r)
  <2>1. Go(r, "attempt", "failed") \/ Go(r, "attempt", "pick") BY <1>3 DEF Attempt
  <2> QED BY <1>3, <2>1, QuietMove DEF Attempt
<1>4. CASE Pick(r)
  <2>1. Go(r, "pick", "test") /\ \E n : sel' = [sel EXCEPT ![r] = n] BY <1>4 DEF Pick
  <2> QED BY <1>4, <2>1, QuietMove DEF Pick
<1>5. CASE PickPanics(r) BY <1>5, QuietMove DEF PickPanics
<1>6. CASE Test(r)
  <2>1. Go(r, "test", "take") \/ Go(r, "test", "failed") \/ Go(r, "test", "pick") BY <1>6 DEF Test
  <2> QED BY <1>6, <2>1, QuietMove DEF Test
<1>7. CASE Refresh(r) BY <1>7, QuietMove DEF Refresh
<1>8. CASE Failed(r)
  <2>1. Go(r, "failed", "no node") \/ Go(r, "failed", "attempt") BY <1>8 DEF Failed
  <2>2. sel' = [sel EXCEPT ![r] = None] /\ total' = total BY <1>8 DEF Failed
  <2> QED BY <2>1, <2>2, QuietMove
<1> QED BY <1>1, <1>2, <1>3, <1>4, <1>5, <1>6, <1>7, <1>8, TakeStep, TestAgainStep, CallStep, EndStep
        DEF RunStep

THEOREM Invariance == Spec => []IInv
<1>1. Init => IInv
  <2> SUFFICES ASSUME Init PROVE IInv OBVIOUS
  <2>1. Types BY DEF Init, Types, Labels, Away
  <2>2. \A n \in Nodes : Connected(n) = {} /\ Calling(n) = {} BY DEF Init, Connected, Calling
  <2>3. \A n \in Nodes : total[n] = 0 BY DEF Init
  <2>4. NoneUncounted BY <2>2, <2>3, FS_EmptySet DEF NoneUncounted
  <2>5. LimitHolds BY <2>2, FS_EmptySet, NodeLimits DEF LimitHolds
  <2> QED BY <2>1, <2>4, <2>5 DEF IInv
<1>2. IInv /\ [Next]_vars => IInv'
  <2> SUFFICES ASSUME IInv, [Next]_vars PROVE IInv' OBVIOUS
  <2>1. ASSUME NEW a \in Admins, AdminStep(a) PROVE pc' = pc /\ sel' = sel /\ total' = total
    BY <2>1 DEF AdminStep, AddLook, Remove, Mark, SetWeight, AddInsert, WalkBegin, WalkLook, WalkEnd,
       WalkSet, run
  <2>2. CASE Tick BY <2>2, StillStep DEF Tick, run
  <2>3. CASE UNCHANGED vars BY <2>3, StillStep DEF vars
  <2> QED BY <2>1, <2>2, <2>3, RunnerStep, StillStep DEF Next
<1> QED BY <1>1, <1>2, PTL DEF Spec

\* No connection goes uncounted; where there is no limit the count is exact.
THEOREM CountsCover == Spec => []NoneUncounted
BY Invariance, PTL DEF IInv

\* No node has more callbacks at work than its limit, in any interleaving.
THEOREM LimitsHold == Spec => []LimitHolds
BY Invariance, PTL DEF IInv

-----------------------------------------------------------------------------
(* The list of keys and the map.                                           *)

KeyTypes ==
    /\ nodeKeys \in Seq(Keys) /\ nodes \in [Keys -> Nodes \cup {None}]
    /\ made \in [Keys -> 0..MaxGen] /\ akey \in [Admins -> Keys \cup {None}]
    /\ \A a \in Admins : apc[a] = "add" => akey[a] \in Keys
    /\ apc = [a \in Admins |-> apc[a]]

Listed == {nodeKeys[i] : i \in 1..Len(nodeKeys)}
ListedOnce == \A i, j \in 1..Len(nodeKeys) : nodeKeys[i] = nodeKeys[j] => i = j
Present == {k \in Keys : nodes[k] # None}

KInv == KeyTypes /\ ListedOnce /\ Listed = Present

LEMMA KeysAgree == KInv => KeysMatchNodes
<1> SUFFICES ASSUME KInv PROVE KeysMatchNodes OBVIOUS
<1>1. DOMAIN nodeKeys = 1..Len(nodeKeys) BY DEF KInv, KeyTypes
<1> QED BY <1>1 DEF KInv, ListedOnce, Listed, Present, KeysMatchNodes

\* The last entry fills the hole, so the others stay, each once.
LEMMA SwapRemoveKeys ==
    ASSUME nodeKeys \in Seq(Keys), ListedOnce, NEW i \in 1..Len(nodeKeys),
           nodeKeys' = SwapRemove(nodeKeys, i)
    PROVE  /\ nodeKeys' \in Seq(Keys) /\ ListedOnce'
           /\ Listed' = Listed \ {nodeKeys[i]}
<1> DEFINE n == Len(nodeKeys)
           s == [nodeKeys EXCEPT ![i] = nodeKeys[n]]
           from(j) == IF j = i THEN n ELSE j
<1>0. n \in Nat /\ n >= 1 /\ n \in 1..n /\ nodeKeys[n] \in Keys
  <2>1. n \in Nat /\ n >= 1 OBVIOUS
  <2>2. n \in 1..n BY <2>1
  <2> QED BY <2>1, <2>2
<1>1. s \in Seq(Keys) /\ Len(s) = n
  <2>1. s \in [1..n -> Keys] BY <1>0
  <2> QED BY <1>0, <2>1
<1>2. \A j \in 1..n : s[j] = nodeKeys[from(j)] BY <1>0
<1>3. nodeKeys' = SubSeq(s, 1, n - 1) BY <1>1 DEF SwapRemove
<1> HIDE DEF s
<1>4. /\ nodeKeys' \in Seq(Keys) /\ Len(nodeKeys') = n - 1
      /\ \A j \in 1..(n - 1) : nodeKeys'[j] = s[j]
  BY <1>0, <1>1, <1>3
<1>5. \A j \in 1..(n - 1) : nodeKeys'[j] = nodeKeys[from(j)] /\ from(j) \in 1..n /\ from(j) # i
  <2> SUFFICES ASSUME NEW j \in 1..(n - 1)
               PROVE  nodeKeys'[j] = nodeKeys[from(j)] /\ from(j) \in 1..n /\ from(j) # i
    OBVIOUS
  <2>1. j \in 1..n /\ j # n BY <1>0
  <2> QED BY <1>0, <1>2, <1>4, <2>1
<1>6. \A j, l \in 1..(n - 1) : from(j) = from(l) => j = l BY <1>0
<1>7. \A m \in 1..n : m # i => \E j \in 1..(n - 1) : from(j) = m
  <2> SUFFICES ASSUME NEW m \in 1..n, m # i PROVE \E j \in 1..(n - 1) : from(j) = m OBVIOUS
  <2>1. CASE m = n
    <3>1. i \in 1..(n - 1) BY <1>0, <2>1
    <3> QED BY <2>1, <3>1
  <2>2. CASE m # n
    <3>1. m \in 1..(n - 1) /\ from(m) = m BY <1>0, <2>2
    <3> QED BY <3>1
  <2> QED BY <2>1, <2>2
<1> HIDE DEF from
<1>8. ListedOnce'
  <2> SUFFICES ASSUME NEW j \in 1..(n - 1), NEW l \in 1..(n - 1), nodeKeys'[j] = nodeKeys'[l]
               PROVE  j = l
    BY <1>4 DEF ListedOnce
  <2>1. nodeKeys[from(j)] = nodeKeys[from(l)] /\ from(j) \in 1..n /\ from(l) \in 1..n BY <1>5
  <2> QED BY <1>6, <2>1 DEF ListedOnce
<1>9. Listed' = {nodeKeys'[j] : j \in 1..(n - 1)} BY <1>4 DEF Listed
<1>10. Listed' \subseteq Listed \ {nodeKeys[i]}
  <2> SUFFICES ASSUME NEW j \in 1..(n - 1) PROVE nodeKeys'[j] \in Listed \ {nodeKeys[i]} BY <1>9
  <2>1. nodeKeys'[j] = nodeKeys[from(j)] /\ from(j) \in 1..n /\ from(j) # i BY <1>5
  <2>2. nodeKeys[from(j)] # nodeKeys[i] BY <2>1 DEF ListedOnce
  <2> QED BY <2>1, <2>2 DEF Listed
<1>11. Listed \ {nodeKeys[i]} \subseteq Listed'
  <2> SUFFICES ASSUME NEW m \in 1..n, nodeKeys[m] # nodeKeys[i] PROVE nodeKeys[m] \in Listed'
    BY DEF Listed
  <2>1. PICK j \in 1..(n - 1) : from(j) = m BY <1>7
  <2> QED BY <1>5, <1>9, <2>1
<1> QED BY <1>4, <1>8, <1>10, <1>11

LEMMA AppendKey ==
    ASSUME nodeKeys \in Seq(Keys), ListedOnce, NEW k \in Keys, k \notin Listed,
           nodeKeys' = Append(nodeKeys, k)
    PROVE  nodeKeys' \in Seq(Keys) /\ ListedOnce' /\ Listed' = Listed \cup {k}
<1> DEFINE n == Len(nodeKeys)
<1>1. n \in Nat /\ nodeKeys' \in Seq(Keys) /\ Len(nodeKeys') = n + 1 OBVIOUS
<1>2. nodeKeys'[n + 1] = k /\ \A i \in 1..n : nodeKeys'[i] = nodeKeys[i] OBVIOUS
<1>3. \A i \in 1..n : nodeKeys[i] # k BY DEF Listed
<1>4. \A i \in 1..(n + 1) : i \in 1..n \/ i = n + 1 BY <1>1
<1>5. ListedOnce' BY <1>1, <1>2, <1>3, <1>4 DEF ListedOnce
<1>6. (\A i \in 1..n : i \in 1..(n + 1)) /\ n + 1 \in 1..(n + 1) BY <1>1
<1>7. Listed' = {nodeKeys'[i] : i \in 1..(n + 1)} BY <1>1 DEF Listed
<1> QED BY <1>1, <1>2, <1>4, <1>5, <1>6, <1>7 DEF Listed

LEMMA InsertKeys ==
    ASSUME KInv, NEW a \in Admins, AddInsert(a)
    PROVE  KInv'
<1> DEFINE k == akey[a]
<1>0. /\ KeyTypes /\ ListedOnce /\ Listed = Present
      /\ k \in Keys /\ MaxGen \in Nat /\ None \notin Nodes /\ None \notin Keys
  BY BalancerAssumption DEF KInv, KeyTypes, AddInsert, AGo, Nodes
<1>1. /\ apc' = [apc EXCEPT ![a] = "idle"] /\ akey' = [akey EXCEPT ![a] = None]
  BY DEF AddInsert, AGo
<1>2. /\ akey' \in [Admins -> Keys \cup {None}] /\ apc' = [b \in Admins |-> apc'[b]]
      /\ \A b \in Admins : apc'[b] = "add" => akey'[b] \in Keys
  BY <1>0, <1>1 DEF KeyTypes
<1>3. CASE StillAbsent(k) /\ made[k] < MaxGen /\ nodeKeys' = Append(nodeKeys, k)
           /\ made' = [made EXCEPT ![k] = @ + 1] /\ nodes' = [nodes EXCEPT ![k] = <<k, made'[k]>>]
  <2>1. k \notin Listed BY <1>0, <1>3 DEF StillAbsent, Present
  <2>2. nodeKeys' \in Seq(Keys) /\ ListedOnce' /\ Listed' = Listed \cup {k}
    BY <1>0, <1>3, <2>1, AppendKey DEF KeyTypes
  <2>3. made[k] \in 0..MaxGen BY <1>0 DEF KeyTypes
  <2>4. made[k] + 1 \in 1..MaxGen BY <1>0, <1>3, <2>3
  <2>5. made' \in [Keys -> 0..MaxGen] /\ made'[k] = made[k] + 1 BY <1>0, <1>3, <2>4 DEF KeyTypes
  <2>6. <<k, made'[k]>> \in Nodes BY <1>0, <2>4, <2>5 DEF Nodes
  <2>7. nodes' \in [Keys -> Nodes \cup {None}] /\ Present' = Present \cup {k}
    BY <1>0, <1>3, <2>6 DEF KeyTypes, Present
  <2> QED BY <1>0, <1>2, <2>2, <2>5, <2>7 DEF KInv, KeyTypes
<1>4. CASE UNCHANGED <<made, nodes, nodeKeys>>
  BY <1>0, <1>2, <1>4 DEF KInv, KeyTypes, ListedOnce, Listed, Present
<1> QED BY <1>3, <1>4 DEF AddInsert

LEMMA RemoveKeys ==
    ASSUME KInv, NEW a \in Admins, NEW k \in Keys, Remove(a, k)
    PROVE  KInv'
<1>1. k \in Listed BY DEF KInv, Remove, Present
<1>2. PICK i \in 1..Len(nodeKeys) : nodeKeys[i] = k BY <1>1 DEF Listed
<1>3. DOMAIN nodeKeys = 1..Len(nodeKeys) BY DEF KInv, KeyTypes
<1>4. IndexOf(nodeKeys, k) \in 1..Len(nodeKeys) /\ nodeKeys[IndexOf(nodeKeys, k)] = k
  BY <1>2, <1>3 DEF IndexOf
<1>5. nodeKeys' \in Seq(Keys) /\ ListedOnce' /\ Listed' = Listed \ {k}
  BY <1>4, SwapRemoveKeys DEF KInv, KeyTypes, Remove
<1>6. nodes' \in [Keys -> Nodes \cup {None}] /\ Present' = Present \ {k}
  BY DEF KInv, KeyTypes, Remove, Present
<1> QED BY <1>5, <1>6 DEF KInv, KeyTypes, Remove

LEMMA KeysStep == KInv /\ [Next]_vars => KInv'
<1> SUFFICES ASSUME KInv, [Next]_vars PROVE KInv' OBVIOUS
<1>1. ASSUME UNCHANGED <<nodeKeys, nodes, made, akey, apc>> PROVE KInv'
  BY <1>1 DEF KInv, KeyTypes, ListedOnce, Listed, Present
<1>2. ASSUME NEW a \in Admins, UNCHANGED <<nodeKeys, nodes, made, akey>>,
             NEW s, s # "add", apc' = [apc EXCEPT ![a] = s]
      PROVE  KInv'
  <2>1. /\ apc' = [b \in Admins |-> apc'[b]]
        /\ \A b \in Admins : apc'[b] = "add" => apc[b] = "add"
    BY <1>2 DEF KInv, KeyTypes
  <2> QED BY <1>2, <2>1 DEF KInv, KeyTypes, ListedOnce, Listed, Present
<1>3. ASSUME NEW r \in Runners, Begin(r) \/ RunStep(r) PROVE KInv'
  <2>1. UNCHANGED admin
    BY <1>3 DEF Begin, RunStep, GetNodes, Attempt, Pick, PickPanics, Test, Take, TestAgain, Call,
       End, Refresh, Failed
  <2> QED BY <1>1, <2>1 DEF admin
<1>4. ASSUME NEW a \in Admins, NEW k \in Keys, AddLook(a, k) PROVE KInv'
  <2>1. CASE UNCHANGED <<apc, akey>> BY <1>1, <1>4, <2>1 DEF AddLook
  <2>2. CASE AGo(a, "idle", "add") /\ akey' = [akey EXCEPT ![a] = k]
    BY <1>4, <2>2 DEF AddLook, AGo, KInv, KeyTypes, ListedOnce, Listed, Present
  <2> QED BY <1>4, <2>1, <2>2 DEF AddLook
<1>5. ASSUME NEW a \in Admins, NEW k \in Keys,
             (\E b \in BOOLEAN : Mark(a, k, b)) \/ (\E w \in Weights : SetWeight(a, k, w))
      PROVE  KInv'
  BY <1>1, <1>5 DEF Mark, SetWeight
<1>6. ASSUME NEW a \in Admins, WalkBegin(a) \/ WalkEnd(a) \/ \E b \in BOOLEAN : WalkSet(a, b)
      PROVE  KInv'
  BY <1>2, <1>6 DEF WalkBegin, WalkEnd, WalkSet, AGo
<1>7. ASSUME NEW a \in Admins, WalkLook(a) PROVE KInv'
  <2>1. UNCHANGED <<nodeKeys, nodes, made, akey>> /\ (apc' = apc \/ AGo(a, "walk", "walk fn"))
    BY <1>7 DEF WalkLook
  <2> QED BY <1>1, <1>2, <2>1 DEF AGo
<1>8. CASE Tick \/ UNCHANGED vars BY <1>1, <1>8 DEF Tick, admin, vars
<1> QED BY <1>3, <1>4, <1>5, <1>6, <1>7, <1>8, InsertKeys, RemoveKeys DEF Next, AdminStep

LEMMA KeysInitially == Init => KInv
<1> SUFFICES ASSUME Init PROVE KInv OBVIOUS
<1>0. MaxGen \in Nat /\ MaxGen >= 1 /\ None \notin Nodes
  <2>1. MaxGen \in Nat \ {0} BY BalancerAssumption
  <2>2. None \notin Nodes BY BalancerAssumption DEF Nodes
  <2> QED BY <2>1, <2>2
<1>1. /\ nodeKeys = First /\ First \in Seq(Keys) /\ DOMAIN First = 1..Len(First)
      /\ \A i, j \in 1..Len(First) : First[i] = First[j] => i = j
  <2>1. First \in Seq(Keys) /\ \A i, j \in DOMAIN First : First[i] = First[j] => i = j
    BY BalancerAssumption
  <2>2. DOMAIN First = 1..Len(First) BY <2>1
  <2> QED BY <2>1, <2>2 DEF Init
<1>2. made \in [Keys -> 0..MaxGen] /\ \A k \in Keys : made[k] = 1 <=> \E i \in DOMAIN First : First[i] = k
  <2>1. 0 \in 0..MaxGen /\ 1 \in 0..MaxGen BY <1>0
  <2>2. made = [k \in Keys |-> IF \E i \in DOMAIN First : First[i] = k THEN 1 ELSE 0] BY DEF Init
  <2> QED BY ONLY <2>1, <2>2
<1>3. \A k \in Keys : <<k, 1>> \in Nodes BY <1>0 DEF Nodes
<1>4. /\ nodes \in [Keys -> Nodes \cup {None}]
      /\ \A k \in Keys : nodes[k] # None <=> made[k] = 1
  BY <1>0, <1>3 DEF Init
<1>5. Listed = Present BY <1>1, <1>2, <1>4 DEF Listed, Present
<1>6. ListedOnce BY <1>1 DEF ListedOnce
<1>7. KeyTypes BY <1>1, <1>2, <1>4 DEF Init, KeyTypes
<1> QED BY <1>5, <1>6, <1>7 DEF KInv

\* The list has exactly the keys of the map, each once, although Add tests in a
\* critical section of its own and Remove fills the hole with the last key.
THEOREM KeysAreNodes == Spec => []KeysMatchNodes
<1>1. Spec => []KInv BY KeysInitially, KeysStep, PTL DEF Spec
<1> QED BY <1>1, KeysAgree, PTL
=============================================================================
