----------------------------- MODULE MCBalancer -----------------------------
(* Instances of Balancer for TLC.                                           *)
EXTENDS Balancer

CONSTANTS k1, k2, r1, r2

AskAll == [r \in Runners |-> {}]
AskOne == [r \in Runners |-> IF r = r2 THEN {k1} ELSE {}]
Mixed == [r \in Runners |-> IF r = r1 THEN "least conn" ELSE "round robin"]
LimitOne == [k \in Keys |-> 1]
OneLimited == [k \in Keys |-> IF k = k1 THEN 1 ELSE 0]
Both == <<k1, k2>>

\* Calls with one administrator of few operations, and administrators alone, whose nodes
\* weigh the same.
FewOps == 2    \* bound
CallsNext ==
    \/ \E r \in Runners : Begin(r) \/ RunStep(r)
    \/ AdminStep(CHOOSE a \in Admins : TRUE) /\ ops' <= FewOps
    \/ Tick
NodesNext == \E a \in Admins : AdminStep(a) /\ \A n \in Nodes : weight'[n] = 1
=============================================================================
