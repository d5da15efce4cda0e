----------------------------- MODULE Limiter -----------------------------
(***************************************************************************)
(* Rule of znet/limiter: a visit is allowed if every rule of the limiter   *)
(* has room for it.  A rule keeps for each key that it knows a ring of the *)
(* times until which its visits count; rings are handed out by index, and  *)
(* taken back when empty.  All of a rule's methods hold its locker; a visit *)
(* goes through the rules one after the other.                             *)
(***************************************************************************)
EXTENDS Integers, FiniteSets, Sequences
LOCAL INSTANCE SequencesExt

CONSTANTS
    Guests,     \* requests that are tested at the same time
    Setups,     \* what is tried: the keys and the guests that come, and AddRule's
                \* arguments
    LimMaxTime  \* bound on the clock

ASSUME LimiterAssumption ==
    /\ LimMaxTime \in Nat
    /\ \A x \in Setups : IsFiniteSet(x.keys) /\ x.guests \subseteq Guests /\ \A i \in 1..Len(x.rules) :
          x.rules[i].exp \in Nat \ {0} /\ {x.rules[i].allowed, x.rules[i].estimated} \subseteq Nat

VARIABLES
    setup, hour,
    rules,      \* the rules: exp, allowed, estimated; used (usedRecordsIndex), free
                \* (notRecordsIndex), records
    visitor,    \* visitor[g]: the rule that a visit has come to, 0 for none; its key
    tally       \* history: tally[r][k]: until when the visits of k count

limVars == <<setup, hour, rules, visitor, tally>>

-----------------------------------------------------------------------------
\* circleQueue: a ring with one place that stays empty.
Ring(n) == [slice |-> [i \in 0..n |-> 0], head |-> 0, tail |-> 0]
RingSize(c) == Cardinality(DOMAIN c.slice)
After(c, i) == (i + 1) % RingSize(c)
RingFull(c) == After(c, c.tail) = c.head
Push(c, v) == [c EXCEPT !.slice[c.tail] = v, !.tail = After(c, c.tail)]
UsedSize(c) == (c.tail + RingSize(c) - c.head) % RingSize(c)
\* Places behind the head are never read again: they are cleared here.
RECURSIVE DeleteExpired(_, _)
DeleteExpired(c, t) ==
    IF c.tail # c.head /\ t > c.slice[c.head]
    THEN DeleteExpired([c EXCEPT !.head = After(c, c.head), !.slice[c.head] = 0], t)
    ELSE c
Contents(c) == [i \in 1..UsedSize(c) |-> c.slice[(c.head + i - 1) % RingSize(c)]]

\* newRule, createRule.  Records are indexed from 0.
NewRule(a) ==
    LET allowed == IF a.allowed = 0 THEN 1 ELSE a.allowed
        estimated == IF a.estimated = 0 THEN allowed ELSE a.estimated
    IN  [exp |-> a.exp, allowed |-> allowed, estimated |-> estimated,
         used |-> <<>>, free |-> 0..(estimated - 1),
         records |-> [i \in 0..(estimated - 1) |-> Ring(allowed)]]
AddRule(rs, a) == SortSeq(Append(rs, NewRule(a)), LAMBDA x, y : x.exp < y.exp)

LimInit ==
    /\ setup \in Setups /\ hour = 0
    /\ rules = FoldLeft(AddRule, <<>>, setup.rules)
    /\ visitor = [g \in Guests |-> [rule |-> 0, key |-> "none"]]
    /\ tally = [r \in 1..Len(setup.rules) |-> [k \in setup.keys |-> <<>>]]

-----------------------------------------------------------------------------
Extend(f, k, v) == [x \in DOMAIN f \cup {k} |-> IF x = k THEN v ELSE f[x]]
Minus(f, S) == [x \in DOMAIN f \ S |-> f[x]]
Known(r, k) == k \in DOMAIN r.used

\* add: rules that the visit may leave behind, the visit tally; {} if refused.
\* A key that is not known gets a free ring, or a new one at the end.
Adds(r, k) ==
    LET Into(s, i, c) == [s EXCEPT !.records = Extend(@, i, Push(c, hour + r.exp)),
                                   !.used = Extend(@, k, i), !.free = @ \ {i}]
        last == Cardinality(DOMAIN r.records)
    IN  IF Known(r, k)
        THEN LET c == DeleteExpired(r.records[r.used[k]], hour) IN
             IF RingFull(c) THEN {} ELSE {Into(r, r.used[k], c)}
        ELSE IF r.free # {} THEN {Into(r, i, r.records[i]) : i \in r.free}
        ELSE {Into(r, last, Ring(r.allowed))}
\* The rule as a refusal leaves it.
Cleared(r, k) == [r EXCEPT !.records[r.used[k]] = DeleteExpired(@, hour)]

Still(s, t) == SelectSeq(s, LAMBDA until : t <= until)

\* AllowVisit: a visit arrives; it passes a rule; it is let in behind the last.
Visit(g, k) ==
    /\ visitor[g].rule = 0 /\ g \in setup.guests
    /\ visitor' = [visitor EXCEPT ![g] = [rule |-> 1, key |-> k]]
    /\ UNCHANGED <<setup, hour, rules, tally>>

Passes(g) ==
    /\ visitor[g].rule # 0
    /\ LET i == visitor[g].rule
           k == visitor[g].key
       IN  \/ /\ \E r \in Adds(rules[i], k) : rules' = [rules EXCEPT ![i] = r]
              /\ visitor' = [visitor EXCEPT ![g] =
                    IF i < Len(rules) THEN [rule |-> i + 1, key |-> k] ELSE [rule |-> 0, key |-> "none"]]
              /\ tally' = [tally EXCEPT ![i][k] =
                    Append(Still(@, hour), hour + rules[i].exp)]
           \/ /\ Adds(rules[i], k) = {}
              /\ rules' = [rules EXCEPT ![i] = Cleared(@, k)]
              /\ visitor' = [visitor EXCEPT ![g] = [rule |-> 0, key |-> "none"]]
              /\ UNCHANGED tally
    /\ UNCHANGED <<setup, hour>>

\* The goroutine of a rule: deleteExpiredOnce, which frees the rings that are
\* empty now, and then recovery, in two steps.
DeleteOnce(i) ==
    /\ LET r == rules[i]
           fresh == [x \in DOMAIN r.records |->
                       IF \E k \in DOMAIN r.used : r.used[k] = x
                       THEN DeleteExpired(r.records[x], hour) ELSE r.records[x]]
           gone == {k \in DOMAIN r.used : UsedSize(fresh[r.used[k]]) = 0}
       IN  rules' = [rules EXCEPT ![i] =
              [r EXCEPT !.records = fresh, !.used = Minus(@, gone),
                        !.free = @ \cup {r.used[k] : k \in gone}]]
    /\ UNCHANGED <<setup, hour, visitor, tally>>

\* needRecovery and recovery: fewer rings, those in use moved to the front.
UsedLen(r) == Cardinality(DOMAIN r.records) - Cardinality(r.free)
NeedRecovery(r) ==
    /\ Cardinality(DOMAIN r.records) >= 2 * r.estimated
    /\ UsedLen(r) * 2 < Cardinality(r.free)
\* mutant: the indexes are counted from one
FromOne(r, q) == [i \in 1..Len(q) |-> i]
MovedFront(r, q) == [i \in 1..Len(q) |-> i - 1]
Recovered(r, q) ==
    LET newLen == IF UsedLen(r) < r.estimated THEN r.estimated ELSE UsedLen(r) * 2
    IN  [r EXCEPT
           !.records = [x \in 0..(newLen - 1) |->
              IF x < Len(q) THEN r.records[r.used[q[x + 1]]] ELSE Ring(r.allowed)],
           !.used = [k \in DOMAIN r.used |->
              MovedFront(r, q)[CHOOSE j \in 1..Len(q) : q[j] = k]],
           !.free = Len(q)..(newLen - 1)]
Recovery(i) ==
    /\ NeedRecovery(rules[i])
    /\ \E q \in SetToSeqs(DOMAIN rules[i].used) :
          rules' = [rules EXCEPT ![i] = Recovered(@, q)]
    /\ UNCHANGED <<setup, hour, visitor, tally>>

LimTick ==
    /\ hour < LimMaxTime /\ hour' = hour + 1
    /\ tally' = [r \in DOMAIN tally |->
          [k \in setup.keys |-> Still(tally[r][k], hour')]]
    /\ UNCHANGED <<setup, rules, visitor>>

LimNext ==
    \/ \E g \in Guests : Passes(g) \/ \E k \in setup.keys : Visit(g, k)
    \/ \E i \in 1..Len(rules) : DeleteOnce(i) \/ Recovery(i)
    \/ LimTick

LimSpec == LimInit /\ [][LimNext]_limVars

-----------------------------------------------------------------------------
\* Whatever rings are handed out, taken back and moved: a rule knows of each
\* key just the visits that still count, so that it lets in as many as are
\* allowed in its span and not one more; no two keys share a ring, and a ring
\* is free just if no key has it.
CountsVisits ==
    \A i \in 1..Len(rules) : LET r == rules[i] IN
        /\ \A k \in setup.keys :
              /\ Len(tally[i][k]) <= r.allowed
              /\ tally[i][k] = IF Known(r, k)
                    THEN Contents(DeleteExpired(r.records[r.used[k]], hour)) ELSE <<>>
        /\ \A k, l \in DOMAIN r.used : r.used[k] = r.used[l] => k = l
        /\ r.free = DOMAIN r.records \ {r.used[k] : k \in DOMAIN r.used}
=============================================================================
