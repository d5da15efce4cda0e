--------------------------- MODULE TokenBucket ---------------------------
(***************************************************************************)
(* TokenBucketLimiter of znet/limiter/token_bucket.go: a bucket for each   *)
(* key, made when it is first asked for.  A rate is the number of tokens   *)
(* in Period ticks; a refill adds whole tokens and drops the fraction.     *)
(***************************************************************************)
EXTENDS Integers, FiniteSets

CONSTANTS
    Askings,    \* goroutines that call Allow
    BucketKeys, Rates, Capacities,
    Period,     \* ticks in which a rate r gives r tokens
    TbMaxTime   \* bound on the clock

ASSUME TokenBucketAssumption ==
    /\ Rates \subseteq Nat /\ Capacities \subseteq Nat \ {0} /\ Period \in Nat \ {0}
    /\ TbMaxTime \in Nat /\ IsFiniteSet(Askings) /\ IsFiniteSet(BucketKeys)

VARIABLES
    tbTime, tbRate, capacity,   \* the clock; the limiter
    buckets,    \* buckets[k]: the bucket in the map, 0 for none
    bucket,     \* the buckets: capacity, tokens, rate, lastRefill, and, of what an
                \* exact bucket would hold: level (in parts of Period), its
                \* clock and the greatest rate since
    asking      \* asking[a]: where a call of Allow is, its key and bucket, its answer

tbVars == <<tbTime, tbRate, capacity, buckets, bucket, asking>>

\* Buckets are numbered, and the numbers of those that nobody leads to used again.
Bucket == 1..(Cardinality(BucketKeys) + Cardinality(Askings))
NoBucket == [capacity |-> 0, tokens |-> 0, rate |-> 0, last |-> 0, level |-> 0, seen |-> 0, fastest |-> 0]
AtRest == [at |-> "idle", key |-> "none", b |-> 0]
NewBucket(r, c) ==
    [capacity |-> c, tokens |-> c, rate |-> r, last |-> tbTime, level |-> c * Period,
     seen |-> tbTime, fastest |-> r]

TbInit ==
    /\ tbTime = 0 /\ tbRate \in Rates /\ capacity \in Capacities
    /\ buckets = [k \in BucketKeys |-> 0]
    /\ bucket = [b \in Bucket |-> NoBucket]
    /\ asking = [a \in Askings |-> AtRest]

InUse == {buckets[k] : k \in BucketKeys} \cup {asking[a].b : a \in Askings}
Kept(f) == bucket' = [b \in Bucket |-> IF b \in InUse' THEN f[b] ELSE NoBucket]

-----------------------------------------------------------------------------
\* Allow looks under the read lock.
LookUp(a, k) ==
    /\ asking[a].at = "idle"
    /\ asking' = [asking EXCEPT ![a] = [key |-> k, b |-> buckets[k],
                     at |-> IF buckets[k] = 0 THEN "make" ELSE "allow"]]
    /\ UNCHANGED <<tbTime, tbRate, capacity, buckets, bucket>>

\* It looks again under the lock, and makes the bucket.
StillNone(k) == buckets[k] = 0
MakeBucket(a) ==
    /\ asking[a].at = "make"
    /\ LET k == asking[a].key
           b == CHOOSE x \in Bucket : x \notin InUse
       IN  IF StillNone(k)
           THEN /\ buckets' = [buckets EXCEPT ![k] = b]
                /\ asking' = [asking EXCEPT ![a].at = "allow", ![a].b = b]
                /\ Kept([bucket EXCEPT ![b] = NewBucket(tbRate, capacity)])
           ELSE /\ asking' = [asking EXCEPT ![a].at = "allow", ![a].b = buckets[k]]
                /\ UNCHANGED <<buckets, bucket>>
    /\ UNCHANGED <<tbTime, tbRate, capacity>>

\* refill: whole tokens for the time that has gone, up to the capacity.
Least2(x, y) == IF x < y THEN x ELSE y
Gained(b) == (b.rate * (tbTime - b.last)) \div Period
KeepClock(b) == [b EXCEPT !.tokens = Least2(b.capacity, @ + Gained(b))] \* mutant: lastRefill stays
Refill(b) == [b EXCEPT !.tokens = Least2(b.capacity, @ + Gained(b)), !.last = tbTime]
\* An exact bucket does the same without dropping anything.
Exactly(b) == [b EXCEPT
    !.level = Least2(b.capacity * Period, @ + b.fastest * (tbTime - b.seen)),
    !.seen = tbTime, !.fastest = b.rate]

\* bucket.allow, under its mutex: refill, and a token if there is one.
TakeToken(b) ==
    LET full == Exactly(Refill(b))
    IN  IF full.tokens > 0
        THEN [full EXCEPT !.tokens = @ - 1, !.level = @ - Period] ELSE full
AllowCall(a) ==
    /\ asking[a].at = "allow"
    /\ asking' = [asking EXCEPT ![a] = AtRest]
    /\ UNCHANGED <<tbTime, tbRate, capacity, buckets>>
    /\ Kept([bucket EXCEPT ![asking[a].b] = TakeToken(@)])

\* SetRate and SetCapacity reach the buckets in the map under the lock.
InMap(b) == \E k \in BucketKeys : buckets[k] = b
SetRate(r) ==
    /\ tbRate' = r
    /\ bucket' = [b \in Bucket |-> IF InMap(b)
          THEN [bucket[b] EXCEPT !.rate = r, !.fastest = IF r > @ THEN r ELSE @] ELSE bucket[b]]
    /\ UNCHANGED <<tbTime, capacity, buckets, asking>>
SetCapacity(c) ==
    /\ capacity' = c
    /\ bucket' = [b \in Bucket |-> IF InMap(b)
          THEN [bucket[b] EXCEPT !.capacity = c, !.tokens = Least2(@, c), !.level = Least2(@, c * Period)]
          ELSE bucket[b]]
    /\ UNCHANGED <<tbTime, tbRate, buckets, asking>>

\* Reset and ResetAll: a call that has its bucket goes on with it.
ResetKeys(S) ==
    /\ buckets' = [k \in BucketKeys |-> IF k \in S THEN 0 ELSE buckets[k]]
    /\ UNCHANGED <<tbTime, tbRate, capacity, asking>>
    /\ Kept(bucket)

TbTick ==
    /\ tbTime < TbMaxTime /\ tbTime' = tbTime + 1
    /\ UNCHANGED <<tbRate, capacity, buckets, bucket, asking>>

TbNext ==
    \/ \E a \in Askings : MakeBucket(a) \/ AllowCall(a) \/ \E k \in BucketKeys : LookUp(a, k)
    \/ \E r \in Rates : SetRate(r)
    \/ \E c \in Capacities : SetCapacity(c)
    \/ \E k \in BucketKeys : ResetKeys({k})
    \/ ResetKeys(BucketKeys) \/ TbTick

TbSpec == TbInit /\ [][TbNext]_tbVars

-----------------------------------------------------------------------------
\* A bucket never holds more than its capacity, nor more than an exact one does
\* at the greatest rate set since it was last filled: so its calls are never
\* let in faster.  What the map leads to has the rate and the capacity that
\* were set last.
NeverAhead ==
    /\ \A b \in Bucket : bucket[b].tokens \in 0..bucket[b].capacity
                         /\ bucket[b].tokens * Period <= bucket[b].level
    /\ \A k \in BucketKeys : buckets[k] # 0 =>
          /\ bucket[buckets[k]].rate = tbRate /\ bucket[buckets[k]].capacity = capacity
=============================================================================
