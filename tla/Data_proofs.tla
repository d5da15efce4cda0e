---------------------------- MODULE Data_proofs -----------------------------
(***************************************************************************)
(* What the components that keep or carry data promise: the token buckets  *)
(* of znet/limiter, the session store of znet/session, and the server-sent *)
(* events of znet and zhttp.  Each part states the invariant that its      *)
(* steps keep, the steps, and the theorem, which is about the module on    *)
(* its own.                                                                *)
(***************************************************************************)
EXTENDS TokenBucket, Sessions, EventStream, FiniteSetTheorems, TLAPS
-----------------------------------------------------------------------------
(* The token bucket: what a refill drops is dropped in favour of the limit. *)

Buckets == [capacity : Nat, tokens : Nat, rate : Nat, last : Nat, level : Int, seen : Nat, fastest : Nat]
Calls == [at : {"idle", "make", "allow"}, key : BucketKeys \cup {"none"}, b : Bucket \cup {0}]
TbTypes ==
    /\ tbTime \in Nat /\ tbRate \in Nat /\ capacity \in Nat
    /\ buckets \in [BucketKeys -> Bucket \cup {0}]
    /\ bucket \in [Bucket -> Buckets] /\ asking \in [Askings -> Calls]
\* Not ahead of the exact bucket, which was filled at the same time and is to
\* be filled no slower.
Behind(b) ==
    /\ b.tokens <= b.capacity /\ b.tokens * Period <= b.level
    /\ b.last = b.seen /\ b.last <= tbTime /\ b.rate <= b.fastest
AllBehind == \A b \in Bucket : Behind(bucket[b])
MapIsUpToDate ==
    \A k \in BucketKeys : buckets[k] # 0 =>
        bucket[buckets[k]].rate = tbRate /\ bucket[buckets[k]].capacity = capacity
\* A call that looks for a bucket has none yet.
CallHasBucket ==
    \A a \in Askings : /\ asking[a].at = "allow" => asking[a].b \in Bucket
                       /\ asking[a].at # "allow" => asking[a].b = 0
                       /\ asking[a].at = "make" => asking[a].key \in BucketKeys
TbInv == TbTypes /\ AllBehind /\ MapIsUpToDate /\ CallHasBucket

\* Whole tokens for an interval are no more than the interval brings, and no
\* more than it brings at a greater rate.
LEMMA WholeTokens ==
    ASSUME NEW r \in Nat, NEW s \in Nat, NEW d \in Nat, NEW p \in Nat \ {0}, r <= s
    PROVE  /\ (r * d) \div p \in Nat
           /\ ((r * d) \div p) * p <= s * d
<1>1. r * d \in Nat /\ r * d <= s * d OBVIOUS
<1> DEFINE x == r * d
           y == s * d
<1>2. y \in Nat OBVIOUS
<1> HIDE DEF x, y
<1>3. x \in Nat /\ x <= y BY <1>1 DEF x, y
<1>4. x \div p \in Nat /\ (x \div p) * p <= x BY <1>3
<1> DEFINE z == (x \div p) * p
<1>5. z \in Nat BY <1>4
<1> HIDE DEF z
<1>6. z <= x BY <1>4 DEF z
<1>7. z <= y BY <1>2, <1>3, <1>5, <1>6
<1> QED BY <1>4, <1>7 DEF x, y, z

\* The smaller of two, in tokens and in parts of tokens.
LEMMA SmallerStays ==
    ASSUME NEW t \in Nat, NEW c \in Nat, NEW l \in Int, NEW p \in Nat, t * p <= l
    PROVE  /\ Least2(c, t) \in Nat /\ Least2(c, t) <= c
           /\ Least2(c * p, l) \in Int /\ Least2(c, t) * p <= Least2(c * p, l)
<1> DEFINE cp == c * p
           tp == t * p
<1>1. cp \in Nat /\ tp \in Nat OBVIOUS
<1>2. /\ c <= t => cp <= tp
      /\ t <= c => tp <= cp
  OBVIOUS
<1>3. Least2(c, t) * p = IF c < t THEN cp ELSE tp BY DEF Least2
<1> HIDE DEF cp, tp
<1>4. tp <= l BY DEF tp
<1>5. Least2(c, t) * p <= Least2(cp, l) /\ Least2(cp, l) \in Int
  BY <1>1, <1>2, <1>3, <1>4 DEF Least2
<1>6. Least2(c, t) \in Nat /\ Least2(c, t) <= c BY DEF Least2
<1> QED BY <1>5, <1>6 DEF cp

\* A call that fills the bucket and takes a token, if there is one.
LEMMA TakeTokenBehind ==
    ASSUME NEW b \in Buckets, Behind(b), tbTime \in Nat
    PROVE  /\ TakeToken(b) \in Buckets /\ Behind(TakeToken(b))
           /\ TakeToken(b).rate = b.rate /\ TakeToken(b).capacity = b.capacity
<1>0. Period \in Nat \ {0} BY TokenBucketAssumption
<1> DEFINE d == tbTime - b.last
           g == Gained(b)
           t == Least2(b.capacity, b.tokens + g)
           l == Least2(b.capacity * Period, b.level + b.fastest * d)
<1>1. d \in Nat /\ tbTime - b.seen = d BY DEF Buckets, Behind
<1> HIDE DEF d
<1>2. g \in Nat /\ g * Period <= b.fastest * d
  <2>1. g = (b.rate * d) \div Period BY DEF Gained, d
  <2>2. b.rate \in Nat /\ b.fastest \in Nat /\ b.rate <= b.fastest BY DEF Buckets, Behind
  <2> HIDE DEF g
  <2> QED BY <1>0, <1>1, <2>1, <2>2, WholeTokens
<1> HIDE DEF g
<1>3. /\ b.tokens + g \in Nat /\ b.level + b.fastest * d \in Int
      /\ (b.tokens + g) * Period <= b.level + b.fastest * d
  <2>1. b.tokens \in Nat /\ b.level \in Int /\ b.fastest \in Nat /\ b.tokens * Period <= b.level
    BY DEF Buckets, Behind
  <2>2. b.fastest * d \in Nat BY <1>1, <2>1
  <2>3. (b.tokens + g) * Period = b.tokens * Period + g * Period BY ONLY <1>0, <1>2, <2>1
  <2>4. b.tokens * Period \in Nat /\ g * Period \in Nat BY ONLY <1>0, <1>2, <2>1
  <2> DEFINE u == b.tokens * Period
             v == g * Period
             w == b.fastest * d
  <2>5. u \in Nat /\ v \in Nat /\ w \in Nat /\ u <= b.level /\ v <= w BY <1>2, <2>1, <2>2, <2>4
  <2> HIDE DEF u, v, w
  <2>6. u + v <= b.level + w BY ONLY <2>1, <2>5
  <2> QED BY <1>2, <2>1, <2>2, <2>3, <2>6 DEF u, v, w
<1>4. /\ t \in Nat /\ t <= b.capacity /\ l \in Int /\ t * Period <= l
  <2> DEFINE x == b.tokens + g
             y == b.level + b.fastest * d
  <2>1. x \in Nat /\ y \in Int /\ x * Period <= y BY <1>3
  <2>2. b.capacity \in Nat BY DEF Buckets
  <2> HIDE DEF x, y
  <2>3. /\ Least2(b.capacity, x) \in Nat /\ Least2(b.capacity, x) <= b.capacity
        /\ Least2(b.capacity * Period, y) \in Int
        /\ Least2(b.capacity, x) * Period <= Least2(b.capacity * Period, y)
    BY <1>0, <2>1, <2>2, SmallerStays
  <2> QED BY <2>3 DEF x, y
<1> DEFINE f == [b EXCEPT !.tokens = t, !.last = tbTime, !.level = l, !.seen = tbTime, !.fastest = b.rate]
<1>5. Exactly(Refill(b)) = f
  <2>1. Refill(b) = [b EXCEPT !.tokens = t, !.last = tbTime] BY DEF Refill, g
  <2> DEFINE e == Refill(b)
  <2>2. /\ e.capacity = b.capacity /\ e.level = b.level /\ e.fastest = b.fastest /\ e.seen = b.seen /\ e.rate = b.rate
    BY <2>1 DEF Buckets
  <2>3. Exactly(e) = [e EXCEPT !.level = l, !.seen = tbTime, !.fastest = b.rate]
    BY <1>1, <2>2 DEF Exactly
  <2>4. [e EXCEPT !.level = l, !.seen = tbTime, !.fastest = b.rate] = f
    <3> HIDE DEF t, l
    <3> QED BY <2>1 DEF Buckets
  <2> QED BY <2>3, <2>4
<1> HIDE DEF t, l
<1>6. /\ f \in Buckets /\ f.tokens = t /\ f.level = l /\ f.last = tbTime /\ f.seen = tbTime
      /\ f.rate = b.rate /\ f.fastest = b.rate /\ f.capacity = b.capacity
  BY <1>4 DEF Buckets
<1> HIDE DEF f
<1>7. Behind(f) BY <1>4, <1>6 DEF Behind, Buckets
<1>8. TakeToken(b) = IF f.tokens > 0 THEN [f EXCEPT !.tokens = t - 1, !.level = l - Period] ELSE f
  BY <1>5, <1>6 DEF TakeToken, Buckets
<1>9. CASE f.tokens > 0
  <2> DEFINE h == [f EXCEPT !.tokens = t - 1, !.level = l - Period]
  <2>1. t - 1 \in Nat /\ l - Period \in Int BY <1>0, <1>4, <1>6, <1>9
  <2>2. /\ h \in Buckets /\ h.tokens = t - 1 /\ h.level = l - Period /\ h.last = tbTime /\ h.seen = tbTime
        /\ h.rate = b.rate /\ h.fastest = b.rate /\ h.capacity = b.capacity
    BY <1>6, <2>1 DEF Buckets
  <2>3. (t - 1) * Period <= l - Period
    <3>1. (t - 1) * Period = t * Period - Period BY <1>0, <1>4
    <3>2. t * Period \in Nat BY <1>0, <1>4
    <3> QED BY <1>0, <1>4, <3>1, <3>2
  <2>4. t - 1 <= b.capacity /\ b.rate <= b.rate BY <1>4, <2>1 DEF Buckets
  <2> HIDE DEF h
  <2>5. Behind(h) BY <2>2, <2>3, <2>4 DEF Behind
  <2> QED BY <1>8, <1>9, <2>2, <2>5 DEF h
<1> QED BY <1>6, <1>7, <1>8, <1>9

\* A call without a bucket leaves one free.
LEMMA BucketIsFree ==
    ASSUME TbTypes, NEW a \in Askings, asking[a].b = 0
    PROVE  \E x \in Bucket : x \notin InUse
<1> DEFINE R == BucketKeys
           O == Askings \ {a}
           E1 == {buckets[r] : r \in R}
           E2 == {asking[b].b : b \in O}
           nr == Cardinality(R)
           na == Cardinality(Askings)
<1>1. IsFiniteSet(R) /\ IsFiniteSet(Askings) /\ nr \in Nat /\ na \in Nat
  BY TokenBucketAssumption, FS_CardinalityType
<1>2. IsFiniteSet(O) /\ Cardinality(O) = na - 1 BY <1>1, FS_RemoveElement
<1>3. IsFiniteSet(E1) /\ Cardinality(E1) <= nr
  <2> DEFINE f == [r \in R |-> buckets[r]]
  <2>1. f \in Surjection(R, E1) BY DEF Surjection
  <2> HIDE DEF f, E1
  <2> QED BY <1>1, <2>1, FS_Surjection
<1>4. IsFiniteSet(E2) /\ Cardinality(E2) <= na - 1
  <2> DEFINE f == [b \in O |-> asking[b].b]
  <2>1. f \in Surjection(O, E2) BY DEF Surjection
  <2> HIDE DEF f, E2, O
  <2> QED BY <1>2, <2>1, FS_Surjection
<1>5. IsFiniteSet(Bucket) /\ Cardinality(Bucket) = nr + na /\ 0 \notin Bucket
  <2>1. Bucket = 1..(nr + na) BY DEF Bucket
  <2> HIDE DEF nr, na
  <2>2. nr + na \in Nat /\ nr + na \in Int /\ 1 \in Int BY <1>1
  <2>3. IsFiniteSet(1..(nr + na)) /\ Cardinality(1..(nr + na)) = IF 1 > nr + na THEN 0 ELSE (nr + na) - 1 + 1
    BY <2>2, FS_Interval
  <2>4. (IF 1 > nr + na THEN 0 ELSE (nr + na) - 1 + 1) = nr + na /\ 0 \notin 1..(nr + na) BY ONLY <2>2
  <2> QED BY <2>1, <2>3, <2>4
<1>6. InUse \subseteq E1 \cup E2 \cup {0} BY DEF InUse
<1>7. CASE Bucket \subseteq InUse
  <2>1. Bucket \in SUBSET (E1 \cup E2) BY <1>5, <1>6, <1>7
  <2> HIDE DEF E1, E2
  <2>2. IsFiniteSet(E1 \cup E2) /\ Cardinality(E1 \cup E2) = Cardinality(E1) + Cardinality(E2) - Cardinality(E1 \cap E2)
    BY <1>3, <1>4, FS_Union
  <2>3. Cardinality(E1 \cap E2) \in Nat /\ Cardinality(E1) \in Nat /\ Cardinality(E2) \in Nat
        /\ Cardinality(E1 \cup E2) \in Nat
    <3>1. E1 \cap E2 \in SUBSET E1 OBVIOUS
    <3>2. IsFiniteSet(E1 \cap E2) BY <1>3, <3>1, FS_Subset
    <3> QED BY <1>3, <1>4, <2>2, <3>2, FS_CardinalityType
  <2>4. Cardinality(Bucket) <= Cardinality(E1 \cup E2) BY <2>1, <2>2, FS_Subset
  <2> HIDE DEF nr, na
  <2> QED BY ONLY <1>1, <1>3, <1>4, <1>5, <2>2, <2>3, <2>4
<1> QED BY <1>7

LEMMA TbStep == TbInv /\ [TbNext]_tbVars => TbInv'
<1> SUFFICES ASSUME TbInv, [TbNext]_tbVars PROVE TbInv' OBVIOUS
<1>0. /\ TbTypes /\ AllBehind /\ MapIsUpToDate /\ CallHasBucket
      /\ Rates \subseteq Nat /\ Capacities \subseteq Nat /\ Period \in Nat \ {0} /\ Bucket' = Bucket
  BY TokenBucketAssumption DEF TbInv, Bucket
<1>00. 0 \notin Bucket
  <2>1. Cardinality(BucketKeys) + Cardinality(Askings) \in Nat BY TokenBucketAssumption, FS_CardinalityType
  <2> QED BY <2>1 DEF Bucket
<1>n. NoBucket \in Buckets /\ Behind(NoBucket)
  <2>1. 0 * Period <= 0 BY <1>0
  <2> QED BY <1>0, <2>1 DEF NoBucket, Buckets, Behind, TbTypes
<1>r. AtRest \in Calls /\ AtRest.at = "idle" /\ AtRest.b = 0 BY DEF AtRest, Calls
\* A step that leaves the limiter, and the garbage out.
<1>1. ASSUME NEW f \in [Bucket -> Buckets], Kept(f), UNCHANGED <<tbTime, tbRate, capacity>>,
             \A b \in Bucket : Behind(f[b]),
             buckets' \in [BucketKeys -> Bucket \cup {0}], asking' \in [Askings -> Calls], CallHasBucket',
             \A k \in BucketKeys : buckets'[k] # 0 =>
                f[buckets'[k]].rate = tbRate /\ f[buckets'[k]].capacity = capacity
      PROVE  TbInv'
  <2>1. /\ bucket' \in [Bucket -> Buckets] /\ \A b \in Bucket : Behind(bucket'[b])
        /\ \A b \in Bucket : b \in InUse' => bucket'[b] = f[b]
    BY <1>n, <1>1 DEF Kept
  <2>2. TbTypes' BY <1>0, <1>1, <2>1 DEF TbTypes, Calls
  <2>3. AllBehind' BY <1>0, <1>1, <2>1 DEF AllBehind, Behind
  <2>4. MapIsUpToDate'
    <3>1. ASSUME NEW k \in BucketKeys, buckets'[k] # 0
          PROVE  bucket'[buckets'[k]].rate = tbRate /\ bucket'[buckets'[k]].capacity = capacity
      <4>1. buckets'[k] \in Bucket /\ buckets'[k] \in InUse' BY <1>1, <3>1 DEF InUse
      <4> QED BY <1>1, <2>1, <3>1, <4>1
    <3> QED BY <1>1, <3>1 DEF MapIsUpToDate
  <2> QED BY <1>1, <2>2, <2>3, <2>4 DEF TbInv
<1>2. ASSUME NEW a \in Askings, NEW k \in BucketKeys, LookUp(a, k) PROVE TbInv'
  <2> DEFINE s == [key |-> k, b |-> buckets[k], at |-> IF buckets[k] = 0 THEN "make" ELSE "allow"]
  <2>1. s \in Calls /\ s.key = k /\ (s.at = "allow" => s.b \in Bucket) /\ (s.at # "allow" => s.b = 0)
    BY <1>0 DEF TbTypes, Calls
  <2>2. asking' = [asking EXCEPT ![a] = s] /\ UNCHANGED <<tbTime, tbRate, capacity, buckets, bucket>>
    BY <1>2 DEF LookUp
  <2> HIDE DEF s
  <2>3. TbTypes' BY <1>0, <2>1, <2>2 DEF TbTypes, Calls
  <2>4. CallHasBucket' BY <1>0, <2>1, <2>2 DEF CallHasBucket, TbTypes
  <2> QED BY <1>0, <2>2, <2>3, <2>4 DEF TbInv, AllBehind, Behind, MapIsUpToDate
<1>3. ASSUME NEW a \in Askings, MakeBucket(a) PROVE TbInv'
  <2> DEFINE k == asking[a].key
             b == CHOOSE x \in Bucket : x \notin InUse
  <2>1. asking[a].at = "make" /\ k \in BucketKeys /\ asking[a].b = 0 BY <1>0, <1>3 DEF MakeBucket, CallHasBucket
  <2>2. b \in Bucket /\ b \notin InUse BY <1>0, <2>1, BucketIsFree
  <2>3. CASE StillNone(k)
    <3> DEFINE z == NewBucket(tbRate, capacity)
               f == [bucket EXCEPT ![b] = z]
               s == [asking[a] EXCEPT !.at = "allow", !.b = b]
    <3>1. /\ buckets' = [buckets EXCEPT ![k] = b] /\ asking' = [asking EXCEPT ![a] = s]
          /\ Kept(f) /\ UNCHANGED <<tbTime, tbRate, capacity>>
      BY <1>3, <2>3 DEF MakeBucket
    <3> HIDE DEF b
    <3>2. z \in Buckets /\ Behind(z) /\ z.rate = tbRate /\ z.capacity = capacity
      <4>1. capacity * Period \in Nat BY <1>0 DEF TbTypes
      <4> QED BY <1>0, <4>1 DEF NewBucket, Buckets, Behind, TbTypes
    <3>3. s \in Calls /\ s.at = "allow" /\ s.b = b BY <1>0, <2>2 DEF TbTypes, Calls
    <3> HIDE DEF z, s
    <3>4. f \in [Bucket -> Buckets] /\ f[b] = z /\ \A x \in Bucket : x # b => f[x] = bucket[x]
      BY <1>0, <2>2, <3>2 DEF TbTypes
    <3> HIDE DEF f
    <3>5. \A x \in Bucket : Behind(f[x]) BY <1>0, <3>2, <3>4 DEF AllBehind
    <3>6. /\ buckets' \in [BucketKeys -> Bucket \cup {0}] /\ buckets'[k] = b
          /\ \A x \in BucketKeys : x # k => buckets'[x] = buckets[x]
      BY <1>0, <2>1, <2>2, <3>1 DEF TbTypes
    <3>7. asking' \in [Askings -> Calls] BY <1>0, <3>1, <3>3 DEF TbTypes
    <3>8. CallHasBucket' BY <1>0, <2>2, <3>1, <3>3 DEF CallHasBucket, TbTypes
    <3>9. \A x \in BucketKeys : buckets'[x] # 0 =>
             f[buckets'[x]].rate = tbRate /\ f[buckets'[x]].capacity = capacity
      <4>1. ASSUME NEW x \in BucketKeys, buckets'[x] # 0, x # k
            PROVE  f[buckets'[x]].rate = tbRate /\ f[buckets'[x]].capacity = capacity
        <5>1. buckets'[x] = buckets[x] /\ buckets[x] \in Bucket /\ buckets[x] # b
          BY <1>0, <2>2, <3>6, <4>1 DEF TbTypes, InUse
        <5> QED BY <1>0, <3>4, <4>1, <5>1 DEF MapIsUpToDate
      <4> QED BY <2>2, <3>2, <3>4, <3>6, <4>1
    <3> QED BY <1>1, <3>1, <3>4, <3>5, <3>6, <3>7, <3>8, <3>9
  <2>4. CASE ~StillNone(k)
    <3> DEFINE s == [asking[a] EXCEPT !.at = "allow", !.b = buckets[k]]
    <3>1. asking' = [asking EXCEPT ![a] = s] /\ UNCHANGED <<tbTime, tbRate, capacity, buckets, bucket>>
      BY <1>3, <2>4 DEF MakeBucket
    <3>2. buckets[k] \in Bucket BY <1>0, <2>1, <2>4 DEF StillNone, TbTypes
    <3>3. s \in Calls /\ s.at = "allow" /\ s.b = buckets[k] BY <1>0, <3>2 DEF TbTypes, Calls
    <3> HIDE DEF s
    <3>4. TbTypes' BY <1>0, <3>1, <3>3 DEF TbTypes, Calls
    <3>5. CallHasBucket' BY <1>0, <3>1, <3>2, <3>3 DEF CallHasBucket, TbTypes
    <3> QED BY <1>0, <3>1, <3>4, <3>5 DEF TbInv, AllBehind, Behind, MapIsUpToDate
  <2> QED BY <2>3, <2>4
<1>4. ASSUME NEW a \in Askings, AllowCall(a) PROVE TbInv'
  <2> DEFINE b == asking[a].b
             z == TakeToken(bucket[b])
             f == [bucket EXCEPT ![b] = z]
  <2>1. /\ asking[a].at = "allow" /\ asking' = [asking EXCEPT ![a] = AtRest]
        /\ UNCHANGED <<tbTime, tbRate, capacity, buckets>> /\ Kept(f)
    BY <1>4 DEF AllowCall
  <2>2. b \in Bucket BY <1>0, <2>1 DEF CallHasBucket
  <2> HIDE DEF b
  <2>3. /\ z \in Buckets /\ Behind(z) /\ z.rate = bucket[b].rate /\ z.capacity = bucket[b].capacity
    BY <1>0, <2>2, TakeTokenBehind DEF TbTypes, AllBehind
  <2> HIDE DEF z
  <2>4. f \in [Bucket -> Buckets] /\ f[b] = z /\ \A x \in Bucket : x # b => f[x] = bucket[x]
    BY <1>0, <2>2, <2>3 DEF TbTypes
  <2> HIDE DEF f
  <2>5. \A x \in Bucket : Behind(f[x]) BY <1>0, <2>3, <2>4 DEF AllBehind
  <2>6. asking' \in [Askings -> Calls] BY <1>0, <1>r, <2>1 DEF TbTypes
  <2>7. CallHasBucket' BY <1>0, <1>r, <2>1 DEF CallHasBucket, TbTypes
  <2>8. \A k \in BucketKeys : buckets'[k] # 0 =>
           f[buckets'[k]].rate = tbRate /\ f[buckets'[k]].capacity = capacity
    BY <1>0, <2>1, <2>3, <2>4 DEF MapIsUpToDate, TbTypes
  <2> QED BY <1>0, <1>1, <2>1, <2>4, <2>5, <2>6, <2>7, <2>8 DEF TbTypes
<1>5. ASSUME NEW r \in Rates, SetRate(r) PROVE TbInv'
  <2>1. /\ tbRate' = r /\ UNCHANGED <<tbTime, capacity, buckets, asking>> /\ r \in Nat
    BY <1>0, <1>5 DEF SetRate
  <2> DEFINE g(b) == [bucket[b] EXCEPT !.rate = r, !.fastest = IF r > bucket[b].fastest THEN r ELSE bucket[b].fastest]
  <2>2. bucket' = [b \in Bucket |-> IF InMap(b) THEN g(b) ELSE bucket[b]] BY <1>5 DEF SetRate
  <2>3. ASSUME NEW b \in Bucket PROVE g(b) \in Buckets /\ Behind(g(b)) /\ g(b).rate = r /\ g(b).capacity = bucket[b].capacity
    <3> DEFINE c == bucket[b]
    <3>1. c \in Buckets /\ Behind(c) BY <1>0 DEF TbTypes, AllBehind
    <3> DEFINE q == IF r > c.fastest THEN r ELSE c.fastest
    <3>2. q \in Nat /\ r <= q BY <2>1, <3>1 DEF Buckets
    <3> HIDE DEF q
    <3> DEFINE h == [c EXCEPT !.rate = r, !.fastest = q]
    <3>3. /\ h \in Buckets /\ h.tokens = c.tokens /\ h.level = c.level /\ h.last = c.last /\ h.seen = c.seen
          /\ h.rate = r /\ h.fastest = q /\ h.capacity = c.capacity
      BY <2>1, <3>1, <3>2 DEF Buckets
    <3>4. g(b) = h BY DEF q
    <3> HIDE DEF h
    <3>5. Behind(h) BY <3>1, <3>2, <3>3 DEF Behind
    <3> QED BY <3>3, <3>4, <3>5
  <2> HIDE DEF g
  <2>4. bucket' \in [Bucket -> Buckets] /\ \A b \in Bucket : Behind(bucket'[b])
    BY <1>0, <2>2, <2>3 DEF TbTypes, AllBehind
  <2>5. MapIsUpToDate'
    <3>1. ASSUME NEW k \in BucketKeys, buckets'[k] # 0
          PROVE  bucket'[buckets'[k]].rate = r /\ bucket'[buckets'[k]].capacity = capacity
      <4>1. buckets'[k] = buckets[k] /\ buckets[k] \in Bucket /\ InMap(buckets[k])
        BY <1>0, <2>1, <3>1 DEF TbTypes, InMap
      <4>2. bucket[buckets[k]].capacity = capacity BY <1>0, <2>1, <3>1 DEF MapIsUpToDate
      <4>3. bucket'[buckets[k]] = g(buckets[k]) BY <2>2, <4>1
      <4> QED BY <2>3, <4>1, <4>2, <4>3
    <3> QED BY <2>1, <3>1 DEF MapIsUpToDate
  <2>6. TbTypes' /\ AllBehind' /\ CallHasBucket'
    BY <1>0, <2>1, <2>4 DEF TbTypes, Calls, AllBehind, Behind, CallHasBucket
  <2> QED BY <2>5, <2>6 DEF TbInv
<1>6. ASSUME NEW m \in Capacities, SetCapacity(m) PROVE TbInv'
  <2>1. /\ capacity' = m /\ UNCHANGED <<tbTime, tbRate, buckets, asking>> /\ m \in Nat
    BY <1>0, <1>6 DEF SetCapacity
  <2> DEFINE g(b) == [bucket[b] EXCEPT !.capacity = m, !.tokens = Least2(bucket[b].tokens, m),
                                       !.level = Least2(bucket[b].level, m * Period)]
  <2>2. bucket' = [b \in Bucket |-> IF InMap(b) THEN g(b) ELSE bucket[b]] BY <1>6 DEF SetCapacity
  <2>3. ASSUME NEW b \in Bucket PROVE g(b) \in Buckets /\ Behind(g(b)) /\ g(b).capacity = m /\ g(b).rate = bucket[b].rate
    <3> DEFINE c == bucket[b]
    <3>1. c \in Buckets /\ Behind(c) BY <1>0 DEF TbTypes, AllBehind
    <3>2. c.tokens \in Nat /\ c.level \in Int /\ c.tokens * Period <= c.level BY <3>1 DEF Buckets, Behind
    <3> DEFINE t == Least2(c.tokens, m)
               l == Least2(c.level, m * Period)
    <3>3. t \in Nat /\ t <= m /\ l \in Int /\ t * Period <= l
      <4> HIDE DEF c
      <4> DEFINE x == c.tokens
                 y == c.level
      <4>1. Period \in Nat /\ x \in Nat /\ y \in Int /\ x * Period <= y BY <1>0, <3>2
      <4>2. t = Least2(x, m) /\ l = Least2(y, m * Period) OBVIOUS
      <4> HIDE DEF x, y, t, l
      <4>3. m \in Nat BY <2>1
      <4>4. /\ Least2(m, x) \in Nat /\ Least2(m, x) <= m
            /\ Least2(m * Period, y) \in Int /\ Least2(m, x) * Period <= Least2(m * Period, y)
        BY ONLY <4>1, <4>3, SmallerStays
      <4>5. Least2(x, m) = Least2(m, x) BY ONLY <4>1, <4>3 DEF Least2
      <4>6. Least2(y, m * Period) = Least2(m * Period, y) BY ONLY <4>1, <4>3 DEF Least2
      <4> QED BY <4>2, <4>4, <4>5, <4>6
    <3> HIDE DEF t, l
    <3> DEFINE h == [c EXCEPT !.capacity = m, !.tokens = t, !.level = l]
    <3>4. /\ h \in Buckets /\ h.tokens = t /\ h.level = l /\ h.last = c.last /\ h.seen = c.seen
          /\ h.rate = c.rate /\ h.fastest = c.fastest /\ h.capacity = m
      BY <2>1, <3>1, <3>3 DEF Buckets
    <3>5. g(b) = h BY DEF t, l
    <3> HIDE DEF h
    <3>6. Behind(h) BY <3>1, <3>3, <3>4 DEF Behind
    <3> QED BY <3>4, <3>5, <3>6
  <2> HIDE DEF g
  <2>4. bucket' \in [Bucket -> Buckets] /\ \A b \in Bucket : Behind(bucket'[b])
    BY <1>0, <2>2, <2>3 DEF TbTypes, AllBehind
  <2>5. MapIsUpToDate'
    <3>1. ASSUME NEW k \in BucketKeys, buckets'[k] # 0
          PROVE  bucket'[buckets'[k]].rate = tbRate /\ bucket'[buckets'[k]].capacity = m
      <4>1. buckets'[k] = buckets[k] /\ buckets[k] \in Bucket /\ InMap(buckets[k])
        BY <1>0, <2>1, <3>1 DEF TbTypes, InMap
      <4>2. bucket[buckets[k]].rate = tbRate BY <1>0, <2>1, <3>1 DEF MapIsUpToDate
      <4>3. bucket'[buckets[k]] = g(buckets[k]) BY <2>2, <4>1
      <4> QED BY <2>3, <4>1, <4>2, <4>3
    <3> QED BY <2>1, <3>1 DEF MapIsUpToDate
  <2>6. TbTypes' /\ AllBehind' /\ CallHasBucket'
    BY <1>0, <2>1, <2>4 DEF TbTypes, Calls, AllBehind, Behind, CallHasBucket
  <2> QED BY <2>5, <2>6 DEF TbInv
<1>7. ASSUME NEW S, ResetKeys(S) PROVE TbInv'
  <2>1. /\ buckets' = [k \in BucketKeys |-> IF k \in S THEN 0 ELSE buckets[k]]
        /\ UNCHANGED <<tbTime, tbRate, capacity, asking>> /\ Kept(bucket)
    BY <1>7 DEF ResetKeys
  <2>2. /\ bucket \in [Bucket -> Buckets] /\ \A b \in Bucket : Behind(bucket[b])
        /\ buckets' \in [BucketKeys -> Bucket \cup {0}] /\ asking' \in [Askings -> Calls]
        /\ \A k \in BucketKeys : buckets'[k] # 0 =>
               bucket[buckets'[k]].rate = tbRate /\ bucket[buckets'[k]].capacity = capacity
    BY <1>0, <2>1 DEF TbTypes, AllBehind, MapIsUpToDate
  <2>3. CallHasBucket' BY <1>0, <2>1 DEF CallHasBucket
  <2> QED BY <1>1, <2>1, <2>2, <2>3
<1>8. CASE TbTick \/ UNCHANGED tbVars
  <2>1. UNCHANGED <<tbRate, capacity, buckets, bucket, asking>> /\ tbTime' \in Nat /\ tbTime <= tbTime'
    BY <1>0, <1>8 DEF TbTick, tbVars, TbTypes
  <2>2. \A b \in Bucket : Behind(bucket[b])' BY <1>0, <2>1 DEF AllBehind, Behind, TbTypes, Buckets
  <2> QED BY <1>0, <2>1, <2>2 DEF TbInv, TbTypes, Calls, AllBehind, MapIsUpToDate, CallHasBucket
<1> QED BY <1>2, <1>3, <1>4, <1>5, <1>6, <1>7, <1>8 DEF TbNext

\* No bucket is ever fuller than its capacity or than an exact one at the
\* greatest rate since its last refill, however calls, changes of the limits
\* and resets interleave, for any rates, capacities and period.
THEOREM BucketsNeverAhead == TbSpec => []NeverAhead
<1>1. TbInit => TbInv
  <2> SUFFICES ASSUME TbInit PROVE TbInv OBVIOUS
  <2>1. /\ tbTime = 0 /\ tbRate \in Nat /\ capacity \in Nat /\ buckets = [k \in BucketKeys |-> 0]
        /\ bucket = [b \in Bucket |-> NoBucket] /\ asking = [a \in Askings |-> AtRest] /\ Period \in Nat
    BY TokenBucketAssumption DEF TbInit
  <2>2. NoBucket \in Buckets /\ AtRest \in Calls BY DEF NoBucket, Buckets, AtRest, Calls
  <2>3. Behind(NoBucket)
    <3>1. 0 * Period <= 0 BY <2>1
    <3> QED BY <2>1, <3>1 DEF NoBucket, Behind
  <2> QED BY <2>1, <2>2, <2>3 DEF TbInv, TbTypes, AllBehind, MapIsUpToDate, CallHasBucket, AtRest
<1>2. TbInv => NeverAhead
  <2> SUFFICES ASSUME TbInv PROVE NeverAhead OBVIOUS
  <2>1. ASSUME NEW b \in Bucket
        PROVE  bucket[b].tokens \in 0..bucket[b].capacity /\ bucket[b].tokens * Period <= bucket[b].level
    BY DEF TbInv, TbTypes, AllBehind, Behind, Buckets
  <2> QED BY <2>1 DEF TbInv, MapIsUpToDate, NeverAhead
<1> QED BY <1>1, <1>2, TbStep, PTL DEF TbSpec

-----------------------------------------------------------------------------
(* The session store: an object has one holder, and changes hands.          *)

VisitLabels == {"away", "pool", "check", "serve", "fill", "store", "served", "renew"}
VisitRecords == [at : VisitLabels, id : Ids \cup {Nobody}, s : Objects \cup {Nobody}, till : Int]
DeleteRecords == [at : {"idle", "reset", "put"}, s : Objects \cup {Nobody}]
CollectRecords == [at : {"idle", "walk", "delete", "reset", "put"}, todo : SUBSET (Ids \cup (Ids \X Objects)),
                   found : SUBSET (Ids \X Objects), now : Int]
SeTypes ==
    /\ situation \in {"requests", "collect", "all"} /\ seNow \in Int
    /\ sessions \in [Ids -> Objects \cup {Nobody}]
    /\ idOf \in [Objects -> Ids \cup {Nobody}] /\ expiresAt \in [Objects -> Int]
    /\ sessionPool \in [Objects -> Nat]
    /\ visit \in [Visitors -> VisitRecords]
    /\ del \in [Deleters -> DeleteRecords]
    /\ gc \in CollectRecords
VisitsHave ==
    \A v \in Visitors : /\ visit[v].at # "away" => visit[v].id \in Ids
                        /\ visit[v].at \in VisitLabels \ {"away", "pool"} => visit[v].s \in Objects
DeletesHave == \A d \in Deleters : (del[d].at = "idle") <=> (del[d].s = Nobody)
\* Deletes and Collect do not meet; Collect has found nothing yet.
OneOfTwo ==
    /\ situation = "requests" => gc.at = "idle"
    /\ situation = "collect" => \A d \in Deleters : del[d].at = "idle"
    /\ gc.at = "idle" => gc.found = {}

\* Collect has deleted the identifier.
Gone(i) == gc.at \in {"reset", "put"} \/ (gc.at = "delete" /\ i \in gc.todo)
\* Who may hand an object on: the map holds those that Collect is to delete.
Holds(k, x, o) ==
    \/ k = "map" /\ x \in Ids /\ (sessions[x] = o \/ (<<x, o>> \in gc.found /\ ~Gone(x)))
    \/ k = "pool" /\ x = Nobody /\ sessionPool[o] > 0
    \/ k = "new" /\ x \in Visitors /\ visit[x].at \in {"fill", "store"} /\ visit[x].s = o
    \/ k = "delete" /\ x \in Deleters /\ del[x].s = o
    \/ k = "collect" /\ x \in Ids /\ <<x, o>> \in gc.found /\ Gone(x)
HeldByOne == \A o \in Objects : \A k, x, l, y : Holds(k, x, o) /\ Holds(l, y, o) => k = l /\ x = y
PoolOnce == \A o \in Objects : sessionPool[o] <= 1
BearsItsName ==
    /\ \A i \in Ids : sessions[i] # Nobody => idOf[sessions[i]] = i
    /\ \A v \in Visitors : visit[v].at = "store" => idOf[visit[v].s] = visit[v].id
SeInv == SeTypes /\ VisitsHave /\ DeletesHave /\ OneOfTwo
         /\ (situation # "all" => HeldByOne /\ PoolOnce /\ BearsItsName)

\* A step that hands one object on, from k, x to l, y, and none else.
Passed(o, k, x, l, y) ==
    /\ Holds(k, x, o)
    /\ \A m, z : Holds(m, z, o)' => (m = l /\ z = y) \/ (Holds(m, z, o) /\ ~(m = k /\ z = x))
Stays(o) == \A m, z : Holds(m, z, o)' => Holds(m, z, o)

LEMMA HandsOn ==
    ASSUME HeldByOne,
           \A o \in Objects : Stays(o) \/ \E k, x, l, y : Passed(o, k, x, l, y)
    PROVE  HeldByOne'
<1> SUFFICES ASSUME NEW o \in Objects, NEW k, NEW x, NEW l, NEW y, Holds(k, x, o)', Holds(l, y, o)'
             PROVE  k = l /\ x = y
  BY DEF HeldByOne
<1>1. CASE Stays(o) BY <1>1 DEF Stays, HeldByOne
<1>2. ASSUME NEW k0, NEW x0, NEW l0, NEW y0, Passed(o, k0, x0, l0, y0) PROVE k = l /\ x = y
  <2>1. \A m, z : Holds(m, z, o) => m = k0 /\ z = x0 BY <1>2 DEF Passed, HeldByOne
  <2>2. \A m, z : Holds(m, z, o)' => m = l0 /\ z = y0 BY <1>2, <2>1 DEF Passed
  <2> QED BY <2>2
<1> QED BY <1>1, <1>2

LEMMA SeStep == SeInv /\ [SeNext]_seVars => SeInv'
<1> SUFFICES ASSUME SeInv, [SeNext]_seVars PROVE SeInv' OBVIOUS
<1>0. /\ SeTypes /\ VisitsHave /\ DeletesHave /\ OneOfTwo /\ (situation # "all" => HeldByOne /\ PoolOnce /\ BearsItsName)
      /\ Life \in Nat \ {0} /\ Nobody \notin Ids /\ Nobody \notin Objects
  BY SessionsAssumption DEF SeInv
\* A step that leaves every object with its holder, or out of the map, and the
\* names as they are.
<1>1. ASSUME SeTypes', VisitsHave', DeletesHave', OneOfTwo', situation' = situation,
             \A o \in Objects : Stays(o),
             \A i \in Ids : sessions'[i] \in {sessions[i], Nobody},
             \A v \in Visitors : visit'[v].at = "store" => visit'[v] = visit[v],
             UNCHANGED <<idOf, sessionPool>>
      PROVE  SeInv'
  <2>1. situation # "all" => HeldByOne' /\ PoolOnce' BY <1>0, <1>1, HandsOn DEF PoolOnce
  <2>2. situation # "all" => BearsItsName' BY <1>0, <1>1 DEF BearsItsName
  <2> QED BY <1>1, <2>1, <2>2 DEF SeInv
<1> USE DEF VisitLabels
<1>f. \A v \in Visitors : visit[v] \in VisitRecords BY <1>0 DEF SeTypes
\* A request that moves on without a word to others.
<1>2. ASSUME NEW v \in Visitors, NEW u \in VisitRecords,
             visit' = [visit EXCEPT ![v] = u], u.at \notin {"fill", "store"},
             u.at # "away" => u.id \in Ids, u.at \in VisitLabels \ {"away", "pool"} => u.s \in Objects,
             UNCHANGED <<situation, seNow, sessions, idOf, sessionPool, del, gc>>,
             expiresAt' \in [Objects -> Int]
      PROVE  SeInv'
  <2>1. visit'[v] = u /\ \A w \in Visitors : w # v => visit'[w] = visit[w] BY <1>0, <1>2 DEF SeTypes
  <2>2. SeTypes' BY <1>0, <1>2 DEF SeTypes
  <2>3. VisitsHave' BY <1>0, <1>2, <2>1 DEF VisitsHave
  <2>4. DeletesHave' /\ OneOfTwo' BY <1>0, <1>2 DEF DeletesHave, OneOfTwo
  <2>5. \A o \in Objects : Stays(o) BY <1>2, <2>1 DEF Stays, Holds, Gone
  <2>6. \A w \in Visitors : visit'[w].at = "store" => visit'[w] = visit[w] BY <1>2, <2>1
  <2> QED BY <1>1, <1>2, <2>2, <2>3, <2>4, <2>5, <2>6
<1>3. ASSUME NEW v \in Visitors, NEW i \in Ids, Arrive(v, i) PROVE SeInv'
  <2> DEFINE load == IF situation = "collect" THEN Nobody ELSE sessions[i]
             u == [at |-> IF load = Nobody THEN "pool" ELSE "check", id |-> i, s |-> load, till |-> 0]
  <2>1. load \in Objects \cup {Nobody} BY <1>0 DEF SeTypes
  <2>2. visit' = [visit EXCEPT ![v] = u]
        /\ UNCHANGED <<situation, seNow, sessions, idOf, expiresAt, sessionPool, del, gc>>
    BY <1>3 DEF Arrive, objectVars
  <2> HIDE DEF load
  <2>3. /\ u \in VisitRecords
        /\ u.at \in {"pool", "check"} /\ u.id \in Ids /\ (u.at = "check" => u.s \in Objects)
    BY <2>1 DEF VisitRecords
  <2> HIDE DEF u
  <2> QED BY <1>0, <1>2, <2>2, <2>3 DEF SeTypes
<1>4. ASSUME NEW v \in Visitors, Check(v) PROVE SeInv'
  <2>1. visit[v].at = "check" /\ visit[v].id \in Ids /\ visit[v].s \in Objects
    BY <1>0, <1>4 DEF Check, VisitsHave
  <2>2. UNCHANGED <<situation, seNow, sessions, idOf, expiresAt, sessionPool, del, gc>> BY <1>4 DEF Check, objectVars
  <2>3. CASE SeExpired(visit[v].s, seNow)
    <3> DEFINE u == [visit[v] EXCEPT !.at = "pool", !.s = Nobody]
    <3>1. visit' = [visit EXCEPT ![v] = u] BY <1>4, <2>3 DEF Check
    <3>2. /\ u \in VisitRecords
          /\ u.at = "pool" /\ u.id \in Ids
      BY <1>0, <1>f, <2>1 DEF SeTypes, VisitRecords
    <3> HIDE DEF u
    <3> QED BY <1>0, <1>2, <2>2, <3>1, <3>2 DEF SeTypes
  <2>4. CASE ~SeExpired(visit[v].s, seNow)
    <3> DEFINE u == [visit[v] EXCEPT !.at = "serve", !.till = expiresAt[visit[v].s]]
    <3>1. visit' = [visit EXCEPT ![v] = u] BY <1>4, <2>4 DEF Check
    <3>2. /\ u \in VisitRecords
          /\ u.at = "serve" /\ u.id \in Ids /\ u.s \in Objects
      BY <1>0, <1>f, <2>1 DEF SeTypes, VisitRecords
    <3> HIDE DEF u
    <3> QED BY <1>0, <1>2, <2>2, <3>1, <3>2 DEF SeTypes
  <2> QED BY <2>3, <2>4
\* From the pool to a New.
<1>5. ASSUME NEW v \in Visitors, NEW p \in Objects, PoolGet(v, p) PROVE SeInv'
  <2> DEFINE u == [visit[v] EXCEPT !.at = "fill", !.s = p]
  <2>1. /\ visit[v].at = "pool" /\ sessionPool[p] > 0 /\ sessionPool' = [sessionPool EXCEPT ![p] = @ - 1]
        /\ visit' = [visit EXCEPT ![v] = u]
        /\ UNCHANGED <<situation, seNow, sessions, idOf, expiresAt, del, gc>>
    BY <1>5 DEF PoolGet, objectVars
  <2>2. sessionPool[p] \in Nat /\ visit[v].id \in Ids BY <1>0, <2>1 DEF SeTypes, VisitsHave
  <2>3. /\ u \in VisitRecords
        /\ u.at = "fill" /\ u.id \in Ids /\ u.s = p
    BY <1>f, <2>2 DEF VisitRecords
  <2> HIDE DEF u
  <2>4. visit'[v] = u /\ \A w \in Visitors : w # v => visit'[w] = visit[w] BY <1>0, <2>1 DEF SeTypes
  <2>5. sessionPool'[p] = sessionPool[p] - 1 /\ \A o \in Objects : o # p => sessionPool'[o] = sessionPool[o]
    BY <1>0, <2>1, <2>2 DEF SeTypes
  <2>6. SeTypes' BY <1>0, <2>1, <2>2, <2>3 DEF SeTypes
  <2>7. VisitsHave' /\ DeletesHave' /\ OneOfTwo'
    BY <1>0, <2>1, <2>3, <2>4 DEF VisitsHave, DeletesHave, OneOfTwo
  <2>8. situation # "all" => Passed(p, "pool", Nobody, "new", v)
    <3>1. situation # "all" => sessionPool'[p] = 0 BY <1>0, <2>1, <2>2, <2>5 DEF PoolOnce
    <3> QED BY <2>1, <2>2, <2>3, <2>4, <3>1 DEF Passed, Holds, Gone
  <2>9. \A o \in Objects : o # p => Stays(o) BY <2>1, <2>3, <2>4, <2>5 DEF Stays, Holds, Gone
  <2>10. situation # "all" => HeldByOne' /\ PoolOnce'
    BY <1>0, <2>2, <2>5, <2>8, <2>9, HandsOn DEF PoolOnce, SeTypes
  <2>11. situation # "all" => BearsItsName' BY <1>0, <2>1, <2>3, <2>4 DEF BearsItsName
  <2> QED BY <2>1, <2>6, <2>7, <2>10, <2>11 DEF SeInv
\* New fills in what nobody else holds.
<1>6. ASSUME NEW v \in Visitors, Fill(v) PROVE SeInv'
  <2> DEFINE p == visit[v].s
             u == [visit[v] EXCEPT !.at = "store", !.till = seNow + Life]
  <2>1. visit[v].at = "fill" /\ p \in Objects /\ visit[v].id \in Ids BY <1>0, <1>6 DEF Fill, VisitsHave
  <2>2. /\ visit' = [visit EXCEPT ![v] = u] /\ idOf' = [idOf EXCEPT ![p] = visit[v].id]
        /\ expiresAt' = [expiresAt EXCEPT ![p] = seNow + Life]
        /\ UNCHANGED <<situation, seNow, sessions, sessionPool, del, gc>>
    BY <1>6 DEF Fill
  <2>3. /\ u \in VisitRecords
        /\ u.at = "store" /\ u.id = visit[v].id /\ u.s = p /\ seNow + Life \in Int
    <3>1. seNow + Life \in Int BY <1>0 DEF SeTypes
    <3> QED BY <1>f, <3>1 DEF VisitRecords
  <2> HIDE DEF u, p
  <2>4. visit'[v] = u /\ \A w \in Visitors : w # v => visit'[w] = visit[w] BY <1>0, <2>2 DEF SeTypes
  <2>5. SeTypes' BY <1>0, <2>1, <2>2, <2>3 DEF SeTypes
  <2>6. VisitsHave' /\ DeletesHave' /\ OneOfTwo'
    BY <1>0, <2>1, <2>2, <2>3, <2>4 DEF VisitsHave, DeletesHave, OneOfTwo
  <2>7. \A o \in Objects : Stays(o) BY <2>1, <2>2, <2>3, <2>4 DEF Stays, Holds, Gone, p
  <2>8. ASSUME situation # "all" PROVE HeldByOne' /\ PoolOnce' /\ BearsItsName'
    <3>1. HeldByOne' /\ PoolOnce' BY <1>0, <2>2, <2>7, <2>8, HandsOn DEF PoolOnce
    <3>2. Holds("new", v, p) BY <2>1 DEF Holds, p
    <3>3. \A i \in Ids : sessions[i] # p
      <4>1. \A i \in Ids : sessions[i] = p => Holds("map", i, p) BY DEF Holds
      <4> QED BY <1>0, <2>1, <2>8, <3>2, <4>1 DEF HeldByOne
    <3>4. \A w \in Visitors : w # v /\ visit[w].at = "store" => visit[w].s # p
      <4>1. \A w \in Visitors : visit[w].at = "store" /\ visit[w].s = p => Holds("new", w, p) BY DEF Holds
      <4> QED BY <1>0, <2>1, <2>8, <3>2, <4>1 DEF HeldByOne
    <3>5. idOf'[p] = visit[v].id /\ \A o \in Objects : o # p => idOf'[o] = idOf[o]
      BY <1>0, <2>1, <2>2 DEF SeTypes
    <3>6. \A i \in Ids : sessions'[i] # Nobody => idOf'[sessions'[i]] = i
      BY <1>0, <2>2, <2>8, <3>3, <3>5 DEF BearsItsName, SeTypes
    <3>7. \A w \in Visitors : visit'[w].at = "store" => idOf'[visit'[w].s] = visit'[w].id
      BY <1>0, <2>3, <2>4, <2>8, <3>4, <3>5 DEF BearsItsName, VisitsHave
    <3> QED BY <3>1, <3>6, <3>7 DEF BearsItsName
  <2> QED BY <2>2, <2>5, <2>6, <2>8 DEF SeInv
\* From the New to the map; what was stored there before, nobody finds again.
<1>7. ASSUME NEW v \in Visitors, StoreNew(v) PROVE SeInv'
  <2>0. PICK p \in Objects, i \in Ids : p = visit[v].s /\ i = visit[v].id
    BY <1>0, <1>7 DEF StoreNew, VGo, VisitsHave
  <2> DEFINE u == [visit[v] EXCEPT !.at = "serve"]
  <2>1. visit[v].at = "store" BY <1>7 DEF StoreNew, VGo
  <2>2. /\ visit' = [visit EXCEPT ![v] = u] /\ sessions' = [sessions EXCEPT ![i] = p]
        /\ UNCHANGED <<situation, seNow, idOf, expiresAt, sessionPool, del, gc>>
    BY <1>7, <2>0 DEF StoreNew, VGo, objectVars
  <2>3. /\ u \in VisitRecords
        /\ u.at = "serve" /\ u.id = i /\ u.s = p
    BY <1>f, <2>0, <2>1 DEF VisitRecords
  <2>a. Holds("new", v, p) BY <2>0, <2>1 DEF Holds
  <2>b. situation # "all" => idOf[p] = i BY <1>0, <2>0, <2>1 DEF BearsItsName
  <2> HIDE DEF u
  <2>4. visit'[v] = u /\ \A w \in Visitors : w # v => visit'[w] = visit[w] BY <1>0, <2>2 DEF SeTypes
  <2>5. sessions'[i] = p /\ \A j \in Ids : j # i => sessions'[j] = sessions[j] BY <1>0, <2>1, <2>2 DEF SeTypes
  <2>6. SeTypes' BY <1>0, <2>1, <2>2, <2>3 DEF SeTypes
  <2>7. VisitsHave' /\ DeletesHave' /\ OneOfTwo'
    BY <1>0, <2>1, <2>2, <2>3, <2>4 DEF VisitsHave, DeletesHave, OneOfTwo
  <2>8. Passed(p, "new", v, "map", i)
    <3> SUFFICES ASSUME NEW m, NEW z, Holds(m, z, p)', ~(m = "map" /\ z = i)
                 PROVE  Holds(m, z, p) /\ ~(m = "new" /\ z = v)
      BY <2>a DEF Passed
    <3>1. CASE m = "map" BY <2>2, <2>5, <3>1 DEF Holds, Gone
    <3>2. CASE m = "new" BY <2>3, <2>4, <3>2 DEF Holds
    <3>3. CASE m \notin {"map", "new"} BY <2>2, <3>3 DEF Holds, Gone
    <3> QED BY <3>1, <3>2, <3>3
  <2>9. \A o \in Objects : o # p => Stays(o) BY <2>2, <2>3, <2>4, <2>5 DEF Stays, Holds, Gone
  <2>10. situation # "all" => HeldByOne' /\ PoolOnce' BY <1>0, <2>2, <2>8, <2>9, HandsOn DEF PoolOnce
  <2>11. situation # "all" => BearsItsName' BY <1>0, <2>b, <2>2, <2>3, <2>4, <2>5 DEF BearsItsName
  <2> QED BY <2>2, <2>6, <2>7, <2>10, <2>11 DEF SeInv
<1>8. ASSUME NEW v \in Visitors, Serve(v) \/ RenewLoad(v) PROVE SeInv'
  <2>1. visit[v].at \in {"serve", "served"} /\ visit[v].id \in Ids /\ visit[v].s \in Objects
    BY <1>0, <1>8 DEF Serve, RenewLoad, VGo, VisitsHave
  <2>2. UNCHANGED <<situation, seNow, sessions, idOf, expiresAt, sessionPool, del, gc>>
    BY <1>8 DEF Serve, RenewLoad, objectVars
  <2>3. CASE Serve(v)
    <3> DEFINE u == [visit[v] EXCEPT !.at = "served"]
    <3>1. visit' = [visit EXCEPT ![v] = u] BY <2>3 DEF Serve, VGo
    <3>2. /\ u \in VisitRecords
          /\ u.at = "served" /\ u.id \in Ids /\ u.s \in Objects
      BY <1>0, <1>f, <2>1 DEF SeTypes, VisitRecords
    <3> HIDE DEF u
    <3> QED BY <1>0, <1>2, <2>2, <3>1, <3>2 DEF SeTypes
  <2>4. CASE RenewLoad(v)
    <3> DEFINE u == [visit[v] EXCEPT !.at = "renew", !.s = sessions[visit[v].id]]
    <3>1. visit' = [visit EXCEPT ![v] = u] /\ sessions[visit[v].id] # Nobody BY <2>4 DEF RenewLoad, Renewable
    <3>2. sessions[visit[v].id] \in Objects BY <1>0, <2>1, <3>1 DEF SeTypes
    <3>3. /\ u \in VisitRecords
          /\ u.at = "renew" /\ u.id \in Ids /\ u.s \in Objects
      BY <1>0, <1>f, <2>1, <3>2 DEF VisitRecords
    <3> HIDE DEF u
    <3> QED BY <1>0, <1>2, <2>2, <3>1, <3>3 DEF SeTypes
  <2> QED BY <1>8, <2>3, <2>4
<1>9. ASSUME NEW v \in Visitors, RenewSet(v) \/ Leave(v) PROVE SeInv'
  <2>1. visit' = [visit EXCEPT ![v] = Away] /\ UNCHANGED <<situation, seNow, sessions, idOf, sessionPool, del, gc>>
    BY <1>9 DEF RenewSet, Leave, objectVars
  <2>2. Away \in VisitRecords /\ Away.at = "away"
    BY DEF Away, VisitRecords
  <2>3. expiresAt' \in [Objects -> Int]
    <3>1. seNow + Life \in Int BY <1>0 DEF SeTypes
    <3>2. CASE RenewSet(v)
      <4>1. expiresAt' = [expiresAt EXCEPT ![visit[v].s] = seNow + Life] BY <3>2 DEF RenewSet
      <4> QED BY <1>0, <3>1, <4>1 DEF SeTypes
    <3>3. CASE Leave(v) BY <1>0, <3>3 DEF Leave, objectVars, SeTypes
    <3> QED BY <1>9, <3>2, <3>3
  <2> QED BY <1>2, <2>1, <2>2, <2>3
\* From the map to a Delete.
<1>10. ASSUME NEW d \in Deleters, NEW i \in Ids, NEW own, DeleteBegins(d, i, own) PROVE SeInv'
  <2>1. /\ del[d].at = "idle" /\ situation # "collect" /\ sessions' = [sessions EXCEPT ![i] = Nobody]
        /\ UNCHANGED <<situation, seNow, idOf, expiresAt, sessionPool, visit, gc>>
    BY <1>10 DEF DeleteBegins, LoadAndDelete, objectVars
  <2>2. sessions'[i] = Nobody /\ \A j \in Ids : j # i => sessions'[j] = sessions[j] BY <1>0, <2>1 DEF SeTypes
  <2>3. CASE sessions[i] = Nobody
    <3>1. del' = del BY <1>10, <2>3 DEF DeleteBegins
    <3>2. SeTypes' BY <1>0, <2>1, <3>1 DEF SeTypes
    <3>3. VisitsHave' /\ DeletesHave' /\ OneOfTwo' BY <1>0, <2>1, <3>1 DEF VisitsHave, DeletesHave, OneOfTwo
    <3>4. \A o \in Objects : Stays(o) BY <1>0, <2>1, <2>2, <3>1 DEF Stays, Holds, Gone
    <3> QED BY <1>1, <2>1, <2>2, <3>2, <3>3, <3>4
  <2>4. CASE sessions[i] # Nobody
    <3>0. PICK p \in Objects : p = sessions[i] BY <1>0, <2>4 DEF SeTypes
    <3> DEFINE u == [at |-> "reset", s |-> p]
    <3>1. del' = [del EXCEPT ![d] = u] BY <1>10, <2>4, <3>0 DEF DeleteBegins
    <3>2. u.at = "reset" /\ u.s = p /\ u \in DeleteRecords BY DEF DeleteRecords
    <3> HIDE DEF u
    <3>3. del'[d] = u /\ \A e \in Deleters : e # d => del'[e] = del[e] BY <1>0, <3>1 DEF SeTypes
    <3>4. SeTypes' BY <1>0, <2>1, <3>1, <3>2 DEF SeTypes
    <3>5. VisitsHave' /\ DeletesHave' /\ OneOfTwo'
      BY <1>0, <2>1, <3>1, <3>2, <3>3 DEF VisitsHave, DeletesHave, OneOfTwo
    <3>6. ASSUME situation # "all" PROVE HeldByOne' /\ PoolOnce' /\ BearsItsName'
      <4>1. gc.found = {} BY <1>0, <2>1, <3>6 DEF OneOfTwo, SeTypes
      <4>2. Holds("map", i, p) BY <3>0 DEF Holds
      <4>3. Passed(p, "map", i, "delete", d)
        <5> SUFFICES ASSUME NEW m, NEW z, Holds(m, z, p)', ~(m = "delete" /\ z = d)
                     PROVE  Holds(m, z, p) /\ ~(m = "map" /\ z = i)
          BY <4>2 DEF Passed
        <5>1. CASE m = "map" BY <1>0, <2>1, <2>2, <4>1, <5>1 DEF Holds, Gone
        <5>2. CASE m = "delete" BY <3>3, <5>2 DEF Holds
        <5>3. CASE m \notin {"map", "delete"} BY <2>1, <4>1, <5>3 DEF Holds, Gone
        <5> QED BY <5>1, <5>2, <5>3
      <4>4. \A o \in Objects : o # p => Stays(o)
        BY <1>0, <2>1, <2>2, <3>2, <3>3, <4>1 DEF Stays, Holds, Gone
      <4>5. HeldByOne' /\ PoolOnce' BY <1>0, <2>1, <3>6, <4>3, <4>4, HandsOn DEF PoolOnce
      <4>6. BearsItsName' BY <1>0, <2>1, <2>2, <3>6 DEF BearsItsName
      <4> QED BY <4>5, <4>6
    <3> QED BY <2>1, <3>4, <3>5, <3>6 DEF SeInv
  <2> QED BY <2>3, <2>4
<1>11. ASSUME NEW d \in Deleters, DeleteResets(d) PROVE SeInv'
  <2> DEFINE p == del[d].s
             u == [del[d] EXCEPT !.at = "put"]
  <2>1. del[d].at = "reset" /\ p \in Objects BY <1>0, <1>11 DEF DeleteResets, DeletesHave, SeTypes, DeleteRecords
  <2>2. /\ idOf' = [idOf EXCEPT ![p] = Nobody] /\ expiresAt' = [expiresAt EXCEPT ![p] = NoExpiry]
        /\ del' = [del EXCEPT ![d] = u]
        /\ UNCHANGED <<situation, seNow, sessions, sessionPool, visit, gc>>
    BY <1>11 DEF DeleteResets, Reset
  <2>3. u.at = "put" /\ u.s = p /\ u \in DeleteRecords
    BY <1>0, <2>1 DEF SeTypes, DeleteRecords
  <2>a. Holds("delete", d, p) BY DEF Holds
  <2> HIDE DEF u
  <2>4. del'[d] = u /\ \A e \in Deleters : e # d => del'[e] = del[e] BY <1>0, <2>2 DEF SeTypes
  <2>5. SeTypes' BY <1>0, <2>1, <2>2, <2>3 DEF SeTypes, NoExpiry
  <2>6. VisitsHave' /\ DeletesHave' /\ OneOfTwo'
    BY <1>0, <2>1, <2>2, <2>3, <2>4 DEF VisitsHave, DeletesHave, OneOfTwo
  <2>7. \A o \in Objects : Stays(o) BY <2>2, <2>3, <2>4 DEF Stays, Holds, Gone
  <2>8. \A o \in Objects : o # p => idOf'[o] = idOf[o] BY <1>0, <2>2 DEF SeTypes
  <2> HIDE DEF p
  <2>9. ASSUME situation # "all" PROVE HeldByOne' /\ PoolOnce' /\ BearsItsName'
    <3>1. HeldByOne' /\ PoolOnce' BY <1>0, <2>2, <2>7, <2>9, HandsOn DEF PoolOnce
    <3>2. \A i \in Ids : sessions[i] # p
      <4>1. \A i \in Ids : sessions[i] = p => Holds("map", i, p) BY DEF Holds
      <4> QED BY <1>0, <2>1, <2>9, <2>a, <4>1 DEF HeldByOne
    <3>3. \A w \in Visitors : visit[w].at = "store" => visit[w].s # p
      <4>1. \A w \in Visitors : visit[w].at = "store" /\ visit[w].s = p => Holds("new", w, p) BY DEF Holds
      <4> QED BY <1>0, <2>1, <2>9, <2>a, <4>1 DEF HeldByOne
    <3>4. BearsItsName' BY <1>0, <2>2, <2>8, <2>9, <3>2, <3>3 DEF BearsItsName, SeTypes, VisitsHave
    <3> QED BY <3>1, <3>4
  <2> QED BY <2>2, <2>5, <2>6, <2>9 DEF SeInv
\* From the Delete to the pool.
<1>12. ASSUME NEW d \in Deleters, DeletePuts(d) PROVE SeInv'
  <2>0. PICK p \in Objects : p = del[d].s BY <1>0, <1>12 DEF DeletePuts, DeletesHave, SeTypes, DeleteRecords
  <2> DEFINE u == [at |-> "idle", s |-> Nobody]
  <2>1. del[d].at = "put" BY <1>12 DEF DeletePuts
  <2>2. /\ sessionPool' = [sessionPool EXCEPT ![p] = @ + 1] /\ del' = [del EXCEPT ![d] = u]
        /\ UNCHANGED <<situation, seNow, sessions, idOf, expiresAt, visit, gc>>
    BY <1>12, <2>0 DEF DeletePuts
  <2>3. u.at = "idle" /\ u.s = Nobody /\ u \in DeleteRecords
    BY DEF DeleteRecords
  <2>a. Holds("delete", d, p) BY <2>0 DEF Holds
  <2> HIDE DEF u
  <2>4. del'[d] = u /\ \A e \in Deleters : e # d => del'[e] = del[e] BY <1>0, <2>2 DEF SeTypes
  <2>5. /\ sessionPool[p] \in Nat /\ sessionPool'[p] = sessionPool[p] + 1
        /\ \A o \in Objects : o # p => sessionPool'[o] = sessionPool[o]
    BY <1>0, <2>1, <2>2 DEF SeTypes
  <2>6. SeTypes' BY <1>0, <2>1, <2>2, <2>3, <2>5 DEF SeTypes
  <2>7. VisitsHave' /\ DeletesHave' /\ OneOfTwo'
    BY <1>0, <2>2, <2>3, <2>4 DEF VisitsHave, DeletesHave, OneOfTwo
  <2>8. ASSUME situation # "all" PROVE HeldByOne' /\ PoolOnce' /\ BearsItsName'
    <3>1. ~Holds("pool", Nobody, p) BY <1>0, <2>1, <2>8, <2>a DEF HeldByOne
    <3>2. sessionPool[p] = 0 BY <2>5, <3>1 DEF Holds
    <3>3. Passed(p, "delete", d, "pool", Nobody)
      <4> SUFFICES ASSUME NEW m, NEW z, Holds(m, z, p)', ~(m = "pool" /\ z = Nobody)
                   PROVE  Holds(m, z, p) /\ ~(m = "delete" /\ z = d)
        BY <2>a DEF Passed
      <4>1. CASE m = "pool" BY <4>1 DEF Holds
      <4>2. CASE m = "delete" BY <1>0, <2>1, <2>3, <2>4, <4>2 DEF Holds
      <4>3. CASE m \notin {"pool", "delete"} BY <2>2, <4>3 DEF Holds, Gone
      <4> QED BY <4>1, <4>2, <4>3
    <3>4. \A o \in Objects : o # p => Stays(o) BY <1>0, <2>2, <2>3, <2>4, <2>5 DEF Stays, Holds, Gone
    <3>5. HeldByOne' BY <1>0, <2>8, <3>3, <3>4, HandsOn
    <3>6. PoolOnce' BY <1>0, <2>5, <2>8, <3>2 DEF PoolOnce
    <3>7. BearsItsName' BY <1>0, <2>2, <2>8 DEF BearsItsName
    <3> QED BY <3>5, <3>6, <3>7
  <2> QED BY <2>2, <2>6, <2>7, <2>8 DEF SeInv
\* A step of Collect that only looks.
<1>13. ASSUME NEW u \in CollectRecords,
              gc' = u, situation # "requests" \/ u.at = "idle", u.at = "idle" => u.found = {},
              \A o \in Objects, x \in Ids :
                 /\ <<x, o>> \in u.found /\ ~(u.at \in {"reset", "put"} \/ (u.at = "delete" /\ x \in u.todo))
                    => Holds("map", x, o)
                 /\ <<x, o>> \in u.found /\ (u.at \in {"reset", "put"} \/ (u.at = "delete" /\ x \in u.todo))
                    => Holds("collect", x, o),
              UNCHANGED <<situation, seNow, sessions, idOf, expiresAt, sessionPool, visit, del>>
       PROVE  SeInv'
  <2>1. SeTypes' BY <1>0, <1>13 DEF SeTypes
  <2>2. VisitsHave' /\ DeletesHave' BY <1>0, <1>13 DEF VisitsHave, DeletesHave
  <2>3. OneOfTwo' BY <1>0, <1>13 DEF OneOfTwo
  <2>4. \A o \in Objects : Stays(o)
    <3> SUFFICES ASSUME NEW o \in Objects, NEW m, NEW z, Holds(m, z, o)' PROVE Holds(m, z, o)
      BY DEF Stays
    <3>1. CASE m \notin {"map", "collect"} BY <1>13, <3>1 DEF Holds
    <3>2. CASE m = "map" BY <1>13, <3>2 DEF Holds, Gone
    <3>3. CASE m = "collect" BY <1>13, <3>3 DEF Holds, Gone
    <3> QED BY <3>1, <3>2, <3>3
  <2> QED BY <1>1, <1>13, <2>1, <2>2, <2>3, <2>4
<1>14. CASE CollectBegins
  <2> DEFINE u == [at |-> "walk", todo |-> Ids, found |-> {}, now |-> seNow]
  <2>1. u \in CollectRecords
    BY <1>0 DEF SeTypes, CollectRecords
  <2>2. gc' = u /\ situation # "requests" /\ u.found = {}
        /\ UNCHANGED <<situation, seNow, sessions, idOf, expiresAt, sessionPool, visit, del>>
    BY <1>14 DEF CollectBegins, objectVars
  <2>3. u.at = "walk" OBVIOUS
  <2> HIDE DEF u
  <2> QED BY <1>13, <2>1, <2>2, <2>3
<1>15. ASSUME NEW i \in Ids, CollectVisits(i) PROVE SeInv'
  <2> DEFINE o == sessions[i]
             hit == IF o # Nobody /\ SeExpired(o, gc.now) THEN {<<i, o>>} ELSE {}
             u == [gc EXCEPT !.todo = @ \ {i}, !.found = @ \cup hit,
                             !.at = IF gc.todo = {i} THEN "delete" ELSE "walk"]
  <2>1. gc' = u /\ gc.at = "walk" /\ UNCHANGED <<situation, seNow, sessions, idOf, expiresAt, sessionPool, visit, del>>
    BY <1>15 DEF CollectVisits, objectVars
  <2>2. hit \subseteq (Ids \X Objects) BY <1>0 DEF SeTypes
  <2>3. \A x \in Ids, p \in Objects : <<x, p>> \in hit => sessions[x] = p OBVIOUS
  <2> HIDE DEF hit
  <2>4. /\ u \in CollectRecords
        /\ u.found = gc.found \cup hit /\ u.todo = gc.todo \ {i} /\ u.at \in {"walk", "delete"}
        /\ u.at = "delete" => u.todo = {}
    BY <1>0, <2>1, <2>2 DEF SeTypes, CollectRecords
  <2> HIDE DEF u
  <2>5. situation # "requests" BY <1>0, <2>1 DEF OneOfTwo
  <2>6. \A p \in Objects, x \in Ids : <<x, p>> \in u.found => Holds("map", x, p)
    BY <2>1, <2>3, <2>4 DEF Holds, Gone
  <2> QED BY <1>13, <2>1, <2>4, <2>5, <2>6
\* From the map to Collect; what is stored there since, nobody finds again.
<1>16. ASSUME NEW i \in Ids, CollectDeletes(i) PROVE SeInv'
  <2> DEFINE u == [gc EXCEPT !.todo = @ \cup {i}]
  <2>1. /\ gc.at = "delete" /\ gc' = u /\ sessions' = [sessions EXCEPT ![i] = Nobody] /\ i \notin gc.todo
        /\ UNCHANGED <<situation, seNow, idOf, expiresAt, sessionPool, visit, del>>
    BY <1>16 DEF CollectDeletes, objectVars
  <2>2. /\ u \in CollectRecords
        /\ u.at = "delete" /\ u.found = gc.found /\ u.todo = gc.todo \cup {i}
    BY <1>0, <2>1 DEF SeTypes, CollectRecords
  <2> HIDE DEF u
  <2>3. sessions'[i] = Nobody /\ \A j \in Ids : j # i => sessions'[j] = sessions[j] BY <1>0, <2>1 DEF SeTypes
  <2>4. SeTypes' BY <1>0, <2>1, <2>2 DEF SeTypes
  <2>5. VisitsHave' /\ DeletesHave' /\ OneOfTwo'
    BY <1>0, <2>1, <2>2 DEF VisitsHave, DeletesHave, OneOfTwo
  <2>6. \A o \in Objects : <<i, o>> \in gc.found => Passed(o, "map", i, "collect", i)
    BY <1>0, <2>1, <2>2, <2>3 DEF Passed, Holds, Gone
  <2>7. \A o \in Objects : <<i, o>> \notin gc.found => Stays(o)
    BY <1>0, <2>1, <2>2, <2>3 DEF Stays, Holds, Gone
  <2>8. situation # "all" => HeldByOne' /\ PoolOnce' BY <1>0, <2>1, <2>6, <2>7, HandsOn DEF PoolOnce
  <2>9. situation # "all" => BearsItsName' BY <1>0, <2>1, <2>3 DEF BearsItsName
  <2> QED BY <2>1, <2>4, <2>5, <2>8, <2>9 DEF SeInv
<1>17. CASE CollectDeleted
  <2> DEFINE u == [gc EXCEPT !.at = "reset", !.todo = {}]
  <2>1. /\ gc.at = "delete" /\ gc' = u /\ gc.todo = {f[1] : f \in gc.found}
        /\ UNCHANGED <<situation, seNow, sessions, idOf, expiresAt, sessionPool, visit, del>>
    BY <1>17 DEF CollectDeleted, objectVars
  <2>2. /\ u \in CollectRecords
        /\ u.at = "reset" /\ u.found = gc.found
    BY <1>0, <2>1 DEF SeTypes, CollectRecords
  <2>3. \A x \in Ids, o \in Objects : <<x, o>> \in gc.found => x \in gc.todo BY <2>1
  <2>4. situation # "requests" BY <1>0, <2>1 DEF OneOfTwo
  <2> HIDE DEF u
  <2>5. \A o \in Objects, x \in Ids : <<x, o>> \in u.found => Holds("collect", x, o)
    BY <2>1, <2>2, <2>3 DEF Holds, Gone
  <2> QED BY <1>13, <2>1, <2>2, <2>4, <2>5
\* Collect resets what nobody else holds.
<1>18. ASSUME NEW f \in gc.found, CollectResets(f) PROVE SeInv'
  <2> DEFINE u == [gc EXCEPT !.at = "put", !.todo = {f}]
  <2>0. PICK i \in Ids, p \in Objects : f = <<i, p>> BY <1>0 DEF SeTypes, CollectRecords
  <2>1. /\ gc.at = "reset" /\ gc' = u /\ idOf' = [idOf EXCEPT ![p] = Nobody]
        /\ expiresAt' = [expiresAt EXCEPT ![p] = NoExpiry]
        /\ UNCHANGED <<situation, seNow, sessions, sessionPool, visit, del>>
    BY <1>18, <2>0 DEF CollectResets, Reset
  <2>2. /\ u \in CollectRecords
        /\ u.at = "put" /\ u.found = gc.found
    BY <1>0, <2>1, <2>0 DEF SeTypes, CollectRecords
  <2> HIDE DEF u
  <2>3. SeTypes' BY <1>0, <2>1, <2>2 DEF SeTypes, NoExpiry
  <2>4. VisitsHave' /\ DeletesHave' /\ OneOfTwo'
    BY <1>0, <2>1, <2>2 DEF VisitsHave, DeletesHave, OneOfTwo
  <2>5. \A o \in Objects : Stays(o) BY <2>1, <2>2 DEF Stays, Holds, Gone
  <2>6. \A o \in Objects : o # p => idOf'[o] = idOf[o] BY <1>0, <2>1 DEF SeTypes
  <2>7. Holds("collect", i, p) BY <2>0, <2>1 DEF Holds, Gone
  <2>8. ASSUME situation # "all" PROVE HeldByOne' /\ PoolOnce' /\ BearsItsName'
    <3>1. HeldByOne' /\ PoolOnce' BY <1>0, <2>1, <2>5, <2>8, HandsOn DEF PoolOnce
    <3>2. \A j \in Ids : sessions[j] # p
      <4>1. \A j \in Ids : sessions[j] = p => Holds("map", j, p) BY DEF Holds
      <4> QED BY <1>0, <2>7, <2>8, <4>1 DEF HeldByOne
    <3>3. \A w \in Visitors : visit[w].at = "store" => visit[w].s # p
      <4>1. \A w \in Visitors : visit[w].at = "store" /\ visit[w].s = p => Holds("new", w, p) BY DEF Holds
      <4> QED BY <1>0, <2>7, <2>8, <4>1 DEF HeldByOne
    <3>4. BearsItsName' BY <1>0, <2>1, <2>6, <2>8, <3>2, <3>3 DEF BearsItsName, SeTypes, VisitsHave
    <3> QED BY <3>1, <3>4
  <2> QED BY <2>1, <2>3, <2>4, <2>8 DEF SeInv
\* From Collect to the pool.
<1>19. ASSUME NEW f \in gc.found, CollectPuts(f) PROVE SeInv'
  <2> DEFINE u == [gc EXCEPT !.at = "reset", !.todo = {}, !.found = @ \ {f}]
  <2>0. PICK i \in Ids, p \in Objects : f = <<i, p>> BY <1>0 DEF SeTypes, CollectRecords
  <2>1. /\ gc.at = "put" /\ gc' = u /\ sessionPool' = [sessionPool EXCEPT ![p] = @ + 1]
        /\ UNCHANGED <<situation, seNow, sessions, idOf, expiresAt, visit, del>>
    BY <1>19, <2>0 DEF CollectPuts
  <2>2. /\ u \in CollectRecords
        /\ u.at = "reset" /\ u.found = gc.found \ {f}
    BY <1>0, <2>1 DEF SeTypes, CollectRecords
  <2> HIDE DEF u
  <2>3. /\ sessionPool[p] \in Nat /\ sessionPool'[p] = sessionPool[p] + 1
        /\ \A o \in Objects : o # p => sessionPool'[o] = sessionPool[o]
    BY <1>0, <2>1 DEF SeTypes
  <2>4. SeTypes' BY <1>0, <2>1, <2>2, <2>3 DEF SeTypes
  <2>5. VisitsHave' /\ DeletesHave' /\ OneOfTwo'
    BY <1>0, <2>1, <2>2 DEF VisitsHave, DeletesHave, OneOfTwo
  <2>6. Holds("collect", i, p) BY <2>0, <2>1 DEF Holds, Gone
  <2>7. ASSUME situation # "all" PROVE HeldByOne' /\ PoolOnce' /\ BearsItsName'
    <3>1. ~Holds("pool", Nobody, p) BY <1>0, <2>6, <2>7 DEF HeldByOne
    <3>2. sessionPool[p] = 0 BY <2>3, <3>1 DEF Holds
    <3>3. Passed(p, "collect", i, "pool", Nobody)
      BY <1>0, <2>0, <2>1, <2>2, <2>6 DEF Passed, Holds, Gone
    <3>4. \A o \in Objects : o # p => Stays(o) BY <1>0, <2>1, <2>2, <2>3 DEF Stays, Holds, Gone
    <3>5. HeldByOne' BY <1>0, <2>7, <3>3, <3>4, HandsOn
    <3>6. PoolOnce' BY <1>0, <2>3, <2>7, <3>2 DEF PoolOnce
    <3>7. BearsItsName' BY <1>0, <2>1, <2>7 DEF BearsItsName
    <3> QED BY <3>5, <3>6, <3>7
  <2> QED BY <2>1, <2>4, <2>5, <2>7 DEF SeInv
<1>20. CASE CollectOver
  <2>1. /\ gc' = Resting /\ UNCHANGED <<situation, seNow, sessions, idOf, expiresAt, sessionPool, visit, del>>
    BY <1>20 DEF CollectOver, objectVars
  <2>2. /\ Resting \in CollectRecords
        /\ Resting.at = "idle" /\ Resting.found = {}
    BY DEF Resting, CollectRecords
  <2> QED BY <1>13, <2>1, <2>2
<1>21. CASE SeTick \/ UNCHANGED seVars
  <2>1. UNCHANGED <<situation, sessions, idOf, expiresAt, sessionPool, visit, del, gc>> /\ seNow' \in Int
    BY <1>0, <1>21 DEF SeTick, seVars, objectVars, SeTypes
  <2>2. SeTypes' BY <1>0, <2>1 DEF SeTypes
  <2>3. VisitsHave' /\ DeletesHave' /\ OneOfTwo' BY <1>0, <2>1 DEF VisitsHave, DeletesHave, OneOfTwo
  <2>4. \A o \in Objects : Stays(o) BY <2>1 DEF Stays, Holds, Gone
  <2> QED BY <1>1, <2>1, <2>2, <2>3, <2>4
<1> QED BY <1>3, <1>4, <1>5, <1>6, <1>7, <1>8, <1>9, <1>10, <1>11, <1>12, <1>14, <1>15, <1>16, <1>17,
           <1>18, <1>19, <1>20, <1>21
    DEF SeNext, Visiting, Deleting, Collecting

\* Unless Collect overlaps a Delete, a session object is never in two places,
\* so that no two calls of New get the same one, and what the map leads to bears
\* its identifier: for any visitors, deletes, identifiers, objects and lives.
THEOREM SessionsHaveOneHolder == SeSpec => []OneHolder
<1>1. SeInit => SeInv
  <2> SUFFICES ASSUME SeInit PROVE SeInv OBVIOUS
  <2>0. Nobody \notin Objects /\ Nobody \notin Ids /\ Situations \subseteq {"requests", "collect", "all"}
    BY SessionsAssumption
  <2>1. SeTypes BY <2>0 DEF SeInit, SeTypes, Away, Resting, NoExpiry, VisitLabels, VisitRecords, DeleteRecords, CollectRecords
  <2>2. /\ \A v \in Visitors : visit[v].at = "away"
        /\ \A d \in Deleters : del[d].at = "idle" /\ del[d].s = Nobody
        /\ \A i \in Ids : sessions[i] = Nobody
        /\ \A o \in Objects : sessionPool[o] = 1
        /\ gc.at = "idle" /\ gc.found = {}
    BY DEF SeInit, Away, Resting
  <2>3. \A o \in Objects : \A k, x : Holds(k, x, o) => k = "pool" /\ x = Nobody
    <3> SUFFICES ASSUME NEW o \in Objects, NEW k, NEW x, Holds(k, x, o), k # "pool" PROVE FALSE
      BY DEF Holds
    <3>1. CASE k = "map" BY <2>0, <2>2, <3>1 DEF Holds
    <3>2. CASE k = "new" BY <2>2, <3>2 DEF Holds
    <3>3. CASE k = "delete" BY <2>0, <2>2, <3>3 DEF Holds
    <3>4. CASE k = "collect" BY <2>2, <3>4 DEF Holds
    <3> QED BY <3>1, <3>2, <3>3, <3>4 DEF Holds
  <2>4. HeldByOne BY <2>3 DEF HeldByOne
  <2>5. VisitsHave /\ DeletesHave BY <2>2 DEF VisitsHave, DeletesHave
  <2>6. OneOfTwo /\ PoolOnce /\ BearsItsName BY <2>2 DEF OneOfTwo, PoolOnce, BearsItsName
  <2> QED BY <2>1, <2>4, <2>5, <2>6 DEF SeInv
<1>2. SeInv => OneHolder
  <2> SUFFICES ASSUME SeInv, situation # "all"
               PROVE  /\ \A o \in Objects : HoldersOf(o) <= 1
                      /\ \A i \in Ids : sessions[i] # Nobody => idOf[sessions[i]] = i
    BY DEF OneHolder
  <2>1. \A o \in Objects : HoldersOf(o) <= 1
    <3> SUFFICES ASSUME NEW o \in Objects PROVE HoldersOf(o) <= 1 OBVIOUS
    <3> DEFINE M == {i \in Ids : sessions[i] = o}
               W == {v \in Visitors : visit[v].at \in {"fill", "store"} /\ visit[v].s = o}
               E == {d \in Deleters : del[d].s = o}
               n == sessionPool[o]
    <3>1. /\ \A k, x, l, y : Holds(k, x, o) /\ Holds(l, y, o) => k = l /\ x = y
          /\ n \in Nat /\ n <= 1
      BY DEF SeInv, HeldByOne, PoolOnce, SeTypes
    <3>2. /\ \A x \in M : Holds("map", x, o)
          /\ \A x \in W : Holds("new", x, o)
          /\ \A x \in E : Holds("delete", x, o)
          /\ n > 0 => Holds("pool", Nobody, o)
      BY DEF Holds
    <3>3. /\ M = {} \/ \E x : M = {x} /\ W = {} /\ E = {} /\ ~(n > 0)
          /\ W = {} \/ \E x : W = {x} /\ M = {} /\ E = {} /\ ~(n > 0)
          /\ E = {} \/ \E x : E = {x} /\ M = {} /\ W = {} /\ ~(n > 0)
      <4> HIDE DEF M, W, E, n
      <4>1. ASSUME M # {} PROVE \E x : M = {x} /\ W = {} /\ E = {} /\ ~(n > 0)
        <5>1. PICK x \in M : TRUE BY <4>1
        <5>2. M = {x} BY <3>1, <3>2, <5>1
        <5> QED BY <3>1, <3>2, <5>1, <5>2
      <4>2. ASSUME W # {} PROVE \E x : W = {x} /\ M = {} /\ E = {} /\ ~(n > 0)
        <5>1. PICK x \in W : TRUE BY <4>2
        <5>2. W = {x} BY <3>1, <3>2, <5>1
        <5> QED BY <3>1, <3>2, <5>1, <5>2
      <4>3. ASSUME E # {} PROVE \E x : E = {x} /\ M = {} /\ W = {} /\ ~(n > 0)
        <5>1. PICK x \in E : TRUE BY <4>3
        <5>2. E = {x} BY <3>1, <3>2, <5>1
        <5> QED BY <3>1, <3>2, <5>1, <5>2
      <4> QED BY <4>1, <4>2, <4>3
    <3>4. HoldersOf(o) = Cardinality(M) + n + Cardinality(W) + Cardinality(E) BY DEF HoldersOf
    <3> HIDE DEF M, W, E, n
    <3>5. Cardinality({}) = 0 /\ \A x : Cardinality({x}) = 1 BY FS_EmptySet, FS_Singleton
    <3>6. CASE M # {}
      <4>1. PICK x \in M : M = {x} BY <3>3, <3>6
      <4>2. Cardinality(M) = 1 BY <3>5, <4>1
      <4>3. ~(n > 0) BY <3>3, <3>6
      <4>4. n = 0 BY <3>1, <4>3
      <4> QED BY <3>3, <3>4, <3>5, <3>6, <4>2, <4>4
    <3>7. CASE W # {}
      <4>1. PICK x \in W : W = {x} BY <3>3, <3>7
      <4>2. Cardinality(W) = 1 BY <3>5, <4>1
      <4>3. ~(n > 0) BY <3>3, <3>7
      <4>4. n = 0 BY <3>1, <4>3
      <4> QED BY <3>3, <3>4, <3>5, <3>7, <4>2, <4>4
    <3>8. CASE E # {}
      <4>1. PICK x \in E : E = {x} BY <3>3, <3>8
      <4>2. Cardinality(E) = 1 BY <3>5, <4>1
      <4>3. ~(n > 0) BY <3>3, <3>8
      <4>4. n = 0 BY <3>1, <4>3
      <4> QED BY <3>3, <3>4, <3>5, <3>8, <4>2, <4>4
    <3>9. CASE M = {} /\ W = {} /\ E = {} BY <3>1, <3>4, <3>5, <3>9
    <3> QED BY <3>6, <3>7, <3>8, <3>9
  <2> QED BY <2>1 DEF SeInv, BearsItsName
<1> QED BY <1>1, <1>2, SeStep, PTL DEF SeSpec

-----------------------------------------------------------------------------
(* The stream of events: what is heard, read, on the wire and yet to be    *)
(* sent comes in that order, and while all is calm nothing is missing.     *)

SsEvents == [id : Nat, data : Nat \cup {-1}]
SsLines == [is : {"ping", "blank", "id", "data"}, of : Nat]
SsServers ==
    [events : Seq(Nat), stopping : BOOLEAN, canceled : BOOLEAN, gone : BOOLEAN, next : Nat,
     sender : {"none", "send", "select", "refused"}, push : {"none", "loop", "over"}]
SsEngines ==
    [at : {"answered", "stream", "emit", "retry", "wait", "over"}, answer : {"stream", "other", "nothing", "error"},
     cur : [id : Nat, data : Nat], isPing : BOOLEAN, lastID : Nat, retryNum : Int]
SsTypes ==
    /\ server \in SsServers /\ wire \in Seq(SsLines) /\ wireEnd \in {"open", "eof", "cut"}
    /\ engine \in SsEngines
    /\ emits \in [ev : [id : Nat, data : Nat], then : {"none", "shut", "reset", "append"}, data : Nat]
    /\ streamDone \in BOOLEAN /\ calm \in BOOLEAN
    /\ listener \in {"first", "loop", "fn", "over"}
    /\ heard \in Seq(SsEvents)
    /\ asked \in [dials : Nat, cuts : Nat, pings : Nat]

\* What the server has yet to send, whoever reads it.
Waits ==
    /\ server.next <= LastEvent + 1
    /\ server.sender = "select" => server.next <= LastEvent
    /\ engine.lastID <= LastEvent
\* The engine reads what is on the wire, or is going to.
Reads ==
    \/ engine.at = "stream" \/ (engine.at = "emit" /\ emits.then # "shut")
    \/ engine.at = "answered" /\ engine.answer = "stream" /\ ~ streamDone
\* What was read is in order, and behind the last identifier.
HeardInOrder ==
    /\ \A i, j \in 1..Len(heard) :
          i < j /\ heard[i].data > 0 /\ heard[j].data > 0 => heard[i].data < heard[j].data
    /\ \A i \in 1..Len(heard) : heard[i].data <= engine.lastID
    /\ engine.cur.data > 0 => \A i \in 1..Len(heard) : heard[i].data < engine.cur.data
    /\ engine.cur.data <= engine.lastID
Emits ==
    engine.at = "emit" =>
        /\ emits.then \in {"shut", "reset", "append"}
        /\ emits.then = "shut" => emits.ev = EmptyEvent
        /\ emits.then \in {"reset", "append"} => emits.ev = engine.cur
        /\ emits.then = "append" => 0 < engine.cur.data /\ engine.cur.data < emits.data /\ emits.data <= engine.lastID
        /\ emits.then # "shut" /\ wire # <<>> => wire[1].is # "data"
\* What comes follows it.
Comes ==
    Reads =>
        /\ engine.lastID < server.next
        /\ \A i \in 1..Len(server.events) : server.events[i] = 0 \/ (engine.lastID < server.events[i] /\ server.events[i] < server.next)
        /\ Len(server.events) <= 1
        /\ \A i \in 1..Len(wire) : wire[i].is = "id" =>
              /\ engine.lastID < wire[i].of /\ wire[i].of < server.next
              /\ \A j \in 1..Len(server.events) : server.events[j] = 0 \/ wire[i].of < server.events[j]
        /\ \A i, j \in 1..Len(wire) : i < j /\ wire[i].is = "id" /\ wire[j].is = "id" => wire[i].of < wire[j].of
        /\ \A i \in 2..Len(wire) : wire[i].is = "data" => wire[i - 1] = Line("id", wire[i].of)
        /\ wire # <<>> /\ wire[1].is = "data" =>
              /\ wire[1].of = engine.lastID /\ engine.cur.data < engine.lastID
              /\ \A i \in 1..Len(heard) : heard[i].data < engine.lastID

\* The n-th line of the stream in which nothing is missing.
IsNth(line, n) ==
    \E e \in Nat :
        \/ n = 3 * e + 1 /\ line = Line("id", e + 1)
        \/ n = 3 * e + 2 /\ line = Line("data", e + 1)
        \/ n = 3 * e + 3 /\ line = Line("blank", 0)
\* The number of its lines that were read.
LinesRead ==
    3 * Len(heard) +
      IF engine.at = "emit" THEN 3
      ELSE IF engine.cur = EmptyEvent THEN 0 ELSE IF engine.cur.data = 0 THEN 1 ELSE 2
NothingMissing ==
    calm =>
        /\ \A i \in 1..Len(heard) : heard[i].data > 0 => heard[i] = [id |-> i, data |-> i]
        /\ engine.at # "over" => \A i \in 1..Len(heard) : heard[i] = [id |-> i, data |-> i]
        /\ ~ engine.isPing
        /\ Reads =>
            /\ wireEnd # "cut" /\ (wireEnd = "eof" => server.push = "over")
            /\ \A i \in 1..Len(wire) : IsNth(wire[i], LinesRead + i)
            /\ \A i \in 1..Len(server.events) : server.events[i] = server.next - 1 /\ server.next > 1
            /\ \E k \in Nat :
                  /\ LinesRead + Len(wire) = 3 * k
                  /\ (wireEnd = "open" => k = server.next - 1 - Len(server.events))
            /\ IF engine.at = "emit"
               THEN engine.cur = [id |-> Len(heard) + 1, data |-> Len(heard) + 1] /\ emits.then = "reset"
               ELSE engine.cur \in {EmptyEvent, [id |-> Len(heard) + 1, data |-> 0],
                                    [id |-> Len(heard) + 1, data |-> Len(heard) + 1]}
            /\ engine.lastID = Len(heard) + IF engine.cur = EmptyEvent THEN 0 ELSE 1
        /\ engine.at \in {"retry", "wait", "answered"} /\ ~ streamDone =>
              engine.cur = EmptyEvent /\ engine.lastID = Len(heard)
SsInv == SsTypes /\ Waits /\ HeardInOrder /\ Emits /\ Comes /\ NothingMissing

\* Every step keeps the types.
EnginePlaces == {"answered", "stream", "emit", "retry", "wait", "over"}
SsEmits == [ev : [id : Nat, data : Nat], then : {"none", "shut", "reset", "append"}, data : Nat]
SsAsked == [dials : Nat, cuts : Nat, pings : Nat]

LEMMA EngineAt ==
    ASSUME NEW e \in SsEngines, NEW q \in EnginePlaces, NEW f, f = [e EXCEPT !.at = q]
    PROVE  /\ f \in SsEngines /\ f.at = q /\ f.answer = e.answer /\ f.cur = e.cur
           /\ f.isPing = e.isPing /\ f.lastID = e.lastID /\ f.retryNum = e.retryNum
BY DEF SsEngines, EnginePlaces

LEMMA OneEvent == ASSUME NEW e \in Nat PROVE <<e>> \in Seq(Nat) /\ Len(<<e>>) = 1 /\ <<e>>[1] = e
OBVIOUS

LEMMA SendPutsTypes == ASSUME SsTypes, SendPuts PROVE SsTypes'
<1>1. server \in SsServers /\ server.next \in Nat  BY DEF SsTypes, SsServers
<1>2. PICK v : v = <<server.next>>  OBVIOUS
<1>3. v \in Seq(Nat)  BY <1>1, <1>2, OneEvent
<1>m. PICK m : m = server.next + 1  OBVIOUS
<1>4. server' = [server EXCEPT !.sender = "send", !.events = v, !.next = m] /\ m \in Nat
  BY <1>1, <1>2, <1>m DEF SendPuts
<1>5. server' \in SsServers  BY <1>1, <1>3, <1>4 DEF SsServers
<1> QED BY <1>5 DEF SsTypes, SendPuts

LEMMA SendCommentTypes == ASSUME SsTypes, SendComment PROVE SsTypes'
<1>1. server \in SsServers  BY DEF SsTypes
<1>2. PICK v : v = <<0>>  OBVIOUS
<1>3. v \in Seq(Nat)  BY <1>2, OneEvent
<1>4. server' = [server EXCEPT !.events = v]  BY <1>2 DEF SendComment
<1>5. server' \in SsServers  BY <1>1, <1>3, <1>4 DEF SsServers
<1>6. asked' \in SsAsked
  <2>1. asked \in SsAsked /\ asked' = [asked EXCEPT !.pings = asked.pings + 1]  BY DEF SsTypes, SsAsked, SendComment
  <2>2. asked.pings + 1 \in Nat  BY <2>1 DEF SsAsked
  <2> QED BY <2>1, <2>2 DEF SsAsked
<1> QED BY <1>5, <1>6 DEF SsTypes, SsAsked, SendComment

LEMMA BlockIs ==
    ASSUME NEW e \in Nat
    PROVE  /\ e = 0 => Block(e) = <<Line("ping", 0), Line("blank", 0)>>
           /\ e # 0 => Block(e) = <<Line("id", e), Line("data", e), Line("blank", 0)>>
           /\ Block(e) \in Seq(SsLines)
<1>1. Line("ping", 0) \in SsLines /\ Line("blank", 0) \in SsLines /\ Line("id", e) \in SsLines /\ Line("data", e) \in SsLines
  BY DEF Line, SsLines
<1> HIDE DEF Line
<1> QED BY <1>1 DEF Block

LEMMA PushWritesTypes == ASSUME SsTypes, PushWrites PROVE SsTypes'
<1>1. server \in SsServers /\ server.events \in Seq(Nat) /\ server.events # <<>> /\ wire \in Seq(SsLines)
  BY DEF SsTypes, SsServers, PushWrites
<1>2. PICK e : e = Head(server.events)  OBVIOUS
<1>s. PICK es : es = server.events  OBVIOUS
<1>3. e \in Nat /\ Block(e) \in Seq(SsLines)
  <2>1. es \in Seq(Nat) /\ es # <<>> /\ e = Head(es)  BY <1>1, <1>2, <1>s
  <2>2. e \in Nat  BY ONLY <2>1
  <2> QED BY <2>2, BlockIs
<1>4. wire' = wire \o Block(e) \/ wire' = wire  BY <1>2 DEF PushWrites
<1>5. wire' \in Seq(SsLines)
  <2>1. PICK b : b = Block(e)  OBVIOUS
  <2>2. b \in Seq(SsLines) /\ wire \in Seq(SsLines) /\ (wire' = wire \o b \/ wire' = wire)  BY <1>1, <1>3, <1>4, <2>1
  <2>3. wire \o b \in Seq(SsLines)
    <3> HIDE DEF SsLines
    <3> QED BY <2>2
  <2> QED BY <2>2, <2>3
<1>n. <<>> \in Seq(Nat)  OBVIOUS
<1>6. PICK v : v \in Seq(Nat) /\ v = <<>>  BY <1>n
<1>7. server' = [server EXCEPT !.events = v]  BY <1>6 DEF PushWrites
<1>8. server' \in SsServers  BY <1>1, <1>6, <1>7 DEF SsServers
<1> QED BY <1>5, <1>8 DEF SsTypes, PushWrites

LEMMA PushEndsTypes == ASSUME SsTypes, PushEnds PROVE SsTypes'
<1>1. server' \in SsServers  BY DEF SsTypes, SsServers, PushEnds
<1> QED BY <1>1 DEF SsTypes, PushEnds

LEMMA CutOffTypes == ASSUME SsTypes, CutOff PROVE SsTypes'
<1>1. server' \in SsServers  BY DEF SsTypes, SsServers, CutOff
<1>2. wire' \in Seq(SsLines)
  <2>1. wire \in Seq(SsLines)  BY DEF SsTypes
  <2>2. PICK n \in 0..Len(wire) : wire' = SubSeq(wire, 1, n)  BY DEF CutOff
  <2> QED BY <2>1, <2>2
<1>3. asked' \in SsAsked
  <2>1. asked \in SsAsked /\ asked' = [asked EXCEPT !.cuts = asked.cuts + 1]  BY DEF SsTypes, SsAsked, CutOff
  <2>2. asked.cuts + 1 \in Nat  BY <2>1 DEF SsAsked
  <2> QED BY <2>1, <2>2 DEF SsAsked
<1> QED BY <1>1, <1>2, <1>3 DEF SsTypes, SsAsked, CutOff

LEMMA AnsweredTypes == ASSUME SsTypes, Answered PROVE SsTypes'
<1>1. engine \in SsEngines  BY DEF SsTypes
<1>2. \E q \in EnginePlaces : engine' = [engine EXCEPT !.at = q]  BY DEF Answered, EngineGoes, Shut, EnginePlaces
<1>3. engine' \in SsEngines  BY <1>1, <1>2, EngineAt
<1>4. emits' \in SsEmits
  <2>1. EmptyEvent \in [id : Nat, data : Nat]  BY DEF EmptyEvent
  <2>2. emits \in SsEmits  BY DEF SsTypes, SsEmits
  <2> QED BY <2>1, <2>2 DEF Answered, SsEmits
<1>5. streamDone' \in BOOLEAN  BY DEF Answered, Shut, SsTypes
<1> QED BY <1>3, <1>4, <1>5 DEF SsTypes, SsEmits, Answered

LEMMA EmitCanceledTypes == ASSUME SsTypes, EmitCanceled PROVE SsTypes'
<1>1. engine \in SsEngines  BY DEF SsTypes
<1>2. \E q \in EnginePlaces : engine' = [engine EXCEPT !.at = q]  BY DEF EmitCanceled, EngineGoes, EnginePlaces
<1>3. engine' \in SsEngines  BY <1>1, <1>2, EngineAt
<1> QED BY <1>3 DEF SsTypes, EmitCanceled

LEMMA RetryTypes == ASSUME SsTypes, Retry PROVE SsTypes'
<1>1. engine \in SsEngines  BY DEF SsTypes
<1>2. engine' \in SsEngines
  <2>1. CASE engine.retryNum = 0
    <3>1. engine' = [engine EXCEPT !.at = "over"]  BY <2>1 DEF Retry, Shut, EngineGoes
    <3> QED BY <1>1, <3>1, EngineAt DEF EnginePlaces
  <2>2. CASE engine.retryNum # 0
    <3>1. PICK m : m = IF engine.retryNum > 0 THEN engine.retryNum - 1 ELSE engine.retryNum  OBVIOUS
    <3>2. engine' = [engine EXCEPT !.at = "wait", !.retryNum = m]  BY <2>2, <3>1 DEF Retry
    <3>3. m \in Int  BY <1>1, <3>1 DEF SsEngines
    <3> QED BY <1>1, <3>2, <3>3 DEF SsEngines
  <2> QED BY <2>1, <2>2
<1>3. streamDone' \in BOOLEAN  BY DEF Retry, Shut, SsTypes
<1> QED BY <1>2, <1>3 DEF SsTypes, Retry

LEMMA StreamEndsTypes == ASSUME SsTypes, StreamEnds PROVE SsTypes'
<1>1. server' \in SsServers  BY DEF SsTypes, SsServers, StreamEnds
<1>2. engine' \in SsEngines  BY DEF SsTypes, SsEngines, StreamEnds
<1> QED BY <1>1, <1>2 DEF SsTypes, StreamEnds

LEMMA HearsNilTypes == ASSUME SsTypes, HearsNil PROVE SsTypes'
<1>1. NilEvent \in SsEvents  BY DEF NilEvent, SsEvents
<1>2. heard' \in Seq(SsEvents)  BY <1>1 DEF SsTypes, HearsNil
<1> QED BY <1>2 DEF SsTypes, HearsNil

LEMMA HeadTail ==
    ASSUME NEW F, NEW s \in Seq(F), s # <<>>
    PROVE  /\ Head(s) = s[1] /\ Head(s) \in F /\ Tail(s) \in Seq(F) /\ Len(s) \in Nat \ {0} /\ Len(Tail(s)) = Len(s) - 1
           /\ \A i \in 1..Len(Tail(s)) : i + 1 \in 2..Len(s) /\ Tail(s)[i] = s[i + 1]
OBVIOUS

\* What the engine does with the line l, whose rest is w.
Blank(l) == l.is = "blank" /\ ~ engine.isPing /\ Emit(engine.cur, "reset", 0)
Pinged(l) == l.is = "blank" /\ engine.isPing /\ engine' = [engine EXCEPT !.cur = EmptyEvent] /\ emits' = emits
Ping(l) == l.is = "ping" /\ engine' = [engine EXCEPT !.isPing = TRUE] /\ emits' = emits
Ident(l) == l.is = "id" /\ engine' = [engine EXCEPT !.lastID = l.of, !.cur = [id |-> l.of, data |-> engine.cur.data]] /\ emits' = emits
Another(l) == l.is = "data" /\ engine.cur.data # 0 /\ Emit(engine.cur, "append", l.of)
Data(l) == l.is = "data" /\ engine.cur.data = 0 /\ engine' = [engine EXCEPT !.cur = [id |-> engine.cur.id, data |-> l.of]] /\ emits' = emits

LEMMA ReadLineIs ==
    ASSUME SsTypes, ReadLine
    PROVE  \E l \in SsLines :
              /\ l = wire[1] /\ l = Head(wire) /\ wire # <<>> /\ wire' = Tail(wire) /\ engine.at = "stream" /\ ~ streamDone
              /\ Blank(l) \/ Pinged(l) \/ Ping(l) \/ Ident(l) \/ Another(l) \/ Data(l)
              /\ UNCHANGED <<server, wireEnd, streamDone, listener, heard, asked, calm>>
<1>1. engine \in SsEngines /\ wire \in Seq(SsLines) /\ wire # <<>>  BY DEF SsTypes, ReadLine
<1>l. PICK l : l = Head(wire)  OBVIOUS
<1>2. l \in SsLines /\ l = wire[1]  BY <1>1, <1>l, HeadTail
<1>3. engine.cur \in [id : Nat, data : Nat]  BY <1>1 DEF SsEngines
<1>4. \A n : [engine.cur EXCEPT !.id = n] = [id |-> n, data |-> engine.cur.data]  BY <1>3
<1>5. \A n : [engine.cur EXCEPT !.data = n] = [id |-> engine.cur.id, data |-> n]  BY <1>3
<1>6. \A n : [engine EXCEPT !.lastID = n, !.cur.id = n] = [engine EXCEPT !.lastID = n, !.cur = [engine.cur EXCEPT !.id = n]]
  BY <1>1 DEF SsEngines
<1>7. \A n : [engine EXCEPT !.cur.data = n] = [engine EXCEPT !.cur = [engine.cur EXCEPT !.data = n]]
  BY <1>1 DEF SsEngines
<1>8. Blank(l) \/ Pinged(l) \/ Ping(l) \/ Ident(l) \/ Another(l) \/ Data(l)
  BY <1>l, <1>4, <1>5, <1>6, <1>7 DEF ReadLine, Blank, Pinged, Ping, Ident, Another, Data
<1> QED BY <1>1, <1>2, <1>l, <1>8 DEF ReadLine

LEMMA ReadLineTypes == ASSUME SsTypes, ReadLine PROVE SsTypes'
<1>1. engine \in SsEngines /\ wire \in Seq(SsLines) /\ emits \in SsEmits  BY DEF SsTypes, SsEmits
<1>2. PICK l \in SsLines :
         /\ l = wire[1] /\ l = Head(wire) /\ wire # <<>> /\ wire' = Tail(wire) /\ engine.at = "stream" /\ ~ streamDone
         /\ Blank(l) \/ Pinged(l) \/ Ping(l) \/ Ident(l) \/ Another(l) \/ Data(l)
         /\ UNCHANGED <<server, wireEnd, streamDone, listener, heard, asked, calm>>
  BY ReadLineIs
<1>3. l.of \in Nat /\ wire' \in Seq(SsLines)  BY <1>1, <1>2, HeadTail DEF SsLines
<1>4. engine.cur \in [id : Nat, data : Nat] /\ EmptyEvent \in [id : Nat, data : Nat]  BY <1>1 DEF SsEngines, EmptyEvent
<1>5. engine' \in SsEngines /\ emits' \in SsEmits
  <2>1. CASE Blank(l) \/ Another(l)
    <3>1. engine' = [engine EXCEPT !.at = "emit"]  BY <2>1 DEF Blank, Another, Emit, EngineGoes
    <3>2. engine' \in SsEngines  BY <1>1, <3>1, EngineAt DEF EnginePlaces
    <3>3. \E t \in {"reset", "append"}, d \in {0, l.of} : emits' = [ev |-> engine.cur, then |-> t, data |-> d]
      BY <2>1 DEF Blank, Another, Emit
    <3> QED BY <1>3, <1>4, <3>2, <3>3 DEF SsEmits
  <2>2. CASE Pinged(l)  BY <1>1, <1>4, <2>2 DEF Pinged, SsEngines
  <2>3. CASE Ping(l)  BY <1>1, <2>3 DEF Ping, SsEngines
  <2>4. CASE Ident(l)  BY <1>1, <1>3, <1>4, <2>4 DEF Ident, SsEngines
  <2>5. CASE Data(l)  BY <1>1, <1>3, <1>4, <2>5 DEF Data, SsEngines
  <2> QED BY <1>2, <2>1, <2>2, <2>3, <2>4, <2>5
<1> QED BY <1>2, <1>3, <1>5 DEF SsTypes, SsEmits

\* What fn was called with, and what the engine does behind it.
Over == emits.then = "shut" /\ engine' = [engine EXCEPT !.at = "over"] /\ streamDone' = TRUE
Renewed == emits.then = "reset" /\ engine' = [engine EXCEPT !.at = "stream", !.cur = EmptyEvent, !.isPing = FALSE] /\ streamDone' = streamDone
Begun == emits.then = "append" /\ streamDone' = streamDone
         /\ engine' = [engine EXCEPT !.at = "stream", !.isPing = FALSE, !.cur = [id |-> 0, data |-> emits.data]]

LEMMA EmittedIs == ASSUME Emits, Emitted PROVE Over \/ Renewed \/ Begun
<1>1. emits.then \in {"shut", "reset", "append"}  BY DEF Emits, Emitted
<1>2. CASE emits.then = "shut"  BY <1>2 DEF Emitted, Shut, EngineGoes, Over
<1>3. CASE emits.then = "reset"  BY <1>3 DEF Emitted, Renewed
<1>4. CASE emits.then = "append"
  <2>1. [EmptyEvent EXCEPT !.data = emits.data] = [id |-> 0, data |-> emits.data]  BY DEF EmptyEvent
  <2> QED BY <1>4, <2>1 DEF Emitted, Begun
<1> QED BY <1>1, <1>2, <1>3, <1>4

LEMMA EmittedTypes == ASSUME SsTypes, Emits, Emitted PROVE SsTypes'
<1>1. engine \in SsEngines /\ emits \in SsEmits /\ heard \in Seq(SsEvents)  BY DEF SsTypes, SsEmits
<1>2. emits.data \in Nat /\ emits.ev \in [id : Nat, data : Nat]  BY <1>1 DEF SsEmits
<1>3. engine' \in SsEngines /\ streamDone' \in BOOLEAN
  <2>1. CASE Over  BY <1>1, <2>1, EngineAt DEF Over, EnginePlaces
  <2>2. CASE Renewed  BY <1>1, <2>2 DEF Renewed, SsEngines, EmptyEvent, SsTypes
  <2>3. CASE Begun  BY <1>1, <1>2, <2>3 DEF Begun, SsEngines, SsTypes
  <2> QED BY <2>1, <2>2, <2>3, EmittedIs
<1>4. heard' \in Seq(SsEvents)
  <2>1. emits.ev \in SsEvents  BY <1>2 DEF SsEvents
  <2> QED BY <1>1, <2>1 DEF Emitted
<1> QED BY <1>3, <1>4 DEF SsTypes, Emitted

LEMMA LinesAre == ASSUME NEW F, NEW s \in Seq(F) PROVE Len(s) \in Nat /\ \A i \in 1..Len(s) : s[i] \in F
OBVIOUS

\* Who does not touch what is sent and read only ends it.
LEMMA QuietKeeps ==
    ASSUME SsInv, SsTypes', Waits', engine' = engine, emits' = emits, wire' = wire, wireEnd' = wireEnd, heard' = heard,
           calm' = calm, server'.events = server.events, server'.next = server.next, server'.push = server.push,
           streamDone => streamDone'
    PROVE  SsInv'
<1>1. HeardInOrder'  BY DEF SsInv, HeardInOrder
<1>2. Emits'  BY DEF SsInv, Emits
<1>3. Reads' => Reads  BY DEF Reads
<1>4. Comes'  BY <1>3 DEF SsInv, Comes
<1>5. LinesRead' = LinesRead  BY DEF LinesRead
<1>6. NothingMissing'  BY <1>3, <1>5 DEF SsInv, NothingMissing
<1> QED BY <1>1, <1>2, <1>4, <1>6 DEF SsInv

LEMMA QuietSteps ==
    ASSUME SsInv, SendLooks \/ SendRefused \/ StopFlag \/ StopCancel \/ FnReturns \/ ListenerEnds \/ SsClose
    PROVE  SsInv'
<1>1. SsTypes /\ Waits /\ server \in SsServers /\ LastEvent \in Nat  BY EventStreamAssumption DEF SsInv, SsTypes
<1>2. CASE SendLooks \/ SendRefused \/ StopFlag \/ StopCancel
  <2>1. /\ \E q \in {"refused", "select"}, st \in BOOLEAN, ca \in BOOLEAN :
              \/ server' = [server EXCEPT !.sender = q] /\ (q = "select" => server.next <= LastEvent)
              \/ server' = [server EXCEPT !.stopping = st]
              \/ server' = [server EXCEPT !.canceled = ca]
        /\ UNCHANGED <<wire, wireEnd, engine, emits, streamDone, listener, heard, asked, calm>>
    BY <1>2 DEF SendLooks, SendRefused, StopFlag, StopCancel
  <2>2. server' \in SsServers  BY <1>1, <2>1 DEF SsServers
  <2>3. /\ server'.events = server.events /\ server'.next = server.next /\ server'.push = server.push
        /\ server'.sender = "select" => server.sender = "select" \/ server.next <= LastEvent
    BY <1>1, <2>1 DEF SsServers
  <2>4. SsTypes'  BY <1>1, <2>1, <2>2 DEF SsTypes
  <2>5. Waits'  BY <1>1, <2>1, <2>3 DEF Waits
  <2> QED BY <2>1, <2>3, <2>4, <2>5, QuietKeeps
<1>3. CASE FnReturns \/ ListenerEnds \/ SsClose
  <2>1. /\ UNCHANGED <<server, wire, wireEnd, engine, emits, heard, asked, calm>>
        /\ streamDone' \in {streamDone, TRUE} /\ listener' \in {listener, "loop", "over"}
    BY <1>3 DEF FnReturns, ListenerEnds, SsClose
  <2>2. SsTypes'  BY <1>1, <2>1 DEF SsTypes
  <2>3. Waits'  BY <1>1, <2>1 DEF Waits
  <2>4. streamDone => streamDone'  BY <2>1
  <2>5. /\ server' = server /\ engine' = engine /\ emits' = emits /\ wire' = wire /\ wireEnd' = wireEnd
        /\ heard' = heard /\ calm' = calm
    BY <2>1
  <2> QED BY <2>2, <2>3, <2>4, <2>5, QuietKeeps
<1> QED BY <1>2, <1>3

\* The server puts the next event, a heartbeat, or nothing more.
LEMMA SendPutsKeeps == ASSUME SsInv, SendPuts PROVE SsInv'
<1>0. /\ SsTypes /\ server \in SsServers /\ server.next \in Nat /\ LastEvent \in Nat /\ engine \in SsEngines /\ engine.lastID \in Nat
      /\ Waits /\ HeardInOrder /\ Emits /\ Comes /\ NothingMissing /\ wire \in Seq(SsLines)
  BY EventStreamAssumption DEF SsInv, SsTypes, SsServers, SsEngines
<1>1. SsTypes'  BY <1>0, SendPutsTypes
<1>e. PICK v : v = <<server.next>>  OBVIOUS
<1>2. v \in Seq(Nat) /\ Len(v) = 1 /\ v[1] = server.next  BY <1>0, <1>e, OneEvent
<1>3. /\ server'.events = v /\ server'.next = server.next + 1 /\ server'.push = server.push /\ server'.sender = "send"
      /\ server.sender = "select" /\ server.events = <<>> /\ UNCHANGED <<engine, emits, wire, wireEnd, heard, streamDone, calm>>
  BY <1>0, <1>e DEF SendPuts, SsServers
<1>4. Waits'  BY <1>0, <1>3 DEF Waits
<1>5. HeardInOrder' /\ Emits'  BY <1>0, <1>3 DEF HeardInOrder, Emits
<1>6. Reads' <=> Reads  BY <1>3 DEF Reads
<1>7. Comes'
  <2> SUFFICES ASSUME Reads PROVE Comes'  BY <1>6 DEF Comes
  <2>1. engine'.lastID < server'.next  BY <1>0, <1>3 DEF Comes
  <2>2. \A i \in 1..Len(v) : v[i] = server.next /\ engine.lastID < v[i] /\ v[i] < server.next + 1
    BY <1>0, <1>2 DEF Comes
  <2>3. \A i \in 1..Len(wire) : wire[i].of \in Nat
    <3>1. \A i \in 1..Len(wire) : wire[i] \in SsLines  BY <1>0, LinesAre
    <3> QED BY <3>1 DEF SsLines
  <2>4. \A i \in 1..Len(wire) : wire[i].is = "id" =>
          /\ engine.lastID < wire[i].of /\ wire[i].of < server.next + 1
          /\ \A j \in 1..Len(v) : wire[i].of < v[j]
    BY <1>0, <2>2, <2>3 DEF Comes
  <2>5. \A i \in 1..Len(server'.events) :
          server'.events[i] = 0 \/ (engine'.lastID < server'.events[i] /\ server'.events[i] < server'.next)
    BY <1>3, <2>2
  <2>v. server'.events = v  BY <1>3
  <2>l. Len(server'.events) = Len(v)  BY <2>v, Zenon
  <2>6. Len(server'.events) <= 1  BY <1>2, <2>l
  <2>7. \A i \in 1..Len(wire') : wire'[i].is = "id" =>
          /\ engine'.lastID < wire'[i].of /\ wire'[i].of < server'.next
          /\ \A j \in 1..Len(server'.events) : server'.events[j] = 0 \/ wire'[i].of < server'.events[j]
    BY <1>3, <2>4
  <2> QED BY <1>0, <1>3, <2>1, <2>5, <2>6, <2>7 DEF Comes
<1>8. NothingMissing'
  <2>1. LinesRead' = LinesRead  BY <1>3 DEF LinesRead
  <2>2. Reads => server.next > 0  BY <1>0 DEF Comes
  <2>3. Reads => \A i \in 1..Len(v) : v[i] = server'.next - 1 /\ server'.next > 1  BY <1>0, <1>2, <1>3, <2>2
  <2>4. server'.next - 1 - Len(v) = server.next - 1 - Len(server.events)  BY <1>0, <1>2, <1>3
  <2> QED BY <1>0, <1>3, <1>6, <2>1, <2>3, <2>4 DEF NothingMissing
<1> QED BY <1>1, <1>4, <1>5, <1>7, <1>8 DEF SsInv

LEMMA SendCommentKeeps == ASSUME SsInv, SendComment PROVE SsInv'
<1>0. SsTypes /\ server \in SsServers /\ Waits /\ HeardInOrder /\ Emits /\ Comes  BY DEF SsInv, SsTypes
<1>1. SsTypes'  BY <1>0, SendCommentTypes
<1>e. PICK v : v = <<0>>  OBVIOUS
<1>2. Len(v) = 1 /\ v[1] = 0  BY <1>e
<1>3. /\ server'.events = v /\ server'.next = server.next /\ server'.sender = server.sender /\ ~ calm'
      /\ UNCHANGED <<engine, emits, wire, heard, streamDone>>
  BY <1>0, <1>e DEF SendComment, SsServers
<1>4. Waits' /\ HeardInOrder' /\ Emits'  BY <1>0, <1>3 DEF Waits, HeardInOrder, Emits
<1>5. Comes'
  <2>1. Reads' => Reads  BY <1>3 DEF Reads
  <2>v. server'.events = v  BY <1>3
  <2>l. Len(server'.events) = Len(v) /\ server'.events[1] = v[1]  BY <2>v, Zenon
  <2>2. \A i \in 1..Len(server'.events) : server'.events[i] = 0
    <3>1. \A i \in 1..1 : i = 1  OBVIOUS
    <3> QED BY <1>2, <2>l, <3>1, Zenon
  <2>3. Len(server'.events) <= 1  BY <1>2, <2>l
  <2> QED BY <1>0, <1>3, <2>1, <2>2, <2>3 DEF Comes
<1> QED BY <1>1, <1>3, <1>4, <1>5 DEF SsInv, NothingMissing

LEMMA PushEndsKeeps == ASSUME SsInv, PushEnds PROVE SsInv'
<1>0. SsTypes /\ server \in SsServers /\ Waits /\ HeardInOrder /\ Emits /\ Comes /\ NothingMissing  BY DEF SsInv, SsTypes
<1>1. SsTypes'  BY <1>0, PushEndsTypes
<1>2. /\ server'.events = server.events /\ server'.next = server.next /\ server'.sender = server.sender /\ server'.push = "over"
      /\ wireEnd' = (IF wireEnd = "open" THEN "eof" ELSE wireEnd) /\ UNCHANGED <<engine, emits, wire, heard, streamDone, calm>>
  BY <1>0 DEF PushEnds, SsServers
<1>3. Waits' /\ HeardInOrder' /\ Emits'  BY <1>0, <1>2 DEF Waits, HeardInOrder, Emits
<1>4. Reads' <=> Reads  BY <1>2 DEF Reads
<1>5. Comes'  BY <1>0, <1>2, <1>4 DEF Comes
<1>6. NothingMissing'
  <2>1. LinesRead' = LinesRead  BY <1>2 DEF LinesRead
  <2>2. wireEnd' # "open" /\ (wireEnd # "cut" => wireEnd' # "cut")  BY <1>2
  <2> QED BY <1>0, <1>2, <1>4, <2>1, <2>2 DEF NothingMissing
<1> QED BY <1>1, <1>3, <1>5, <1>6 DEF SsInv

LEMMA CutOffKeeps == ASSUME SsInv, CutOff PROVE SsInv'
<1>0. SsTypes /\ server \in SsServers /\ Waits /\ HeardInOrder /\ Emits /\ Comes /\ wire \in Seq(SsLines)  BY DEF SsInv, SsTypes
<1>1. SsTypes'  BY <1>0, CutOffTypes
<1>2. /\ server'.events = server.events /\ server'.next = server.next /\ server'.sender = server.sender /\ ~ calm'
      /\ UNCHANGED <<engine, emits, heard, streamDone>> /\ engine.at = "stream"
  BY <1>0 DEF CutOff, SsServers
<1>n. PICK n \in 0..Len(wire) : wire' = SubSeq(wire, 1, n)  BY DEF CutOff
<1>3. n \in Nat /\ n <= Len(wire) /\ Len(wire') = n /\ \A i \in 1..n : wire'[i] = wire[i] /\ i \in 1..Len(wire)
  <2>1. Len(wire) \in Nat  BY <1>0
  <2>2. n \in Nat /\ n <= Len(wire)  BY <2>1
  <2> HIDE DEF SsLines
  <2>3. Len(wire') = n /\ \A i \in 1..n : wire'[i] = wire[i]  BY <1>0, <1>n, <2>2
  <2> QED BY <2>1, <2>2, <2>3
<1>4. Waits' /\ HeardInOrder' /\ Emits'  BY <1>0, <1>2 DEF Waits, HeardInOrder, Emits
<1>5. Comes'
  <2>1. Reads  BY <1>2 DEF Reads
  <2>2. \A i \in 2..n : i - 1 \in 1..n /\ i \in 2..Len(wire) /\ i \in 1..n  BY <1>3
  <2>3. \A i \in 2..Len(wire') : wire'[i].is = "data" => wire'[i - 1] = Line("id", wire'[i].of)
    BY <1>0, <1>3, <2>1, <2>2 DEF Comes
  <2>4. wire' # <<>> => wire # <<>> /\ wire'[1] = wire[1]
    <3>1. wire' # <<>> => n # 0  BY <1>0, <1>n, <1>3
    <3> QED BY <1>0, <1>3, <3>1
  <2> QED BY <1>0, <1>2, <1>3, <2>1, <2>3, <2>4 DEF Comes
<1> QED BY <1>1, <1>2, <1>4, <1>5 DEF SsInv, NothingMissing

\* The engine, where it does not read a line.
LEMMA AnsweredKeeps == ASSUME SsInv, Answered PROVE SsInv'
<1>0. SsTypes /\ engine \in SsEngines /\ Waits /\ HeardInOrder /\ Emits /\ Comes /\ NothingMissing  BY DEF SsInv, SsTypes
<1>1. SsTypes'  BY <1>0, AnsweredTypes
<1>2. engine.at = "answered" /\ UNCHANGED <<server, wire, wireEnd, heard, calm>>  BY DEF Answered
<1>3. PICK q \in EnginePlaces : /\ engine' = [engine EXCEPT !.at = q] /\ q \in {"over", "stream", "emit", "retry"}
                                /\ q = "stream" => engine.answer = "stream" /\ ~ streamDone /\ emits' = emits /\ streamDone' = streamDone
                                /\ q = "emit" => emits' = [ev |-> EmptyEvent, then |-> "shut", data |-> 0]
                                /\ q = "retry" => ~ streamDone
  BY DEF Answered, EngineGoes, Shut, EnginePlaces
<1>4. engine'.at = q /\ engine'.cur = engine.cur /\ engine'.isPing = engine.isPing /\ engine'.lastID = engine.lastID
  BY <1>0, <1>3, EngineAt
<1>5. Waits'  BY <1>0, <1>2, <1>4 DEF Waits
<1>6. HeardInOrder'  BY <1>0, <1>2, <1>4 DEF HeardInOrder
<1>7. Emits'  BY <1>3, <1>4 DEF Emits
<1>8. Reads' => Reads /\ q = "stream"  BY <1>2, <1>3, <1>4 DEF Reads
<1>9. Comes'  BY <1>0, <1>2, <1>4, <1>8 DEF Comes
<1>10. NothingMissing'
  <2>1. q = "stream" => LinesRead' = LinesRead  BY <1>2, <1>4 DEF LinesRead
  <2> QED BY <1>0, <1>2, <1>3, <1>4, <1>8, <2>1 DEF NothingMissing
<1> QED BY <1>1, <1>5, <1>6, <1>7, <1>9, <1>10 DEF SsInv

LEMMA EmitCanceledKeeps == ASSUME SsInv, EmitCanceled PROVE SsInv'
<1>0. SsTypes /\ engine \in SsEngines /\ Waits /\ HeardInOrder /\ NothingMissing  BY DEF SsInv, SsTypes
<1>1. SsTypes'  BY <1>0, EmitCanceledTypes
<1>2. engine.at = "emit" /\ streamDone /\ UNCHANGED <<server, wire, wireEnd, emits, heard, streamDone, calm>>  BY DEF EmitCanceled
<1>3. PICK q \in {"over", "retry"} : engine' = [engine EXCEPT !.at = q]  BY DEF EmitCanceled, EngineGoes
<1>4. engine'.at = q /\ engine'.cur = engine.cur /\ engine'.isPing = engine.isPing /\ engine'.lastID = engine.lastID
  BY <1>0, <1>3, EngineAt DEF EnginePlaces
<1>5. Waits' /\ HeardInOrder' /\ Emits'  BY <1>0, <1>2, <1>4 DEF Waits, HeardInOrder, Emits
<1>6. ~ Reads'  BY <1>4 DEF Reads
<1>7. NothingMissing'  BY <1>0, <1>2, <1>4, <1>6 DEF NothingMissing
<1> QED BY <1>1, <1>5, <1>6, <1>7 DEF SsInv, Comes

LEMMA StreamEndsKeeps == ASSUME SsInv, StreamEnds PROVE SsInv'
<1>0. SsTypes /\ engine \in SsEngines /\ server \in SsServers /\ Waits /\ HeardInOrder /\ NothingMissing /\ Len(heard) \in Nat
  BY DEF SsInv, SsTypes
<1>1. SsTypes'  BY <1>0, StreamEndsTypes
<1>2. /\ engine.at = "stream" /\ UNCHANGED <<wire, wireEnd, emits, heard, streamDone, calm>>
      /\ ~ streamDone => wire = <<>>
  BY DEF StreamEnds
<1>3. /\ engine'.at = "retry" /\ engine'.cur = engine.cur /\ ~ engine'.isPing /\ engine'.lastID = engine.lastID
      /\ server'.next = server.next /\ server'.sender = server.sender
  BY <1>0 DEF StreamEnds, SsEngines, SsServers
<1>4. Waits' /\ HeardInOrder' /\ Emits'  BY <1>0, <1>2, <1>3 DEF Waits, HeardInOrder, Emits
<1>5. ~ Reads' /\ Reads  BY <1>2, <1>3 DEF Reads
<1>6. calm /\ ~ streamDone => engine.cur = EmptyEvent /\ engine.lastID = Len(heard)
  <2> SUFFICES ASSUME calm, ~ streamDone PROVE engine.cur = EmptyEvent /\ engine.lastID = Len(heard)  OBVIOUS
  <2>1. PICK k \in Nat : LinesRead + Len(wire) = 3 * k  BY <1>0, <1>5 DEF NothingMissing
  <2>2. Len(wire) = 0  BY <1>2
  <2>3. LinesRead = 3 * Len(heard) + IF engine.cur = EmptyEvent THEN 0 ELSE IF engine.cur.data = 0 THEN 1 ELSE 2
    BY <1>2 DEF LinesRead
  <2>4. engine.cur = EmptyEvent  BY <1>0, <2>1, <2>2, <2>3
  <2> QED BY <1>0, <1>5, <2>4 DEF NothingMissing
<1>7. NothingMissing'  BY <1>0, <1>2, <1>3, <1>5, <1>6 DEF NothingMissing
<1> QED BY <1>1, <1>4, <1>5, <1>7 DEF SsInv, Comes

\* The engine goes on where nothing is read.
LEMMA RetryKeeps == ASSUME SsInv, Retry \/ WaitCanceled PROVE SsInv'
<1>0. SsTypes /\ engine \in SsEngines /\ Waits /\ HeardInOrder /\ NothingMissing  BY DEF SsInv, SsTypes
<1>1. SsTypes'
  <2>1. CASE Retry  BY <1>0, <2>1, RetryTypes
  <2>2. CASE WaitCanceled
    <3>1. engine' \in SsEngines  BY <1>0, <2>2, EngineAt DEF WaitCanceled, EngineGoes, EnginePlaces
    <3> QED BY <1>0, <2>2, <3>1 DEF WaitCanceled, SsTypes
  <2> QED BY <2>1, <2>2
<1>2. /\ engine.at \in {"retry", "wait"} /\ UNCHANGED <<server, wire, wireEnd, emits, heard, calm>> /\ (streamDone => streamDone')
  BY DEF Retry, WaitCanceled, Shut
<1>3. engine'.at \in {"wait", "over"} /\ engine'.cur = engine.cur /\ engine'.isPing = engine.isPing /\ engine'.lastID = engine.lastID
  BY <1>0 DEF Retry, WaitCanceled, Shut, EngineGoes, SsEngines
<1>4. Waits' /\ HeardInOrder' /\ Emits'  BY <1>0, <1>2, <1>3 DEF Waits, HeardInOrder, Emits
<1>5. ~ Reads'  BY <1>3 DEF Reads
<1>6. NothingMissing'  BY <1>0, <1>2, <1>3, <1>5 DEF NothingMissing
<1> QED BY <1>1, <1>4, <1>5, <1>6 DEF SsInv, Comes

LEMMA HearsNilKeeps == ASSUME SsInv, HearsNil PROVE SsInv'
<1>0. SsTypes /\ engine \in SsEngines /\ Waits /\ HeardInOrder /\ NothingMissing /\ heard \in Seq(SsEvents) /\ Len(heard) \in Nat
  BY DEF SsInv, SsTypes
<1>1. SsTypes'  BY <1>0, HearsNilTypes
<1>2. engine.at = "over" /\ UNCHANGED <<server, wire, wireEnd, engine, emits, streamDone, calm>>  BY DEF HearsNil
<1>3. /\ Len(heard') = Len(heard) + 1 /\ heard'[Len(heard) + 1].data = -1
      /\ \A i \in 1..Len(heard) : heard'[i] = heard[i]
  BY <1>0 DEF HearsNil, NilEvent
<1>4. \A i \in 1..Len(heard') : i = Len(heard) + 1 \/ i \in 1..Len(heard)  BY <1>0, <1>3
<1>5. engine.lastID \in Nat /\ engine.cur.data \in Nat  BY <1>0 DEF SsEngines
<1>6. HeardInOrder'
  <2>1. \A i, j \in 1..Len(heard') :
          i < j /\ heard'[i].data > 0 /\ heard'[j].data > 0 => heard'[i].data < heard'[j].data
    BY <1>0, <1>3, <1>4 DEF HeardInOrder
  <2>2. \A i \in 1..Len(heard') : heard'[i].data <= engine.lastID  BY <1>0, <1>3, <1>4, <1>5 DEF HeardInOrder
  <2>3. engine.cur.data > 0 => \A i \in 1..Len(heard') : heard'[i].data < engine.cur.data
    BY <1>0, <1>3, <1>4, <1>5 DEF HeardInOrder
  <2> QED BY <1>0, <1>2, <2>1, <2>2, <2>3 DEF HeardInOrder
<1>7. Waits' /\ Emits' /\ ~ Reads'  BY <1>0, <1>2 DEF Waits, Emits, Reads
<1>8. NothingMissing'
  <2>1. calm => \A i \in 1..Len(heard') : heard'[i].data > 0 => heard'[i] = [id |-> i, data |-> i]
    <3>1. calm => \A i \in 1..Len(heard) : heard[i].data > 0 => heard[i] = [id |-> i, data |-> i]
      BY <1>0 DEF NothingMissing
    <3> SUFFICES ASSUME calm, NEW i \in 1..Len(heard'), heard'[i].data > 0 PROVE heard'[i] = [id |-> i, data |-> i]  OBVIOUS
    <3>2. i # Len(heard) + 1  BY <1>3
    <3>3. i \in 1..Len(heard) /\ heard'[i] = heard[i]  BY <1>3, <1>4, <3>2
    <3> QED BY <3>1, <3>3
  <2> QED BY <1>0, <1>2, <1>7, <2>1 DEF NothingMissing
<1> QED BY <1>1, <1>6, <1>7, <1>8 DEF SsInv, Comes

\* What Push writes for the event e, or for a heartbeat: one of its lines names
\* the event, and its data stands behind the name.
IsBlock(b, e) ==
    /\ b \in Seq(SsLines) /\ Len(b) \in {2, 3} /\ b[1].is \in {"id", "ping"}
    /\ \A j \in 1..Len(b) : b[j].is = "id" => e # 0 /\ j = 1 /\ b[j].of = e
    /\ \A j \in 1..Len(b) : b[j].is = "data" => j = 2 /\ b[j].of = e /\ b[1] = Line("id", e)
    /\ e # 0 => Len(b) = 3 /\ b[1] = Line("id", e) /\ b[2] = Line("data", e) /\ b[3] = Line("blank", 0)
LEMMA BlockLines == ASSUME NEW e \in Nat, NEW b, b = Block(e) PROVE IsBlock(b, e)
<1>1. b \in Seq(SsLines)  BY BlockIs
<1>2. CASE e = 0
  <2>1. b = <<Line("ping", 0), Line("blank", 0)>>  BY <1>2, BlockIs
  <2>2. Len(b) = 2 /\ b[1] = Line("ping", 0) /\ b[2] = Line("blank", 0)  BY <2>1
  <2>3. \A j \in 1..2 : j = 1 \/ j = 2  OBVIOUS
  <2>4. \A j \in 1..2 : b[j].is \in {"ping", "blank"}  BY <2>2, <2>3 DEF Line
  <2> QED BY <1>1, <1>2, <2>2, <2>4 DEF Line, IsBlock
<1>3. CASE e # 0
  <2>1. b = <<Line("id", e), Line("data", e), Line("blank", 0)>>  BY <1>3, BlockIs
  <2>2. Len(b) = 3 /\ b[1] = Line("id", e) /\ b[2] = Line("data", e) /\ b[3] = Line("blank", 0)  BY <2>1
  <2>3. \A j \in 1..3 : j = 1 \/ j = 2 \/ j = 3  OBVIOUS
  <2>4. \A j \in 1..3 : b[j].is = "id" => j = 1 /\ b[j].of = e  BY <2>2, <2>3 DEF Line
  <2>5. \A j \in 1..3 : b[j].is = "data" => j = 2 /\ b[j].of = e  BY <2>2, <2>3 DEF Line
  <2>6. b[1].is = "id"  BY <2>2 DEF Line
  <2> QED BY <1>1, <1>3, <2>2, <2>4, <2>5, <2>6 DEF IsBlock
<1> QED BY <1>2, <1>3

LEMMA Joined ==
    ASSUME NEW F, NEW s \in Seq(F), NEW t \in Seq(F), NEW u, u = s \o t
    PROVE  /\ u \in Seq(F) /\ Len(s) \in Nat /\ Len(t) \in Nat /\ Len(u) = Len(s) + Len(t)
           /\ \A i \in 1..Len(s) : u[i] = s[i] /\ s[i] \in F
           /\ \A i \in 1..Len(u) : i \in 1..Len(s) \/ (i - Len(s) \in 1..Len(t) /\ i > Len(s) /\ u[i] = t[i - Len(s)])
OBVIOUS

LEMMA NextLines ==
    ASSUME NEW r \in Int, NEW n \in Nat, NEW k \in Nat, NEW e \in Nat, NEW m \in Nat, NEW x \in Nat,
           r + n = 3 * k, e = x - 1, m = 1, k = x - 1 - m
    PROVE  e = k + 1 /\ e # 0 /\ k = x - 2 /\ r = 3 * k - n
OBVIOUS

LEMMA ThreeMore == ASSUME NEW r \in Int, NEW n \in Nat, NEW k \in Nat, r + n = 3 * k PROVE r + (n + 3) = 3 * (k + 1)
OBVIOUS

LEMMA NthLines ==
    ASSUME NEW r \in Int, NEW n \in Nat, NEW k \in Nat, NEW i \in Int,
           r = 3 * k - n, i - n \in 1..3
    PROVE  i - n \in {1, 2, 3} /\ r + i = 3 * k + (i - n)
OBVIOUS

LEMMA PushWritesKeeps == ASSUME SsInv, PushWrites PROVE SsInv'
<1>0. /\ SsTypes /\ server \in SsServers /\ server.events \in Seq(Nat) /\ server.next \in Nat /\ wire \in Seq(SsLines)
      /\ engine \in SsEngines /\ engine.lastID \in Nat /\ Waits /\ HeardInOrder /\ Emits /\ Comes /\ NothingMissing
  BY DEF SsInv, SsTypes, SsServers, SsEngines
<1>1. SsTypes'  BY <1>0, PushWritesTypes
<1>s. PICK es : es = server.events  OBVIOUS
<1>e. PICK e : e = Head(es)  OBVIOUS
<1>2. /\ server.push = "loop" /\ es # <<>> /\ UNCHANGED <<wireEnd, engine, emits, streamDone, heard, calm>>
      /\ wire' = (IF wireEnd = "open" THEN wire \o Block(e) ELSE wire)
  BY <1>s, <1>e DEF PushWrites
<1>3. /\ server'.events = <<>> /\ server'.next = server.next /\ server'.sender = server.sender /\ server'.push = server.push
  BY <1>0 DEF PushWrites, SsServers
<1>m. PICK m : m = Len(es)  OBVIOUS
<1>4. e \in Nat /\ e = es[1] /\ m \in Nat \ {0}
  <2>1. es \in Seq(Nat) /\ es # <<>> /\ e = Head(es)  BY <1>0, <1>s, <1>e, <1>2
  <2> QED BY <2>1, <1>m
<1>n. e \in Nat /\ m \in Nat \ {0}  BY <1>4
<1>o. Reads => m <= 1 /\ \A i \in 1..m : es[i] = 0 \/ (engine.lastID < es[i] /\ es[i] < server.next)
  BY <1>0, <1>s, <1>m DEF Comes
<1>x. Reads => m = 1  BY <1>n, <1>o
<1>5. Len(server'.events) = 0  BY <1>3
<1>6. Waits' /\ HeardInOrder'  BY <1>0, <1>2, <1>3 DEF Waits, HeardInOrder
<1>7. Reads' <=> Reads  BY <1>2 DEF Reads
<1>8. CASE wireEnd # "open"
  <2>1. wire' = wire  BY <1>2, <1>8
  <2>2. Emits'  BY <1>0, <1>2, <2>1 DEF Emits
  <2>3. Comes'
    <3>1. \A i \in 1..Len(server'.events) : FALSE  BY <1>5
    <3>2. Len(server'.events) <= 1  BY <1>5
    <3> QED BY <1>0, <1>2, <1>3, <1>7, <2>1, <3>1, <3>2 DEF Comes
  <2>4. NothingMissing'
    <3>1. calm => ~ Reads
      <4>1. wireEnd \in {"eof", "cut"}  BY <1>0, <1>8 DEF SsTypes
      <4> QED BY <1>0, <1>2, <4>1 DEF NothingMissing
    <3> QED BY <1>0, <1>2, <1>7, <3>1 DEF NothingMissing
  <2> QED BY <1>1, <1>6, <2>2, <2>3, <2>4 DEF SsInv
<1>9. CASE wireEnd = "open"
  <2>b. PICK b : b = Block(e)  OBVIOUS
  <2>u. PICK u : u = wire \o b  OBVIOUS
  <2>1. wire' = u  BY <1>2, <1>9, <2>b, <2>u
  <2>2. /\ b \in Seq(SsLines) /\ Len(b) \in {2, 3} /\ b[1].is \in {"id", "ping"}
        /\ \A j \in 1..Len(b) : b[j].is = "id" => e # 0 /\ j = 1 /\ b[j].of = e
        /\ \A j \in 1..Len(b) : b[j].is = "data" => j = 2 /\ b[j].of = e /\ b[1] = Line("id", e)
        /\ e # 0 => Len(b) = 3 /\ b[1] = Line("id", e) /\ b[2] = Line("data", e) /\ b[3] = Line("blank", 0)
    
      <3>1. IsBlock(b, e)  BY <1>n, <2>b, BlockLines
    <3> QED BY <3>1 DEF IsBlock
  <2>n. PICK n : n = Len(wire)  OBVIOUS
  <2>3. /\ u \in Seq(SsLines) /\ n \in Nat /\ Len(b) \in Nat /\ Len(u) = n + Len(b)
        /\ \A i \in 1..n : u[i] = wire[i] /\ wire[i] \in SsLines
        /\ \A i \in 1..Len(u) : i \in 1..n \/ (i - n \in 1..Len(b) /\ i > n /\ u[i] = b[i - n])
    <3>1. wire \in Seq(SsLines) /\ b \in Seq(SsLines)  BY <1>0, <2>2
    <3>2. /\ u \in Seq(SsLines) /\ Len(wire) \in Nat /\ Len(b) \in Nat /\ Len(u) = Len(wire) + Len(b)
          /\ \A i \in 1..Len(wire) : u[i] = wire[i] /\ wire[i] \in SsLines
          /\ \A i \in 1..Len(u) : i \in 1..Len(wire) \/ (i - Len(wire) \in 1..Len(b) /\ i > Len(wire) /\ u[i] = b[i - Len(wire)])
      BY <2>u, <3>1, Joined
    <3> QED BY <2>n, <3>2
  <2>z. n \in Nat /\ server.next \in Nat /\ Len(u) \in Nat  BY <1>0, <2>2, <2>3
  <2>4. wire = <<>> \/ n # 0
    <3> HIDE DEF SsLines
    <3> QED BY <1>0, <2>n
  <2>5. u[n + 1] = b[1] /\ u[n + 2] = b[2] /\ n + 1 \in 1..Len(u) /\ n + 2 \in 1..Len(u)
    <3>l. PICK p, q : p = Len(b) /\ q = Len(u)  OBVIOUS
    <3>m. p \in {2, 3} /\ q = n + p  BY <2>2, <2>3, <3>l
    <3>n. n + 1 \in 1..q /\ n + 2 \in 1..q  BY <2>z, <3>m
    <3>1. n + 1 \in 1..Len(u) /\ n + 2 \in 1..Len(u)  BY <3>l, <3>n
    <3>2. n + 1 \notin 1..n /\ n + 2 \notin 1..n /\ (n + 1) - n = 1 /\ (n + 2) - n = 2  BY <2>3
    <3> QED BY <2>3, <3>1, <3>2
  <2>6. u[1].is = "data" => n # 0 /\ u[1] = wire[1]
    <3>1. CASE n = 0  BY <2>2, <2>5, <3>1
    <3>2. CASE n # 0
      <4>1. 1 \in 1..n  BY <2>3, <3>2
      <4> QED BY <2>3, <3>2, <4>1
    <3> QED BY <3>1, <3>2
  <2>7. Emits'
    <3>1. wire = <<>> => n = 0  BY <2>n
    <3>2. wire' # <<>> /\ wire'[1].is = "data" => wire # <<>> /\ wire[1].is = "data"  BY <2>1, <2>6, <3>1
    <3> QED BY <1>0, <1>2, <3>2 DEF Emits
  <2>8. Comes'
    <3> SUFFICES ASSUME Reads PROVE Comes'  BY <1>7 DEF Comes
    <3>1. m = 1 /\ (e = 0 \/ (engine.lastID < e /\ e < server.next))
      <4>1. m = 1 /\ 1 \in 1..m  BY <1>x
      <4> QED BY <1>4, <1>o, <4>1
    <3>2. \A i \in 1..n : wire[i].is = "id" => engine.lastID < wire[i].of /\ wire[i].of < server.next /\ (e = 0 \/ wire[i].of < e)
      <4>1. 1 \in 1..m  BY <3>1
      <4>2. \A i \in 1..n : wire[i].is = "id" =>
              /\ engine.lastID < wire[i].of /\ wire[i].of < server.next
              /\ \A j \in 1..m : es[j] = 0 \/ wire[i].of < es[j]
        BY <1>0, <1>s, <1>m, <2>n DEF Comes
      <4> QED BY <1>4, <4>1, <4>2
    <3>3. \A i \in 1..Len(u) : u[i].is = "id" => engine.lastID < u[i].of /\ u[i].of < server.next
      <4> SUFFICES ASSUME NEW i \in 1..Len(u), u[i].is = "id" PROVE engine.lastID < u[i].of /\ u[i].of < server.next
        OBVIOUS
      <4>1. CASE i \in 1..n  BY <2>3, <3>2, <4>1
      <4>2. CASE i \notin 1..n
        <5>1. e # 0 /\ u[i].of = e  BY <2>2, <2>3, <4>2
        <5> QED BY <3>1, <5>1
      <4> QED BY <4>1, <4>2
    <3>4. \A i, j \in 1..Len(u) : i < j /\ u[i].is = "id" /\ u[j].is = "id" => u[i].of < u[j].of
      <4> SUFFICES ASSUME NEW i \in 1..Len(u), NEW j \in 1..Len(u), i < j, u[i].is = "id", u[j].is = "id" PROVE u[i].of < u[j].of
        OBVIOUS
      <4>1. CASE j \in 1..n
        <5>1. i \in 1..n  BY <2>3, <4>1
        <5>2. wire[i].of < wire[j].of  BY <1>0, <2>n, <2>3, <4>1, <5>1 DEF Comes
        <5> QED BY <2>3, <4>1, <5>1, <5>2
      <4>2. CASE j \notin 1..n
        <5>1. e # 0 /\ j - n = 1 /\ u[j].of = e  BY <2>2, <2>3, <4>2
        <5>2. i \in 1..n  BY <2>3, <5>1
        <5> QED BY <2>3, <3>2, <5>1, <5>2
      <4> QED BY <4>1, <4>2
    <3>5. \A i \in 2..Len(u) : u[i].is = "data" => u[i - 1] = Line("id", u[i].of)
      <4> SUFFICES ASSUME NEW i \in 2..Len(u), u[i].is = "data" PROVE u[i - 1] = Line("id", u[i].of)
        OBVIOUS
      <4>1. i \in 1..Len(u)  BY <2>3
      <4>2. CASE i \in 1..n
        <5>1. i - 1 \in 1..n /\ i \in 2..n  BY <2>3, <4>2
        <5>2. wire[i].is = "data" /\ u[i] = wire[i]  BY <2>3, <4>2
        <5>3. wire[i - 1] = Line("id", wire[i].of)  BY <1>0, <2>n, <5>1, <5>2 DEF Comes
        <5> QED BY <2>3, <5>1, <5>2, <5>3
      <4>3. CASE i \notin 1..n
        <5>1. i - n \in 1..Len(b) /\ u[i] = b[i - n]  BY <2>3, <4>1, <4>3
        <5>2. i - n = 2 /\ u[i].of = e /\ b[1] = Line("id", e)  BY <2>2, <5>1
        <5>3. i - 1 = n + 1  BY <2>3, <5>2
        <5> QED BY <2>5, <5>2, <5>3
      <4> QED BY <4>2, <4>3
    <3>6. u[1].is = "data" => /\ u[1].of = engine.lastID /\ engine.cur.data < engine.lastID
                              /\ \A i \in 1..Len(heard) : heard[i].data < engine.lastID
      <4>1. wire = <<>> => n = 0  BY <2>n
      <4> QED BY <1>0, <2>6, <4>1 DEF Comes
    <3>7. \A i \in 1..Len(server'.events) : FALSE  BY <1>5
    <3>8. Len(server'.events) <= 1  BY <1>5
    <3>9. engine.lastID < server.next  BY <1>0 DEF Comes
    <3>10. server'.next = server.next /\ engine' = engine /\ heard' = heard  BY <1>2, <1>3
    <3> QED BY <2>1, <3>3, <3>4, <3>5, <3>6, <3>7, <3>8, <3>9, <3>10 DEF Comes
  <2>9. NothingMissing'
    <3> SUFFICES ASSUME calm PROVE NothingMissing'  BY <1>2 DEF NothingMissing
    <3>1. CASE ~ Reads  BY <1>0, <1>2, <1>7, <3>1 DEF NothingMissing
    <3>2. CASE Reads
      <4>r. PICK r : r = LinesRead  OBVIOUS
      <4>1. LinesRead' = r  BY <1>2, <4>r DEF LinesRead
      <4>2. m = 1  BY <1>x, <3>2
      <4>x. PICK x : x = server.next  OBVIOUS
      <4>y. x \in Nat  BY <2>z, <4>x
      <4>3. e = x - 1 /\ x > 1
        <5>1. \A i \in 1..m : es[i] = server.next - 1 /\ server.next > 1  BY <1>0, <1>s, <1>m, <3>2 DEF NothingMissing
        <5>2. 1 \in 1..m  BY <4>2
        <5> QED BY <1>4, <4>x, <5>1, <5>2
      <4>4. PICK k \in Nat : r + n = 3 * k /\ k = x - 1 - m
        BY <1>0, <1>9, <1>s, <1>m, <2>n, <3>2, <4>r, <4>x DEF NothingMissing
      <4>t. LinesRead \in Int
        <5>1. Len(heard) \in Nat  BY <1>0 DEF SsTypes
        <5> QED BY <5>1 DEF LinesRead
      <4>5. r + n = 3 * k /\ e = k + 1 /\ e # 0 /\ k = x - 2 /\ r = 3 * k - n
        <5>2. r \in Int  BY <4>r, <4>t
        <5> QED BY <1>n, <2>z, <4>y, <4>2, <4>3, <4>4, <5>2, NextLines
      <4>6. \A i \in 1..Len(u) : IsNth(u[i], r + i)
        <5> SUFFICES ASSUME NEW i \in 1..Len(u) PROVE IsNth(u[i], r + i)  OBVIOUS
        <5>1. CASE i \in 1..n
          <6>1. IsNth(wire[i], r + i)  BY <1>0, <2>n, <3>2, <4>r, <5>1 DEF NothingMissing
          <6> QED BY <2>3, <5>1, <6>1
        <5>2. CASE i \notin 1..n
          <6>1. i - n \in 1..3 /\ u[i] = b[i - n]  BY <2>2, <2>3, <4>5, <5>2
          <6>2. i - n \in {1, 2, 3} /\ r + i = 3 * k + (i - n)
            <7>1. i \in Int /\ i - n \in 1..3  BY <2>z, <6>1
            <7>2. r \in Int  BY <4>r, <4>t
            <7> QED BY <2>z, <4>5, <7>1, <7>2, NthLines
          <6>3. \/ i - n = 1 /\ r + i = 3 * k + 1 /\ u[i] = Line("id", k + 1)
                \/ i - n = 2 /\ r + i = 3 * k + 2 /\ u[i] = Line("data", k + 1)
                \/ i - n = 3 /\ r + i = 3 * k + 3 /\ u[i] = Line("blank", 0)
            BY <2>2, <4>5, <6>1, <6>2
          <6> QED BY <6>3 DEF IsNth
        <5> QED BY <5>1, <5>2
      <4>7. r + Len(u) = 3 * (k + 1) /\ k + 1 \in Nat /\ k + 1 = server'.next - 1 - Len(server'.events)
        <5>1. server'.next = server.next /\ Len(u) = n + 3  BY <1>3, <2>2, <2>3, <4>5
        <5>2. server'.next - 1 - Len(server'.events) = x - 1  BY <1>5, <4>x, <4>y, <5>1
        <5>3. k + 1 \in Nat /\ k + 1 = x - 1  BY <4>y, <4>5
        <5>r. r \in Int  BY <4>r, <4>t
        <5>4. r + (n + 3) = 3 * (k + 1)  BY <2>z, <4>5, <5>r, ThreeMore
        <5> QED BY <5>1, <5>2, <5>3, <5>4
      <4>8. \E q \in Nat : LinesRead' + Len(wire') = 3 * q /\ (wireEnd' = "open" => q = server'.next - 1 - Len(server'.events))
        BY <2>1, <4>1, <4>7
      <4>9. \A i \in 1..Len(server'.events) : FALSE  BY <1>5
      <4>10. \A i \in 1..Len(wire') : IsNth(wire'[i], LinesRead' + i)  BY <2>1, <4>1, <4>6
      <4> QED BY <1>0, <1>2, <1>9, <3>2, <4>8, <4>9, <4>10 DEF NothingMissing
    <3> QED BY <3>1, <3>2
  <2> QED BY <1>1, <1>6, <2>7, <2>8, <2>9 DEF SsInv
<1> QED BY <1>8, <1>9

\* What is left behind the line l that is read, and l itself.
Remains(l) ==
    /\ Len(wire') \in Nat /\ Len(wire') = Len(wire) - 1 /\ Len(wire) \in Nat
    /\ \A i \in 1..Len(wire') : wire'[i].is = "id" =>
          /\ engine.lastID < wire'[i].of /\ wire'[i].of < server.next
          /\ \A j \in 1..Len(server.events) : server.events[j] = 0 \/ wire'[i].of < server.events[j]
    /\ \A i, j \in 1..Len(wire') : i < j /\ wire'[i].is = "id" /\ wire'[j].is = "id" => wire'[i].of < wire'[j].of
    /\ \A i \in 2..Len(wire') : wire'[i].is = "data" => wire'[i - 1] = Line("id", wire'[i].of)
    /\ wire' # <<>> /\ wire'[1].is = "data" => l = Line("id", wire'[1].of)
    /\ l.is = "id" =>
          /\ engine.lastID < l.of /\ l.of < server.next
          /\ \A j \in 1..Len(server.events) : server.events[j] = 0 \/ l.of < server.events[j]
          /\ \A i \in 1..Len(wire') : wire'[i].is = "id" => l.of < wire'[i].of
    /\ l.is = "data" =>
          /\ l.of = engine.lastID /\ engine.cur.data < engine.lastID
          /\ \A i \in 1..Len(heard) : heard[i].data < engine.lastID
    /\ calm => IsNth(l, LinesRead + 1) /\ \A i \in 1..Len(wire') : IsNth(wire'[i], LinesRead + 1 + i)

LEMMA WhatRemains ==
    ASSUME SsTypes, Comes, NothingMissing, engine.at = "stream", wire # <<>>, wire' = Tail(wire), NEW l, l = wire[1]
    PROVE  Remains(l)
<1>0. wire \in Seq(SsLines) /\ Reads /\ Len(heard) \in Nat  BY DEF SsTypes, Reads
<1>w. PICK w : w = wire  OBVIOUS
<1>t. PICK t : t = wire'  OBVIOUS
<1>n. PICK n : n = Len(w)  OBVIOUS
<1>m. PICK m : m = Len(t)  OBVIOUS
<1>1. n \in Nat \ {0} /\ m = n - 1 /\ \A i \in 1..m : i + 1 \in 2..n /\ t[i] = w[i + 1]
  <2>1. w \in Seq(SsLines) /\ w # <<>> /\ t = Tail(w)  BY <1>0, <1>w, <1>t
  <2> QED BY <1>n, <1>m, <2>1, HeadTail
<1>2. m \in Nat /\ 1 \in 1..n /\ \A i \in 1..m : i + 1 \in 1..n /\ 1 < i + 1  BY <1>1
<1>3. \A i \in 1..n : w[i].is = "id" =>
          /\ engine.lastID < w[i].of /\ w[i].of < server.next
          /\ \A j \in 1..Len(server.events) : server.events[j] = 0 \/ w[i].of < server.events[j]
  BY <1>0, <1>w, <1>n DEF Comes
<1>4. \A i, j \in 1..n : i < j /\ w[i].is = "id" /\ w[j].is = "id" => w[i].of < w[j].of  BY <1>0, <1>w, <1>n DEF Comes
<1>5. \A i \in 2..n : w[i].is = "data" => w[i - 1] = Line("id", w[i].of)  BY <1>0, <1>w, <1>n DEF Comes
<1>6. l = w[1]  BY <1>w
<1>7. \A i \in 1..m : t[i].is = "id" =>
          /\ engine.lastID < t[i].of /\ t[i].of < server.next
          /\ \A j \in 1..Len(server.events) : server.events[j] = 0 \/ t[i].of < server.events[j]
  BY <1>1, <1>2, <1>3
<1>8. \A i, j \in 1..m : i < j /\ t[i].is = "id" /\ t[j].is = "id" => t[i].of < t[j].of
  <2> SUFFICES ASSUME NEW i \in 1..m, NEW j \in 1..m, i < j, t[i].is = "id", t[j].is = "id" PROVE t[i].of < t[j].of  OBVIOUS
  <2>1. i + 1 \in 1..n /\ j + 1 \in 1..n /\ i + 1 < j + 1  BY <1>2
  <2>2. t[i] = w[i + 1] /\ t[j] = w[j + 1]  BY <1>1
  <2> QED BY <1>4, <2>1, <2>2
<1>9. \A i \in 2..m : t[i].is = "data" => t[i - 1] = Line("id", t[i].of)
  <2> SUFFICES ASSUME NEW i \in 2..m, t[i].is = "data" PROVE t[i - 1] = Line("id", t[i].of)  OBVIOUS
  <2>1. i \in 1..m /\ i - 1 \in 1..m /\ i + 1 \in 2..n /\ (i - 1) + 1 = i /\ (i + 1) - 1 = i  BY <1>1, <1>2
  <2>2. t[i] = w[i + 1] /\ t[i - 1] = w[i]
    <3>1. t[i] = w[i + 1]  BY <1>1, <2>1
    <3>2. t[i - 1] = w[(i - 1) + 1]  BY <1>1, <2>1
    <3> QED BY <2>1, <3>1, <3>2
  <2>3. w[(i + 1) - 1] = Line("id", w[i + 1].of)  BY <1>5, <2>1, <2>2
  <2> QED BY <2>1, <2>2, <2>3
<1>10. t # <<>> /\ t[1].is = "data" => l = Line("id", t[1].of)
  <2> SUFFICES ASSUME t # <<>>, t[1].is = "data" PROVE l = Line("id", t[1].of)  OBVIOUS
  <2>1. m # 0
    <3>1. t \in Seq(SsLines)
      <4>1. w \in Seq(SsLines) /\ w # <<>> /\ t = Tail(w)  BY <1>0, <1>w, <1>t
      <4> QED BY <4>1, HeadTail
    <3> HIDE DEF SsLines
    <3> QED BY <1>m, <3>1
  <2>2. 1 \in 1..m /\ 1 + 1 = 2 /\ 2 \in 2..n /\ 2 - 1 = 1  BY <1>1, <1>2, <2>1
  <2>3. t[1] = w[2]  BY <1>1, <2>2
  <2>4. w[2 - 1] = Line("id", w[2].of)  BY <1>5, <2>2, <2>3
  <2> QED BY <1>6, <2>2, <2>3, <2>4
<1>11. l.is = "id" =>
          /\ engine.lastID < l.of /\ l.of < server.next
          /\ \A j \in 1..Len(server.events) : server.events[j] = 0 \/ l.of < server.events[j]
          /\ \A i \in 1..m : t[i].is = "id" => l.of < t[i].of
  <2> SUFFICES ASSUME l.is = "id" PROVE /\ engine.lastID < l.of /\ l.of < server.next
                                        /\ \A j \in 1..Len(server.events) : server.events[j] = 0 \/ l.of < server.events[j]
                                        /\ \A i \in 1..m : t[i].is = "id" => l.of < t[i].of
    OBVIOUS
  <2>1. \A i \in 1..m : t[i].is = "id" => l.of < t[i].of  BY <1>1, <1>2, <1>4, <1>6
  <2> QED BY <1>2, <1>3, <1>6, <2>1
<1>12. l.is = "data" =>
          /\ l.of = engine.lastID /\ engine.cur.data < engine.lastID
          /\ \A i \in 1..Len(heard) : heard[i].data < engine.lastID
  BY <1>0 DEF Comes
<1>13. calm => IsNth(l, LinesRead + 1) /\ \A i \in 1..m : IsNth(t[i], LinesRead + 1 + i)
  <2> SUFFICES ASSUME calm PROVE IsNth(l, LinesRead + 1) /\ \A i \in 1..m : IsNth(t[i], LinesRead + 1 + i)  OBVIOUS
  <2>r. PICK r : r = LinesRead  OBVIOUS
  <2>1. \A i \in 1..n : IsNth(w[i], r + i)  BY <1>0, <1>w, <1>n, <2>r DEF NothingMissing
  <2>2. r \in Int
    <3>1. LinesRead \in Int  BY <1>0 DEF LinesRead
    <3> QED BY <2>r, <3>1
  <2>3. IsNth(l, r + 1)  BY <1>2, <1>6, <2>1
  <2>4. ASSUME NEW i \in 1..m PROVE IsNth(t[i], r + 1 + i)
    <3>1. i + 1 \in 1..n /\ t[i] = w[i + 1] /\ r + (i + 1) = r + 1 + i  BY <1>1, <1>2, <2>2
    <3>2. IsNth(w[i + 1], r + (i + 1))  BY <2>1, <3>1
    <3> QED BY <3>1, <3>2
  <2> QED BY <2>r, <2>3, <2>4
<1> QED
  <2>1. Len(wire') = m /\ Len(wire) = n /\ wire' = t  BY <1>w, <1>t, <1>n, <1>m
  <2>2. m \in Nat /\ m = n - 1 /\ n \in Nat  BY <1>1, <1>2
  <2> QED BY <1>7, <1>8, <1>9, <1>10, <1>11, <1>12, <1>13, <2>1, <2>2 DEF Remains

\* Which line of the n-th event it is.
LEMMA NthIs ==
    ASSUME NEW l, NEW h \in Nat, NEW c \in {0, 1, 2}, IsNth(l, 3 * h + c + 1)
    PROVE  /\ c = 0 => l = Line("id", h + 1)
           /\ c = 1 => l = Line("data", h + 1)
           /\ c = 2 => l = Line("blank", 0)
<1>1. PICK e \in Nat : \/ 3 * h + c + 1 = 3 * e + 1 /\ l = Line("id", e + 1)
                       \/ 3 * h + c + 1 = 3 * e + 2 /\ l = Line("data", e + 1)
                       \/ 3 * h + c + 1 = 3 * e + 3 /\ l = Line("blank", 0)
  BY DEF IsNth
<1>2. CASE 3 * h + c + 1 = 3 * e + 1 /\ l = Line("id", e + 1)
  <2>1. c = 0 /\ e = h  BY <1>2
  <2> QED BY <1>2, <2>1
<1>3. CASE 3 * h + c + 1 = 3 * e + 2 /\ l = Line("data", e + 1)
  <2>1. c = 1 /\ e = h  BY <1>3
  <2> QED BY <1>3, <2>1
<1>4. CASE 3 * h + c + 1 = 3 * e + 3 /\ l = Line("blank", 0)
  <2>1. c = 2 /\ e = h  BY <1>4
  <2> QED BY <1>4, <2>1
<1> QED BY <1>1, <1>2, <1>3, <1>4

\* While all is calm: where the engine is in the next event.
CalmAt(h, c) ==
    /\ h = Len(heard) /\ h \in Nat /\ c \in {0, 1, 2} /\ LinesRead = 3 * h + c
    /\ c = 0 => engine.cur = EmptyEvent /\ engine.lastID = h
    /\ c = 1 => engine.cur = [id |-> h + 1, data |-> 0] /\ engine.lastID = h + 1
    /\ c = 2 => engine.cur = [id |-> h + 1, data |-> h + 1] /\ engine.lastID = h + 1

LEMMA CalmReads ==
    ASSUME SsTypes, NothingMissing, calm, engine.at = "stream"
    PROVE  \E h \in Nat, c \in {0, 1, 2} : CalmAt(h, c)
<1>h. PICK h : h = Len(heard)  OBVIOUS
<1>1. h \in Nat /\ Reads  BY <1>h DEF SsTypes, Reads
<1>2. /\ engine.cur \in {EmptyEvent, [id |-> h + 1, data |-> 0], [id |-> h + 1, data |-> h + 1]}
      /\ engine.lastID = h + IF engine.cur = EmptyEvent THEN 0 ELSE 1
  BY <1>1, <1>h DEF NothingMissing
<1>3. LinesRead = 3 * h + IF engine.cur = EmptyEvent THEN 0 ELSE IF engine.cur.data = 0 THEN 1 ELSE 2
  BY <1>h DEF LinesRead
<1>4. CASE engine.cur = EmptyEvent
  <2>1. CalmAt(h, 0)  BY <1>1, <1>2, <1>3, <1>4, <1>h DEF CalmAt
  <2> QED BY <1>1, <2>1
<1>5. CASE engine.cur = [id |-> h + 1, data |-> 0]
  <2>1. engine.cur # EmptyEvent /\ engine.cur.data = 0  BY <1>1, <1>5 DEF EmptyEvent
  <2>2. CalmAt(h, 1)  BY <1>1, <1>2, <1>3, <1>5, <1>h, <2>1 DEF CalmAt
  <2> QED BY <1>1, <2>2
<1>6. CASE engine.cur = [id |-> h + 1, data |-> h + 1]
  <2>1. engine.cur # EmptyEvent /\ engine.cur.data # 0  BY <1>1, <1>6 DEF EmptyEvent
  <2>2. CalmAt(h, 2)  BY <1>1, <1>2, <1>3, <1>6, <1>h, <2>1 DEF CalmAt
  <2> QED BY <1>1, <2>2
<1> QED BY <1>2, <1>4, <1>5, <1>6

LEMMA NthKind ==
    ASSUME NEW l, NEW h \in Nat, NEW c \in {0, 1, 2}, IsNth(l, 3 * h + c + 1)
    PROVE  /\ l.is \in {"id", "data", "blank"} /\ (l.is = "id" => c = 0 /\ l = Line("id", h + 1))
           /\ (l.is = "data" => c = 1) /\ (l.is = "blank" => c = 2)
<1>1. CASE c = 0
  <2>1. l = Line("id", h + 1)  BY <1>1, NthIs
  <2>2. l.is = "id"  BY <2>1 DEF Line
  <2> QED BY <1>1, <2>1, <2>2
<1>2. CASE c = 1
  <2>1. l = Line("data", h + 1)  BY <1>2, NthIs
  <2>2. l.is = "data"  BY <2>1 DEF Line
  <2> QED BY <1>2, <2>2
<1>3. CASE c = 2
  <2>1. l = Line("blank", 0)  BY <1>3, NthIs
  <2>2. l.is = "blank"  BY <2>1 DEF Line
  <2> QED BY <1>3, <2>2
<1> QED BY <1>1, <1>2, <1>3

\* The steps that read the line l: what comes still follows what is heard, and
\* while all is calm the engine is one line further.
ReadsLine(l) ==
    /\ l \in SsLines /\ engine.at = "stream" /\ ~ streamDone /\ Remains(l)
    /\ UNCHANGED <<server, wireEnd, streamDone, listener, heard, asked, calm>>

LEMMA ReadsComes ==
    ASSUME SsTypes, HeardInOrder, Comes, NEW l, ReadsLine(l),
           l.is = "id" => engine'.lastID = l.of /\ engine'.cur.data = engine.cur.data,
           l.is # "id" => engine'.lastID = engine.lastID
    PROVE  Comes'
<1>0. /\ Reads /\ server' = server /\ heard' = heard /\ engine \in SsEngines /\ engine.lastID \in Nat /\ engine.cur.data \in Nat
      /\ heard \in Seq(SsEvents) /\ l.of \in Nat /\ Len(server.events) \in Nat
  <2>1. Reads /\ server' = server /\ heard' = heard /\ l \in SsLines  BY DEF ReadsLine, Reads
  <2>2. engine \in SsEngines /\ server \in SsServers /\ heard \in Seq(SsEvents)  BY DEF SsTypes
  <2>3. engine.lastID \in Nat /\ engine.cur.data \in Nat  BY <2>2 DEF SsEngines
  <2>4. l.of \in Nat  BY <2>1 DEF SsLines
  <2>5. Len(server.events) \in Nat
    <3>1. server.events \in Seq(Nat)  BY <2>2 DEF SsServers
    <3> QED BY <3>1
  <2> QED BY <2>1, <2>2, <2>3, <2>4, <2>5
<1>1. \A i \in 1..Len(heard) : heard[i].data \in Int
  <2>1. \A i \in 1..Len(heard) : heard[i] \in SsEvents  BY <1>0, LinesAre
  <2> QED BY <2>1 DEF SsEvents
<1>n. PICK n : n = engine'.lastID  OBVIOUS
<1>2. \A i \in 1..Len(wire') : wire'[i].is = "id" =>
          /\ n < wire'[i].of /\ wire'[i].of < server.next
          /\ \A j \in 1..Len(server.events) : server.events[j] = 0 \/ wire'[i].of < server.events[j]
  <2>1. CASE l.is = "id"  BY <1>n, <2>1 DEF ReadsLine, Remains
  <2>2. CASE l.is # "id"  BY <1>n, <2>2 DEF ReadsLine, Remains
  <2> QED BY <2>1, <2>2
<1>3. /\ n < server.next
      /\ \A j \in 1..Len(server.events) : server.events[j] = 0 \/ (n < server.events[j] /\ server.events[j] < server.next)
  <2>1. CASE l.is = "id"  BY <1>n, <1>0, <2>1 DEF ReadsLine, Remains, Comes
  <2>2. CASE l.is # "id"  BY <1>n, <1>0, <2>2 DEF Comes
  <2> QED BY <2>1, <2>2
<1>4. wire' # <<>> /\ wire'[1].is = "data" =>
          /\ wire'[1].of = n /\ engine'.cur.data < n
          /\ \A i \in 1..Len(heard) : heard[i].data < n
  <2> SUFFICES ASSUME wire' # <<>>, wire'[1].is = "data"
               PROVE  wire'[1].of = n /\ engine'.cur.data < n /\ \A i \in 1..Len(heard) : heard[i].data < n
    OBVIOUS
  <2>1. l.is = "id" /\ l.of = wire'[1].of  BY DEF ReadsLine, Remains, Line
  <2>2. n = l.of /\ engine.lastID < n /\ engine'.cur.data = engine.cur.data  BY <1>n, <2>1 DEF ReadsLine, Remains
  <2>3. engine.cur.data <= engine.lastID /\ \A i \in 1..Len(heard) : heard[i].data <= engine.lastID  BY DEF HeardInOrder
  <2>4. n \in Nat  BY <1>0, <2>2
  <2>5. engine.cur.data < n  BY <1>0, <2>2, <2>3, <2>4
  <2>6. \A i \in 1..Len(heard) : heard[i].data < n  BY <1>0, <1>1, <2>2, <2>3, <2>4
  <2> QED BY <2>1, <2>2, <2>5, <2>6
<1>5. /\ \A i, j \in 1..Len(wire') : i < j /\ wire'[i].is = "id" /\ wire'[j].is = "id" => wire'[i].of < wire'[j].of
      /\ \A i \in 2..Len(wire') : wire'[i].is = "data" => wire'[i - 1] = Line("id", wire'[i].of)
  BY DEF ReadsLine, Remains
<1>6. Len(server.events) <= 1  BY <1>0 DEF Comes
<1> QED BY <1>0, <1>n, <1>2, <1>3, <1>4, <1>5, <1>6 DEF Comes

LEMMA ReadsCalm ==
    ASSUME SsTypes, NothingMissing, calm, NEW l, ReadsLine(l), NEW h \in Nat, NEW c \in {0, 1, 2}, CalmAt(h, c),
           LinesRead' = LinesRead + 1, Reads', ~ engine'.isPing, engine'.lastID = h + 1,
           engine'.at \in {"stream", "emit"},
           engine'.at = "emit" => engine'.cur = [id |-> h + 1, data |-> h + 1] /\ emits'.then = "reset",
           engine'.at = "stream" => engine'.cur \in {[id |-> h + 1, data |-> 0], [id |-> h + 1, data |-> h + 1]}
    PROVE  NothingMissing'
<1>0. /\ Reads /\ server' = server /\ heard' = heard /\ wireEnd' = wireEnd /\ calm' = calm /\ h = Len(heard)
      /\ Len(wire) \in Nat /\ Len(wire') = Len(wire) - 1
  BY DEF ReadsLine, Reads, CalmAt, Remains
<1>r. PICK r : r = LinesRead  OBVIOUS
<1>1. r \in Int  BY <1>r DEF CalmAt
<1>2. \A i \in 1..Len(wire') : IsNth(wire'[i], LinesRead' + i)  BY <1>r DEF ReadsLine, Remains
<1>3. \E k \in Nat : LinesRead' + Len(wire') = 3 * k /\ (wireEnd = "open" => k = server.next - 1 - Len(server.events))
  <2>1. PICK k \in Nat : r + Len(wire) = 3 * k /\ (wireEnd = "open" => k = server.next - 1 - Len(server.events))
    BY <1>0, <1>r DEF NothingMissing
  <2>2. LinesRead' + Len(wire') = r + Len(wire)  BY <1>0, <1>1, <1>r
  <2> QED BY <2>1, <2>2
<1>4. engine'.cur # EmptyEvent  BY DEF EmptyEvent
<1>5. /\ wireEnd # "cut" /\ (wireEnd = "eof" => server.push = "over")
      /\ \A i \in 1..Len(server.events) : server.events[i] = server.next - 1 /\ server.next > 1
      /\ \A i \in 1..Len(heard) : heard[i] = [id |-> i, data |-> i]
  <2>1. engine.at # "over"  BY DEF ReadsLine
  <2> QED BY <1>0, <2>1 DEF NothingMissing
<1>6. IF engine'.at = "emit"
      THEN engine'.cur = [id |-> h + 1, data |-> h + 1] /\ emits'.then = "reset"
      ELSE engine'.cur \in {EmptyEvent, [id |-> h + 1, data |-> 0], [id |-> h + 1, data |-> h + 1]}
  OBVIOUS
<1>7. engine'.lastID = h + IF engine'.cur = EmptyEvent THEN 0 ELSE 1  BY <1>4
<1>8. engine'.at \notin {"retry", "wait", "answered", "over"}  OBVIOUS
<1> QED BY <1>0, <1>2, <1>3, <1>5, <1>6, <1>7, <1>8 DEF NothingMissing

LEMMA BlankKeeps == ASSUME SsInv, SsTypes', NEW l, ReadsLine(l), Blank(l) PROVE SsInv'
<1>0. /\ SsTypes /\ Waits /\ HeardInOrder /\ Comes /\ NothingMissing /\ engine \in SsEngines
      /\ UNCHANGED <<server, heard, calm, streamDone>> /\ l.is = "blank"
  BY DEF SsInv, SsTypes, ReadsLine, Blank
<1>1. /\ engine' = [engine EXCEPT !.at = "emit"]
      /\ emits' = [ev |-> engine.cur, then |-> "reset", data |-> 0]
  BY DEF Blank, Emit, EngineGoes
<1>2. /\ engine'.at = "emit" /\ engine'.cur = engine.cur /\ engine'.isPing = engine.isPing /\ engine'.lastID = engine.lastID
      /\ emits'.ev = engine.cur /\ emits'.then = "reset"
  BY <1>0, <1>1, EngineAt DEF EnginePlaces
<1>3. Waits' /\ HeardInOrder'  BY <1>0, <1>2 DEF Waits, HeardInOrder
<1>4. wire' # <<>> => wire'[1].is # "data"  BY <1>0 DEF ReadsLine, Remains, Line
<1>5. Emits'  BY <1>2, <1>4 DEF Emits
<1>6. Comes'  BY <1>0, <1>2, ReadsComes
<1>7. Reads'  BY <1>2 DEF Reads
<1>8. NothingMissing'
  <2>1. CASE ~ calm  BY <1>0, <2>1 DEF NothingMissing
  <2>2. CASE calm
    <3>0. engine.at = "stream"  BY DEF ReadsLine
    <3>1. PICK h \in Nat, c \in {0, 1, 2} : CalmAt(h, c)  BY <1>0, <2>2, <3>0, CalmReads
    <3>2. c = 2
      <4>1. IsNth(l, 3 * h + c + 1)  BY <2>2, <3>1 DEF CalmAt, ReadsLine, Remains
      <4> QED BY <1>0, <4>1, NthKind
    <3>3. LinesRead' = LinesRead + 1
      <4>1. LinesRead = 3 * h + 2 /\ Len(heard) = h  BY <3>1, <3>2 DEF CalmAt
      <4>2. LinesRead' = 3 * h + 3  BY <1>0, <1>2, <4>1 DEF LinesRead
      <4> QED BY <4>1, <4>2
    <3>4. ~ engine'.isPing  BY <1>2 DEF Blank
    <3>5. engine'.lastID = h + 1 /\ engine'.cur = [id |-> h + 1, data |-> h + 1]  BY <1>2, <3>1, <3>2 DEF CalmAt
    <3> QED BY <1>0, <1>2, <1>7, <2>2, <3>1, <3>3, <3>4, <3>5, ReadsCalm
  <2> QED BY <2>1, <2>2
<1> QED BY <1>3, <1>5, <1>6, <1>8 DEF SsInv

LEMMA NotCalm ==
    ASSUME SsTypes, NothingMissing, NEW l, ReadsLine(l), Pinged(l) \/ Ping(l) \/ Another(l)
    PROVE  ~ calm
<1> SUFFICES ASSUME calm PROVE FALSE  OBVIOUS
<1>1. engine.at = "stream" /\ ~ engine.isPing  BY DEF ReadsLine, NothingMissing
<1>2. PICK h \in Nat, c \in {0, 1, 2} : CalmAt(h, c)  BY <1>1, CalmReads
<1>3. IsNth(l, 3 * h + c + 1)  BY <1>2 DEF CalmAt, ReadsLine, Remains
<1>4. l.is = "data" => c = 1  BY <1>3, NthKind
<1>5. l.is # "ping"  BY <1>3, NthKind
<1>6. CASE Pinged(l)  BY <1>1, <1>6 DEF Pinged
<1>7. CASE Ping(l)  BY <1>5, <1>7 DEF Ping
<1>8. CASE Another(l)  BY <1>2, <1>4, <1>8 DEF Another, CalmAt
<1> QED BY <1>6, <1>7, <1>8

LEMMA PingKeeps == ASSUME SsInv, SsTypes', NEW l, ReadsLine(l), Pinged(l) \/ Ping(l) PROVE SsInv'
<1>0. /\ SsTypes /\ Waits /\ HeardInOrder /\ Comes /\ NothingMissing /\ engine \in SsEngines
      /\ UNCHANGED <<server, heard, calm, streamDone>> /\ l.is \in {"blank", "ping"} /\ engine.at = "stream"
  BY DEF SsInv, SsTypes, ReadsLine, Pinged, Ping
<1>1. /\ engine'.at = "stream" /\ engine'.lastID = engine.lastID /\ engine'.cur \in {engine.cur, EmptyEvent}
  BY <1>0 DEF Pinged, Ping, SsEngines
<1>2. Waits'  BY <1>0, <1>1 DEF Waits
<1>3. HeardInOrder'
  <2>1. CASE engine'.cur = engine.cur  BY <1>0, <1>1, <2>1 DEF HeardInOrder
  <2>2. CASE engine'.cur = EmptyEvent
    <3>1. engine'.cur.data = 0 /\ engine.lastID \in Nat  BY <1>0, <2>2 DEF EmptyEvent, SsEngines
    <3> QED BY <1>0, <1>1, <3>1 DEF HeardInOrder
  <2> QED BY <1>1, <2>1, <2>2
<1>4. Emits'  BY <1>1 DEF Emits
<1>5. Comes'  BY <1>0, <1>1, ReadsComes
<1>6. ~ calm  BY <1>0, NotCalm
<1>7. NothingMissing'  BY <1>0, <1>6 DEF NothingMissing
<1> QED BY <1>2, <1>3, <1>4, <1>5, <1>7 DEF SsInv

LEMMA AnotherKeeps == ASSUME SsInv, SsTypes', NEW l, ReadsLine(l), Another(l) PROVE SsInv'
<1>0. /\ SsTypes /\ Waits /\ HeardInOrder /\ Comes /\ NothingMissing /\ engine \in SsEngines /\ engine.cur.data \in Nat
      /\ UNCHANGED <<server, heard, calm, streamDone>> /\ l.is = "data" /\ engine.cur.data # 0
  BY DEF SsInv, SsTypes, ReadsLine, Another, SsEngines
<1>1. /\ engine' = [engine EXCEPT !.at = "emit"]
      /\ emits' = [ev |-> engine.cur, then |-> "append", data |-> l.of]
  BY DEF Another, Emit, EngineGoes
<1>2. /\ engine'.at = "emit" /\ engine'.cur = engine.cur /\ engine'.lastID = engine.lastID
      /\ emits'.ev = engine.cur /\ emits'.then = "append" /\ emits'.data = l.of
  BY <1>0, <1>1, EngineAt DEF EnginePlaces
<1>3. Waits' /\ HeardInOrder'  BY <1>0, <1>2 DEF Waits, HeardInOrder
<1>4. wire' # <<>> => wire'[1].is # "data"  BY <1>0 DEF ReadsLine, Remains, Line
<1>5. l.of = engine.lastID /\ engine.cur.data < engine.lastID /\ engine.lastID \in Nat /\ 0 < engine.cur.data
  <2>1. l.of = engine.lastID /\ engine.cur.data < engine.lastID  BY <1>0 DEF ReadsLine, Remains
  <2>2. engine.lastID \in Nat  BY <1>0 DEF SsEngines
  <2>3. 0 < engine.cur.data  BY <1>0
  <2> QED BY <2>1, <2>2, <2>3
<1>6. Emits'
  <2>1. emits'.data <= engine'.lastID /\ engine'.cur.data < emits'.data /\ 0 < engine'.cur.data  BY <1>2, <1>5
  <2> QED BY <1>2, <1>4, <2>1 DEF Emits
<1>7. Comes'  BY <1>0, <1>2, ReadsComes
<1>8. ~ calm  BY <1>0, NotCalm
<1>9. NothingMissing'  BY <1>0, <1>8 DEF NothingMissing
<1> QED BY <1>3, <1>6, <1>7, <1>9 DEF SsInv

LEMMA IdentKeeps == ASSUME SsInv, SsTypes', NEW l, ReadsLine(l), Ident(l) PROVE SsInv'
<1>0. /\ SsTypes /\ Waits /\ HeardInOrder /\ Comes /\ NothingMissing /\ engine \in SsEngines /\ engine.lastID \in Nat
      /\ UNCHANGED <<server, heard, calm, streamDone>> /\ l.is = "id" /\ engine.at = "stream" /\ l.of \in Nat
      /\ server.next \in Nat /\ heard \in Seq(SsEvents) /\ engine.cur.data \in Nat /\ LastEvent \in Nat
  BY EventStreamAssumption DEF SsInv, SsTypes, ReadsLine, Ident, SsEngines, SsLines, SsServers
<1>1. /\ engine'.at = "stream" /\ engine'.lastID = l.of /\ engine'.cur = [id |-> l.of, data |-> engine.cur.data]
      /\ engine'.isPing = engine.isPing
  BY <1>0 DEF Ident, SsEngines
<1>2. engine.lastID < l.of /\ l.of < server.next  BY <1>0 DEF ReadsLine, Remains
<1>3. Waits'  BY <1>0, <1>1, <1>2 DEF Waits
<1>4. \A i \in 1..Len(heard) : heard[i].data \in Int
  <2>1. \A i \in 1..Len(heard) : heard[i] \in SsEvents  BY <1>0, LinesAre
  <2> QED BY <2>1 DEF SsEvents
<1>5. HeardInOrder'
  <2>1. engine'.cur.data = engine.cur.data /\ engine'.lastID = l.of /\ heard' = heard  BY <1>0, <1>1
  <2>2. ASSUME NEW i \in 1..Len(heard) PROVE heard[i].data <= l.of
    <3>1. heard[i].data \in Int /\ heard[i].data <= engine.lastID  BY <1>0, <1>4 DEF HeardInOrder
    <3>2. engine.lastID \in Nat /\ l.of \in Nat /\ engine.lastID < l.of  BY <1>0, <1>2
    <3> QED BY <3>1, <3>2
  <2>3. engine.cur.data <= l.of  BY <1>0, <1>2 DEF HeardInOrder
  <2> QED BY <1>0, <2>1, <2>2, <2>3 DEF HeardInOrder
<1>6. Emits'  BY <1>1 DEF Emits
<1>7. Comes'
  <2>1. engine'.cur.data = engine.cur.data  BY <1>1
  <2> QED BY <1>0, <1>1, <2>1, ReadsComes
<1>8. Reads'  BY <1>1 DEF Reads
<1>9. NothingMissing'
  <2>1. CASE ~ calm  BY <1>0, <2>1 DEF NothingMissing
  <2>2. CASE calm
    <3>1. PICK h \in Nat, c \in {0, 1, 2} : CalmAt(h, c)  BY <1>0, <2>2, CalmReads
    <3>2. c = 0 /\ l = Line("id", h + 1)
      <4>1. IsNth(l, 3 * h + c + 1)  BY <2>2, <3>1 DEF CalmAt, ReadsLine, Remains
      <4> QED BY <1>0, <4>1, NthKind
    <3>3. l.of = h + 1 /\ engine'.cur = [id |-> h + 1, data |-> 0]
      BY <1>1, <3>1, <3>2 DEF Line, CalmAt, EmptyEvent
    <3>4. LinesRead' = LinesRead + 1
      <4>1. LinesRead = 3 * h /\ Len(heard) = h  BY <3>1, <3>2 DEF CalmAt
      <4>2. engine'.cur # EmptyEvent /\ engine'.cur.data = 0  BY <3>3 DEF EmptyEvent
      <4>3. LinesRead' = 3 * h + 1  BY <1>0, <1>1, <4>1, <4>2 DEF LinesRead
      <4> QED BY <4>1, <4>3
    <3>5. ~ engine'.isPing  BY <1>0, <1>1, <2>2 DEF NothingMissing
    <3> QED BY <1>0, <1>1, <1>8, <2>2, <3>1, <3>3, <3>4, <3>5, ReadsCalm
  <2> QED BY <2>1, <2>2
<1> QED BY <1>3, <1>5, <1>6, <1>7, <1>9 DEF SsInv

LEMMA DataKeeps == ASSUME SsInv, SsTypes', NEW l, ReadsLine(l), Data(l) PROVE SsInv'
<1>0. /\ SsTypes /\ Waits /\ HeardInOrder /\ Comes /\ NothingMissing /\ engine \in SsEngines /\ engine.lastID \in Nat
      /\ UNCHANGED <<server, heard, calm, streamDone>> /\ l.is = "data" /\ engine.at = "stream" /\ engine.cur.data = 0
  BY DEF SsInv, SsTypes, ReadsLine, Data, SsEngines
<1>1. /\ engine'.at = "stream" /\ engine'.lastID = engine.lastID /\ engine'.cur = [id |-> engine.cur.id, data |-> l.of]
      /\ engine'.isPing = engine.isPing
  BY <1>0 DEF Data, SsEngines
<1>2. l.of = engine.lastID /\ \A i \in 1..Len(heard) : heard[i].data < engine.lastID  BY <1>0 DEF ReadsLine, Remains
<1>3. Waits'  BY <1>0, <1>1 DEF Waits
<1>4. HeardInOrder'
  <2>1. engine'.cur.data = engine.lastID /\ engine'.lastID = engine.lastID /\ heard' = heard  BY <1>0, <1>1, <1>2
  <2> QED BY <1>0, <1>2, <2>1 DEF HeardInOrder
<1>5. Emits'  BY <1>1 DEF Emits
<1>6. Comes'  BY <1>0, <1>1, ReadsComes
<1>7. Reads'  BY <1>1 DEF Reads
<1>8. NothingMissing'
  <2>1. CASE ~ calm  BY <1>0, <2>1 DEF NothingMissing
  <2>2. CASE calm
    <3>1. PICK h \in Nat, c \in {0, 1, 2} : CalmAt(h, c)  BY <1>0, <2>2, CalmReads
    <3>2. c = 1
      <4>1. IsNth(l, 3 * h + c + 1)  BY <2>2, <3>1 DEF CalmAt, ReadsLine, Remains
      <4> QED BY <1>0, <4>1, NthKind
    <3>3. engine.lastID = h + 1 /\ engine'.cur = [id |-> h + 1, data |-> h + 1]
      BY <1>1, <1>2, <3>1, <3>2 DEF CalmAt
    <3>4. LinesRead' = LinesRead + 1
      <4>1. LinesRead = 3 * h + 1 /\ Len(heard) = h  BY <3>1, <3>2 DEF CalmAt
      <4>2. engine'.cur # EmptyEvent /\ engine'.cur.data # 0  BY <3>3 DEF EmptyEvent
      <4>3. LinesRead' = 3 * h + 2  BY <1>0, <1>1, <4>1, <4>2 DEF LinesRead
      <4> QED BY <4>1, <4>3
    <3>5. ~ engine'.isPing  BY <1>0, <1>1, <2>2 DEF NothingMissing
    <3> QED BY <1>0, <1>1, <1>7, <2>2, <3>1, <3>3, <3>4, <3>5, ReadsCalm
  <2> QED BY <2>1, <2>2
<1> QED BY <1>3, <1>4, <1>5, <1>6, <1>8 DEF SsInv

LEMMA ReadLineKeeps == ASSUME SsInv, ReadLine PROVE SsInv'
<1>0. SsTypes /\ Comes /\ NothingMissing  BY DEF SsInv
<1>1. SsTypes'  BY <1>0, ReadLineTypes
<1>2. PICK l \in SsLines :
         /\ l = wire[1] /\ l = Head(wire) /\ wire # <<>> /\ wire' = Tail(wire) /\ engine.at = "stream" /\ ~ streamDone
         /\ Blank(l) \/ Pinged(l) \/ Ping(l) \/ Ident(l) \/ Another(l) \/ Data(l)
         /\ UNCHANGED <<server, wireEnd, streamDone, listener, heard, asked, calm>>
  BY <1>0, ReadLineIs
<1>3. Remains(l)  BY <1>0, <1>2, WhatRemains
<1>4. ReadsLine(l)  BY <1>2, <1>3 DEF ReadsLine
<1>5. Blank(l) => SsInv'  BY <1>1, <1>4, BlankKeeps
<1>6. Pinged(l) \/ Ping(l) => SsInv'  BY <1>1, <1>4, PingKeeps
<1>7. Ident(l) => SsInv'  BY <1>1, <1>4, IdentKeeps
<1>8. Another(l) => SsInv'  BY <1>1, <1>4, AnotherKeeps
<1>9. Data(l) => SsInv'  BY <1>1, <1>4, DataKeeps
<1> QED BY <1>2, <1>5, <1>6, <1>7, <1>8, <1>9

LEMMA Appended ==
    ASSUME NEW F, NEW s \in Seq(F), NEW e \in F, NEW t, t = Append(s, e)
    PROVE  /\ t \in Seq(F) /\ Len(s) \in Nat /\ Len(t) = Len(s) + 1 /\ t[Len(s) + 1] = e
           /\ \A i \in 1..Len(s) : t[i] = s[i] /\ s[i] \in F
           /\ \A i \in 1..Len(t) : i \in 1..Len(s) \/ i = Len(s) + 1
OBVIOUS

\* fn is called with the event e.
Hears(e) ==
    /\ e \in SsEvents /\ heard \in Seq(SsEvents)
    /\ Len(heard) \in Nat /\ Len(heard') = Len(heard) + 1 /\ heard'[Len(heard) + 1] = e
    /\ \A i \in 1..Len(heard) : heard'[i] = heard[i] /\ heard[i].data \in Int
    /\ \A i \in 1..Len(heard') : i \in 1..Len(heard) \/ i = Len(heard) + 1

LEMMA EmittedHears ==
    ASSUME SsTypes, Emitted
    PROVE  Hears(emits.ev) /\ emits.ev.data \in Nat /\ emits.data \in Nat /\ UNCHANGED <<server, wire, wireEnd, emits, asked, calm>>
           /\ engine.at = "emit"
<1>1. emits.ev \in [id : Nat, data : Nat] /\ emits.data \in Nat /\ heard \in Seq(SsEvents)  BY DEF SsTypes
<1>2. emits.ev \in SsEvents  BY <1>1 DEF SsEvents
<1>3. PICK e : e = emits.ev  OBVIOUS
<1>4. PICK t : t = heard'  OBVIOUS
<1>5. t = Append(heard, e)  BY <1>3, <1>4 DEF Emitted
<1>6. /\ Len(heard) \in Nat /\ Len(t) = Len(heard) + 1 /\ t[Len(heard) + 1] = e
      /\ \A i \in 1..Len(heard) : t[i] = heard[i] /\ heard[i] \in SsEvents
      /\ \A i \in 1..Len(t) : i \in 1..Len(heard) \/ i = Len(heard) + 1
  <2>1. e \in SsEvents  BY <1>2, <1>3
  <2> QED BY <1>1, <1>5, <2>1, Appended
<1>7. \A i \in 1..Len(heard) : heard[i].data \in Int  BY <1>6 DEF SsEvents
<1> QED BY <1>1, <1>2, <1>3, <1>4, <1>6, <1>7 DEF Hears, Emitted

LEMMA HearsInOrder ==
    ASSUME HeardInOrder, SsTypes, NEW e, Hears(e), e.data \in Nat, NEW n \in Nat,
           e.data > 0 => \A i \in 1..Len(heard) : heard[i].data < e.data,
           e.data <= engine.lastID, engine'.lastID = engine.lastID, engine'.cur.data = n, n <= engine.lastID,
           n > 0 => e.data < n /\ e.data > 0
    PROVE  HeardInOrder'
<1>0. engine.lastID \in Nat /\ Len(heard) \in Nat  BY DEF SsTypes, SsEngines
<1>1. \A i, j \in 1..Len(heard') : i < j /\ heard'[i].data > 0 /\ heard'[j].data > 0 => heard'[i].data < heard'[j].data
  <2> SUFFICES ASSUME NEW i \in 1..Len(heard'), NEW j \in 1..Len(heard'), i < j, heard'[i].data > 0, heard'[j].data > 0
               PROVE  heard'[i].data < heard'[j].data
    OBVIOUS
  <2>1. i \in 1..Len(heard) \/ i = Len(heard) + 1  BY DEF Hears
  <2>2. j \in 1..Len(heard) \/ j = Len(heard) + 1  BY DEF Hears
  <2>3. i \in 1..Len(heard)  BY <1>0, <2>1, <2>2
  <2>4. heard'[i] = heard[i]  BY <2>3 DEF Hears
  <2>5. CASE j \in 1..Len(heard)
    <3>1. heard'[j] = heard[j]  BY <2>5 DEF Hears
    <3> QED BY <2>3, <2>4, <2>5, <3>1 DEF HeardInOrder
  <2>6. CASE j = Len(heard) + 1
    <3>1. heard'[j] = e  BY <2>6 DEF Hears
    <3> QED BY <2>3, <2>4, <3>1
  <2> QED BY <2>2, <2>5, <2>6
<1>2. ASSUME NEW i \in 1..Len(heard') PROVE heard'[i].data <= engine.lastID /\ (n > 0 => heard'[i].data < n)
  <2>1. CASE i \in 1..Len(heard)
    <3>1. heard'[i] = heard[i] /\ heard[i].data \in Int  BY <2>1 DEF Hears
    <3>2. heard[i].data <= engine.lastID  BY <2>1 DEF HeardInOrder
    <3>3. n > 0 => heard[i].data < n
      <4>1. n > 0 => heard[i].data < e.data /\ e.data < n  BY <2>1
      <4> QED BY <3>1, <4>1
    <3> QED BY <3>1, <3>2, <3>3
  <2>2. CASE i = Len(heard) + 1
    <3>1. heard'[i] = e  BY <2>2 DEF Hears
    <3> QED BY <3>1
  <2>3. i \in 1..Len(heard) \/ i = Len(heard) + 1  BY DEF Hears
  <2> QED BY <2>1, <2>2, <2>3
<1> QED BY <1>1, <1>2 DEF HeardInOrder

LEMMA HearsTrue ==
    ASSUME NothingMissing, calm, NEW e, Hears(e), e = [id |-> Len(heard) + 1, data |-> Len(heard) + 1], engine.at # "over"
    PROVE  \A i \in 1..Len(heard') : heard'[i] = [id |-> i, data |-> i]
<1> SUFFICES ASSUME NEW i \in 1..Len(heard') PROVE heard'[i] = [id |-> i, data |-> i]  OBVIOUS
<1>1. CASE i \in 1..Len(heard)
  <2>1. heard[i] = [id |-> i, data |-> i]  BY <1>1 DEF NothingMissing
  <2>2. heard'[i] = heard[i]  BY <1>1 DEF Hears
  <2> QED BY <2>1, <2>2
<1>2. CASE i = Len(heard) + 1
  <2>1. heard'[i] = e  BY <1>2 DEF Hears
  <2> QED BY <1>2, <2>1
<1>3. i \in 1..Len(heard) \/ i = Len(heard) + 1  BY DEF Hears
<1> QED BY <1>1, <1>2, <1>3

LEMMA OverKeeps == ASSUME SsInv, SsTypes', Emitted, Over PROVE SsInv'
<1>0. /\ SsTypes /\ Waits /\ HeardInOrder /\ Emits /\ NothingMissing /\ engine \in SsEngines /\ engine.lastID \in Nat
      /\ engine.cur.data \in Nat
  BY DEF SsInv, SsTypes, SsEngines
<1>1. Hears(emits.ev) /\ UNCHANGED <<server, calm>> /\ engine.at = "emit"  BY <1>0, EmittedHears
<1>2. engine' = [engine EXCEPT !.at = "over"]  BY DEF Over
<1>3. engine'.at = "over" /\ engine'.cur = engine.cur /\ engine'.lastID = engine.lastID /\ engine'.isPing = engine.isPing
  BY <1>0, <1>2, EngineAt DEF EnginePlaces
<1>4. emits.ev.data = 0  BY <1>0, <1>1 DEF Over, Emits, EmptyEvent
<1>5. \A i \in 1..Len(heard') : (i \in 1..Len(heard) /\ heard'[i] = heard[i]) \/ heard'[i].data = 0
  BY <1>1, <1>4 DEF Hears
<1>6. HeardInOrder'
  <2>1. \A i, j \in 1..Len(heard') : i < j /\ heard'[i].data > 0 /\ heard'[j].data > 0 => heard'[i].data < heard'[j].data
    BY <1>0, <1>5 DEF HeardInOrder
  <2>2. \A i \in 1..Len(heard') : heard'[i].data <= engine.lastID  BY <1>0, <1>5 DEF HeardInOrder
  <2>3. engine.cur.data > 0 => \A i \in 1..Len(heard') : heard'[i].data < engine.cur.data  BY <1>0, <1>5 DEF HeardInOrder
  <2> QED BY <1>0, <1>3, <2>1, <2>2, <2>3 DEF HeardInOrder
<1>7. Waits'  BY <1>0, <1>1, <1>3 DEF Waits
<1>8. Emits' /\ ~ Reads'  BY <1>3 DEF Emits, Reads
<1>9. NothingMissing'
  <2>1. calm => \A i \in 1..Len(heard') : heard'[i].data > 0 => heard'[i] = [id |-> i, data |-> i]
    BY <1>0, <1>5 DEF NothingMissing
  <2>2. calm => ~ engine'.isPing  BY <1>0, <1>3 DEF NothingMissing
  <2> QED BY <1>1, <1>3, <1>8, <2>1, <2>2 DEF NothingMissing
<1> QED BY <1>6, <1>7, <1>8, <1>9 DEF SsInv, Comes

LEMMA GoesOn ==
    ASSUME SsInv, Emitted, engine.at = "emit", emits.then # "shut", engine'.at = "stream", engine'.lastID = engine.lastID
    PROVE  Waits' /\ Emits' /\ Comes' /\ Reads /\ Reads'
<1>0. Waits /\ Emits /\ Comes  BY DEF SsInv
<1>1. UNCHANGED <<server, wire>>  BY DEF Emitted
<1>2. Reads /\ Reads'  BY DEF Reads
<1>3. wire # <<>> => wire[1].is # "data"  BY <1>0 DEF Emits
<1>4. Waits' /\ Emits'  BY <1>0, <1>1 DEF Waits, Emits
<1>5. Comes'  BY <1>0, <1>1, <1>2, <1>3 DEF Comes
<1> QED BY <1>2, <1>4, <1>5

LEMMA RenewedKeeps == ASSUME SsInv, SsTypes', Emitted, Renewed PROVE SsInv'
<1>0. /\ SsTypes /\ HeardInOrder /\ Emits /\ NothingMissing /\ engine \in SsEngines /\ engine.lastID \in Nat
      /\ engine.cur.data \in Nat
  BY DEF SsInv, SsTypes, SsEngines
<1>1. Hears(emits.ev) /\ UNCHANGED <<server, wire, wireEnd, calm>> /\ engine.at = "emit" /\ streamDone' = streamDone
  BY <1>0, EmittedHears DEF Renewed
<1>2. engine'.at = "stream" /\ engine'.cur = EmptyEvent /\ ~ engine'.isPing /\ engine'.lastID = engine.lastID /\ emits.then = "reset"
  BY <1>0 DEF Renewed, SsEngines
<1>3. emits.ev = engine.cur  BY <1>0, <1>1, <1>2 DEF Emits
<1>c. PICK e : e = engine.cur  OBVIOUS
<1>4. Hears(e) /\ e.data \in Nat /\ e.data <= engine.lastID /\ (e.data > 0 => \A i \in 1..Len(heard) : heard[i].data < e.data)
  BY <1>0, <1>1, <1>3, <1>c DEF HeardInOrder
<1>5. HeardInOrder'
  <2>1. engine'.cur.data = 0 /\ 0 <= engine.lastID /\ ~ (0 > 0)  BY <1>0, <1>2 DEF EmptyEvent
  <2> QED BY <1>0, <1>2, <1>4, <2>1, HearsInOrder
<1>6. Waits' /\ Emits' /\ Comes' /\ Reads /\ Reads'  BY <1>1, <1>2, GoesOn
<1>7. NothingMissing'
  <2>1. CASE ~ calm  BY <1>1, <2>1 DEF NothingMissing
  <2>2. CASE calm
    <3>h. PICK h : h = Len(heard)  OBVIOUS
    <3>0. h \in Nat /\ Len(heard') = h + 1  BY <1>1, <3>h DEF Hears
    <3>1. e = [id |-> h + 1, data |-> h + 1] /\ engine.lastID = h + 1
      <4>1. engine.cur = [id |-> h + 1, data |-> h + 1]  BY <1>0, <1>1, <1>6, <2>2, <3>h DEF NothingMissing
      <4>2. engine.cur # EmptyEvent  BY <3>0, <4>1 DEF EmptyEvent
      <4>3. engine.lastID = h + 1  BY <1>0, <1>6, <2>2, <3>h, <4>2 DEF NothingMissing
      <4> QED BY <1>c, <4>1, <4>3
    <3>2. \A i \in 1..Len(heard') : heard'[i] = [id |-> i, data |-> i]
      <4>1. engine.at # "over"  BY <1>1
      <4> QED BY <1>0, <1>4, <2>2, <3>h, <3>1, <4>1, HearsTrue
    <3>3. LinesRead' = LinesRead
      <4>1. LinesRead = 3 * h + 3  BY <1>1, <3>h DEF LinesRead
      <4>2. LinesRead' = 3 * (h + 1) + 0  BY <1>2, <3>0 DEF LinesRead
      <4> QED BY <3>0, <4>1, <4>2
    <3>4. engine'.lastID = Len(heard') + 0  BY <1>2, <3>0, <3>1
    <3> QED BY <1>0, <1>1, <1>2, <1>6, <2>2, <3>2, <3>3, <3>4 DEF NothingMissing
  <2> QED BY <2>1, <2>2
<1> QED BY <1>5, <1>6, <1>7 DEF SsInv

LEMMA BegunKeeps == ASSUME SsInv, SsTypes', Emitted, Begun PROVE SsInv'
<1>0. /\ SsTypes /\ HeardInOrder /\ Emits /\ NothingMissing /\ engine \in SsEngines /\ engine.lastID \in Nat
      /\ engine.cur.data \in Nat
  BY DEF SsInv, SsTypes, SsEngines
<1>1. Hears(emits.ev) /\ UNCHANGED <<server, wire, wireEnd, calm>> /\ engine.at = "emit" /\ emits.data \in Nat
  BY <1>0, EmittedHears
<1>2. engine'.at = "stream" /\ engine'.cur.data = emits.data /\ engine'.lastID = engine.lastID /\ emits.then = "append"
  BY <1>0 DEF Begun, SsEngines
<1>3. emits.ev = engine.cur /\ 0 < engine.cur.data /\ engine.cur.data < emits.data /\ emits.data <= engine.lastID
  BY <1>0, <1>1, <1>2 DEF Emits
<1>c. PICK e : e = engine.cur  OBVIOUS
<1>4. Hears(e) /\ e.data \in Nat /\ e.data <= engine.lastID /\ (e.data > 0 => \A i \in 1..Len(heard) : heard[i].data < e.data)
  BY <1>0, <1>1, <1>3, <1>c DEF HeardInOrder
<1>5. HeardInOrder'
  <2>1. emits.data > 0 => e.data < emits.data /\ e.data > 0  BY <1>3, <1>4, <1>c
  <2> QED BY <1>0, <1>1, <1>2, <1>3, <1>4, <2>1, HearsInOrder
<1>6. Waits' /\ Emits' /\ Comes' /\ Reads /\ Reads'  BY <1>1, <1>2, GoesOn
<1>7. ~ calm  BY <1>0, <1>1, <1>2, <1>6 DEF NothingMissing
<1>8. NothingMissing'  BY <1>1, <1>7 DEF NothingMissing
<1> QED BY <1>5, <1>6, <1>8 DEF SsInv

LEMMA EmittedKeeps == ASSUME SsInv, Emitted PROVE SsInv'
<1>1. SsTypes /\ Emits  BY DEF SsInv
<1>2. SsTypes'  BY <1>1, EmittedTypes
<1>3. Over \/ Renewed \/ Begun  BY <1>1, EmittedIs
<1> QED BY <1>2, <1>3, OverKeeps, RenewedKeeps, BegunKeeps

\* The request that asks for what follows.
LEMMA ServesIs ==
    ASSUME NEW f \in Nat, NEW s, s = ServesAfter(f)
    PROVE  /\ s \in SsServers /\ s.events = <<>> /\ s.next = f + 1 /\ s.sender = "send" /\ s.push = "loop"
<1>1. <<>> \in Seq(Nat)  OBVIOUS
<1>2. PICK v : v \in Seq(Nat) /\ v = <<>>  BY <1>1
<1>3. s = [events |-> v, stopping |-> FALSE, canceled |-> FALSE, gone |-> FALSE, next |-> f + 1, sender |-> "send", push |-> "loop"]
  BY <1>2 DEF ServesAfter, NoServer
<1> QED BY <1>2, <1>3 DEF SsServers

LEMMA DialsIs ==
    ASSUME SsTypes, Dials
    PROVE  /\ UNCHANGED <<emits, streamDone, listener, heard, calm>> /\ engine.at = "wait" /\ engine'.at = "answered"
           /\ engine' \in SsEngines /\ engine'.cur = engine.cur /\ engine'.isPing = engine.isPing /\ engine'.lastID = engine.lastID
           /\ asked' \in SsAsked
           /\ \/ engine.lastID < LastEvent /\ server' = ServesAfter(engine.lastID) /\ wire' = <<>> /\ wireEnd' = "open"
              \/ engine'.answer # "stream" /\ UNCHANGED <<server, wire, wireEnd>>
<1>1. engine \in SsEngines  BY DEF SsTypes
<1>2. PICK a \in {"stream", "nothing", "error", "other"} :
         /\ engine' = [engine EXCEPT !.at = "answered", !.answer = a]
         /\ \/ engine.lastID < LastEvent /\ server' = ServesAfter(engine.lastID) /\ wire' = <<>> /\ wireEnd' = "open"
            \/ a # "stream" /\ UNCHANGED <<server, wire, wireEnd>>
  BY DEF Dials, LastEventID
<1>3. /\ engine' \in SsEngines /\ engine'.at = "answered" /\ engine'.answer = a /\ engine'.cur = engine.cur
      /\ engine'.isPing = engine.isPing /\ engine'.lastID = engine.lastID
  BY <1>1, <1>2 DEF SsEngines
<1>4. asked' \in SsAsked
  <2>1. asked \in SsAsked /\ asked' = [asked EXCEPT !.dials = asked.dials + 1]  BY DEF SsTypes, SsAsked, Dials
  <2>2. asked.dials + 1 \in Nat  BY <2>1 DEF SsAsked
  <2> QED BY <2>1, <2>2 DEF SsAsked
<1>5. UNCHANGED <<emits, streamDone, listener, heard, calm>> /\ engine.at = "wait"  BY DEF Dials
<1> QED BY <1>2, <1>3, <1>4, <1>5

LEMMA NoLines == <<>> \in Seq(SsLines) /\ Len(<<>>) = 0
<1> HIDE DEF SsLines
<1> QED OBVIOUS

LEMMA DialsKeeps == ASSUME SsInv, Dials PROVE SsInv'
<1>0. /\ SsTypes /\ Waits /\ HeardInOrder /\ NothingMissing /\ engine \in SsEngines /\ engine.lastID \in Nat
      /\ Len(heard) \in Nat /\ LastEvent \in Nat
  BY EventStreamAssumption DEF SsInv, SsTypes, SsEngines
<1>1. /\ UNCHANGED <<emits, streamDone, listener, heard, calm>> /\ engine.at = "wait" /\ engine'.at = "answered"
      /\ engine' \in SsEngines /\ engine'.cur = engine.cur /\ engine'.isPing = engine.isPing /\ engine'.lastID = engine.lastID
      /\ asked' \in SsAsked
  BY <1>0, DialsIs
<1>2. \/ engine.lastID < LastEvent /\ server' = ServesAfter(engine.lastID) /\ wire' = <<>> /\ wireEnd' = "open"
      \/ engine'.answer # "stream" /\ UNCHANGED <<server, wire, wireEnd>>
  BY <1>0, DialsIs
<1>3. HeardInOrder' /\ Emits'  BY <1>0, <1>1 DEF HeardInOrder, Emits
<1>4. CASE engine.lastID < LastEvent /\ server' = ServesAfter(engine.lastID) /\ wire' = <<>> /\ wireEnd' = "open"
  <2>s. PICK s : s = server'  OBVIOUS
  <2>1. s \in SsServers /\ s.events = <<>> /\ s.next = engine.lastID + 1 /\ s.sender = "send" /\ s.push = "loop"
    BY <1>0, <1>4, <2>s, ServesIs
  <2>2. /\ server' \in SsServers /\ server'.next = engine.lastID + 1 /\ server'.sender = "send" /\ server'.push = "loop"
    BY <2>1, <2>s
  <2>3. Len(server'.events) = 0  BY <2>1, <2>s, NoLines
  <2>4. wire' \in Seq(SsLines) /\ Len(wire') = 0  BY <1>4, NoLines
  <2>5. SsTypes'  BY <1>0, <1>1, <1>4, <2>2, <2>4 DEF SsTypes, SsAsked
  <2>6. Waits'  BY <1>0, <1>1, <1>4, <2>2 DEF Waits
  <2>7. (\A i \in 1..Len(wire') : FALSE) /\ (\A i \in 2..Len(wire') : FALSE) /\ (\A i \in 1..Len(server'.events) : FALSE)
    BY <2>3, <2>4
  <2>8. Comes'
    <3>1. engine'.lastID < server'.next  BY <1>0, <1>1, <2>2
    <3>2. Len(server'.events) <= 1  BY <2>3
    <3> QED BY <1>4, <2>7, <3>1, <3>2 DEF Comes
  <2>9. NothingMissing'
    <3> SUFFICES ASSUME calm PROVE NothingMissing'  BY <1>1 DEF NothingMissing
    <3>1. ~ streamDone => engine.cur = EmptyEvent /\ engine.lastID = Len(heard)  BY <1>0, <1>1 DEF NothingMissing
    <3>2. ~ engine'.isPing /\ \A i \in 1..Len(heard) : heard[i] = [id |-> i, data |-> i]  BY <1>0, <1>1 DEF NothingMissing
    <3>3. Reads' => ~ streamDone  BY <1>1 DEF Reads
    <3>4. CASE streamDone  BY <1>0, <1>1, <3>2, <3>3, <3>4 DEF NothingMissing
    <3>5. CASE ~ streamDone
      <4>h. PICK h : h = Len(heard)  OBVIOUS
      <4>1. h \in Nat /\ engine.lastID = h /\ engine.cur = EmptyEvent  BY <1>0, <3>1, <3>5, <4>h
      <4>2. LinesRead' = 3 * h + 0  BY <1>1, <4>1, <4>h DEF LinesRead
      <4>3. LinesRead' + Len(wire') = 3 * h /\ h = server'.next - 1 - Len(server'.events)  BY <2>2, <2>3, <2>4, <4>1, <4>2
      <4>4. \E k \in Nat : LinesRead' + Len(wire') = 3 * k /\ (wireEnd' = "open" => k = server'.next - 1 - Len(server'.events))
        BY <4>1, <4>3
      <4>5. engine'.lastID = Len(heard) + 0  BY <1>1, <4>1, <4>h
      <4> QED BY <1>0, <1>1, <1>4, <2>7, <3>1, <3>2, <3>5, <4>4, <4>5 DEF NothingMissing
    <3> QED BY <3>4, <3>5
  <2> QED BY <1>3, <2>5, <2>6, <2>8, <2>9 DEF SsInv
<1>5. CASE engine'.answer # "stream" /\ UNCHANGED <<server, wire, wireEnd>>
  <2>1. SsTypes'  BY <1>0, <1>1, <1>5 DEF SsTypes, SsAsked
  <2>2. Waits'  BY <1>0, <1>1, <1>5 DEF Waits
  <2>3. ~ Reads'  BY <1>1, <1>5 DEF Reads
  <2>4. NothingMissing'  BY <1>0, <1>1, <2>3 DEF NothingMissing
  <2> QED BY <1>3, <2>1, <2>2, <2>3, <2>4 DEF SsInv, Comes
<1> QED BY <1>2, <1>4, <1>5

LEMMA StreamStarts == ASSUME SsInit PROVE SsInv
<1>0. LastEvent \in Nat  BY EventStreamAssumption
<1>f. 0 \in Nat  OBVIOUS
<1>1. /\ server \in SsServers /\ server.events = <<>> /\ server.next = 0 + 1 /\ server.sender = "send" /\ server.push = "loop"
  <2>1. server = ServesAfter(0)  BY DEF SsInit
  <2> QED BY <1>f, <2>1, ServesIs
<1>2. /\ wire = <<>> /\ wireEnd = "open" /\ streamDone = FALSE /\ listener = "first" /\ heard = <<>> /\ calm = TRUE
      /\ asked = [dials |-> 1, cuts |-> 0, pings |-> 0]
  BY DEF SsInit
<1>3. PICK n \in {-1} \cup RetryNums :
        engine = [at |-> "answered", answer |-> "stream", cur |-> EmptyEvent, isPing |-> FALSE, lastID |-> 0, retryNum |-> n]
  BY DEF SsInit
<1>4. n \in Int
  <2>1. RetryNums \subseteq Nat  BY EventStreamAssumption
  <2>2. n = -1 \/ n \in RetryNums  OBVIOUS
  <2> QED BY <2>1, <2>2
<1>5. EmptyEvent \in [id : Nat, data : Nat]  BY DEF EmptyEvent
<1>6. engine \in SsEngines /\ engine.at = "answered" /\ engine.cur = EmptyEvent /\ engine.lastID = 0 /\ ~ engine.isPing
  BY <1>3, <1>4, <1>5 DEF SsEngines
<1>7. emits \in [ev : [id : Nat, data : Nat], then : {"none", "shut", "reset", "append"}, data : Nat]
  BY <1>5 DEF SsInit
<1>8. wire \in Seq(SsLines) /\ Len(wire) = 0 /\ Len(server.events) = 0  BY <1>1, <1>2, NoLines
<1>9. heard \in Seq(SsEvents) /\ Len(heard) = 0
  <2> HIDE DEF SsEvents
  <2> QED BY <1>2
<1>10. SsTypes  BY <1>1, <1>2, <1>6, <1>7, <1>8, <1>9 DEF SsTypes
<1>11. Waits  BY <1>0, <1>1, <1>6 DEF Waits
<1>12. /\ (\A i \in 1..Len(wire) : FALSE) /\ (\A i \in 2..Len(wire) : FALSE) /\ (\A i \in 1..Len(server.events) : FALSE)
       /\ (\A i \in 1..Len(heard) : FALSE)
  BY <1>8, <1>9
<1>13. HeardInOrder  BY <1>6, <1>12 DEF HeardInOrder, EmptyEvent
<1>14. Emits  BY <1>6 DEF Emits
<1>15. Comes
  <2>1. engine.lastID < server.next /\ Len(server.events) <= 1  BY <1>1, <1>6, <1>8
  <2> QED BY <1>2, <1>12, <2>1 DEF Comes
<1>16. NothingMissing
  <2>1. LinesRead = 0  BY <1>6, <1>9 DEF LinesRead
  <2>2. LinesRead + Len(wire) = 3 * 0  BY <1>8, <2>1
  <2>n. server.next = 1  BY <1>1
  <2>e. 0 = server.next - 1 - Len(server.events)  BY <1>8, <2>n
  <2>3. \E k \in Nat : LinesRead + Len(wire) = 3 * k /\ (wireEnd = "open" => k = server.next - 1 - Len(server.events))
    BY <2>2, <2>e
  <2>4. engine.lastID = Len(heard) + 0 /\ engine.lastID = Len(heard)  BY <1>6, <1>9
  <2> QED BY <1>2, <1>6, <1>12, <2>3, <2>4 DEF NothingMissing
<1> QED BY <1>10, <1>11, <1>13, <1>14, <1>15, <1>16 DEF SsInv

LEMMA StreamKeeps == ASSUME SsInv, [SsNext]_ssVars PROVE SsInv'
<1>1. CASE SsNext
  <2>1. SendLooks \/ SendRefused \/ StopFlag \/ StopCancel \/ FnReturns \/ ListenerEnds \/ SsClose => SsInv'  BY QuietSteps
  <2>2. SendPuts => SsInv'  BY SendPutsKeeps
  <2>3. SendComment => SsInv'  BY SendCommentKeeps
  <2>4. PushWrites => SsInv'  BY PushWritesKeeps
  <2>5. PushEnds => SsInv'  BY PushEndsKeeps
  <2>6. CutOff => SsInv'  BY CutOffKeeps
  <2>7. Answered => SsInv'  BY AnsweredKeeps
  <2>8. ReadLine => SsInv'  BY ReadLineKeeps
  <2>9. Emitted => SsInv'  BY EmittedKeeps
  <2>10. EmitCanceled => SsInv'  BY EmitCanceledKeeps
  <2>11. StreamEnds => SsInv'  BY StreamEndsKeeps
  <2>12. Retry \/ WaitCanceled => SsInv'  BY RetryKeeps
  <2>13. Dials => SsInv'  BY DialsKeeps
  <2>14. HearsNil => SsInv'  BY HearsNilKeeps
  <2> QED BY <1>1, <2>1, <2>2, <2>3, <2>4, <2>5, <2>6, <2>7, <2>8, <2>9, <2>10, <2>11, <2>12, <2>13, <2>14
      DEF SsNext, ServerSends, ServerPushes, EngineStep, ListenerStep
<1>2. CASE UNCHANGED ssVars
  <2>1. UNCHANGED <<wire, wireEnd, engine, emits, streamDone, listener, heard, asked, calm>> /\ server' = server
    BY <1>2 DEF ssVars
  <2>2. SsTypes' /\ Waits'  BY <2>1 DEF SsInv, SsTypes, Waits
  <2> QED BY <2>1, <2>2, QuietKeeps
<1> QED BY <1>1, <1>2

LEMMA StreamInvGives == ASSUME SsInv PROVE StreamSound
<1>1. DOMAIN heard = 1..Len(heard)  BY DEF SsInv, SsTypes
<1> QED BY <1>1 DEF SsInv, HeardInOrder, NothingMissing, StreamSound

(* Server-sent events (zhttp/sse.go, znet/sse.go): for any number of       *)
(* events, cuts, heartbeats and requests, fn gets their data in order and  *)
(* none twice, and while no connection broke and no heartbeat was sent     *)
(* its i-th call is for the i-th event.                                    *)
THEOREM StreamIsSound == SsSpec => []StreamSound
<1>1. SsInit => SsInv  BY StreamStarts
<1>2. SsInv /\ [SsNext]_ssVars => SsInv'  BY StreamKeeps
<1>3. SsInv => StreamSound  BY StreamInvGives
<1> QED BY <1>1, <1>2, <1>3, PTL DEF SsSpec
=============================================================================
