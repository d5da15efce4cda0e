------------------------------ MODULE HashMap ------------------------------
(***************************************************************************)
(* Maper of zarray/hashmap.go and the list it is built on, zarray/list.go: *)
(* elements in the order of their hashes, and an index that leads into the *)
(* list, replaced by a larger one when it fills.  Values are left out: an  *)
(* element keeps its key, and a value is replaced in place.  A walk along  *)
(* the list, which cuts the deleted elements it passes, is one step; what  *)
(* is done with its result is another.                                     *)
(***************************************************************************)
EXTENDS Integers, FiniteSets, Sequences
LOCAL INSTANCE Functions

CONSTANTS
    Threads,    \* goroutines that use the map
    HashOf,     \* the hash of each key, in 1..HashSpace - 1
    HashSpace,  \* a power of two
    MaxElems,   \* bound on the elements allocated, in
    MaxGrown,   \* "grow" another one
    MaxMetas,   \* bound on the indexes stored
    Modes       \* which calls may overlap, of "alone", "sets", "grow" and "all"

MapKeys == DOMAIN HashOf
Elems == 0..MaxElems        \* element 0 is listHead
Nil == -1

ASSUME HashMapAssumption ==
    /\ IsFiniteSet(Threads) /\ {HashSpace, MaxElems, MaxGrown, MaxMetas} \subseteq Nat
    /\ HashOf \in [MapKeys -> 1..(HashSpace - 1)] /\ Modes \subseteq {"alone", "sets", "grow", "all"}

VARIABLES
    mode,
    keyOf, link, deleted,   \* of the elements: key, nextPtr and mark
    used,                   \* elements allocated
    metas,                  \* the indexes stored; metadata points to the last
    newdata,                \* the index that grow is filling
    numItems, resizing,
    at, hk, data, elem, right, \* of each thread: where its call is, and its locals
    want                    \* history: what the calls that are over leave of a key

heap == <<keyOf, link, deleted, used>>
locals == <<hk, data, elem, right>>
hmVars == <<mode, heap, metas, newdata, numItems, resizing, at, locals, want>>

Hash(e) == IF e = 0 THEN 0 ELSE HashOf[keyOf[e]]
Slot(size, h) == (h * size) \div HashSpace
NewIndex(size) == [size |-> size, count |-> 0, slot |-> [i \in 0..(size - 1) |-> Nil]]
Meta == metas[Len(metas)]

\* The metadata is replaced; an old one that no call holds is garbage.
Replaced(m) ==
    Append([i \in 1..Len(metas) |->
               IF \E t \in Threads : data[t] = i THEN metas[i] ELSE NewIndex(1)], m)

HmInit ==
    /\ mode \in Modes
    /\ keyOf = [e \in Elems |-> "none"] /\ link = [e \in Elems |-> Nil]
    /\ deleted = [e \in Elems |-> FALSE] /\ used = 0
    /\ metas = <<NewIndex(IF mode = "sets" THEN HashSpace ELSE 2)>>
    /\ newdata = NewIndex(1) /\ numItems = 0 /\ resizing = FALSE
    /\ at = [t \in Threads |-> "idle"] /\ hk = [t \in Threads |-> "none"]
    /\ data = [t \in Threads |-> 0] /\ elem = [t \in Threads |-> Nil]
    /\ right = [t \in Threads |-> Nil]
    /\ want = [k \in MapKeys |-> "absent"]

-----------------------------------------------------------------------------
(* The list.                                                               *)

\* The elements from e on, deleted ones included.
Chain(e) ==
    LET C[i \in 0..(MaxElems + 1), x \in Elems \cup {Nil}] ==
            IF x = Nil \/ i = 0 THEN <<>> ELSE <<x>> \o C[i - 1, link[x]]
    IN  C[MaxElems + 1, e]

FirstOf(s, P(_)) ==
    LET S == {i \in 1..Len(s) : P(s[i])}
    IN  IF S = {} THEN Nil ELSE s[CHOOSE i \in S : \A j \in S : i <= j]

\* next
NextLive(e) == FirstOf(Tail(Chain(e)), LAMBDA x : ~deleted[x])

\* Where search and the loops of Delete stop that start at s: at the key, or at
\* the first element with a larger hash.
StopAt(s, k) ==
    FirstOf(Chain(s), LAMBDA x : (x = s \/ ~deleted[x]) /\ (keyOf[x] = k \/ Hash(x) > HashOf[k]))

\* The elements that a walk from s to stop passes: each leads to the next one
\* that is not deleted afterwards.
Passed(s, stop) == {x \in {Chain(s)[i] : i \in 1..Len(Chain(s))} :
    stop = Nil \/ \E i, j \in 1..Len(Chain(s)) : i <= j /\ Chain(s)[i] = x /\ Chain(s)[j] = stop}
Cut(S) == link' = [e \in Elems |-> IF e \in S THEN NextLive(e) ELSE link[e]]

\* The last one passed before stop.
LeftOf(s, stop) ==
    LET L == {x \in Passed(s, stop) \ {stop} : x = s \/ ~deleted[x]}
    IN  CHOOSE x \in L : NextLive(x) = stop

-----------------------------------------------------------------------------
(* The index.                                                              *)

Usable(m, h, i) ==
    m.slot[i] # Nil /\ Hash(m.slot[i]) <= h /\ ~deleted[m.slot[i]]

\* indexElement: the last resort is slot 0, whatever it holds.
IndexElement(m, h) ==
    LET S == {i \in 0..Slot(m.size, h) : Usable(m, h, i)}
    IN  m.slot[IF S = {} THEN 0 ELSE CHOOSE i \in S : \A j \in S : j <= i]

StartOf(h, head) ==
    LET e == IndexElement(Meta, h) IN IF e = Nil \/ Hash(e) > h THEN head ELSE e

\* addItemToIndex, and the number it returns.
Indexed(m, e) ==
    LET i == Slot(m.size, Hash(e)) IN
    IF m.slot[i] = Nil THEN [m EXCEPT !.slot[i] = e, !.count = @ + 1]
    ELSE IF Hash(e) < Hash(m.slot[i]) THEN [m EXCEPT !.slot[i] = e] ELSE m
CountOf(m, e) == IF m.slot[Slot(m.size, Hash(e))] = Nil THEN m.count + 1 ELSE 0

ResizeNeeded(size, count) == (count * 100) \div size > 50

\* fillIndexItems: each slot gets the first element of its part of the list.
Filled(size) ==
    LET live == SelectSeq(Tail(Chain(0)), LAMBDA x : ~deleted[x])
        first(i) == FirstOf(live, LAMBDA x : Slot(size, Hash(x)) = i)
        slots == [i \in 0..(size - 1) |-> first(i)]
    IN  [size |-> size, slot |-> slots, count |-> Cardinality({i \in DOMAIN slots : slots[i] # Nil})]

-----------------------------------------------------------------------------
HGo(t, from, to) == at[t] = from /\ at' = [at EXCEPT ![t] = to]

\* A call begins.  In "alone" one thread makes all calls; in "grow" one thread
\* makes the Grows and the others the rest, one at a time; in
\* "sets" every call is a Set and overlaps those of other hashes or the same
\* key; in "all" calls overlap unless they are for one key.
One == CHOOSE t \in Threads : TRUE
Busy(t) == at[t] # "idle"
Begins(t, k, to) ==
    /\ HGo(t, "idle", to)
    /\ mode = "alone" => t = One
    /\ mode = "grow" => (k = "none" <=> t = One)
    /\ \A u \in Threads : Busy(u) =>
          CASE mode = "alone" -> FALSE
            [] mode = "grow" -> k = "none" \/ hk[u] = "none"
            [] mode = "sets" -> hk[u] = k \/ HashOf[hk[u]] # HashOf[k]
            [] mode = "all" -> hk[u] # k
    /\ hk' = [hk EXCEPT ![t] = k]
    /\ want' = [x \in MapKeys |-> IF x = k THEN "unknown" ELSE want[x]]

\* A call ends, and its locals with it.
Ends(t, from, result) ==
    /\ HGo(t, from, "idle")
    /\ hk' = [hk EXCEPT ![t] = "none"] /\ data' = [data EXCEPT ![t] = 0]
    /\ elem' = [elem EXCEPT ![t] = Nil] /\ right' = [right EXCEPT ![t] = Nil]
    /\ want' = [x \in MapKeys |-> IF x = hk[t] THEN result ELSE want[x]]

\* Set: the metadata is loaded, and where to begin is looked up.
Set(t, k) ==
    /\ Begins(t, k, "inject")
    /\ data' = [data EXCEPT ![t] = Len(metas)]
    /\ elem' = [elem EXCEPT ![t] = StartOf(HashOf[k], 0)]
    /\ UNCHANGED <<mode, newdata, heap, metas, numItems, resizing, right>>

\* search, from the element found or, after a failed try, from listHead.
Inject(t) ==
    /\ at[t] = "inject"
    /\ LET s == elem[t]
           stop == StopAt(s, hk[t])
       IN  /\ Cut(Passed(s, stop))
           /\ IF stop # Nil /\ keyOf[stop] = hk[t]
              THEN HGo(t, "inject", "index") /\ elem' = [elem EXCEPT ![t] = stop] /\ UNCHANGED right
              ELSE /\ HGo(t, "inject", "add") /\ elem' = [elem EXCEPT ![t] = LeftOf(s, stop)]
                   /\ right' = [right EXCEPT ![t] = stop]
    /\ UNCHANGED <<mode, newdata, keyOf, deleted, used, metas, numItems, resizing, hk, data, want>>

SameNext(t) == NextLive(elem[t]) = right[t]

\* addBefore: the element is added behind the left one unless that has
\* another successor by now.
Add(t) ==
    /\ at[t] = "add" /\ SameNext(t)
    /\ used < IF mode = "grow" THEN MaxGrown ELSE MaxElems
    /\ HGo(t, "add", "count")
    /\ used' = used + 1
    /\ keyOf' = [keyOf EXCEPT ![used + 1] = hk[t]]
    /\ link' = [link EXCEPT ![used + 1] = right[t], ![elem[t]] = used + 1]
    /\ elem' = [elem EXCEPT ![t] = used + 1]
    /\ UNCHANGED <<mode, newdata, deleted, metas, numItems, resizing, hk, data, right, want>>

AddFails(t) ==
    /\ at[t] = "add" /\ ~SameNext(t)
    /\ HGo(t, "add", "inject")
    /\ elem' = [elem EXCEPT ![t] = 0]
    /\ Cut({elem[t]})
    /\ UNCHANGED <<mode, newdata, keyOf, deleted, used, metas, numItems, resizing, hk, data, right, want>>

Count(t) ==
    /\ HGo(t, "count", "index")
    /\ numItems' = numItems + 1
    /\ UNCHANGED <<mode, newdata, heap, metas, resizing, locals, want>>

\* The index loaded at the beginning gets the element, and may need to grow.
Index(t) ==
    /\ at[t] = "index"
    /\ LET m == metas[data[t]] IN
       /\ metas' = [metas EXCEPT ![data[t]] = Indexed(m, elem[t])]
       /\ IF ResizeNeeded(m.size, CountOf(m, elem[t])) /\ ~resizing
          THEN resizing' = TRUE /\ HGo(t, "index", "grow") /\ UNCHANGED <<want, locals>>
          ELSE UNCHANGED resizing /\ Ends(t, "index", "present")
    /\ UNCHANGED <<mode, newdata, heap, numItems>>

Grow(t) ==
    /\ mode # "sets" /\ ~resizing /\ 2 * Meta.size <= HashSpace
    /\ Begins(t, "none", "grow")
    /\ resizing' = TRUE
    /\ UNCHANGED <<mode, newdata, heap, metas, numItems, data, elem, right>>

\* grow fills a larger index from the list, and stores it later.
GrowFill(t) ==
    /\ Len(metas) < MaxMetas
    /\ HGo(t, "grow", "store")
    /\ newdata' = Filled(2 * Meta.size)
    /\ Cut({Chain(0)[i] : i \in 1..Len(Chain(0))})
    /\ UNCHANGED <<mode, keyOf, deleted, used, metas, numItems, resizing, locals, want>>

GrowStore(t) ==
    /\ HGo(t, "store", "check")
    /\ metas' = Replaced(newdata)
    /\ UNCHANGED <<mode, heap, newdata, numItems, resizing, locals, want>>

\* A grown Set is over; a call of Grow names no key.
GrowAgain(t) ==
    /\ ResizeNeeded(newdata.size, numItems) /\ HGo(t, "check", "grow")
    /\ UNCHANGED <<mode, heap, metas, newdata, numItems, resizing, locals, want>>

GrowOver(t) ==
    /\ ~ResizeNeeded(newdata.size, numItems) /\ Ends(t, "check", "present")
    /\ resizing' = FALSE /\ newdata' = NewIndex(1)
    /\ UNCHANGED <<mode, heap, metas, numItems>>

\* Delete of one key, and GetAndDelete.
Delete(t, k) ==
    /\ mode # "sets" /\ Begins(t, k, "find")
    /\ elem' = [elem EXCEPT ![t] = StartOf(HashOf[k], 0)]
    /\ UNCHANGED <<mode, heap, metas, newdata, numItems, resizing, data, right>>

Find(t) ==
    /\ at[t] = "find"
    /\ LET s == elem[t]
           stop == StopAt(s, hk[t])
       IN  /\ Cut(Passed(s, stop) \ {stop})
           /\ IF stop # Nil /\ keyOf[stop] = hk[t]
              THEN /\ HGo(t, "find", "mark") /\ elem' = [elem EXCEPT ![t] = stop]
                   /\ UNCHANGED <<hk, data, right, want>>
              ELSE Ends(t, "find", "absent")
    /\ UNCHANGED <<mode, keyOf, deleted, used, metas, newdata, numItems, resizing>>

MarkDeleted(t) ==
    /\ at[t] = "mark"
    /\ deleted' = [deleted EXCEPT ![elem[t]] = TRUE]
    /\ IF deleted[elem[t]] THEN Ends(t, "mark", "absent")
                           ELSE HGo(t, "mark", "unload") /\ UNCHANGED <<want, locals>>
    /\ UNCHANGED <<mode, keyOf, link, used, metas, newdata, numItems, resizing>>

\* removeItemFromIndex: the slot goes on to the next element of its part, and
\* all is done again if the index was replaced in the meantime.
Unload(t) ==
    /\ HGo(t, "unload", "unindex")
    /\ data' = [data EXCEPT ![t] = Len(metas)]
    /\ UNCHANGED <<mode, heap, metas, newdata, numItems, resizing, hk, elem, right, want>>

SlotNil(m, e) == Nil   \* mutant: the rest of the part is forgotten
SlotNext(m, e) ==
    LET n == NextLive(e) IN
    IF n # Nil /\ Slot(m.size, Hash(n)) = Slot(m.size, Hash(e)) THEN n ELSE Nil

Unindex(t) ==
    /\ at[t] = "unindex"
    /\ LET m == metas[data[t]]
           e == elem[t]
           i == Slot(m.size, Hash(e))
       IN  IF m.slot[i] = e
           THEN /\ metas' = [metas EXCEPT ![data[t]].slot[i] = SlotNext(m, e)]
                /\ HGo(t, "unindex", IF SlotNext(m, e) = Nil THEN "emptied" ELSE "removed")
           ELSE HGo(t, "unindex", "removed") /\ UNCHANGED metas
    /\ Cut({elem[t]})
    /\ UNCHANGED <<mode, keyOf, deleted, used, newdata, numItems, resizing, locals, want>>

Uncount(t, from) ==
    /\ at[t] = from /\ data[t] = Len(metas) /\ Ends(t, from, "absent")
    /\ numItems' = numItems - 1
    /\ metas' = IF from = "emptied" THEN [metas EXCEPT ![data[t]].count = @ - 1] ELSE metas
    /\ UNCHANGED <<mode, heap, newdata, resizing>>

UnindexAgain(t, from) ==
    /\ at[t] = from /\ data[t] # Len(metas) /\ HGo(t, from, "unload")
    /\ UNCHANGED <<mode, heap, metas, newdata, numItems, resizing, locals, want>>

\* Clear: the list, the index and the number, one after the other.
Clear(t) ==
    /\ mode = "alone" /\ t = One /\ Len(metas) < MaxMetas
    /\ HGo(t, "idle", "clear")
    /\ link' = [link EXCEPT ![0] = Nil]
    /\ want' = [k \in MapKeys |-> "unknown"]
    /\ UNCHANGED <<mode, keyOf, deleted, used, metas, newdata, numItems, resizing, locals>>

ClearIndex(t) ==
    /\ HGo(t, "clear", "zero")
    /\ metas' = Replaced(NewIndex(2))
    /\ UNCHANGED <<mode, heap, newdata, numItems, resizing, locals, want>>

ClearNumber(t) ==
    /\ HGo(t, "zero", "idle")
    /\ numItems' = 0
    /\ want' = [k \in MapKeys |-> "absent"]
    /\ UNCHANGED <<mode, heap, metas, newdata, resizing, locals>>

HmStep(t) ==
    \/ Inject(t) \/ Add(t) \/ AddFails(t) \/ Count(t) \/ Index(t)
    \/ GrowFill(t) \/ GrowStore(t) \/ GrowAgain(t) \/ GrowOver(t)
    \/ Find(t) \/ MarkDeleted(t) \/ Unload(t) \/ Unindex(t)
    \/ \E from \in {"emptied", "removed"} : Uncount(t, from) \/ UnindexAgain(t, from)
    \/ ClearIndex(t) \/ ClearNumber(t)

HmNext ==
    \E t \in Threads :
        \/ \E k \in MapKeys : Set(t, k) \/ Delete(t, k)
        \/ Grow(t) \/ Clear(t) \/ HmStep(t)

HmSpec == HmInit /\ [][HmNext]_hmVars

-----------------------------------------------------------------------------
\* What get answers, also to Has and ProvideGet.
Lookup(k) ==
    LET e == FirstOf(Chain(IndexElement(Meta, HashOf[k])),
                     LAMBDA x : keyOf[x] = k \/ Hash(x) > HashOf[k])
    IN  e # Nil /\ keyOf[e] = k /\ ~deleted[e]

\* What ForEach, Keys and Values visit.
Visited == SelectSeq(Tail(Chain(0)), LAMBDA x : ~deleted[x])

\* What the calls for a key that are over have left: it is in the list, or not,
\* for ForEach, and get finds it there, or not.
InList(k) == \E i \in 1..Len(Visited) : keyOf[Visited[i]] = k
Listed(k) == /\ want[k] = "present" => InList(k)
             /\ want[k] = "absent" => ~InList(k)
IndexFinds(k) == /\ want[k] = "present" => Lookup(k)
            /\ want[k] = "absent" => ~Lookup(k)

\* Between the mark of a deleted element and the update of its slot get skips
\* the slot, and misses the other keys of that part.
SlotIsStale == \E t \in Threads : at[t] \in {"unload", "unindex"}

\* While no call overlaps another, or only Sets do that need no new index, the
\* list holds the keys that the calls left in it, each once, and get finds the
\* same unless a slot is being brought up to date.  Even while an index is
\* replaced during other calls the list is in the order of the hashes, and its
\* length is the number of items when no call is under way.
MapKeeps ==
    /\ mode \in {"alone", "sets"} =>
          /\ \A k \in MapKeys : Listed(k) /\ (~SlotIsStale => IndexFinds(k))
          /\ IsInjective([i \in 1..Len(Visited) |-> keyOf[Visited[i]]])
    /\ mode # "all" =>
          /\ \A i, j \in 1..Len(Visited) : i < j => Hash(Visited[i]) <= Hash(Visited[j])
          /\ (\A t \in Threads : ~Busy(t)) => numItems = Len(Visited) /\ ~resizing

\* hashmap.go:349: "This operation is performed concurrently with other map
\* operations": a key whose Set is over is found once nothing is under way.
SetIsFound ==
    (\A t \in Threads : ~Busy(t)) => \A k \in MapKeys : Listed(k) /\ IndexFinds(k)
=============================================================================
