------------------------------ MODULE Injector ------------------------------
(***************************************************************************)
(* injector of zdi: Get finds a value by its type, makes it with a         *)
(* provider the first time, or asks the parent.  Goroutines that need the  *)
(* same provider share one run of it (singleflight), and a provider's      *)
(* arguments are found in the same way, so that a goroutine is a stack of  *)
(* Gets.  Sections under mu are single steps, but for the read lock that   *)
(* is held while the parent is asked.  A value is the provider that made   *)
(* it and the number of the run.                                           *)
(***************************************************************************)
EXTENDS Integers, Sequences
LOCAL INSTANCE SequencesExt

CONSTANTS
    Askers,       \* goroutines with one request each
    DiTypes,
    Implements,   \* Implements[t]: the types that implement t, none unless it is an interface
    Providers,    \* Providers[f]: its arguments ins, its results outs
    Layouts,      \* Layouts: what is registered at the start, in the child and in its parent
    Wishes,       \* what a request may be: its kind and its types
    MaxFaults,    \* bound on the panics of providers
    MaxNews       \* bound on the later calls of Map and Provide

\* Apply asks for a struct and then for its fields.
ASSUME InjectorAssumption ==
    /\ Implements \in [DiTypes -> SUBSET DiTypes]
    /\ {"none", "map"} \cap DOMAIN Providers = {}
    /\ \A f \in DOMAIN Providers : Providers[f].ins \in Seq(DiTypes) /\ Providers[f].outs \subseteq DiTypes
    /\ \A l \in Layouts :
          l.nested \in BOOLEAN /\ l.child \in Seq(DOMAIN Providers) /\ l.parent \in Seq(DOMAIN Providers)
    /\ \A w \in Wishes :
          /\ w.kind # "none" /\ w.types \in Seq(DiTypes) /\ w.types # <<>>
          /\ w.kind = "Apply" => Len(w.types) >= 2

Injectors == {"child", "parent"}

\* What is registered at the start: in an injector every type has one provider, and no
\* provider is in both.  Where a type has two, the second takes the place of the first
\* (lazy.go:25), which makes it again when it is asked for another of its types: a later
\* registration, as the calls of MapNew and ProvideNew are.
ASSUME OneProvider ==
    \A l \in Layouts :
        /\ \A n \in Injectors : \A i, j \in DOMAIN l[n] :
              Providers[l[n][i]].outs \cap Providers[l[n][j]].outs # {} => i = j
        /\ \A i \in DOMAIN l.child, j \in DOMAIN l.parent : l.child[i] # l.parent[j]

NoValue == [by |-> "none", run |-> 0]

VARIABLES
    layout,
    values, providers,   \* of each injector, by type
    flights,             \* group: the keys in flight in each injector
    heldOver,            \* read locks that are held over a step
    asked,               \* asked[a]: the request
    frames,              \* frames[a]: the Gets that it is in
    answers,             \* answers[a]: what its Gets have found so far
    outcome,             \* outcome[a]: how it ended
    made, faults, news   \* history: the runs of each provider, panics, later registrations

diVars == <<layout, values, providers, flights, heldOver, asked, frames, answers, outcome, made, faults, news>>

\* Provide, over the providers that a type may have already; of some that are registered
\* in turn the last that makes it.
Provided(p, f) == [t \in DiTypes |-> IF t \in Providers[f].outs THEN f ELSE p[t]]
Given(l, t) ==
    LET makes == {i \in DOMAIN l : t \in Providers[l[i]].outs}
    IN  IF makes = {} THEN "none" ELSE l[CHOOSE i \in makes : \A j \in makes : j <= i]
Frame(n, t) == [n |-> n, t |-> t, pc |-> "look", fn |-> "none", k |-> 1, bad |-> FALSE, val |-> NoValue]

DiInit ==
    /\ layout \in Layouts
    /\ values = [n \in Injectors |-> [t \in DiTypes |-> NoValue]]
    /\ providers = [n \in Injectors |-> [t \in DiTypes |-> Given(layout[n], t)]]
    /\ flights = [n \in Injectors |-> {}]
    /\ heldOver = [n \in Injectors |-> 0]
    /\ asked = [a \in Askers |-> [kind |-> "none", types |-> <<>>]]
    /\ frames = [a \in Askers |-> <<>>]
    /\ answers = [a \in Askers |-> <<>>]
    /\ outcome = [a \in Askers |-> "none"]
    /\ made = [f \in DOMAIN Providers |-> 0]
    /\ faults = 0 /\ news = 0

-----------------------------------------------------------------------------
\* A request asks for its types in turn: Resolve and Apply set each as it comes, Invoke
\* calls when all are there; Apply looks for the struct first and then for its fields.
Ends(a, r) ==
    LET so == answers[a] IN
    CASE r = "panic" -> IF asked[a].kind = "Invoke" THEN "error" ELSE "panic"
      [] r = "missing" -> IF asked[a].kind = "Apply" /\ so = <<>> THEN "none" ELSE "error"
      [] OTHER -> IF Len(so) + 1 = Len(asked[a].types) \/ (asked[a].kind = "Apply" /\ so = <<>>)
                  THEN "done" ELSE "none"
Top(a) == Head(frames[a])
Below(a, frame) == <<frame>> \o Tail(frames[a])
At(a, pc) == frames[a] # <<>> /\ Top(a).pc = pc

\* Get returns, to the request, to the provider that needs it or to the child that asked.
Return(a, r, val) ==
    LET under == Tail(frames[a])
        to == Head(under)
    IN  IF under = <<>>
        THEN /\ outcome' = [outcome EXCEPT ![a] = Ends(a, r)]
             /\ answers' = [answers EXCEPT ![a] = Append(@, [t |-> Top(a).t, r |-> r, val |-> val])]
             /\ frames' = [frames EXCEPT ![a] =
                    IF Ends(a, r) = "none" THEN <<Frame("child", asked[a].types[Len(answers[a]) + 2])>> ELSE <<>>]
        ELSE /\ frames' = [frames EXCEPT ![a] = <<
                    CASE to.pc = "args" /\ r = "found" -> [to EXCEPT !.k = @ + 1]
                      [] to.pc = "args" /\ r # "found" -> [to EXCEPT !.pc = "land", !.bad = TRUE]
                      [] OTHER -> [to EXCEPT !.pc = r, !.val = val]>> \o Tail(under)]
             /\ UNCHANGED <<answers, outcome>>

Goes(a, frame) == frames' = [frames EXCEPT ![a] = Below(a, frame)] /\ UNCHANGED <<answers, outcome>>

Ask(a) ==
    /\ asked[a].kind = "none"
    /\ \E w \in Wishes :
            /\ asked' = [asked EXCEPT ![a] = w]
            /\ frames' = [frames EXCEPT ![a] = <<Frame("child", w.types[1])>>]
    /\ UNCHANGED <<layout, values, providers, flights, heldOver, answers, outcome, made, faults, news>>

\* The value, or who provides it.
Look(a) ==
    LET f == Top(a) IN
    /\ At(a, "look")
    /\ IF values[f.n][f.t] # NoValue THEN Return(a, "found", values[f.n][f.t])
       ELSE Goes(a, [f EXCEPT !.pc = IF providers[f.n][f.t] = "none" THEN "scan" ELSE "do",
                              !.fn = providers[f.n][f.t]])
    /\ UNCHANGED <<layout, values, providers, flights, heldOver, asked, made, faults, news>>

\* group.Do: joins the call in flight for the key, or is that call, which looks again.
MakerThen(n, t, fn) == fn   \* mutant: who was found to provide it before the call
Maker(n, t, fn) == IF values[n][t] = NoValue THEN providers[n][t] ELSE "none"
Do(a) ==
    LET f == Top(a) IN
    /\ At(a, "do")
    /\ IF f.fn \in flights[f.n] THEN Goes(a, [f EXCEPT !.pc = "join"]) /\ UNCHANGED flights
       ELSE /\ flights' = [flights EXCEPT ![f.n] = @ \cup {f.fn}]
            /\ Goes(a, [f EXCEPT !.pc = "check"])
    /\ UNCHANGED <<layout, values, providers, heldOver, asked, made, faults, news>>
Check(a) ==
    LET f == Top(a)
        maker == Maker(f.n, f.t, f.fn)
    IN
    /\ At(a, "check")
    /\ Goes(a, [f EXCEPT !.pc = IF maker = "none" THEN "land" ELSE "args", !.val.by = maker])
    /\ UNCHANGED <<layout, values, providers, flights, heldOver, asked, made, faults, news>>

\* Invoke of the provider: its arguments in turn, then the call, which may panic.
Args(a) ==
    LET f == Top(a)
        ins == Providers[f.val.by].ins
    IN  /\ At(a, "args")
        /\ \/ /\ f.k <= Len(ins)
              /\ frames' = [frames EXCEPT ![a] = <<Frame(f.n, ins[f.k])>> \o @]
              /\ UNCHANGED <<answers, outcome, made, faults>>
           \/ /\ f.k > Len(ins)
              /\ made' = [made EXCEPT ![f.val.by] = @ + 1]
              /\ Goes(a, [f EXCEPT !.pc = "store", !.val.run = made'[f.val.by]])
              /\ UNCHANGED faults
           \/ /\ f.k > Len(ins) /\ faults < MaxFaults /\ faults' = faults + 1
              /\ Goes(a, [f EXCEPT !.pc = "land", !.bad = TRUE])
              /\ UNCHANGED made
        /\ UNCHANGED <<layout, values, providers, flights, heldOver, asked, news>>
Store(a) ==
    LET f == Top(a)
        outs == Providers[f.val.by].outs
    IN  /\ At(a, "store") /\ heldOver[f.n] = 0
        /\ values' = [values EXCEPT ![f.n] = [t \in DiTypes |-> IF t \in outs THEN f.val ELSE @[t]]]
        /\ providers' = [providers EXCEPT ![f.n] = [t \in DiTypes |-> IF t \in outs THEN "none" ELSE @[t]]]
        /\ Goes(a, [f EXCEPT !.pc = "land"])
        /\ UNCHANGED <<layout, flights, heldOver, asked, made, faults, news>>

\* The call is over for those who have joined, too; with an error all of them panic.
Land(a) ==
    LET f == Top(a)
        Joined(b) == At(b, "join") /\ Top(b).n = f.n /\ Top(b).fn = f.fn
        After(frame) == [frame EXCEPT !.pc = IF f.bad THEN "panic" ELSE "again"]
    IN  /\ At(a, "land")
        /\ flights' = [flights EXCEPT ![f.n] = @ \ {f.fn}]
        /\ frames' = [b \in Askers |-> IF b = a \/ Joined(b) THEN Below(b, After(Top(b))) ELSE frames[b]]
        /\ UNCHANGED <<layout, values, providers, heldOver, asked, answers, outcome, made, faults, news>>
Again(a) ==
    LET f == Top(a) IN
    /\ At(a, "again")
    /\ IF values[f.n][f.t] # NoValue THEN Return(a, "found", values[f.n][f.t])
       ELSE Goes(a, [f EXCEPT !.pc = "scan"])
    /\ UNCHANGED <<layout, values, providers, flights, heldOver, asked, made, faults, news>>

\* Any value of an implementing type, and then the parent, under the read lock; a
\* panic of the parent's leaves it locked.
Scan(a) ==
    LET f == Top(a)
        fit == {u \in Implements[f.t] : values[f.n][u] # NoValue}
    IN  /\ At(a, "scan")
        /\ \/ \E u \in fit : Return(a, "found", values[f.n][u]) /\ UNCHANGED heldOver
           \/ /\ fit = {} /\ f.n = "child" /\ layout.nested
              /\ frames' = [frames EXCEPT ![a] = <<Frame("parent", f.t), [f EXCEPT !.pc = "up"]>> \o Tail(@)]
              /\ heldOver' = [heldOver EXCEPT ![f.n] = @ + 1]
              /\ UNCHANGED <<answers, outcome>>
           \/ fit = {} /\ ~ (f.n = "child" /\ layout.nested) /\ Return(a, "missing", NoValue) /\ UNCHANGED heldOver
        /\ UNCHANGED <<layout, values, providers, flights, asked, made, faults, news>>
Back(a) ==
    LET f == Top(a) IN
    /\ \E r \in {"found", "missing"} :
            At(a, r) /\ Return(a, r, f.val) /\ heldOver' = [heldOver EXCEPT ![f.n] = @ - 1]
    /\ UNCHANGED <<layout, values, providers, flights, asked, made, faults, news>>
Panic(a) ==
    /\ At(a, "panic") /\ Return(a, "panic", NoValue)
    /\ UNCHANGED <<layout, values, providers, flights, heldOver, asked, made, faults, news>>

\* Map (or Set) and Provide of somebody else.
MapNew(t) ==
    /\ news < MaxNews /\ news' = news + 1
    /\ heldOver["child"] = 0
    /\ values' = [values EXCEPT !["child"][t] = [by |-> "map", run |-> news']]
    /\ UNCHANGED <<layout, providers, flights, heldOver, asked, frames, answers, outcome, made, faults>>
ProvideNew(f) ==
    /\ news < MaxNews /\ news' = news + 1
    /\ heldOver["child"] = 0
    /\ providers' = [providers EXCEPT !["child"] = Provided(@, f)]
    /\ UNCHANGED <<layout, values, flights, heldOver, asked, frames, answers, outcome, made, faults>>

DiAskerStep(a) ==
    Look(a) \/ Do(a) \/ Check(a) \/ Args(a) \/ Store(a) \/ Land(a) \/ Again(a) \/ Scan(a) \/ Back(a) \/ Panic(a)
DiNext ==
    \/ \E a \in Askers : Ask(a) \/ DiAskerStep(a)
    \/ \E t \in DiTypes : MapNew(t)
    \/ \E f \in DOMAIN Providers : ProvideNew(f)

DiSpec == DiInit /\ [][DiNext]_diVars

-----------------------------------------------------------------------------
\* What can be found at the start, apart from interfaces.
Known(n) == UNION {Providers[f].outs : f \in Range(layout[n])}
Offered == Known("child") \cup (IF layout.nested THEN Known("parent") ELSE {})

\* While nobody registers anything anew, whoever asks together: each provider makes its
\* values once, however often it panics before; no answer is ever different from
\* another for the same type; and a type that somebody provides is never missing.
InjectorSound ==
    /\ \A n \in Injectors : \A f \in flights[n] : \E a \in Askers :
            \E i \in DOMAIN frames[a] : frames[a][i].n = n /\ frames[a][i].fn = f /\ frames[a][i].pc \in {"check", "args", "store", "land"}
    /\ news = 0 =>
        /\ \A f \in DOMAIN Providers : made[f] <= 1
        /\ \A a \in Askers, x, y \in UNION {Range(answers[b]) : b \in Askers} :
                x.r = "found" /\ y.r = "found" /\ x.t = y.t /\ Implements[x.t] = {} => x.val = y.val
        /\ \A a \in Askers : \A x \in Range(answers[a]) : x.t \in Offered => x.r # "missing"
=============================================================================
