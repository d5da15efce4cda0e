----------------------------- MODULE CronExpr -----------------------------
(***************************************************************************)
(* The cron expressions of ztime/cron/cronexpr.go: Parse makes lists of    *)
(* the fields, Next looks for the next time that they admit.  A time is    *)
(* <<year, month, day, hour, minute, second>>; the lists are sorted in the *)
(* code and sets here.  A text is the sequence of its seven fields, in     *)
(* that order and with the days of the week last, each the sequence of its *)
(* entries: [form, a, b, step].  Numbers are written as the tables of      *)
(* tokens have them (README, known defects).                               *)
(***************************************************************************)
EXTENDS Integers, FiniteSets, Sequences

CONSTANTS
    YearMax, MonthMax, ClockMax, \* the fields: years, months, and the three of the clock
    Cases,     \* pairs of a calendar, a function from <<year, month>> to [last,
               \* first]: the last day of the month and the weekday (0 for
               \* Sunday) of its first, and the text of an expression
    Starts     \* times to start from

ASSUME CronExprAssumption ==
    /\ {YearMax, MonthMax} \subseteq Nat \ {0} /\ ClockMax \in Nat
    /\ \A x \in Cases : \A ym \in (1..YearMax) \X (1..MonthMax) :
          x[1][ym].last \in 28..31 /\ x[1][ym].first \in 0..6

VARIABLES calendar, text, expr, time

ceVars == <<calendar, text, expr, time>>

Zero == <<>>             \* the zero time: there is no next
Panicked == <<"panic">>  \* an index out of range
NoExpr == [error |-> TRUE]

\* The descriptors of the fields.
Field(min, max) == [min |-> min, max |-> max]
Desc == <<Field(1, YearMax), Field(1, MonthMax), Field(1, 31), Field(0, ClockMax),
          Field(0, ClockMax), Field(0, ClockMax), Field(0, 6)>>

-----------------------------------------------------------------------------
\* genericFieldParse, populateOne and populateMany: what one entry admits.
Stepped(en) == en.form \in {"*/k", "n/k", "n-m/k"}
Special(en) == en.form \in {"L", "LW", "W", "#", "nL"}
BadStep(d, en) == Stepped(en) /\ (en.step < 1 \/ en.step > d.max)
Populate(first, last, step) == {v \in first..last : (v - first) % step = 0}
Span(d, en) ==
    Populate(IF en.form \in {"*", "*/k"} THEN d.min ELSE en.a,
             CASE en.form = "n" -> en.a
               [] en.form \in {"n-m", "n-m/k"} -> en.b
               [] OTHER -> d.max,
             IF Stepped(en) THEN en.step ELSE 1)

\* genericFieldHandler.  An entry that stands for all ends it before an error
\* that comes later.
EntriesOf(f) == {f[i] : i \in 1..Len(f)}
IsAll(en) == en.form = "*"
FieldFails(d, f) ==
    \/ \E en \in EntriesOf(f) : BadStep(d, en)
    \/ \E i \in 1..Len(f) : Special(f[i]) /\ \A j \in 1..i : ~IsAll(f[j])
FieldList(d, f) ==
    IF \E en \in EntriesOf(f) : IsAll(en) THEN d.min..d.max
    ELSE UNION {Span(d, en) : en \in EntriesOf(f)}

\* domFieldHandler and dowFieldHandler: the entries sorted by their kind, and
\* whether there is a restriction at all.
Plain(d, f) == UNION {Span(d, en) : en \in {x \in EntriesOf(f) : ~Special(x)}}
Those(f, form) == {en.a : en \in {x \in EntriesOf(f) : x.form = form}}
DayFieldFails(d, f, known) ==
    \E en \in EntriesOf(f) : BadStep(d, en) \/ (Special(en) /\ en.form \notin known)
Restricted(f) == \A en \in EntriesOf(f) : ~IsAll(en)
DomOf(f) == [days |-> Plain(Desc[3], f), workdays |-> Those(f, "W"),
             lastDay |-> Those(f, "L") # {}, lastWorkday |-> Those(f, "LW") # {},
             restricted |-> Restricted(f)]
DowOf(f) == [days |-> Plain(Desc[7], f), lastWeek |-> Those(f, "nL"),
             specific |-> {(en.b - 1) * 7 + (en.a % 7) : en \in {x \in EntriesOf(f) : x.form = "#"}},
             restricted |-> Restricted(f)]

Parsed(x) ==
    IF \/ \E i \in 1..6 : i # 3 /\ FieldFails(Desc[i], x[i])
       \/ DayFieldFails(Desc[3], x[3], {"L", "LW", "W"})
       \/ DayFieldFails(Desc[7], x[7], {"nL", "#"})
    THEN NoExpr
    ELSE [lists |-> [i \in 1..6 |-> IF i = 3 THEN {} ELSE FieldList(Desc[i], x[i])],
          dom |-> DomOf(x[3]), dow |-> DowOf(x[7])]

-----------------------------------------------------------------------------
\* workdayOfMonth: the day itself, or the nearest from Monday to Friday.
Weekday(m, d) == (m.first + d - 1) % 7
WorkdayOfMonth(m, d) ==
    CASE Weekday(m, d) = 6 -> IF d > 1 THEN d - 1 ELSE d + 2
      [] Weekday(m, d) = 0 -> IF d < m.last THEN d + 1 ELSE d - 2
      [] OTHER -> d

\* mutant: an nW beyond the end of the month moves to its end
WorkdaysMoved(e, m) ==
    {WorkdayOfMonth(m, IF d <= m.last THEN d ELSE m.last) : d \in e.dom.workdays}
Workdays(e, m) == {WorkdayOfMonth(m, d) : d \in {x \in e.dom.workdays : x <= m.last}}

\* calculateActualDaysOfMonth.
DomDays(e, m) ==
    IF ~e.dom.restricted THEN {}
    ELSE (IF e.dom.lastDay THEN {m.last} ELSE {})
         \cup (IF e.dom.lastWorkday THEN {WorkdayOfMonth(m, m.last)} ELSE {})
         \cup {d \in e.dom.days : d <= m.last} \cup Workdays(e, m)
DowDays(e, m) ==
    IF ~e.dow.restricted THEN {}
    ELSE LET offset == 7 - m.first
             origin == m.last - 6
         IN  {d \in UNION {{1 + 7 * w + ((offset + v) % 7) : w \in 0..4} : v \in e.dow.days} : d <= m.last}
             \cup {d \in {1 + 7 * (v \div 7) + ((offset + v) % 7) : v \in e.dow.specific} : d <= m.last}
             \cup {origin + ((7 - Weekday(m, origin) + v) % 7) : v \in e.dow.lastWeek}
ActualDays(e, m) ==
    IF ~e.dom.restricted /\ ~e.dow.restricted THEN 1..m.last
    ELSE DomDays(e, m) \cup DowDays(e, m)

-----------------------------------------------------------------------------
\* Next finds the first field of t that is not in its list, and raises it, or
\* one before it that can be raised: nextYear to nextSecond are one operator.
\* What comes after it starts at the head of its list.
Least(S) == CHOOSE x \in S : \A y \in S : x <= y
ListAt(e, c, t, i) == IF i = 3 THEN ActualDays(e, c[<<t[1], t[2]>>]) ELSE e.lists[i]

HeadsFrom(e, u, p) ==
    IF \E i \in (p + 1)..6 : i # 3 /\ e.lists[i] = {} THEN Panicked
    ELSE [i \in 1..6 |-> IF i < p + 1 THEN u[i] ELSE IF i = 3 THEN 1 ELSE Least(e.lists[i])]

Raise(e, c, s, q) ==
    LET RaiseAt[t \in Seq(Nat), p \in 0..6] ==
          IF p = 0 THEN Zero
          ELSE LET above == {x \in ListAt(e, c, t, p) : x > t[p]} IN
               IF above = {} THEN RaiseAt[t, p - 1]
               ELSE LET u == HeadsFrom(e, [t EXCEPT ![p] = Least(above)], p) IN
                    IF u = Panicked \/ p > 2 THEN u
                    ELSE IF ListAt(e, c, u, 3) = {} THEN RaiseAt[u, 2]
                    ELSE [u EXCEPT ![3] = Least(ListAt(e, c, u, 3))]
    IN  RaiseAt[s, q]

CeNextTime(e, c, t) ==
    LET odd == {i \in 1..6 : t[i] \notin ListAt(e, c, t, i)}
    IN  Raise(e, c, t, IF odd = {} THEN 6 ELSE Least(odd))

-----------------------------------------------------------------------------
CeInit ==
    /\ \E x \in Cases : calendar = x[1] /\ text = x[2]
    /\ time \in Starts
    /\ time[3] <= calendar[<<time[1], time[2]>>].last
    /\ expr = NoExpr

CeParse ==
    /\ expr = NoExpr
    /\ expr' = Parsed(text)
    /\ UNCHANGED <<calendar, text, time>>

\* NextN goes on from what it found.
CeAdvance ==
    /\ expr # NoExpr /\ time \notin {Zero, Panicked}
    /\ time' = CeNextTime(expr, calendar, time)
    /\ UNCHANGED <<calendar, text, expr>>

CeNext == CeParse \/ CeAdvance

CeSpec == CeInit /\ [][CeNext]_ceVars

-----------------------------------------------------------------------------
\* What the text says, without lists: the times that it admits.
Admits(d, f, v) ==
    \E en \in EntriesOf(f) :
        \/ en.form = "*"
        \/ en.form = "n" /\ v = en.a
        \/ en.form = "n-m" /\ en.a <= v /\ v <= en.b
        \/ en.form = "*/k" /\ (v - d.min) % en.step = 0
        \/ en.form = "n/k" /\ v >= en.a /\ (v - en.a) % en.step = 0
        \/ en.form = "n-m/k" /\ en.a <= v /\ v <= en.b /\ (v - en.a) % en.step = 0
IsWorkday(m, d) == Weekday(m, d) \in 1..5
Far(d, n) == IF d < n THEN n - d ELSE d - n
Nearest(m, d, n) ==
    IsWorkday(m, d) /\ \A x \in 1..m.last : IsWorkday(m, x) => Far(d, n) <= Far(x, n)
DomHit(m, d) ==
    \/ Admits(Desc[3], text[3], d)
    \/ \E en \in EntriesOf(text[3]) :
          \/ en.form = "L" /\ d = m.last
          \/ en.form = "LW" /\ Nearest(m, d, m.last)
          \/ en.form = "W" /\ en.a <= m.last /\ Nearest(m, d, en.a)
DowHit(m, d) ==
    \/ Admits(Desc[7], text[7], Weekday(m, d))
    \/ \E en \in EntriesOf(text[7]) :
          \/ en.form = "nL" /\ Weekday(m, d) = en.a /\ d + 7 > m.last
          \/ en.form = "#" /\ Weekday(m, d) = en.a
             /\ Cardinality({x \in 1..d : Weekday(m, x) = en.a}) = en.b
DayHit(y, mo, d) ==
    LET m == calendar[<<y, mo>>]
        all3 == ~Restricted(text[3])
        all7 == ~Restricted(text[7])
    IN  /\ Admits(Desc[1], text[1], y) /\ Admits(Desc[2], text[2], mo) /\ d <= m.last
        /\ \/ all3 /\ all7
           \/ ~all3 /\ DomHit(m, d)
           \/ ~all7 /\ DowHit(m, d)
ClockHit(h) == \A i \in 1..3 : Admits(Desc[i + 3], text[i + 3], h[i])

Earlier(a, b) == \E i \in 1..Len(a) : a[i] < b[i] /\ \A j \in 1..(i - 1) : a[j] = b[j]
Clocks == (0..ClockMax) \X (0..ClockMax) \X (0..ClockMax)

\* cronexpr.go:577: "Next returns the next time point after the given time that
\* matches the cron expression": the time found matches the text, is later, and
\* none between matches; if none is found there is none.  (A field whose
\* entries admit nothing makes Next panic, or find nothing.)
NextIsNext ==
    expr # NoExpr /\ time \notin {Zero, Panicked} =>
        LET n == CeNextTime(expr, calendar, time) IN
        \/ n = Panicked /\ \E i \in 1..6 : i # 3 /\ expr.lists[i] = {}
        \/ /\ n # Panicked
           /\ n # Zero => Earlier(time, n) /\ DayHit(n[1], n[2], n[3]) /\ ClockHit(SubSeq(n, 4, 6))
           /\ \A y \in 1..YearMax, mo \in 1..MonthMax, d \in 1..31 :
                LET day == <<y, mo, d>> IN
                ~Earlier(day, SubSeq(time, 1, 3)) /\ (n # Zero => ~Earlier(SubSeq(n, 1, 3), day))
                /\ DayHit(y, mo, d) =>
                   \A h \in Clocks : ClockHit(h) /\ Earlier(time, day \o h) =>
                       n # Zero /\ ~Earlier(day \o h, n)
=============================================================================
