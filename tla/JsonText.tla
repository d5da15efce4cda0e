----------------------------- MODULE JsonText -----------------------------
(***************************************************************************)
(* zjson: Get, Set and Delete work on the text of a document, without a    *)
(* tree (get.go, set.go, json.go).  The text is a sequence of tokens:      *)
(* brackets, commas, colons, and keys and values as they are.  A path is a *)
(* sequence of parts: keys, indices, "*", "#", queries, selectors, "|" and  *)
(* "@reverse" (modifiers are on); a part of a path of Set may be forced to *)
(* be a key (":1").  Strings hold no brackets.                             *)
(***************************************************************************)
EXTENDS Integers, Sequences, FiniteSets
LOCAL INSTANCE SequencesExt
LOCAL INSTANCE TLC

CONSTANTS
    Documents,      \* texts to begin with
    SetPaths,       \* paths of Set and Delete: parts with their force
    SetValues,      \* texts of values
    GetPaths,       \* paths of Get
    Query,          \* Query[p]: what the part "#(...)" or "#(...)#" p asks: path, op, value, all
    Selector,       \* Selector[p]: what "[...]" or "{...}" p selects: kind, subs with name and path
    NumberOf,       \* NumberOf[n]: the value of the token n
    MaxEdits        \* bound on Set and Delete

ASSUME JsonTextAssumption == MaxEdits \in Nat /\ GetPaths \subseteq Seq(STRING)

VARIABLES
    document,   \* the text
    wanted,     \* history: the tree that it should be of, from paths to a bracket or a value
    edits       \* number of Set and Delete so far

jsVars == <<document, wanted, edits>>

Opens == {"{", "["}
Closes == {"}", "]"}
Scalars == {"true", "false", "null"} \cup DOMAIN NumberOf
Numeral(h) == ToString(h)
Numerals == {Numeral(h) : h \in 0..9}
ValueOf(part) == CHOOSE h \in 0..9 : Numeral(h) = part

-----------------------------------------------------------------------------
\* switchJson: where what begins at i ends.
RECURSIVE Closing(_, _, _)
Closing(t, i, depth) ==
    LET d == IF t[i] \in Opens THEN depth + 1 ELSE IF t[i] \in Closes THEN depth - 1 ELSE depth
    IN  IF d = 0 THEN i ELSE Closing(t, i + 1, d)
Raw(t, i) == SubSeq(t, i, Closing(t, i, 0))

\* The values in the container that begins at i, as parseObject and parseArray meet
\* them, each with its key or index.
RECURSIVE Values(_, _, _, _)
Values(t, i, h, kind) ==
    IF t[i] \in Closes THEN <<>>
    ELSE LET at == IF kind = "{" THEN i + 2 ELSE i
             end == Closing(t, at, 0)
         IN  <<[key |-> IF kind = "{" THEN t[i] ELSE Numeral(h), at |-> at]>>
             \o Values(t, IF t[end + 1] = "," THEN end + 2 ELSE end + 1, h + 1, kind)
ValuesIn(t, i) == Values(t, i + 1, 0, t[i])

\* parseAny: the value that comes next, wherever brackets close before it.
ParseAny(t, i) ==
    LET next == {j \in i..Len(t) : t[j] \notin Closes \cup {",", ":"}}
    IN  IF next = {} THEN <<>> ELSE Raw(t, CHOOSE j \in next : \A k \in next : j <= k)

Commas(raws) ==
    LET some == SelectSeq(raws, LAMBDA r : r # <<>>)
    IN  FlattenSeq([k \in DOMAIN some |-> IF k = 1 THEN some[k] ELSE <<",">> \o some[k]])

\* Res: raw, its place in the text (0 for one that was put together), and whether
\* the search came to the part before a "|", so that what is behind it applies.
Missing == [hit |-> FALSE, raw |-> <<>>, at |-> 0, piped |-> FALSE]
Made(raw) == [hit |-> TRUE, raw |-> raw, at |-> 0, piped |-> TRUE]

\* queryMatches, for a value with one token; containers and null fit no operator.
Satisfies(op, value, v) ==
    \/ op = ""
    \/ v \notin Opens \cup {"null"} /\ op = "=" /\ v = value
    \/ v \notin Opens \cup {"null"} /\ op = "!=" /\ v # value
    \/ v \in DOMAIN NumberOf /\ op = ">" /\ NumberOf[v] > NumberOf[value]
    \/ v = "true" /\ op = ">" /\ value = "false"

RECURSIVE Get(_, _), Found(_, _, _), Looked(_, _)

QueryMatches(q, raw) ==
    LET v == IF raw[1] \in Opens
             THEN (IF q.path = <<>> THEN <<>> ELSE Get(raw, q.path).raw)
             ELSE (IF q.path = <<>> THEN raw ELSE <<>>)
    IN  v # <<>> /\ Satisfies(q.op, q.value, v[1])

\* parseArray with "#" and more: each position noted in alog, the last one is behind the elements.
ForEachOf(t, i, rest) ==
    LET elements == ValuesIn(t, i)
        alog == [k \in 1..(Len(elements) + 1) |->
                    IF k <= Len(elements) THEN elements[k].at ELSE Closing(t, i, 0)]
    IN  Made(<<"[">> \o Commas([k \in DOMAIN alog |-> Get(ParseAny(t, alog[k]), rest).raw]) \o <<"]">>)

\* parseArray with a query: the first element that matches, or all; found is what
\* the rest of the path finds in those that match.
Taken(all, some, found, rest) ==
    CASE all /\ some ->
            [Made(<<"[">> \o Commas(found) \o <<"]">>) EXCEPT !.piped = rest = <<>> \/ found # <<>>]
      [] ~ all /\ found # <<>> -> Made(found[1])
      [] OTHER -> [Missing EXCEPT !.piped = rest = <<>>]
InEach(raws, rest) ==
    IF rest = <<>> THEN raws ELSE [k \in DOMAIN raws |-> Get(raws[k], rest).raw]
Queried(t, i, q, rest) ==
    LET raws == [k \in DOMAIN ValuesIn(t, i) |-> Raw(t, ValuesIn(t, i)[k].at)]
    IN  Taken(q.all, raws # <<>>, InEach(SelectSeq(raws, LAMBDA r : QueryMatches(q, r)), rest), rest)

\* parseObject, and parseArray with an index: the first value whose key fits and
\* below which the rest is found.
Below(t, v, parts) ==
    IF Len(parts) = 1 THEN [hit |-> TRUE, raw |-> Raw(t, v.at), at |-> v.at, piped |-> TRUE]
    ELSE IF t[v.at] \in Opens THEN Found(t, v.at, Tail(parts)) ELSE Missing
FirstHit(found, last) ==
    LET hits == SelectSeq(found, LAMBDA res : res.hit)
    IN  IF hits # <<>> THEN hits[1]
        ELSE [Missing EXCEPT !.piped = last \/ \E res \in Range(found) : res.piped]
Named(t, i, parts) ==
    LET fits == SelectSeq(ValuesIn(t, i), LAMBDA v :
                    v.key = parts[1] \/ (parts[1] = "*" /\ t[i] = "{"))
    IN  FirstHit([k \in DOMAIN fits |-> Below(t, fits[k], parts)], Len(parts) = 1)

Found(t, i, parts) ==
    CASE t[i] = "[" /\ parts = <<"#">> -> Made(<<Numeral(Len(ValuesIn(t, i)))>>)
      [] t[i] = "[" /\ parts[1] = "#" /\ Len(parts) > 1 -> ForEachOf(t, i, Tail(parts))
      [] t[i] = "[" /\ parts[1] \in DOMAIN Query -> Queried(t, i, Query[parts[1]], Tail(parts))
      [] OTHER -> Named(t, i, parts)

\* parseSubSelectors: what each finds, put together; a name is that of the last part, if simple.
Selected(t, sel) ==
    LET subs == [k \in DOMAIN sel.subs |->
                    [name |-> sel.subs[k].name, raw |-> Get(t, sel.subs[k].path).raw]]
        some == SelectSeq(subs, LAMBDA s : s.raw # <<>>)
    IN  IF sel.kind = "[" THEN <<"[">> \o Commas([k \in DOMAIN some |-> some[k].raw]) \o <<"]">>
        ELSE <<"{">> \o Commas([k \in DOMAIN some |-> <<some[k].name, ":">> \o some[k].raw]) \o <<"}">>

\* modifierReverse: ForEach hands out one and the same key each time.
Reversed(t) ==
    LET vs == ValuesIn(t, 1)
        back == [k \in DOMAIN vs |-> Raw(t, vs[Len(vs) + 1 - k].at)]
    IN  CASE t[1] = "[" -> <<"[">> \o Commas(back) \o <<"]">>
          [] t[1] = "{" /\ vs # <<>> ->
                <<"{">> \o Commas([k \in DOMAIN back |-> <<Last(vs).key, ":">> \o back[k]]) \o <<"}">>
          [] OTHER -> t

\* Get; a modifier and a selector are first in a path or behind a "|".
Get(t, path) ==
    LET behind == SubSeq(path, 3, Len(path))
        Then(raw) == IF Len(path) = 1 THEN Made(raw) ELSE [Get(raw, behind) EXCEPT !.at = 0]
    IN  CASE path[1] = "@reverse" -> Then(IF t = <<>> THEN t ELSE Reversed(t))
          [] path[1] \in DOMAIN Selector -> Then(Selected(t, Selector[path[1]]))
          [] OTHER -> Looked(t, path)
Piped(res, behind) ==
    IF behind # <<>> /\ res.piped THEN [Get(res.raw, behind) EXCEPT !.at = 0] ELSE res
Looked(t, path) ==
    LET pipes == {k \in DOMAIN path : path[k] = "|"}
        pipe == IF pipes = {} THEN Len(path) + 1 ELSE CHOOSE k \in pipes : \A j \in pipes : k <= j
        parts == SubSeq(path, 1, pipe - 1)
    IN  Piped(IF t = <<>> \/ t[1] \notin Opens THEN Missing ELSE Found(t, 1, parts),
              SubSeq(path, pipe + 1, Len(path)))

-----------------------------------------------------------------------------
\* atoui
Numeric(p) == ~ p.force /\ p.part \in Numerals
AtLast(p) == ~ p.force /\ p.part = "-1"

Repeated(s, n) == FlattenSeq([k \in 1..n |-> s])

\* appendBuild: the value with the containers of the parts that are left.
RECURSIVE Build(_, _, _)
Build(array, parts, value) ==
    (IF array THEN <<>> ELSE <<parts[1].part, ":">>)
    \o (IF Len(parts) = 1 THEN value
        ELSE IF Numeric(parts[2]) \/ AtLast(parts[2])
             THEN <<"[">> \o Repeated(<<"null", ",">>, IF Numeric(parts[2]) THEN ValueOf(parts[2].part) ELSE 0)
                  \o Build(TRUE, Tail(parts), value) \o <<"]">>
             ELSE <<"{">> \o Build(FALSE, Tail(parts), value) \o <<"}">>)

\* deleteTailItem, and whether the comma behind is to go, too.
DeleteTailItem(t) ==
    LET before == IF Last(t) = ":" THEN SubSeq(t, 1, Len(t) - 2) ELSE t
    IN  IF Last(before) = "," THEN [text |-> Front(before), comma |-> FALSE]
        ELSE [text |-> before, comma |-> TRUE]
KeepComma(before, behind) == DeleteTailItem(before).text \o behind   \* mutant: the comma behind stays
Deleted(before, behind) ==
    LET d == DeleteTailItem(before)
    IN  d.text \o (IF d.comma /\ behind[1] = "," THEN Tail(behind) ELSE behind)

\* Res.Array: arrayOrMap takes the literal true for what follows its first letter.
ArrayOf(t) ==
    [k \in DOMAIN ValuesIn(t, 1) |->
        LET r == Raw(t, ValuesIn(t, 1)[k].at) IN IF r = <<"true">> THEN <<"rue">> ELSE r]

\* appendRawPaths where the part is not there: the text, or none for an error.
Inserted(t, parts, value) ==
    LET base == IF t # <<>> /\ t[1] \in Opens THEN t
                ELSE IF Numeric(parts[1]) THEN <<"[", "]">> ELSE <<"{", "}">>
        comma == IF base[2] \in Closes THEN <<>> ELSE <<",">>
        elements == ArrayOf(base)
    IN  CASE base[1] = "{" -> <<"{">> \o Build(FALSE, parts, value) \o comma \o Tail(base)
          [] base[1] = "[" /\ AtLast(parts[1]) ->
                Front(base) \o comma \o Build(TRUE, parts, value) \o <<"]">>
          [] base[1] = "[" /\ Numeric(parts[1]) ->
                <<"[">> \o Commas(elements)
                \o (IF elements = <<>> THEN <<"null", ",">>
                    ELSE Repeated(<<",", "null">>, ValueOf(parts[1].part) - Len(elements)) \o <<",">>)
                \o Build(TRUE, parts, value) \o <<"]">>
          [] OTHER -> <<>>

\* appendRawPaths; nothing changes where it fails.
PartFound(t, p, del) ==
    LET size == IF t # <<>> /\ t[1] = "[" THEN Len(ValuesIn(t, 1)) ELSE 0
    IN  Get(t, <<IF del /\ AtLast(p) /\ size > 0 THEN Numeral(size - 1) ELSE p.part>>)
Before(t, res) == SubSeq(t, 1, res.at - 1)
Behind(t, res) == SubSeq(t, res.at + Len(res.raw), Len(t))
Spliced(t, res, text) == IF text = <<>> THEN <<>> ELSE Before(t, res) \o text \o Behind(t, res)
RECURSIVE Edited(_, _, _, _)
EditedAt(t, res, parts, value, del) ==
    CASE res.at > 1 /\ Len(parts) > 1 -> Spliced(t, res, Edited(res.raw, Tail(parts), value, del))
      [] res.at > 1 /\ Len(parts) = 1 ->
            IF del THEN Deleted(Before(t, res), Behind(t, res)) ELSE Spliced(t, res, value)
      [] OTHER -> IF del THEN <<>> ELSE Inserted(t, parts, value)
Edited(t, parts, value, del) == EditedAt(t, PartFound(t, parts[1], del), parts, value, del)

\* set, by the shorter way where Options ask for it and the whole path is found.
PlainPath(parts) == \A k \in DOMAIN parts : ~ parts[k].force /\ parts[k].part # "-1"
SetAt(t, res, parts, value, optimistic) ==
    IF optimistic /\ PlainPath(parts) /\ res.at > 1 THEN Spliced(t, res, value)
    ELSE Edited(t, parts, value, FALSE)
SetTo(parts, value, optimistic) ==
    SetAt(document, Get(document, [k \in DOMAIN parts |-> parts[k].part]), parts, value, optimistic)
OrSame(text) == IF text = <<>> THEN document ELSE text

-----------------------------------------------------------------------------
(* The same on trees: what the edits should come to, and what Get should   *)
(* find, without a text.                                                   *)
NoTree == <<>>
Label(tree) == tree[<<>>]
Under(tree, p) == {q \in DOMAIN tree : IsPrefix(p, q)}
SubTree(tree, p) ==
    [q \in {SubSeq(r, Len(p) + 1, Len(r)) : r \in Under(tree, p)} |-> tree[p \o q]]
Pruned(tree, p) == [q \in DOMAIN tree \ Under(tree, p) |-> tree[q]]
Grafted(tree, p, sub) ==
    [q \in {p \o r : r \in DOMAIN sub} |-> sub[SubSeq(q, Len(p) + 1, Len(q))]] @@ Pruned(tree, p)
ChildKeys(tree) == {q[1] : q \in {r \in DOMAIN tree : Len(r) = 1}}
SizeOf(tree) == Cardinality(ChildKeys(tree))
ListOf(trees) ==
    FoldLeft(LAMBDA acc, k : Grafted(acc, <<Numeral(k - 1)>>, trees[k]), <<>> :> "[",
             [k \in DOMAIN trees |-> k])
Elements(tree) == [k \in 1..SizeOf(tree) |-> SubTree(tree, <<Numeral(k - 1)>>)]

\* The tree of a text.
RECURSIVE TreeAt(_, _)
TreeAt(t, i) ==
    IF t[i] \notin Opens THEN <<>> :> t[i]
    ELSE FoldLeft(LAMBDA acc, v : Grafted(acc, <<v.key>>, TreeAt(t, v.at)), <<>> :> t[i], ValuesIn(t, i))
TreeOf(t) == IF t = <<>> THEN NoTree ELSE TreeAt(t, 1)

\* What Set should make: an index counts from what is there, except that an
\* array without elements gets one null, whatever the index (TestSetRawArrayExpansion).
Nulls(n) == [k \in 1..n |-> <<>> :> "null"]
RECURSIVE Fresh(_, _), SetIn(_, _, _), DeletedFrom(_, _)
Fresh(parts, sub) ==
    LET p == parts[1]
        new == Fresh(Tail(parts), sub)
    IN  CASE parts = <<>> -> sub
          [] parts # <<>> /\ Numeric(p) -> ListOf(Append(Nulls(ValueOf(p.part)), new))
          [] parts # <<>> /\ AtLast(p) -> ListOf(<<new>>)
          [] OTHER -> Grafted(<<>> :> "{", <<p.part>>, new)
SetIn(tree, parts, sub) ==
    LET p == parts[1]
        base == IF tree = NoTree \/ Label(tree) \notin Opens
                THEN <<>> :> (IF Numeric(p) THEN "[" ELSE "{") ELSE tree
        new == Fresh(Tail(parts), sub)
        missing == IF SizeOf(base) = 0 THEN 1 ELSE ValueOf(p.part) - SizeOf(base)
    IN  CASE parts = <<>> -> sub
          [] parts # <<>> /\ p.part \in ChildKeys(base) ->
                Grafted(base, <<p.part>>, SetIn(SubTree(base, <<p.part>>), Tail(parts), sub))
          [] parts # <<>> /\ p.part \notin ChildKeys(base) ->
                CASE Label(base) = "{" -> Grafted(base, <<p.part>>, new)
                  [] Label(base) = "[" /\ AtLast(p) -> ListOf(Append(Elements(base), new))
                  [] Label(base) = "[" /\ Numeric(p) -> ListOf(Elements(base) \o Nulls(missing) \o <<new>>)
                  [] OTHER -> tree

\* What Delete should leave.
DeletedFrom(tree, parts) ==
    LET size == SizeOf(tree)
        key == IF AtLast(parts[1]) /\ Label(tree) = "[" /\ size > 0 THEN Numeral(size - 1) ELSE parts[1].part
        rest == SelectSeq([k \in 1..size |-> k], LAMBDA k : Numeral(k - 1) # key)
    IN  CASE tree = NoTree \/ key \notin ChildKeys(tree) -> tree
          [] tree # NoTree /\ key \in ChildKeys(tree) ->
                CASE Len(parts) > 1 -> Grafted(tree, <<key>>, DeletedFrom(SubTree(tree, <<key>>), Tail(parts)))
                  [] Len(parts) = 1 /\ Label(tree) = "{" -> Pruned(tree, <<key>>)
                  [] OTHER -> ListOf([k \in DOMAIN rest |-> SubTree(tree, <<Numeral(rest[k] - 1)>>)])

\* What Get may find; more than one answer only by "*", as a tree has no order of keys.
RECURSIVE Answers(_, _)
TreeMatches(q, tree) ==
    LET vs == IF Label(tree) \in Opens
              THEN (IF q.path = <<>> THEN {} ELSE Answers(tree, q.path))
              ELSE (IF q.path = <<>> THEN {tree} ELSE {})
    IN  \E v \in vs : Satisfies(q.op, q.value, Label(v))
Backwards(tree) ==
    IF tree # NoTree /\ Label(tree) = "[" THEN ListOf(Reverse(Elements(tree))) ELSE tree
Ones(answers) ==
    LET some == SelectSeq(answers, LAMBDA a : a # {}) IN [k \in DOMAIN some |-> CHOOSE v \in some[k] : TRUE]
TheAnswers(trees, path) == Ones([k \in DOMAIN trees |-> Answers(trees[k], path)])
Selection(sel, answers) ==
    IF sel.kind = "[" THEN ListOf(Ones(answers))
    ELSE FoldLeft(LAMBDA acc, k : IF answers[k] = {} THEN acc
                                  ELSE Grafted(acc, <<sel.subs[k].name>>, CHOOSE v \in answers[k] : TRUE),
                  <<>> :> "{", [k \in DOMAIN answers |-> k])
Matching(tree, q, matches, rest) ==
    CASE q.all -> IF SizeOf(tree) = 0 THEN {} ELSE {ListOf(TheAnswers(matches, rest))}
      [] ~ q.all /\ matches # <<>> -> Answers(matches[1], rest)
      [] OTHER -> {}
Answers(tree, path) ==
    LET part == path[1]
        rest == Tail(path)
        pipes == {k \in DOMAIN path : path[k] = "|"}
        pipe == CHOOSE k \in pipes : \A j \in pipes : k <= j
    IN  CASE path = <<>> -> IF tree = NoTree THEN {} ELSE {tree}
          [] path # <<>> /\ part = "|" -> Answers(tree, rest)
          [] path # <<>> /\ part = "@reverse" -> Answers(Backwards(tree), rest)
          [] path # <<>> /\ part \in DOMAIN Selector -> 
                Answers(Selection(Selector[part],
                                  [k \in DOMAIN Selector[part].subs |-> Answers(tree, Selector[part].subs[k].path)]), rest)
          [] path # <<>> /\ part \notin {"|", "@reverse"} \cup DOMAIN Selector /\ pipes # {} ->
                UNION {Answers(found, SubSeq(path, pipe + 1, Len(path))) :
                            found \in Answers(tree, SubSeq(path, 1, pipe - 1))}
          [] OTHER ->
                CASE tree = NoTree -> {}
                  [] tree # NoTree /\ Label(tree) = "[" /\ path = <<"#">> -> {<<>> :> Numeral(SizeOf(tree))}
                  [] Label(tree) = "[" /\ part = "#" /\ rest # <<>> -> {ListOf(TheAnswers(Elements(tree), rest))}
                  [] Label(tree) = "[" /\ part \in DOMAIN Query ->
                        Matching(tree, Query[part],
                                 SelectSeq(Elements(tree), LAMBDA e : TreeMatches(Query[part], e)), rest)
                  [] OTHER ->
                        UNION {Answers(SubTree(tree, <<key>>), rest) :
                                key \in {k \in ChildKeys(tree) : k = part \/ (part = "*" /\ Label(tree) = "{")}}

-----------------------------------------------------------------------------
\* validany, validobject, validarray: where what is valid ends; 0 for what is not.
RECURSIVE ValidAny(_, _), ValidItems(_, _, _)
ValidAny(t, i) ==
    CASE i > Len(t) -> 0
      [] i <= Len(t) /\ t[i] \in Opens ->
            LET close == IF t[i] = "{" THEN "}" ELSE "]"
            IN  IF i < Len(t) /\ t[i + 1] = close THEN i + 2 ELSE ValidItems(t, i + 1, close)
      [] OTHER -> IF t[i] \in Scalars THEN i + 1 ELSE 0
ValidItems(t, i, close) ==
    LET keyed == i + 1 <= Len(t) /\ t[i] \notin Opens \cup Closes \cup {",", ":"} /\ t[i + 1] = ":"
        end == CASE close = "]" -> ValidAny(t, i) [] keyed -> ValidAny(t, i + 2) [] OTHER -> 0
    IN  CASE end = 0 \/ end > Len(t) -> 0
          [] OTHER -> CASE t[end] = close -> end + 1
                        [] t[end] = "," -> ValidItems(t, end + 1, close)
                        [] OTHER -> 0
Valid(t) == ValidAny(t, 1) = Len(t) + 1

JsInit ==
    /\ document \in Documents
    /\ wanted = TreeOf(document)
    /\ edits = 0

\* SetRaw of somebody who keeps the document when there is an error.
SetRaw ==
    /\ edits < MaxEdits /\ ~ Contains(document, "rue")
    /\ \E parts \in SetPaths, value \in SetValues, optimistic \in BOOLEAN :
            /\ document' = OrSame(SetTo(parts, value, optimistic))
            /\ wanted' = SetIn(wanted, parts, TreeOf(value))
    /\ edits' = edits + 1
DeletePath ==
    /\ edits < MaxEdits /\ document # <<>> /\ ~ Contains(document, "rue")
    /\ \E parts \in SetPaths :
            /\ document' = OrSame(Edited(document, parts, <<>>, TRUE))
            /\ wanted' = DeletedFrom(wanted, parts)
    /\ edits' = edits + 1
JsNext == SetRaw \/ DeletePath
JsSpec == JsInit /\ [][JsNext]_jsVars

-----------------------------------------------------------------------------
\* A path with "#" and more behind an index also collects from what follows the array.
Leaks(path) == \E i, j \in DOMAIN path : i < j /\ j < Len(path) /\ path[i] \in Numerals /\ path[j] = "#"
\* The empty array of a query for all that matches nothing is not passed on to what is behind "|".
Unpiped(path, res) ==
    /\ res.raw = <<"[", "]">>
    /\ \E i, j \in DOMAIN path :
            path[i] \in DOMAIN Query /\ Query[path[i]].all /\ i + 1 < j /\ path[j] = "|"
\* An object of two keys or more that is reversed keeps only its last key.
OneKeyLeft(path) ==
    \E k \in DOMAIN path : path[k] = "@reverse" /\
        \E v \in Answers(wanted, SubSeq(path, 1, k - 1)) : Label(v) = "{" /\ SizeOf(v) > 1

GetAgrees(path, res, answers) ==
    \/ Leaks(path) \/ Unpiped(path, res) \/ OneKeyLeft(path)
    \/ res.raw = <<>> /\ answers = {}
    \/ Valid(res.raw) /\ TreeOf(res.raw) \in answers

\* After any edits the text is valid and says what the edits should have come
\* to, and Get finds on the text what is there in the tree, for every path, with
\* indices, counts, queries and wildcards (set.go, get.go).  Not covered: a
\* literal that a padded array has mangled, and the three kinds of path above.
JsonSound ==
    \/ Contains(document, "rue")
    \/ /\ document = <<>> \/ Valid(document)
       /\ TreeOf(document) = wanted
       /\ \A path \in GetPaths : GetAgrees(path, Get(document, path), Answers(wanted, path))
=============================================================================
