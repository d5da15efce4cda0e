------------------------------ MODULE MCData ------------------------------
(***************************************************************************)
(* The stores, the limiters, the cron expressions, the router, the event   *)
(* stream and the JSON text, for TLC: one of them runs in a behaviour,     *)
(* chosen in the initial state, and the others rest.                       *)
(***************************************************************************)
EXTENDS MCHashMap, FastCache, Sessions, MemFile, Limiter, TokenBucket, CronExpr, RouteTree,
        EventStream, JsonText

\* Setups of Limiter: more keys than rings; two rules.
Arguments(exp, allowed, estimated) == [exp |-> exp, allowed |-> allowed, estimated |-> estimated]
MCSetups ==
    {[guests |-> {"g1"}, keys |-> {"a", "b", "c", "d"}, rules |-> <<Arguments(1, 1, 1)>>],
     [guests |-> {"g1", "g2"}, keys |-> {"a"}, rules |-> <<Arguments(2, 2, 0), Arguments(1, 1, 1)>>]}

(* Cases of CronExpr: calendars of four months whose first has any length  *)
(* and begins on any weekday, with every form of the day fields; and one   *)
(* calendar with texts that move every field.                              *)
En(form, a, b, step) == [form |-> form, a |-> a, b |-> b, step |-> step]
Any == <<En("*", 0, 0, 1)>>
Only(a) == <<En("n", a, 0, 1)>>
MCCalendar(days, first) ==
    LET length(k) == IF k = 0 THEN days ELSE IF k = 1 THEN 28 ELSE 31
        before(k) == (IF k > 0 THEN days ELSE 0) + (IF k > 1 THEN 28 ELSE 0) + (IF k > 2 THEN 31 ELSE 0)
    IN  [ym \in (1..2) \X (1..2) |->
            LET k == (ym[1] - 1) * 2 + ym[2] - 1
            IN  [last |-> length(k), first |-> (first + before(k)) % 7]]
DomFields ==
    {<<En("n", d, 0, 1)>> : d \in {28, 29, 30, 31}}
    \cup {<<En("W", d, 0, 1)>> : d \in {1, 14, 28, 29, 30, 31}}
    \cup {<<En("L", 0, 0, 1), En("W", 1, 0, 1)>>, <<En("LW", 0, 0, 1)>>,
          <<En("*/k", 0, 0, 10)>>, <<En("n-m/k", 3, 30, 9)>>}
DowFields ==
    {<<En("n", w, 0, 1)>> : w \in {0, 6}} \cup {<<En("nL", w, 0, 1)>> : w \in {0, 5}}
    \cup {<<En("#", w, n, 1)>> : w \in {0, 6}, n \in {1, 4, 5}} \cup {<<En("n-m", 1, 5, 1)>>}
AtHour(h) == <<Only(h), Only(0), Only(0)>>
DayTexts ==
    {<<Any, Any, d>> \o AtHour(1) \o <<Any>> : d \in DomFields}
    \cup {<<Any, Any, Any>> \o AtHour(1) \o <<w>> : w \in DowFields}
    \cup {<<Any, Only(2), Only(30)>> \o AtHour(1) \o <<<<En("nL", 0, 0, 1)>>>>}
ClockTexts ==
    {<<y, m, d, h, mi, s, Any>> : y \in {Any, Only(2)}, m \in {Any, Only(1)},
        d \in {Any, Only(31), <<En("n/k", 2, 0, 27)>>}, h \in {Any, Only(1), <<En("n-m", 1, 0, 1)>>},
        mi \in {Any, Only(0)}, s \in {Any, Only(1)}}
MCStarts == {<<1, m, d>> \o h : m \in 1..2, d \in {1, 15, 31}, h \in {<<1, 0, 0>>, <<0, 1, 1>>}}
MCCases ==
    {<<MCCalendar(days, first), x>> : days \in 28..31, first \in 0..6, x \in DayTexts}
    \cup {<<MCCalendar(31, 3), x>> : x \in ClockTexts}

\* Calls of RouteTree: paths that are prefixes of each other, with parameters at every
\* place, named, in a group and for any method; and every URL of two segments.
Call(method, prefix, p, called, wares) ==
    [method |-> method, prefix |-> prefix, path |-> p, name |-> called, wares |-> wares]
MCCalls ==
    {Call("GET", <<>>, p, "", TRUE) : p \in
        {<<"">>, <<"a">>, <<"a", "">>, <<"a", "b">>, <<":x">>, <<":x", "">>, <<"a", ":x">>, <<":id", "b">>,
         <<"*">>, <<"a", "*">>}}
    \cup {Call("GET", <<>>, p, "n", FALSE) : p \in {<<"a">>, <<":x">>, <<":id", "b">>}}
    \cup {Call("GET", <<"a">>, p, "", FALSE) : p \in {<<>>, <<"">>, <<"b">>, <<"b", "">>}}
    \cup {Call("*", <<>>, p, "", TRUE) : p \in {<<"a">>, <<":x">>, <<"*">>}}
MCUrls ==
    {<<"">>} \cup {s \o t : s \in {<<"a">>, <<"b">>, <<"1">>} \cup {<<x, y>> : x, y \in {"a", "b", "1"}},
                          t \in {<<>>, <<"">>}}

(* Documents of JsonText: none, objects and arrays in each other, and a    *)
(* value of every kind; and paths of every kind, to what is there and what *)
(* is not.                                                                 *)
MCDocuments ==
    {<<>>, <<"{", "a", ":", "7", "}">>, <<"[", "7", ",", "{", "a", ":", "8", "}", "]">>,
     <<"[", "[", "{", "a", ":", "7", "}", "]", ",", "{", "a", ":", "false", ",", "b", ":", "[", "]", "}", "]">>,
     <<"{", "a", ":", "[", "{", "b", ":", "7", "}", ",", "{", "b", ":", "8", ",", "a", ":", "true", "}", ",", "8", "]",
       ",", "1", ":", "{", "}", "}">>}
Plainly(parts) == [k \in DOMAIN parts |-> [part |-> parts[k], force |-> FALSE]]
Forced(parts) == [Plainly(parts) EXCEPT ![Len(parts)].force = TRUE]
MCSetPaths ==
    {Plainly(p) : p \in
        {<<"a">>, <<"b">>, <<"1">>, <<"-1">>, <<"a", "b">>, <<"a", "0">>, <<"a", "2">>, <<"a", "-1">>, <<"0", "a">>,
         <<"1", "a">>, <<"a", "0", "b">>, <<"b", "a", "1">>, <<"1", "b", "-1">>, <<"-1", "0">>}}
    \cup {Forced(p) : p \in {<<"1">>, <<"a", "1">>}}
MCSetValues == {<<"7">>, <<"[", "8", "]">>}
Asks(p, op, value, all) == [path |-> p, op |-> op, value |-> value, all |-> all]
MCQuery ==
    [q \in {"#(b>7)", "#(a!=7)", "#(b)#", "#(=8)#"} |->
        CASE q = "#(b>7)" -> Asks(<<"b">>, ">", "7", FALSE) [] q = "#(a!=7)" -> Asks(<<"a">>, "!=", "7", FALSE)
          [] q = "#(b)#" -> Asks(<<"b">>, "", "", TRUE) [] q = "#(=8)#" -> Asks(<<>>, "=", "8", TRUE)]
Sub(called, p) == [name |-> called, path |-> p]
MCSelector ==
    [s \in {"[a,b,#]", "{a,x:a.0,b}"} |->
        IF s = "[a,b,#]" THEN [kind |-> "[", subs |-> <<Sub("", <<"a">>), Sub("", <<"b">>), Sub("", <<"#">>)>>]
        ELSE [kind |-> "{", subs |-> <<Sub("a", <<"a">>), Sub("x", <<"a", "0">>), Sub("b", <<"b">>)>>]]
MCNumberOf == [n \in Numerals |-> ValueOf(n)]
MCGetPaths ==
    {<<"a">>, <<"b">>, <<"1">>, <<"#">>, <<"*">>, <<"a", "#">>, <<"a", "0">>, <<"a", "2">>, <<"a", "b">>, <<"0", "a">>,
     <<"1", "a">>, <<"a", "1", "b">>, <<"b", "a", "1">>, <<"*", "0">>, <<"*", "b">>, <<"a", "*", "b">>,
     <<"a", "#", "b">>, <<"#", "a">>, <<"0", "#", "a">>, <<"a", "#(b>7)">>, <<"a", "#(b>7)", "a">>, <<"#(a!=7)", "a">>,
     <<"a", "#(b)#">>, <<"a", "#(b)#", "b">>, <<"a", "#(=8)#">>, <<"a", "|", "#">>, <<"a", "#", "b", "|", "#">>,
     <<"a", "#(b)#", "b", "|", "#">>, <<"@reverse">>, <<"a", "|", "@reverse", "|", "0">>, <<"[a,b,#]">>,
     <<"[a,b,#]", "|", "1", "0">>, <<"{a,x:a.0,b}">>, <<"{a,x:a.0,b}", "|", "x">>}

VARIABLE part   \* the component that runs

Parts == {"hashmap", "fast", "sessions", "file", "limiter", "bucket", "expr", "routes", "stream",
          "json"}

dataVars == <<part, hmVars, fcVars, seVars, mfVars, limVars, tbVars, ceVars, rtVars, ssVars, jsVars>>

DataInit ==
    /\ part \in Parts
    /\ HmInit /\ (part = "hashmap" \/ mode = CHOOSE m \in Modes : TRUE)
    /\ FcInit /\ (part = "fast" \/ two)
    /\ SeInit /\ (part = "sessions" \/ situation = CHOOSE s \in Situations : TRUE)
    /\ MfInit /\ (part = "file" \/ use = CHOOSE u \in Uses : TRUE)
    /\ LimInit /\ (part = "limiter" \/ setup = CHOOSE s \in Setups : TRUE)
    /\ TbInit /\ (part = "bucket" \/ tbRate + capacity = 2)
    /\ RtInit /\ (part = "routes" \/ quiet)
    /\ SsInit /\ (part = "stream" \/ engine.retryNum = -1)
    /\ JsInit /\ (part = "json" \/ document = <<>>)
    /\ \/ part = "expr" /\ CeInit
       \/ /\ part # "expr"
          /\ calendar = MCCalendar(31, 3) /\ text = AtHour(1) /\ time = <<1, 1, 1, 1, 0, 0>> /\ expr = NoExpr

DataNext ==
    \/ part = "hashmap" /\ HmNext /\ UNCHANGED <<part, fcVars, seVars, mfVars, limVars, tbVars, ceVars, rtVars, ssVars, jsVars>>
    \/ part = "fast" /\ FcNext /\ UNCHANGED <<part, hmVars, seVars, mfVars, limVars, tbVars, ceVars, rtVars, ssVars, jsVars>>
    \/ part = "sessions" /\ SeNext /\ UNCHANGED <<part, hmVars, fcVars, mfVars, limVars, tbVars, ceVars, rtVars, ssVars, jsVars>>
    \/ part = "file" /\ MfNext /\ UNCHANGED <<part, hmVars, fcVars, seVars, limVars, tbVars, ceVars, rtVars, ssVars, jsVars>>
    \/ part = "limiter" /\ LimNext /\ UNCHANGED <<part, hmVars, fcVars, seVars, mfVars, tbVars, ceVars, rtVars, ssVars, jsVars>>
    \/ part = "bucket" /\ TbNext /\ UNCHANGED <<part, hmVars, fcVars, seVars, mfVars, limVars, ceVars, rtVars, ssVars, jsVars>>
    \/ part = "expr" /\ CeNext /\ UNCHANGED <<part, hmVars, fcVars, seVars, mfVars, limVars, tbVars, rtVars, ssVars, jsVars>>
    \/ part = "routes" /\ RtNext /\ UNCHANGED <<part, hmVars, fcVars, seVars, mfVars, limVars, tbVars, ceVars, ssVars, jsVars>>
    \/ part = "stream" /\ SsNext /\ UNCHANGED <<part, hmVars, fcVars, seVars, mfVars, limVars, tbVars, ceVars, rtVars, jsVars>>
    \/ part = "json" /\ JsNext /\ UNCHANGED <<part, hmVars, fcVars, seVars, mfVars, limVars, tbVars, ceVars, rtVars, ssVars>>

DataSpec == DataInit /\ [][DataNext]_dataVars

\* JsonSound where JsonText runs: after any edits the text is valid and says what they
\* should have come to, and Get finds on the text what is there in the tree (set.go, get.go).
DocumentsSound == part = "json" => JsonSound
=============================================================================
