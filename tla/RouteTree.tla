---------------------------- MODULE RouteTree ----------------------------
(***************************************************************************)
(* znet's routes: their registration (router.go), the tree that holds them *)
(* (tree.go) and the search for the one that serves a URL (utils.go).  A   *)
(* path is the sequence of its segments, and a trailing slash is an empty  *)
(* last one: "/" is <<"">> and "/a/" is <<"a", "">>.  A route is known by  *)
(* the number of the call that registered it.                              *)
(***************************************************************************)
EXTENDS Integers, Sequences, FiniteSets
LOCAL INSTANCE SequencesExt
LOCAL INSTANCE TLC

CONSTANTS
    RouteCalls,   \* arguments of Handle and GETAndName: method, prefix of the group,
                  \* path, name ("" for none), whether there is middleware
    Urls,         \* paths that are asked for
    Digits,       \* segments that are numbers
    ParamValues,  \* values of parameters that GenerateURL is given
    MaxRoutes     \* bound on the calls

ASSUME RouteTreeAssumption == MaxRoutes \in Nat /\ Digits \subseteq STRING

VARIABLES
    trees,      \* trees[m]: the nodes of a method's tree by the keys that lead to them
    routes,     \* routes[m]: the nodes that have a name
    routeName,  \* routeName[m]: tree.parameters.routeName
    handled,    \* the calls so far, with the path each completed and its success
    quiet       \* webMode is quietCode: duplicates are not looked for

rtVars == <<trees, routes, routeName, handled, quiet>>

RtMethods == {"GET", "*"}
NoPath == <<>>
NewNode == [path |-> NoPath, handle |-> 0, middleware |-> <<>>]

RtInit ==
    /\ trees = [m \in RtMethods |-> (<<>> :> NewNode)]
    /\ routes = [m \in RtMethods |-> <<>>]
    /\ routeName = [m \in RtMethods |-> ""]
    /\ handled = <<>>
    /\ quiet \in BOOLEAN

-----------------------------------------------------------------------------
\* Utils.CompletionPath: one slash between the parts, and a last one as p has it.
CompletionPath(p, prefix) ==
    LET joined == SelectSeq(prefix, LAMBDA s : s # "") \o p
    IN  IF joined = <<>> THEN <<"">> ELSE joined

\* The keys under which Tree.Add files a path, and those by which Tree.Find seeks it.
KeysOf(path) ==
    IF path = <<"">> THEN <<>> ELSE [i \in DOMAIN path |-> IF path[i] = "" THEN "/" ELSE path[i]]
FindKeys(path) == SelectSeq(path, LAMBDA s : s # "")

\* Nodes that are routes, below a node and it itself.
RoutesBelow(tree, keys) == {n \in DOMAIN tree : IsPrefix(keys, n) /\ tree[n].path # NoPath}

\* Tree.Find(path, false), without the order of the nodes.
FindExact(tree, path) ==
    CASE tree[<<>>].path = path -> {<<>>}
      [] FindKeys(path) \notin DOMAIN tree -> {}
      [] tree[FindKeys(path)].path = path -> {FindKeys(path)}
      [] OTHER -> RoutesBelow(tree, FindKeys(path))

\* Tree.Find(key, true) for a single key.
FindBelow(tree, key) ==
    IF key = "" /\ tree[<<>>].path = NoPath THEN {<<>>}
    ELSE RoutesBelow(tree, IF key # "" /\ <<key>> \in DOMAIN tree THEN <<key>> ELSE <<>>)

\* ParsePattern and the match of URLMatchAndParse: path[i..] matches url[j..].
SegmentMatch(seg, s) ==
    CASE seg = ":id" -> s \in Digits
      [] seg = ":x" -> s # ""
      [] OTHER -> s = seg
URLMatch(path, url) ==
    LET pat == FindKeys(path)
        match[i \in 1..Len(pat) + 1, j \in 1..Len(url) + 1] ==
            IF i > Len(pat) THEN j > Len(url)
            ELSE /\ j <= Len(url)
                 /\ IF pat[i] = "*" THEN \E k \in j..Len(url) : match[i + 1, k + 1]
                    ELSE SegmentMatch(pat[i], url[j]) /\ match[i + 1, j + 1]
    IN  pat # <<>> /\ match[1, 1]

(* Utils.TreeFind: the node with that very path; or, if the path leads to *)
(* none or ends in a slash, a node nearest to the root that matches.  The *)
(* order of those at one depth is that of a Go map.                       *)
NearestOf(nodes) == {n \in nodes : \A k \in nodes : Len(n) <= Len(k)}
SearchedIfNone(found, url) == found = {}    \* mutant: a slash at the end is not looked at
Searched(found, url) == found = {} \/ Last(url) = ""
TreeFind(tree, url) ==
    LET found == FindExact(tree, url)
        exact == {n \in found : tree[n].handle # 0 /\ tree[n].path = url}
        matching == {n \in FindBelow(tree, Head(url)) :
                        tree[n].handle # 0 /\ tree[n].path # url /\ URLMatch(tree[n].path, url)}
    IN  IF exact # {} THEN exact
        ELSE IF Searched(found, url) THEN NearestOf(matching) ELSE {}

\* Engine.FindHandle: the tree of the method, then the one for any method.
FindHandle(url) ==
    LET own == TreeFind(trees["GET"], url)
    IN  IF own # {} THEN {trees["GET"][n] : n \in own}
        ELSE {trees["*"][n] : n \in TreeFind(trees["*"], url)}

-----------------------------------------------------------------------------
(* Tree.Add: nodes for all keys; the middleware goes to the last, if it is *)
(* new or has no handler, and once more to the root.                       *)
TakesWares(tree, keys) == keys = <<>> \/ keys \notin DOMAIN tree \/ tree[keys].handle = 0
TreeAdd(tree, path, h, wares) ==
    LET keys == KeysOf(path)
        nodes == DOMAIN tree \cup {SubSeq(keys, 1, i) : i \in 0..Len(keys)}
        old(n) == IF n \in DOMAIN tree THEN tree[n] ELSE NewNode
    IN  [n \in nodes |->
            IF n # keys THEN old(n)
            ELSE [path |-> path, handle |-> h,
                  middleware |-> old(n).middleware \o
                      (IF wares /\ TakesWares(tree, keys) THEN <<h>> ELSE <<>>)]]

(* Engine.addHandle: the duplicate is looked for in the first node found,  *)
(* which is any of those nearest to the root; a name is left in the tree   *)
(* until a route takes it.                                                 *)
Duplicate(tree, path, n) == ~ quiet /\ tree[n].path = path /\ tree[n].handle # 0
HandleCall(call) ==
    LET m == call.method
        tree == trees[m]
        path == CompletionPath(call.path, call.prefix)
        name == IF call.name # "" THEN call.name ELSE routeName[m]
        found == FindExact(tree, path)
        h == Len(handled) + 1
    IN  /\ h <= MaxRoutes
        /\ \/ /\ \E n \in NearestOf(found) : Duplicate(tree, path, n)
              /\ routeName' = [routeName EXCEPT ![m] = name]
              /\ handled' = Append(handled, [call EXCEPT !.path = path] @@ [ok |-> FALSE])
              /\ UNCHANGED <<trees, routes>>
           \/ /\ found = {} \/ \E n \in NearestOf(found) : ~ Duplicate(tree, path, n)
              /\ trees' = [trees EXCEPT ![m] = TreeAdd(tree, path, h, call.wares)]
              /\ routes' = IF name = "" THEN routes
                           ELSE [routes EXCEPT ![m] = (name :> KeysOf(path)) @@ @]
              /\ routeName' = [routeName EXCEPT ![m] = ""]
              /\ handled' = Append(handled, [call EXCEPT !.path = path] @@ [ok |-> TRUE])
        /\ UNCHANGED quiet

(* Engine.GenerateURL: parameters are replaced by their values, each tried *)
(* by the pattern of any segment.  It is an error if one is empty.         *)
GenerateURL(m, name, value) ==
    LET path == trees[m][routes[m][name]].path
    IN  [i \in DOMAIN path |-> IF path[i] \in {":x", ":id"} THEN value ELSE path[i]]

RtNext == \E call \in RouteCalls : HandleCall(call)

RtSpec == RtInit /\ [][RtNext]_rtVars

-----------------------------------------------------------------------------
IsRouted(h) == handled[h].ok
TimesOf(m, path) == Cardinality({h \in DOMAIN handled : handled[h].method = m /\ handled[h].path = path})
Routed(m) == {handled[h].path : h \in {k \in DOMAIN handled : handled[k].method = m /\ IsRouted(k)}}
Serves(path, url) == path = url \/ URLMatch(path, url)

(* A URL that is registered is found, for the last call that registered it, *)
(* before all patterns: for the own method always, and for any method if no *)
(* route of the own one serves it.                                         *)
ExactFirst(url) ==
    \A m \in RtMethods :
        url \in Routed(m) /\ (m = "*" => ~ \E p \in Routed("GET") : Serves(p, url)) =>
            /\ FindHandle(url) # {}
            /\ \A r \in FindHandle(url) :
                  /\ r.path = url
                  /\ \A h \in DOMAIN handled :
                        handled[h].method = m /\ handled[h].path = url /\ IsRouted(h) => h <= r.handle

(* What is found serves the URL.  Something is found if any route serves   *)
(* it, except that a pattern p is not tried for "/"; nor for a URL with    *)
(* which another route of the method begins, and that does not end in a    *)
(* slash; nor if it does not begin with the URL's first segment and        *)
(* another route does.                                                     *)
BeginsOther(m, url) == Last(url) # "" /\ \E q \in Routed(m) : IsPrefix(url, q)
Opened(m, url) == \E q \in Routed(m) : Head(q) = Head(url)
NotTried(m, p, url) ==
    /\ p # url
    /\ url = <<"">> \/ BeginsOther(m, url) \/ (Head(p) # Head(url) /\ Opened(m, url))
FoundIfServed(url) ==
    /\ \A r \in FindHandle(url) : Serves(r.path, url)
    /\ (\E m \in RtMethods : \E p \in Routed(m) : Serves(p, url) /\ ~ NotTried(m, p, url)) =>
          FindHandle(url) # {}

\* A handler runs behind the middleware it was registered with, unless its path was
\* registered again.
WaresFit(m) ==
    \A n \in DOMAIN trees[m] :
        LET r == trees[m][n]
        IN  r.handle # 0 /\ TimesOf(m, r.path) = 1 =>
                r.middleware = IF handled[r.handle].wares THEN <<r.handle>> ELSE <<>>

(* A name leads to the route that was last registered under it, unless a   *)
(* named duplicate was refused; and the URL generated for it is one that   *)
(* the route serves if its values fit and no slash ends it.                *)
NamesLead(m) ==
    \A name \in DOMAIN routes[m] :
        LET r == trees[m][routes[m][name]]
            named == {h \in DOMAIN handled : handled[h].method = m /\ handled[h].name = name}
        IN  /\ (\A h \in named : IsRouted(h)) =>
                    /\ \E h \in named : handled[h].path = r.path
                    /\ \A h \in named : (\A k \in named : k <= h) => handled[h].path = r.path
            /\ \A value \in ParamValues :
                    Last(r.path) # "" /\ (Contains(r.path, ":id") => value \in Digits) =>
                        Serves(r.path, GenerateURL(m, name, value))

(* Whatever was registered, and in any order: a URL finds the route that   *)
(* serves it, its own path first; handlers keep their middleware, and      *)
(* names their routes (router.go:440-564, utils.go:293-327, tree.go).      *)
RoutesSound ==
    handled # <<>> =>
        /\ \A url \in Urls : ExactFirst(url) /\ FoundIfServed(url)
        /\ \A m \in RtMethods : WaresFit(m) /\ NamesLead(m)
=============================================================================
