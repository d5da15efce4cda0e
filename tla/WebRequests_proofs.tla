------------------------- MODULE WebRequests_proofs -------------------------
(***************************************************************************)
(* Proof about WebRequests: every answer is the request's own, for any     *)
(* requests, routes, buffers and contexts of a site that fits (SiteFits).  *)
(* The invariant says whose bytes every array may hold that somebody will  *)
(* answer from; there is a lemma for each action that it is kept.          *)
(***************************************************************************)
EXTENDS WebRequests, FiniteSetTheorems, TLAPS
LOCAL INSTANCE SequencesExt

-----------------------------------------------------------------------------
(* What the theorem asks of the site.                                      *)

Wares == {"plain", "aborts", "recovery", "panics", "cache", "timeout"}
Handlers == {"renders", "notFound", "writes", "errs", "panics"}
HasWare(r, k) == \E i \in DOMAIN Route(r).wares : Route(r).wares[i] = k
Timed(r) == HasWare(r, "timeout")

\* The routes are made of what the model knows, and one name is one route.
SiteTyped ==
    /\ DOMAIN site = Visits
    /\ \A r \in Visits :
        /\ Route(r).wares \in Seq(Wares) /\ Route(r).handler \in Handlers /\ Route(r).pattern \in BOOLEAN
        /\ \A q \in Visits : Route(q).name = Route(r).name => Route(q) = Route(r)
\* Without it the handler of another request may run: run params_foreign.
OwnSlots == \A q, r \in Visits : InSlot(q) /\ Route(q).name = Route(r).name => q = r
\* GetWriter's buffer is back in the pool before its bytes are written
\* (render.go:241), so two that write by it may send each other's.
OneWriter == \A q, r \in Visits : Route(q).handler = "writes" /\ Route(r).handler = "writes" => q = r
\* A timeout's copy overwrites the body of the context, which may be an entry of
\* the response cache: harmless only where everybody's bytes are the same.
CacheOrTimeout == (\E q \in Visits : Cached(q)) /\ (\E r \in Visits : Timed(r)) => \A q, r \in Visits : Route(q) = Route(r)
\* The page rendered before a panic stays the context's render: what the rest
\* of the chain then does would be answered with it.
Fails(r) == HasWare(r, "panics") \/ (Cached(r) /\ Route(r).handler = "panics")
PanicsAlone ==
    \A r \in Visits :
        /\ Fails(r) => ~ HasWare(r, "aborts") /\ ~ Timed(r)
        /\ HasWare(r, "panics") => ~ Cached(r)
SiteFits == SiteTyped /\ OwnSlots /\ OneWriter /\ CacheOrTimeout /\ PanicsAlone

-----------------------------------------------------------------------------
(* The invariant: first the types.                                         *)

Codes == {0, 200, 403, 404, 500, 504}
OptArrays == Arrays \cup {NoArray}
ContextRec == [left : Seq(Wares \cup {"handler"}), handler : Visits \cup {"slot", "none"}, stop : BOOLEAN,
               code : Codes, render : OptArrays, body : OptArrays, full : BOOLEAN]
Entries == [code : Codes, array : OptArrays, full : BOOLEAN]
MainPlaces == {"idle", "next", "missed", "waits", "got", "panics", "timed", "send", "gone"}
ChildPlaces == {"idle", "next", "missed", "waits", "got", "panics", "panicked", "done", "gone"}
ProcRec == [at : MainPlaces \cup ChildPlaces, ctx : ContextNames \cup {0}, frames : Seq({"recovery", "cache"}),
            closing : BOOLEAN, got : Entries]
RqTypes ==
    /\ slot \in [RouteNames -> Visits \cup {"none"}]
    /\ ctxPool \subseteq ContextNames
    /\ bufferPool \subseteq Buffers
    /\ context \in [ContextNames -> ContextRec]
    /\ DOMAIN bytesOf = Arrays
    /\ stored \in [RouteNames -> Entries]
    /\ DOMAIN flight = RouteNames
    /\ proc \in [Procs -> ProcRec]
    /\ \A p \in Procs : proc[p].at \in IF p[2] = "main" THEN MainPlaces ELSE ChildPlaces
    /\ DOMAIN sent = Visits

-----------------------------------------------------------------------------
(* Whose the contexts are: nobody shares one, none in use is in the pool,  *)
(* and there is always one left.                                           *)

At(p) == proc[p].at
Apart ==
    /\ \A p \in Procs : At(p) = "idle" => proc[p].ctx = 0
    /\ \A p \in Procs : At(p) \notin {"idle", "gone"} => proc[p].ctx # 0
    /\ \A p, q \in Procs : p # q /\ proc[p].ctx # 0 => proc[p].ctx # proc[q].ctx
    /\ \A p \in Procs : proc[p].ctx \notin ctxPool
MainCtx == {proc[p].ctx : p \in Visits \X {"main"}} \ {0}
ChildCtx == {proc[p].ctx : p \in Visits \X {"child"}} \ {0}
Begun == {r \in Visits : At(<<r, "main">>) # "idle"}
Forked == {r \in Visits : At(<<r, "child">>) # "idle"}
Enough ==
    /\ Cardinality(ctxPool \cup MainCtx) <= Cardinality(Begun)
    /\ Cardinality(ChildCtx) <= Cardinality(Forked)

-----------------------------------------------------------------------------
(* What is left of a chain is the route's, and ends with its handler.      *)

ChainOf(r, s) ==
    \A i \in 1..Len(s) : IF i = Len(s) THEN s[i] = "handler" ELSE s[i] # "handler" /\ HasWare(r, s[i])
Chained ==
    \A p \in Procs : proc[p].ctx # 0 =>
        /\ ChainOf(p[1], Cx(p).left)
        /\ \/ Cx(p).handler = p[1]
           \/ Cx(p).handler = "slot" /\ InSlot(p[1]) /\ slot[Route(p[1]).name] = p[1]

-----------------------------------------------------------------------------
(* What a goroutine may be about to answer, by where it is.                *)

\* A code with a body b, and one without, that are an answer to r.
FullFits(r, code, b) ==
    \/ code = 200 /\ Route(r).handler \in {"renders", "writes"} /\ b \in Makers(r)
    \/ code = 404 /\ Route(r).handler = "notFound" /\ b \in Makers(r)
    \/ code = 500 /\ (Route(r).handler \in {"errs", "panics"} \/ HasWare(r, "panics")) /\ b = "error"
Fit(r, code, a) == a \in Arrays /\ FullFits(r, code, bytesOf[a])
NoPage(r, code) == (code = 403 /\ HasWare(r, "aborts")) \/ (code = 504 /\ Timed(r))
EntryFits(r, e) == IF e.full THEN Fit(r, e.code, e.array) ELSE NoPage(r, e.code)
\* A context nobody has answered in, and one that has an answer.
Fresh(r, x) ==
    /\ ~ x.stop /\ ~ x.full /\ x.render = NoArray
    /\ x.code = 0 \/ (x.code = 404 /\ Route(r).handler = "notFound")
Settled(r, x) ==
    IF x.render # NoArray THEN Fit(r, x.code, x.render)
    ELSE IF x.full THEN Fit(r, x.code, x.body) ELSE NoPage(r, x.code)
\* A panic has unwound all of the chain: the connection is closed.
Broken(p) == p[2] = "main" /\ proc[p].closing /\ proc[p].frames = <<>>
\* rendered before the rest of the chain runs
Early(r, x) == ~ x.stop /\ ~ x.full /\ x.render # NoArray /\ Fit(r, x.code, x.render)
AtNext(p) ==
    LET x == Cx(p) IN
    \/ x.stop /\ (Settled(p[1], x) \/ Broken(p))
    \/ Fresh(p[1], x) /\ (x.left # <<>> \/ Broken(p))
    \/ Early(p[1], x) /\ (x.left = <<>> \/ Fails(p[1]))
Waiting(p) ==
    /\ Cached(p[1]) /\ Cx(p).left # <<>>
    /\ Fresh(p[1], Cx(p)) \/ (Early(p[1], Cx(p)) /\ Fails(p[1]))
Placed(p) ==
    /\ At(p) = "next" => AtNext(p)
    /\ At(p) \in {"missed", "waits", "got", "panics"} => Waiting(p)
    /\ At(p) = "got" => EntryFits(p[1], proc[p].got)
    /\ At(p) \in {"panics", "panicked"} => Route(p[1]).handler = "panics"
    /\ At(p) = "timed" => Fresh(p[1], Cx(p)) /\ Timed(p[1]) /\ At(Child(p)) \notin {"idle", "gone"}
    /\ At(p) = "done" => Settled(p[1], Cx(p))
    /\ At(p) = "send" => Cx(p).render = NoArray /\ (proc[p].closing \/ Settled(p[1], Cx(p)))
    /\ \A i \in DOMAIN proc[p].frames : proc[p].frames[i] = "cache" => Cached(p[1])
    /\ p[2] = "child" /\ At(p) # "idle" =>
        /\ Timed(p[1])
        /\ \/ At(<<p[1], "main">>) \in {"timed", "send", "gone"}
           \/ At(<<p[1], "main">>) = "next" /\ Cx(<<p[1], "main">>).stop
StoredFit == \A r \in Visits : stored[Route(r).name] # NoEntry => Cached(r) /\ EntryFits(r, stored[Route(r).name])
Pooled == \A c \in ctxPool : context[c].code = 0 /\ context[c].render = NoArray /\ ~ context[c].full

-----------------------------------------------------------------------------
(* Whose the arrays are.  With neither cache nor timeout, or with one of   *)
(* them, an array that a context leads to is written by one request only;  *)
(* with both, everybody's bytes are the same.                              *)

OwnArray(r, a) == a = <<"render", r>> \/ a = <<"error", r>> \/ (a[1] = "buffer" /\ Route(r).handler = "writes")
OwnRenders == \A p \in Procs : proc[p].ctx # 0 => Cx(p).render = NoArray \/ OwnArray(p[1], Cx(p).render)
Over(r) == At(<<r, "main">>) \in {"send", "gone"} /\ At(<<r, "child">>) \in {"idle", "panicked", "gone"}
SingleBodies ==    \* no cache
    /\ \A c, d \in ContextNames : context[c].body = context[d].body => c = d \/ context[c].body = NoArray
    /\ \A c \in ContextNames, r \in Visits : OwnArray(r, context[c].body) => Over(r)
    /\ \A c \in ContextNames, r \in Visits : context[c].body = <<"copy", r>> => At(<<r, "child">>) = "gone"
    /\ \A p \in Procs : p[2] = "main" /\ At(p) = "next" /\ Cx(p).render # NoArray => At(Child(p)) \in {"idle", "panicked"}
OnceWritten ==  \* no timeouts
    \A r \in Visits, a \in Arrays : OwnArray(r, a) => bytesOf[a] \in {"none", IF a[1] = "error" THEN "error" ELSE r}
RouteBytes(r) == IF Route(r).handler \in {"errs", "panics"} THEN {"error"} ELSE Makers(r)
OneKind == \A a \in Arrays, r \in Visits : bytesOf[a] \in {"none"} \cup RouteBytes(r)
NoCache == \A r \in Visits : ~ Cached(r)
NoTimeout == \A r \in Visits : ~ Timed(r)
ArraysApart ==
    /\ NoCache => SingleBodies
    /\ NoTimeout => OnceWritten
    /\ ~ NoCache /\ ~ NoTimeout => OneKind

\* RqInv is inductive: an answer is sent from a context that is placed so.
RqInv ==
    /\ SiteFits /\ RqTypes /\ Apart /\ Enough /\ Chained /\ StoredFit /\ Pooled /\ OwnRenders /\ ArraysApart
    /\ \A p \in Procs : Placed(p)
    /\ AnswersAreOwn
\* What is asked of the constants: names that cannot be mistaken, and a
\* context for each request and for the copy its timeout makes.
NamesFit ==
    /\ {"none", "error", "slot"} \cap Visits = {}
    /\ IsFiniteSet(Visits) /\ Cardinality(ContextNames) >= 2 * Cardinality(Visits)

-----------------------------------------------------------------------------
\* A site stays what it is: what is said of its routes only keeps its value.
LEMMA SiteSame ==
    ASSUME site' = site
    PROVE  /\ \A r : /\ Route(r)' = Route(r) /\ Cached(r)' = Cached(r) /\ Timed(r)' = Timed(r) /\ Fails(r)' = Fails(r)
                     /\ InSlot(r)' = InSlot(r) /\ Makers(r)' = Makers(r) /\ RouteBytes(r)' = RouteBytes(r)
           /\ \A r, k : HasWare(r, k)' = HasWare(r, k)
           /\ \A r, c : NoPage(r, c)' = NoPage(r, c)
           /\ \A r, x : Fresh(r, x)' = Fresh(r, x)
           /\ \A r, c, b : FullFits(r, c, b)' = FullFits(r, c, b)
           /\ \A r, s : ChainOf(r, s)' = ChainOf(r, s)
           /\ \A r, a : OwnArray(r, a)' = OwnArray(r, a)
           /\ RouteNames' = RouteNames /\ NoCache' = NoCache /\ NoTimeout' = NoTimeout /\ SiteFits' = SiteFits
<1>1. \A r : Route(r)' = Route(r)  BY DEF Route
<1>2. /\ \A r, k : HasWare(r, k)' = HasWare(r, k)
      /\ \A r : Cached(r)' = Cached(r) /\ InSlot(r)' = InSlot(r) /\ Makers(r)' = Makers(r)
  BY DEF HasWare, Route, Cached, InSlot, Makers
<1>3. \A r : Timed(r)' = Timed(r) /\ Fails(r)' = Fails(r) /\ RouteBytes(r)' = RouteBytes(r)
  BY <1>1, <1>2 DEF Timed, Fails, RouteBytes
<1>4. /\ \A r, c : NoPage(r, c)' = NoPage(r, c)
      /\ \A r, x : Fresh(r, x)' = Fresh(r, x)
      /\ \A r, c, b : FullFits(r, c, b)' = FullFits(r, c, b)
  BY <1>1, <1>2, <1>3 DEF NoPage, Fresh, FullFits
<1>5. /\ \A r, s : ChainOf(r, s)' = ChainOf(r, s)
      /\ \A r, a : OwnArray(r, a)' = OwnArray(r, a)
  BY <1>1, <1>2 DEF ChainOf, OwnArray
<1>6. RouteNames' = RouteNames /\ NoCache' = NoCache /\ NoTimeout' = NoTimeout
  BY <1>1, <1>2, <1>3 DEF RouteNames, NoCache, NoTimeout
<1>7. SiteFits' = SiteFits
  BY <1>1, <1>2, <1>3, site' = site DEF SiteFits, SiteTyped, OwnSlots, OneWriter, CacheOrTimeout, PanicsAlone
<1> QED BY <1>1, <1>2, <1>3, <1>4, <1>5, <1>6, <1>7

LEMMA CachedHasWare == ASSUME SiteFits, NEW r \in Visits PROVE Cached(r) <=> HasWare(r, "cache")
BY DEF Cached, HasWare, Contains, SiteFits, SiteTyped

\* A chain less its first is a chain; what it was is a ware of the route or
\* the handler.
LEMMA ChainGoesOn ==
    ASSUME NEW r, NEW s \in Seq(Wares \cup {"handler"}), s # <<>>, ChainOf(r, s)
    PROVE  /\ Tail(s) \in Seq(Wares \cup {"handler"}) /\ ChainOf(r, Tail(s))
           /\ Head(s) = "handler" <=> Tail(s) = <<>>
           /\ Head(s) # "handler" => HasWare(r, Head(s))
<1>1. Len(Tail(s)) = Len(s) - 1 /\ \A i \in 1..Len(Tail(s)) : Tail(s)[i] = s[i + 1]  OBVIOUS
<1>2. Tail(s) \in Seq(Wares \cup {"handler"}) /\ Len(s) \in Nat /\ Len(s) # 0 OBVIOUS
<1>3. Head(s) = s[1] OBVIOUS
<1>4. ChainOf(r, Tail(s))
  <2> DEFINE t == Tail(s)
  <2>1. Len(t) = Len(s) - 1 /\ \A i \in 1..Len(t) : t[i] = s[i + 1]  BY <1>1
  <2> HIDE DEF t
  <2>2. \A i \in 1..Len(t) : i + 1 \in 1..Len(s) /\ (i + 1 = Len(s) <=> i = Len(t))  BY <1>2, <2>1
  <2>3. ChainOf(r, t)  BY <2>1, <2>2 DEF ChainOf
  <2> QED BY <2>3 DEF t
<1>5. Tail(s) = <<>> <=> Len(s) = 1
  <2>1. \A t \in Seq(Wares \cup {"handler"}) : t = <<>> <=> Len(t) = 0  OBVIOUS
  <2> DEFINE t == Tail(s)
  <2>2. t \in Seq(Wares \cup {"handler"}) /\ Len(t) = Len(s) - 1  BY <1>1, <1>2
  <2> HIDE DEF t
  <2>3. t = <<>> <=> Len(s) = 1  BY <1>2, <2>1, <2>2
  <2> QED BY <2>3 DEF t
<1> QED BY <1>2, <1>3, <1>4, <1>5 DEF ChainOf

\* The middleware with the handler behind them are a chain.
LEMMA ChainBegins ==
    ASSUME SiteFits, NEW r \in Visits
    PROVE  LET s == Append(Route(r).wares, "handler")
           IN  s \in Seq(Wares \cup {"handler"}) /\ ChainOf(r, s) /\ s # <<>>
<1> DEFINE w == Route(r).wares
           s == Append(w, "handler")
<1>1. w \in Seq(Wares)  BY DEF SiteFits, SiteTyped
<1> HIDE DEF w
<1>2. /\ Len(s) = Len(w) + 1 /\ Len(w) \in Nat
      /\ \A i \in 1..Len(w) : s[i] = w[i] /\ w[i] \in Wares
      /\ s[Len(w) + 1] = "handler" /\ s \in Seq(Wares \cup {"handler"})
  BY <1>1
<1>3. \A i \in 1..Len(w) : HasWare(r, w[i]) /\ w[i] # "handler"
  <2>1. DOMAIN w = 1..Len(w)  BY <1>1
  <2> QED BY <1>2, <2>1 DEF HasWare, w, Wares
<1>4. ChainOf(r, s)
  <2> SUFFICES ASSUME NEW i \in 1..Len(s)
               PROVE  IF i = Len(s) THEN s[i] = "handler" ELSE s[i] # "handler" /\ HasWare(r, s[i])
    BY DEF ChainOf
  <2> HIDE DEF s
  <2>1. CASE i = Len(s)  BY <1>2, <2>1
  <2>2. CASE i # Len(s)
    <3>1. i \in 1..Len(w)  BY <1>2, <2>2
    <3>2. s[i] = w[i]  BY <1>2, <3>1
    <3> QED BY <1>3, <3>1, <3>2, <2>2
  <2> QED BY <2>1, <2>2
<1>5. s # <<>>  BY <1>2
<1> QED BY <1>2, <1>4, <1>5 DEF w

\* While a request or its copy has not begun, Unused finds a context.
LEMMA UnusedIsNew ==
    ASSUME RqTypes, Apart, Enough, NamesFit, NEW r \in Visits, At(<<r, "main">>) = "idle" \/ At(<<r, "child">>) = "idle"
    PROVE  Unused \in ContextNames /\ Unused \notin CtxInUse \cup ctxPool
<1> DEFINE A == ctxPool \cup MainCtx
<1>0. IsFiniteSet(ContextNames)  BY WebRequestsAssumption
<1>1. A \in SUBSET ContextNames /\ ChildCtx \in SUBSET ContextNames
  BY DEF RqTypes, MainCtx, ChildCtx, Procs, Sides, ProcRec
<1>2. IsFiniteSet(A) /\ IsFiniteSet(ChildCtx)  BY <1>0, <1>1, FS_Subset
<1>3. Begun \in SUBSET Visits /\ Forked \in SUBSET Visits  BY DEF Begun, Forked
<1>4. /\ IsFiniteSet(Begun) /\ Cardinality(Begun) <= Cardinality(Visits)
      /\ IsFiniteSet(Forked) /\ Cardinality(Forked) <= Cardinality(Visits)
      /\ Cardinality(Begun) = Cardinality(Visits) => Begun = Visits
      /\ Cardinality(Forked) = Cardinality(Visits) => Forked = Visits
  BY <1>3, FS_Subset DEF NamesFit
<1>5. r \notin Begun \/ r \notin Forked  BY DEF Begun, Forked
<1>6. Cardinality(Begun) < Cardinality(Visits) \/ Cardinality(Forked) < Cardinality(Visits)
  <2>1. Begun # Visits \/ Forked # Visits  BY <1>5
  <2>2. Cardinality(Begun) \in Nat /\ Cardinality(Forked) \in Nat /\ Cardinality(Visits) \in Nat
    BY <1>4, FS_CardinalityType DEF NamesFit
  <2> QED BY <1>4, <2>1, <2>2
<1>7. IsFiniteSet(A \cup ChildCtx) /\ Cardinality(A \cup ChildCtx) <= Cardinality(A) + Cardinality(ChildCtx)
  <2>1. /\ IsFiniteSet(A \cup ChildCtx)
        /\ Cardinality(A \cup ChildCtx) = Cardinality(A) + Cardinality(ChildCtx) - Cardinality(A \cap ChildCtx)
    BY <1>2, FS_Union
  <2>2. IsFiniteSet(A \cap ChildCtx)  BY <1>2, FS_Subset
  <2>3. Cardinality(A \cap ChildCtx) \in Nat /\ Cardinality(A) \in Nat /\ Cardinality(ChildCtx) \in Nat
    BY <1>2, <2>2, FS_CardinalityType
  <2> HIDE DEF A
  <2> QED BY <2>1, <2>3
<1>8. Cardinality(A \cup ChildCtx) < Cardinality(ContextNames)
  <2>1. /\ Cardinality(Begun) \in Nat /\ Cardinality(Forked) \in Nat /\ Cardinality(Visits) \in Nat
        /\ Cardinality(A) \in Nat /\ Cardinality(ChildCtx) \in Nat /\ Cardinality(ContextNames) \in Nat
        /\ Cardinality(A \cup ChildCtx) \in Nat
    BY <1>0, <1>2, <1>4, <1>7, FS_CardinalityType DEF NamesFit
  <2>2. Cardinality(A) <= Cardinality(Begun) /\ Cardinality(ChildCtx) <= Cardinality(Forked)  BY DEF Enough
  <2>3. Cardinality(ContextNames) >= 2 * Cardinality(Visits)  BY DEF NamesFit
  <2> HIDE DEF A
  <2> QED BY <1>4, <1>6, <1>7, <2>1, <2>2, <2>3
<1>9. \E c \in ContextNames : c \notin A \cup ChildCtx
  <2>1. A \cup ChildCtx \subseteq ContextNames  BY <1>1
  <2>2. A \cup ChildCtx # ContextNames
    <3>1. Cardinality(ContextNames) \in Nat  BY <1>0, FS_CardinalityType
    <3> HIDE DEF A
    <3> QED BY <1>8, <3>1
  <2> QED BY <2>1, <2>2
<1>10. \A c \in ContextNames : c \in CtxInUse => c \in MainCtx \cup ChildCtx
  <2> SUFFICES ASSUME NEW c \in ContextNames, NEW p \in Procs, proc[p].ctx = c PROVE c \in MainCtx \cup ChildCtx
    BY DEF CtxInUse
  <2>1. c # 0  BY WebRequestsAssumption
  <2>2. p \in Visits \X {"main"} \/ p \in Visits \X {"child"}  BY DEF Procs, Sides
  <2> QED BY <2>1, <2>2 DEF MainCtx, ChildCtx
<1>11. \E c \in ContextNames : c \notin CtxInUse \cup ctxPool  BY <1>9, <1>10
<1> QED BY <1>11 DEF Unused

-----------------------------------------------------------------------------
(* One goroutine goes a step: its context becomes x, its place pr; those who *)
(* waited for it may be handed something.                                   *)
Goes(p, x, pr) ==
    /\ site' = site /\ slot' = slot /\ ctxPool' = ctxPool
    /\ x \in ContextRec /\ context' = [context EXCEPT ![proc[p].ctx] = x]
    /\ x.handler = Cx(p).handler
    /\ x.left = Cx(p).left \/ (Cx(p).left # <<>> /\ x.left = Tail(Cx(p).left))
    /\ proc' \in [Procs -> ProcRec] /\ proc'[p] = pr /\ pr.ctx = proc[p].ctx
    /\ pr.at \in (IF p[2] = "main" THEN MainPlaces ELSE ChildPlaces) \ {"idle"}
    /\ p[2] = "child" => pr.at # "gone"
    /\ \A q \in Procs \ {p} :
          \/ proc'[q] = proc[q]
          \/ /\ At(q) = "waits" /\ proc'[q].at \in {"got", "panics"}
             /\ proc'[q].ctx = proc[q].ctx /\ proc'[q].frames = proc[q].frames /\ proc'[q].closing = proc[q].closing

InUse(p) == At(p) \notin {"idle", "gone"}
\* A goroutine under way has a context.
LEMMA InUseHas ==
    ASSUME RqTypes, Apart, NEW p \in Procs, InUse(p)
    PROVE  proc[p].ctx \in ContextNames /\ proc[p].ctx # 0 /\ Cx(p) = context[proc[p].ctx] /\ Cx(p) \in ContextRec
BY DEF RqTypes, Apart, InUse, ProcRec, Cx, At

\* What Goes leaves to the others.
LEMMA GoesFrame ==
    ASSUME RqInv, NEW p \in Procs, InUse(p), NEW x, NEW pr, Goes(p, x, pr)
    PROVE  /\ Cx(p)' = x
           /\ \A q \in Procs : q # p /\ proc[q].ctx # 0 => Cx(q)' = Cx(q)
           /\ \A q \in Procs : proc'[q].ctx = proc[q].ctx /\ (At(q)' = "idle" <=> At(q) = "idle")
           /\ \A q \in Procs : q # p => (At(q)' = "gone" <=> At(q) = "gone")
           /\ \A q \in Procs : At(q)' \in IF q[2] = "main" THEN MainPlaces ELSE ChildPlaces
<1>0. RqTypes /\ Apart  BY DEF RqInv
<1>1. proc[p].ctx \in ContextNames  BY <1>0, InUseHas
<1>2. Cx(p)' = x  BY <1>0, <1>1 DEF Goes, Cx, RqTypes
<1>3. \A q \in Procs : proc'[q].ctx = proc[q].ctx  BY DEF Goes
<1>4. \A q \in Procs : q # p /\ proc[q].ctx # 0 => Cx(q)' = Cx(q)
  <2> SUFFICES ASSUME NEW q \in Procs, q # p, proc[q].ctx # 0 PROVE Cx(q)' = Cx(q)  OBVIOUS
  <2>1. proc[q].ctx \in ContextNames /\ proc[q].ctx # proc[p].ctx  BY <1>0, <1>1 DEF Apart, RqTypes, ProcRec
  <2> QED BY <1>0, <1>3, <2>1 DEF Goes, Cx, RqTypes
<1>5. \A q \in Procs : q # p => (At(q)' = "idle" <=> At(q) = "idle") /\ (At(q)' = "gone" <=> At(q) = "gone")
  BY DEF Goes, At
<1>6. At(p)' # "idle" /\ At(p) # "idle"  BY DEF Goes, At, InUse
<1>7. \A q \in Procs : At(q)' \in IF q[2] = "main" THEN MainPlaces ELSE ChildPlaces
  <2> SUFFICES ASSUME NEW q \in Procs PROVE At(q)' \in IF q[2] = "main" THEN MainPlaces ELSE ChildPlaces  OBVIOUS
  <2>1. CASE q = p  BY <2>1 DEF Goes, At
  <2>2. CASE q # p /\ proc'[q] = proc[q]  BY <1>0, <2>2 DEF RqTypes, At
  <2>3. CASE q # p /\ proc'[q].at \in {"got", "panics"}  BY <2>3 DEF At, MainPlaces, ChildPlaces
  <2> QED BY <2>1, <2>2, <2>3 DEF Goes
<1> QED BY <1>2, <1>3, <1>4, <1>5, <1>6, <1>7

\* Goes keeps the contexts apart and the chains whole.
LEMMA GoesKeeps ==
    ASSUME RqInv, NEW p \in Procs, InUse(p), NEW x, NEW pr, Goes(p, x, pr)
    PROVE  SiteFits' /\ Apart' /\ Enough' /\ Chained' /\ Pooled' /\ context' \in [ContextNames -> ContextRec]
<1>0. RqTypes /\ Apart /\ SiteFits  BY DEF RqInv
<1>1. proc[p].ctx \in ContextNames /\ proc[p].ctx # 0 /\ Cx(p) = context[proc[p].ctx] /\ Cx(p) \in ContextRec
  BY <1>0, InUseHas
<1>2. /\ Cx(p)' = x
      /\ \A q \in Procs : q # p /\ proc[q].ctx # 0 => Cx(q)' = Cx(q)
      /\ \A q \in Procs : proc'[q].ctx = proc[q].ctx /\ (At(q)' = "idle" <=> At(q) = "idle")
      /\ \A q \in Procs : q # p => (At(q)' = "gone" <=> At(q) = "gone")
  BY GoesFrame
<1>3. site' = site /\ slot' = slot /\ ctxPool' = ctxPool  BY DEF Goes
<1>4. SiteFits'  BY <1>0, <1>3, SiteSame
<1>5. Apart'
  <2>1. \A q \in Procs : At(q)' = "idle" => proc'[q].ctx = 0  BY <1>0, <1>2 DEF Apart
  <2>2. \A q \in Procs : At(q)' \notin {"idle", "gone"} => proc'[q].ctx # 0
    BY <1>0, <1>1, <1>2 DEF Apart
  <2>3. \A q, u \in Procs : q # u /\ proc'[q].ctx # 0 => proc'[q].ctx # proc'[u].ctx  BY <1>0, <1>2 DEF Apart
  <2>4. \A q \in Procs : proc'[q].ctx \notin ctxPool'  BY <1>0, <1>2, <1>3 DEF Apart
  <2> QED BY <2>1, <2>2, <2>3, <2>4 DEF Apart
<1>6. Enough'
  <2>1. MainCtx' = MainCtx /\ ChildCtx' = ChildCtx
    <3>1. \A q \in Procs : proc'[q].ctx = proc[q].ctx  BY <1>2
    <3>2. Visits \X {"main"} \subseteq Procs /\ Visits \X {"child"} \subseteq Procs  BY DEF Procs, Sides
    <3>3. {proc'[q].ctx : q \in Visits \X {"main"}} = {proc[q].ctx : q \in Visits \X {"main"}}  BY <3>1, <3>2
    <3>4. {proc'[q].ctx : q \in Visits \X {"child"}} = {proc[q].ctx : q \in Visits \X {"child"}}  BY <3>1, <3>2
    <3> QED BY <3>3, <3>4 DEF MainCtx, ChildCtx
  <2>2. Begun' = Begun /\ Forked' = Forked
    <3>1. \A r \in Visits : <<r, "main">> \in Procs /\ <<r, "child">> \in Procs  BY DEF Procs, Sides
    <3> QED BY <1>2, <3>1 DEF Begun, Forked
  <2>3. Enough  BY DEF RqInv
  <2> QED BY <1>3, <2>1, <2>2, <2>3 DEF Enough
<1>7. Chained'
  <2> SUFFICES ASSUME NEW q \in Procs, proc'[q].ctx # 0
               PROVE  /\ ChainOf(q[1], Cx(q).left)'
                      /\ \/ Cx(q)'.handler = q[1]
                         \/ Cx(q)'.handler = "slot" /\ InSlot(q[1])' /\ slot'[Route(q[1])'.name] = q[1]
    BY DEF Chained
  <2>1. proc[q].ctx # 0  BY <1>2
  <2>2. /\ ChainOf(q[1], Cx(q).left)
        /\ \/ Cx(q).handler = q[1]
           \/ Cx(q).handler = "slot" /\ InSlot(q[1]) /\ slot[Route(q[1]).name] = q[1]
    BY <2>1 DEF RqInv, Chained
  <2>3. InSlot(q[1])' = InSlot(q[1]) /\ Route(q[1])' = Route(q[1]) /\ \A r, s : ChainOf(r, s)' = ChainOf(r, s)
    BY <1>3, SiteSame
  <2>4. CASE q # p
    <3>1. Cx(q)' = Cx(q)  BY <1>2, <2>1, <2>4
    <3> QED BY <1>3, <2>2, <2>3, <3>1
  <2>5. CASE q = p
    <3>1. Cx(q)' = x /\ x.handler = Cx(q).handler  BY <1>2, <2>5 DEF Goes
    <3>2. ChainOf(q[1], x.left)
      <4>1. CASE x.left = Cx(p).left  BY <2>2, <2>5, <4>1
      <4>2. CASE Cx(p).left # <<>> /\ x.left = Tail(Cx(p).left)
        <5>1. Cx(p).left \in Seq(Wares \cup {"handler"})  BY <1>1 DEF ContextRec
        <5> QED BY <2>2, <2>5, <4>2, <5>1, ChainGoesOn
      <4> QED BY <4>1, <4>2 DEF Goes
    <3>3. ChainOf(q[1], Cx(q).left)'  BY <2>3, <3>1, <3>2
    <3> QED BY <1>3, <2>2, <2>3, <3>1, <3>3
  <2> QED BY <2>4, <2>5
<1>8. Pooled'
  <2>1. proc[p].ctx \notin ctxPool  BY <1>0 DEF Apart
  <2>2. \A c \in ctxPool : context'[c] = context[c]  BY <1>0, <2>1 DEF Goes, RqTypes
  <2> QED BY <1>3, <2>2 DEF Pooled, RqInv
<1>9. context' \in [ContextNames -> ContextRec]  BY <1>0 DEF Goes, RqTypes
<1> QED BY <1>4, <1>5, <1>6, <1>7, <1>8, <1>9

-----------------------------------------------------------------------------
(* The arrays a goroutine will answer from.                                *)
Refers(q, a) ==
    \/ At(q) \in {"next", "missed", "waits", "got", "panics", "done"} /\ Cx(q).render = a
    \/ At(q) \in {"next", "done", "send"} /\ Cx(q).full /\ Cx(q).body = a
    \/ At(q) = "got" /\ proc[q].got.full /\ proc[q].got.array = a
Undisturbed(S) ==
    \A q \in Procs \ S, a \in Arrays : Refers(q, a) =>
        \A code : FullFits(q[1], code, bytesOf[a]) => FullFits(q[1], code, bytesOf'[a])
EntriesUndisturbed ==
    \A r \in Visits, a \in Arrays :
        stored[Route(r).name] # NoEntry /\ stored[Route(r).name].full /\ stored[Route(r).name].array = a =>
        \A code : FullFits(r, code, bytesOf[a]) => FullFits(r, code, bytesOf'[a])

\* A goroutine that does not move stays well placed if its bytes stay.
LEMMA StaysPlaced ==
    ASSUME RqInv, site' = site, NEW q \in Procs, proc'[q] = proc[q], proc[q].ctx # 0 => Cx(q)' = Cx(q), Undisturbed(Procs \ {q}),
           At(q) = "timed" => At(Child(q))' \notin {"idle", "gone"},
           q[2] = "child" /\ At(q) # "idle" =>
               \/ At(<<q[1], "main">>)' \in {"timed", "send", "gone"}
               \/ At(<<q[1], "main">>)' = "next" /\ Cx(<<q[1], "main">>)'.stop
    PROVE  Placed(q)'
<1> PICK y : y = Cx(q)  OBVIOUS
<1>0. RqTypes /\ Apart /\ Placed(q)  BY DEF RqInv
<1>1. At(q)' = At(q)  BY DEF At
<1>2. /\ \A r : Cached(r)' = Cached(r) /\ Timed(r)' = Timed(r) /\ Fails(r)' = Fails(r) /\ Route(r)' = Route(r)
      /\ \A r, c : NoPage(r, c)' = NoPage(r, c)
      /\ \A r, z : Fresh(r, z)' = Fresh(r, z)
      /\ \A r, c, b : FullFits(r, c, b)' = FullFits(r, c, b)
  BY SiteSame
<1>3. \A a, code : Refers(q, a) /\ Fit(q[1], code, a) => Fit(q[1], code, a)'
  <2> SUFFICES ASSUME NEW a, NEW code, Refers(q, a), Fit(q[1], code, a) PROVE Fit(q[1], code, a)'  OBVIOUS
  <2>1. a \in Arrays /\ FullFits(q[1], code, bytesOf[a])  BY DEF Fit
  <2>2. FullFits(q[1], code, bytesOf'[a])  BY <2>1 DEF Undisturbed
  <2> QED BY <1>2, <2>1, <2>2 DEF Fit, Arrays
<1>4. CASE proc[q].ctx = 0
  <2>1. At(q) \in {"idle", "gone"}  BY <1>0, <1>4 DEF Apart
  <2> QED BY <1>0, <1>1, <1>2, <2>1 DEF Placed
<1>5. CASE proc[q].ctx # 0
  <2>1. Cx(q)' = y  BY <1>5
  <2>2. At(q) \in {"next", "missed", "waits", "got", "panics", "done"} => \A code : Fit(q[1], code, y.render) => Fit(q[1], code, y.render)'
    BY <1>3 DEF Refers
  <2>3. At(q) \in {"next", "done", "send"} /\ y.full => \A code : Fit(q[1], code, y.body) => Fit(q[1], code, y.body)'
    BY <1>3 DEF Refers
  <2>4. At(q) \in {"next", "done"} \/ (At(q) = "send" /\ y.render = NoArray) => (Settled(q[1], y) => Settled(q[1], y)')
    BY <1>2, <2>2, <2>3 DEF Settled
  <2>5. At(q) \in {"next", "missed", "waits", "got", "panics"} => (Early(q[1], y) => Early(q[1], y)')
    BY <2>2 DEF Early
  <2>6. At(q) = "next" => AtNext(q)'
    <3> SUFFICES ASSUME At(q) = "next" PROVE AtNext(q)'  OBVIOUS
    <3>1. AtNext(q)  BY <1>0 DEF Placed
    <3>2. Broken(q)' = Broken(q)  BY DEF Broken
    <3>3. \/ y.stop /\ (Settled(q[1], y) \/ Broken(q))
          \/ Fresh(q[1], y) /\ (y.left # <<>> \/ Broken(q))
          \/ Early(q[1], y) /\ (y.left = <<>> \/ Fails(q[1]))
      BY <3>1 DEF AtNext
    <3>4. \/ y.stop /\ (Settled(q[1], y)' \/ Broken(q)')
          \/ Fresh(q[1], y)' /\ (y.left # <<>> \/ Broken(q)')
          \/ Early(q[1], y)' /\ (y.left = <<>> \/ Fails(q[1])')
      BY <1>2, <2>4, <2>5, <3>2, <3>3
    <3> QED BY <2>1, <3>4 DEF AtNext, Settled, Early, Fit
  <2>7. At(q) \in {"missed", "waits", "got", "panics"} => Waiting(q)'
    <3> SUFFICES ASSUME At(q) \in {"missed", "waits", "got", "panics"} PROVE Waiting(q)'  OBVIOUS
    <3>1. Cached(q[1]) /\ y.left # <<>> /\ (Fresh(q[1], y) \/ (Early(q[1], y) /\ Fails(q[1])))
      BY <1>0 DEF Placed, Waiting
    <3>2. Cached(q[1])' /\ y.left # <<>> /\ (Fresh(q[1], y)' \/ (Early(q[1], y)' /\ Fails(q[1])'))
      BY <1>2, <2>5, <3>1
    <3> QED BY <2>1, <3>2 DEF Waiting, Early, Fit
  <2>8. At(q) = "got" => EntryFits(q[1], proc[q].got)'
    <3>1. At(q) = "got" /\ proc[q].got.full => \A code : Fit(q[1], code, proc[q].got.array) => Fit(q[1], code, proc[q].got.array)'
      <4> PICK g : g = proc[q].got  OBVIOUS
      <4>1. At(q) = "got" /\ g.full => Refers(q, g.array)  BY DEF Refers
      <4> QED BY <1>3, <4>1 DEF Fit
    <3> QED BY <1>0, <1>2, <3>1 DEF Placed, EntryFits, Fit
  <2>9. At(q) = "done" => Settled(q[1], Cx(q))'
    BY <1>0, <2>1, <2>4 DEF Placed, Settled, Fit
  <2>10. At(q) = "send" => Cx(q)'.render = NoArray /\ (proc'[q].closing \/ Settled(q[1], Cx(q))')
    BY <1>0, <2>1, <2>4 DEF Placed, Settled, Fit
  <2>11. At(q) = "timed" => Fresh(q[1], Cx(q))' /\ Timed(q[1])'
    BY <1>0, <1>2, <2>1 DEF Placed
  <2> QED BY <1>0, <1>1, <1>2, <2>6, <2>7, <2>8, <2>9, <2>10, <2>11 DEF Placed
<1> QED BY <1>4, <1>5

\* So do all but the one that goes, also those it hands an entry or a panic.
LEMMA OthersPlaced ==
    ASSUME RqInv, NEW p \in Procs, InUse(p), NEW x, NEW pr, Goes(p, x, pr), Undisturbed({p}),
           \A q \in Procs \ {p} : proc'[q] # proc[q] =>
               \/ proc'[q].at = "got" /\ bytesOf' = bytesOf /\ EntryFits(q[1], proc'[q].got)
               \/ proc'[q].at = "panics" /\ Route(q[1]).handler = "panics",
           p[2] = "main" /\ At(Child(p)) # "idle" =>
               pr.at \in {"timed", "send", "gone"} \/ (pr.at = "next" /\ x.stop)
    PROVE  \A q \in Procs \ {p} : Placed(q)'
<1> SUFFICES ASSUME NEW q \in Procs \ {p} PROVE Placed(q)'  OBVIOUS
<1>0. RqTypes /\ Apart /\ Placed(q)  BY DEF RqInv
<1>1. /\ Cx(p)' = x
      /\ \A u \in Procs : u # p /\ proc[u].ctx # 0 => Cx(u)' = Cx(u)
      /\ \A u \in Procs : proc'[u].ctx = proc[u].ctx /\ (At(u)' = "idle" <=> At(u) = "idle")
      /\ \A u \in Procs : u # p => (At(u)' = "gone" <=> At(u) = "gone")
  BY GoesFrame
<1>2. Child(q) \in Procs /\ <<q[1], "main">> \in Procs /\ q = <<q[1], q[2]>> /\ q[2] \in Sides /\ p = <<p[1], p[2]>> /\ p[2] \in Sides
  BY DEF Procs, Sides, Child
<1>3. site' = site /\ proc'[p] = pr  BY DEF Goes
<1>4. q[2] = "child" /\ At(q) # "idle" =>
          \/ At(<<q[1], "main">>)' \in {"timed", "send", "gone"}
          \/ At(<<q[1], "main">>)' = "next" /\ Cx(<<q[1], "main">>)'.stop
  <2> SUFFICES ASSUME q[2] = "child", At(q) # "idle"
               PROVE  \/ At(<<q[1], "main">>)' \in {"timed", "send", "gone"}
                      \/ At(<<q[1], "main">>)' = "next" /\ Cx(<<q[1], "main">>)'.stop
    OBVIOUS
  <2> DEFINE m == <<q[1], "main">>
  <2>0. m \in Procs /\ Child(m) = q  BY <1>2 DEF Child
  <2>1. CASE m = p
    <3>1. pr.at \in {"timed", "send", "gone"} \/ (pr.at = "next" /\ x.stop)  BY <2>0, <2>1
    <3> QED BY <1>1, <1>3, <2>1, <3>1 DEF At
  <2>2. CASE m # p
    <3>1. At(m) \in {"timed", "send", "gone"} \/ (At(m) = "next" /\ Cx(m).stop)  BY <1>0 DEF Placed
    <3>2. proc'[m] = proc[m]  BY <2>0, <2>2, <3>1 DEF Goes, At
    <3>3. At(m) = "next" => proc[m].ctx # 0  BY <1>0, <2>0 DEF Apart
    <3> QED BY <1>1, <2>0, <2>2, <3>1, <3>2, <3>3 DEF At
  <2> QED BY <2>1, <2>2
<1>5. CASE proc'[q] = proc[q]
  <2>1. proc[q].ctx # 0 => Cx(q)' = Cx(q)  BY <1>1
  <2>2. Undisturbed(Procs \ {q})
    <3>1. \A u \in Procs \ (Procs \ {q}) : u \in Procs \ {p}  OBVIOUS
    <3> QED BY <3>1 DEF Undisturbed
  <2>3. At(q) = "timed" => At(Child(q))' \notin {"idle", "gone"}
    <3> SUFFICES ASSUME At(q) = "timed" PROVE At(Child(q))' \notin {"idle", "gone"}  OBVIOUS
    <3>1. At(Child(q)) \notin {"idle", "gone"}  BY <1>0 DEF Placed
    <3>2. CASE Child(q) = p
      <4>1. p[2] = "child"  BY <3>2 DEF Child
      <4> QED BY <1>1, <1>2, <1>3, <3>1, <3>2, <4>1 DEF Goes, At
    <3>3. CASE Child(q) # p  BY <1>1, <1>2, <3>1, <3>3
    <3> QED BY <3>2, <3>3
  <2> QED BY <1>3, <1>4, <1>5, <2>1, <2>2, <2>3, StaysPlaced
<1>6. CASE proc'[q] # proc[q]
  <2>1. /\ At(q) = "waits" /\ At(q)' \in {"got", "panics"}
        /\ proc'[q].frames = proc[q].frames /\ proc'[q].closing = proc[q].closing
    BY <1>6 DEF Goes, At
  <2>2. proc[q].ctx # 0 /\ Waiting(q)  BY <1>0, <2>1 DEF Apart, Placed
  <2> PICK y : y = Cx(q)  OBVIOUS
  <2>3. Cx(q)' = y  BY <1>1, <2>2
  <2>4. /\ \A r : Cached(r)' = Cached(r) /\ Timed(r)' = Timed(r) /\ Fails(r)' = Fails(r) /\ Route(r)' = Route(r)
        /\ \A r, c : NoPage(r, c)' = NoPage(r, c)
        /\ \A r, z : Fresh(r, z)' = Fresh(r, z)
        /\ \A r, c, b : FullFits(r, c, b)' = FullFits(r, c, b)
    BY <1>3, SiteSame
  <2>5. \A code : Fit(q[1], code, y.render) => Fit(q[1], code, y.render)'
    <3> SUFFICES ASSUME NEW code, Fit(q[1], code, y.render) PROVE Fit(q[1], code, y.render)'  OBVIOUS
    <3>1. Refers(q, y.render)  BY <2>1 DEF Refers
    <3>2. y.render \in Arrays /\ FullFits(q[1], code, bytesOf[y.render])  BY DEF Fit
    <3>3. FullFits(q[1], code, bytesOf'[y.render])  BY <3>1, <3>2 DEF Undisturbed
    <3> QED BY <2>4, <3>2, <3>3 DEF Fit, Arrays
  <2>6. Waiting(q)'
    <3>1. Cached(q[1]) /\ y.left # <<>> /\ (Fresh(q[1], y) \/ (Early(q[1], y) /\ Fails(q[1])))
      BY <2>2 DEF Waiting
    <3>2. Cached(q[1])' /\ y.left # <<>> /\ (Fresh(q[1], y)' \/ (Early(q[1], y)' /\ Fails(q[1])'))
      BY <2>4, <2>5, <3>1 DEF Early
    <3> QED BY <2>3, <3>2 DEF Waiting, Early, Fit
  <2>7. At(q)' = "got" => EntryFits(q[1], proc[q].got)'
    <3> SUFFICES ASSUME At(q)' = "got" PROVE EntryFits(q[1], proc[q].got)'  OBVIOUS
    <3>1. bytesOf' = bytesOf /\ EntryFits(q[1], proc'[q].got)  BY <1>6 DEF At
    <3> QED BY <2>4, <3>1 DEF EntryFits, Fit, Arrays
  <2>8. At(q)' = "panics" => Route(q[1])'.handler = "panics"
    BY <1>6, <2>4 DEF At
  <2>9. \A i \in DOMAIN proc'[q].frames : proc'[q].frames[i] = "cache" => Cached(q[1])'
    BY <1>0, <2>1, <2>4 DEF Placed
  <2>10. q[2] = "child" /\ At(q)' # "idle" => Timed(q[1])'
    BY <1>0, <2>1, <2>4 DEF Placed
  <2> QED BY <1>4, <2>1, <2>6, <2>7, <2>8, <2>9, <2>10 DEF Placed
<1> QED BY <1>5, <1>6

-----------------------------------------------------------------------------
(* What a write does to the arrays others answer from.                     *)
Acts(p) ==
    IF p[2] = "main" THEN At(p) \in {"next", "timed", "panics"} /\ At(Child(p)) \in {"idle", "panicked"}
    ELSE At(p) \in {"next", "panics"}
OwnBytes(r, a) == IF a[1] = "error" THEN "error" ELSE r
WritesOwn(p, a) ==
    /\ a \in Arrays /\ OwnArray(p[1], a) /\ bytesOf' = [bytesOf EXCEPT ![a] = OwnBytes(p[1], a)]
    /\ Timed(p[1]) \/ Cached(p[1]) => OwnBytes(p[1], a) \in RouteBytes(p[1])

\* An array is one request's own.
LEMMA ArraysApartFrom ==
    ASSUME SiteFits, NEW r \in Visits, NEW q \in Visits, NEW a, OwnArray(r, a), OwnArray(q, a) PROVE q = r
BY DEF SiteFits, OneWriter, OwnArray

\* Behind a cache or a timeout one kind of bytes is as good as the other.
LEMMA BytesOfRoute ==
    ASSUME SiteFits, NEW r \in Visits, Timed(r) \/ Cached(r), NEW code, NEW b, FullFits(r, code, b)
    PROVE  b \in RouteBytes(r) /\ \A v \in RouteBytes(r) : FullFits(r, code, v)
<1>1. ~ HasWare(r, "panics")
  BY DEF SiteFits, PanicsAlone, Fails, Timed
<1> QED BY <1>1 DEF FullFits, RouteBytes

\* A site with caches and timeouts has one route.
LEMMA OneRoute ==
    ASSUME SiteFits, ~ NoCache, ~ NoTimeout
    PROVE  \A q, r \in Visits : Route(q) = Route(r) /\ Timed(q) /\ Cached(q) /\ RouteBytes(q) = RouteBytes(r)
                                /\ \A code, b : FullFits(q, code, b) <=> FullFits(r, code, b)
<1>1. PICK c \in Visits : Cached(c)  BY DEF NoCache
<1>2. PICK t \in Visits : Timed(t)  BY DEF NoTimeout
<1>3. \A q, r \in Visits : Route(q) = Route(r)  BY <1>1, <1>2 DEF SiteFits, CacheOrTimeout
<1>4. \A q, r \in Visits : \A k : HasWare(q, k) <=> HasWare(r, k)  BY <1>3 DEF HasWare
<1>5. \A q \in Visits : Timed(q) /\ Cached(q)
  BY <1>1, <1>2, <1>3 DEF Timed, Cached, HasWare
<1>6. \A q, r \in Visits : Makers(q) = Makers(r)  BY <1>3, <1>5 DEF Makers
<1> QED BY <1>3, <1>4, <1>5, <1>6 DEF RouteBytes, FullFits

\* Who acts writes what nobody else of its request answers from.
LEMMA ActsMakes ==
    ASSUME RqInv, NEW p \in Procs, Acts(p)
    PROVE  /\ ~ Over(p[1])
           /\ \A q \in Procs \ {p} : q[1] = p[1] /\ NoCache =>
                 \/ At(q) \in {"idle", "panicked", "timed", "send", "gone"}
                 \/ Cx(q).render = NoArray
<1>1. p = <<p[1], p[2]>> /\ p[1] \in Visits /\ p[2] \in Sides /\ Child(p) \in Procs /\ <<p[1], "main">> \in Procs  BY DEF Procs, Sides, Child
<1>2. ~ Over(p[1])
  BY <1>1 DEF Acts, Over, Child, Sides
<1>3. ASSUME NEW q \in Procs \ {p}, q[1] = p[1], NoCache
      PROVE  At(q) \in {"idle", "panicked", "timed", "send", "gone"} \/ Cx(q).render = NoArray
  <2>1. q = <<q[1], q[2]>> /\ q[2] \in Sides /\ q[2] # p[2]  BY <1>1, <1>3 DEF Procs, Sides
  <2>2. CASE p[2] = "main"
    <3>1. q = Child(p)  BY <1>3, <2>1, <2>2 DEF Child, Sides
    <3> QED BY <2>2, <3>1 DEF Acts
  <2>3. CASE p[2] = "child"
    <3>1. q = <<p[1], "main">> /\ Child(q) = p /\ q[2] = "main"  BY <1>1, <1>3, <2>1, <2>3 DEF Child, Sides
    <3>2. At(p) \in {"next", "panics"}  BY <2>3 DEF Acts
    <3>3. At(q) \in {"timed", "send", "gone"} \/ At(q) = "next"  BY <2>3, <3>1, <3>2 DEF RqInv, Placed
    <3>4. At(q) = "next" => Cx(q).render = NoArray
      BY <1>3, <3>1, <3>2 DEF RqInv, ArraysApart, SingleBodies
    <3> QED BY <3>3, <3>4
  <2> QED BY <1>1, <2>2, <2>3 DEF Sides
<1> QED BY <1>2, <1>3

\* Without caches nobody stores or waits.
LEMMA EntriesOfCached ==
    ASSUME RqInv, NoCache
    PROVE  /\ \A r \in Visits : stored[Route(r).name] = NoEntry
           /\ \A q \in Procs : At(q) \notin {"missed", "waits", "got", "panics"}
<1>1. \A q \in Procs : q[1] \in Visits  BY DEF Procs
<1> QED BY <1>1 DEF RqInv, NoCache, StoredFit, Placed, Waiting

\* Without caches what one answers from is its render or its body.
LEMMA RefersBody ==
    ASSUME RqInv, NEW q \in Procs, NEW a \in Arrays, Refers(q, a), NoCache
    PROVE  /\ proc[q].ctx \in ContextNames
           /\ \/ At(q) \in {"next", "done"} /\ Cx(q).render = a /\ OwnArray(q[1], a)
              \/ context[proc[q].ctx].body = a
<1>1. At(q) \notin {"missed", "waits", "got", "panics"}  BY EntriesOfCached
<1>2. InUse(q)  BY DEF Refers, InUse
<1>3. proc[q].ctx \in ContextNames /\ proc[q].ctx # 0 /\ Cx(q) = context[proc[q].ctx]  BY <1>2, InUseHas DEF RqInv
<1>4. a # NoArray  BY DEF Arrays, NoArray
<1>5. Cx(q).render = a => OwnArray(q[1], a)  BY <1>3, <1>4 DEF RqInv, OwnRenders
<1> QED BY <1>1, <1>3, <1>5 DEF Refers

\* A write to one's own array disturbs nobody.
LEMMA WritesOwnKeeps ==
    ASSUME RqInv, NamesFit, NEW p \in Procs, Acts(p), NEW a, WritesOwn(p, a), site' = site
    PROVE  /\ Undisturbed({p}) /\ EntriesUndisturbed
           /\ NoTimeout => OnceWritten'
           /\ ~ NoCache /\ ~ NoTimeout => OneKind'
<1>0. SiteFits /\ RqTypes /\ p[1] \in Visits /\ \A q \in Procs : q[1] \in Visits  BY DEF RqInv, Procs
<1>1. \A b \in Arrays : bytesOf'[b] = IF b = a THEN OwnBytes(p[1], a) ELSE bytesOf[b]
  BY <1>0 DEF WritesOwn, RqTypes
<1>2. CASE NoCache /\ ~ NoTimeout
  <2>1. \A q \in Procs \ {p} : ~ Refers(q, a)
    <3> SUFFICES ASSUME NEW q \in Procs \ {p}, Refers(q, a) PROVE FALSE  OBVIOUS
    <3>0. a \in Arrays /\ OwnArray(p[1], a)  BY DEF WritesOwn
    <3>1. /\ proc[q].ctx \in ContextNames
          /\ \/ At(q) \in {"next", "done"} /\ Cx(q).render = a /\ OwnArray(q[1], a)
             \/ context[proc[q].ctx].body = a
      BY <1>2, <3>0, RefersBody
    <3>2. CASE At(q) \in {"next", "done"} /\ Cx(q).render = a /\ OwnArray(q[1], a)
      <4>1. q[1] = p[1]  BY <1>0, <3>0, <3>2, ArraysApartFrom
      <4>2. a # NoArray  BY <3>0 DEF Arrays, NoArray
      <4> QED BY <1>2, <3>2, <4>1, <4>2, ActsMakes
    <3>3. CASE context[proc[q].ctx].body = a
      <4>1. Over(p[1])  BY <1>0, <1>2, <3>0, <3>1, <3>3 DEF RqInv, ArraysApart, SingleBodies
      <4> QED BY <4>1, ActsMakes
    <3> QED BY <3>1, <3>2, <3>3
  <2>2. EntriesUndisturbed  BY <1>2, EntriesOfCached DEF EntriesUndisturbed
  <2> QED BY <1>1, <1>2, <2>1, <2>2 DEF Undisturbed
<1>3. CASE NoTimeout
  <2>1. bytesOf[a] \in {"none", OwnBytes(p[1], a)}
    BY <1>0, <1>3 DEF RqInv, ArraysApart, OnceWritten, WritesOwn, OwnBytes
  <2>2. \A r \in Visits : \A code : ~ FullFits(r, code, "none")
    BY DEF FullFits, Makers, NamesFit
  <2>3. \A b \in Arrays, r \in Visits : \A code : FullFits(r, code, bytesOf[b]) => FullFits(r, code, bytesOf'[b])
    BY <1>1, <2>1, <2>2
  <2>4. Undisturbed({p}) /\ EntriesUndisturbed  BY <1>0, <2>3 DEF Undisturbed, EntriesUndisturbed
  <2>5. OnceWritten'
    <3> SUFFICES ASSUME NEW r \in Visits, NEW b \in Arrays, OwnArray(r, b)
                 PROVE  bytesOf'[b] \in {"none", IF b[1] = "error" THEN "error" ELSE r}
      BY SiteSame DEF OnceWritten, Arrays
    <3>1. CASE b = a
      <4>1. r = p[1]  BY <1>0, <3>1, ArraysApartFrom DEF WritesOwn
      <4> QED BY <1>1, <3>1, <4>1 DEF OwnBytes
    <3>2. CASE b # a
      BY <1>1, <1>3, <3>2 DEF RqInv, ArraysApart, OnceWritten
    <3> QED BY <3>1, <3>2
  <2> QED BY <1>3, <2>4, <2>5
<1>4. CASE ~ NoCache /\ ~ NoTimeout
  <2>1. \A q, r \in Visits : Timed(q) /\ Cached(q) /\ RouteBytes(q) = RouteBytes(r)
    BY <1>0, <1>4, OneRoute
  <2>2. OwnBytes(p[1], a) \in RouteBytes(p[1])  BY <1>0, <2>1 DEF WritesOwn
  <2>3. \A b \in Arrays, r \in Visits : \A code : FullFits(r, code, bytesOf[b]) => FullFits(r, code, bytesOf'[b])
    <3> SUFFICES ASSUME NEW b \in Arrays, NEW r \in Visits, NEW code, FullFits(r, code, bytesOf[b])
                 PROVE  FullFits(r, code, bytesOf'[b])
      OBVIOUS
    <3>1. CASE b = a
      <4>1. OwnBytes(p[1], a) \in RouteBytes(r)  BY <1>0, <2>1, <2>2
      <4>2. FullFits(r, code, OwnBytes(p[1], a))  BY <1>0, <2>1, <4>1, BytesOfRoute
      <4> QED BY <1>1, <3>1, <4>2
    <3>2. CASE b # a  BY <1>1, <3>2
    <3> QED BY <3>1, <3>2
  <2>4. Undisturbed({p}) /\ EntriesUndisturbed  BY <1>0, <2>3 DEF Undisturbed, EntriesUndisturbed
  <2>5. OneKind'
    <3> SUFFICES ASSUME NEW b \in Arrays, NEW r \in Visits PROVE bytesOf'[b] \in {"none"} \cup RouteBytes(r)
      BY SiteSame DEF OneKind, Arrays
    <3>1. bytesOf[b] \in {"none"} \cup RouteBytes(r)  BY <1>4 DEF RqInv, ArraysApart, OneKind
    <3> QED BY <1>0, <1>1, <2>1, <2>2, <3>1
  <2> QED BY <1>4, <2>4, <2>5
<1> QED BY <1>2, <1>3, <1>4

\* Goes keeps the arrays apart.
LEMMA GoesArrays ==
    ASSUME RqInv, NEW p \in Procs, InUse(p), NEW x, NEW pr, Goes(p, x, pr), At(p) \notin {"send", "panicked"},
           x.render = NoArray \/ OwnArray(p[1], x.render),
           NoCache =>
               /\ \/ x.body = Cx(p).body
                  \/ OwnArray(p[1], x.body) /\ p[2] = "main" /\ pr.at = "send" /\ At(Child(p)) \in {"idle", "panicked", "gone"}
               /\ p[2] = "main" /\ pr.at = "next" /\ x.render # NoArray => At(Child(p)) \in {"idle", "panicked"},
           NoTimeout => OnceWritten',
           ~ NoCache /\ ~ NoTimeout => OneKind'
    PROVE  OwnRenders' /\ ArraysApart'
<1>0. RqTypes /\ Apart /\ SiteFits  BY DEF RqInv
<1>1. /\ Cx(p)' = x
      /\ \A u \in Procs : u # p /\ proc[u].ctx # 0 => Cx(u)' = Cx(u)
      /\ \A u \in Procs : proc'[u].ctx = proc[u].ctx /\ (At(u)' = "idle" <=> At(u) = "idle")
      /\ \A u \in Procs : u # p => (At(u)' = "gone" <=> At(u) = "gone")
  BY GoesFrame
<1>2. site' = site /\ proc'[p] = pr  BY DEF Goes
<1>3. /\ \A r, a : OwnArray(r, a)' = OwnArray(r, a)
      /\ NoCache' = NoCache /\ NoTimeout' = NoTimeout
  BY <1>2, SiteSame
<1>4. OwnRenders'
  <2> SUFFICES ASSUME NEW q \in Procs, proc'[q].ctx # 0
               PROVE  Cx(q)'.render = NoArray \/ OwnArray(q[1], Cx(q).render)'
    BY DEF OwnRenders
  <2>1. CASE q = p  BY <1>1, <1>3, <2>1
  <2>2. CASE q # p  BY <1>1, <1>3, <2>2 DEF RqInv, OwnRenders
  <2> QED BY <2>1, <2>2
<1>5. ASSUME NoCache PROVE SingleBodies'
  <2>0. SingleBodies  BY <1>5 DEF RqInv, ArraysApart
  <2>1. p = <<p[1], p[2]>> /\ p[1] \in Visits /\ p[2] \in Sides /\ Child(p) \in Procs  BY DEF Procs, Sides, Child
  <2>2. ~ Over(p[1])  BY <2>1 DEF Over, InUse, Sides
  <2>3. \A r \in Visits : Over(r) => Over(r)'
    <3> SUFFICES ASSUME NEW r \in Visits, Over(r) PROVE Over(r)'  OBVIOUS
    <3>1. r # p[1]  BY <2>2
    <3>2. <<r, "main">> \in Procs \ {p} /\ <<r, "child">> \in Procs \ {p}  BY <2>1, <3>1 DEF Procs, Sides
    <3>3. At(<<r, "main">>) # "waits" /\ At(<<r, "child">>) # "waits"  BY DEF Over
    <3>4. proc'[<<r, "main">>] = proc[<<r, "main">>] /\ proc'[<<r, "child">>] = proc[<<r, "child">>]
      BY <3>2, <3>3 DEF Goes
    <3> QED BY <3>4 DEF Over, At
  <2>4. proc[p].ctx \in ContextNames /\ Cx(p) = context[proc[p].ctx]  BY <1>0, InUseHas
  <2> PICK k : k = proc[p].ctx  OBVIOUS
  <2>5. /\ k \in ContextNames /\ context'[k] = x /\ context[k] = Cx(p)
        /\ \A c \in ContextNames : c # k => context'[c] = context[c]
    BY <1>0, <2>4 DEF Goes, RqTypes
  <2>6. /\ \A c, d \in ContextNames : context'[c].body = context'[d].body => c = d \/ context'[c].body = NoArray
        /\ \A c \in ContextNames, r \in Visits : OwnArray(r, context'[c].body) => Over(r)'
        /\ \A c \in ContextNames, r \in Visits : context'[c].body = <<"copy", r>> => At(<<r, "child">>) = "gone"
    <3>1. CASE x.body = Cx(p).body
      <4>1. \A c \in ContextNames : context'[c].body = context[c].body  BY <2>5, <3>1
      <4> QED BY <2>0, <2>3, <4>1 DEF SingleBodies
    <3>2. CASE OwnArray(p[1], x.body) /\ p[2] = "main" /\ pr.at = "send" /\ At(Child(p)) \in {"idle", "panicked", "gone"}
      <4>1. \A c \in ContextNames : context[c].body # x.body  BY <2>0, <2>1, <2>2, <3>2 DEF SingleBodies
      <4>2. Over(p[1])'
        <5>1. Child(p) # p /\ p = <<p[1], "main">>  BY <2>1, <3>2 DEF Child
        <5>2. proc'[Child(p)] = proc[Child(p)]  BY <2>1, <3>2, <5>1 DEF Goes, At
        <5> QED BY <1>2, <3>2, <5>1, <5>2 DEF Over, At, Child
      <4>3. x.body # NoArray /\ \A r : x.body # <<"copy", r>>  BY <3>2 DEF OwnArray, NoArray
      <4>4. \A r \in Visits : OwnArray(r, x.body) => r = p[1]  BY <1>0, <2>1, <3>2, ArraysApartFrom
      <4>5. \A c, d \in ContextNames : context'[c].body = context'[d].body => c = d \/ context'[c].body = NoArray
        BY <2>0, <2>5, <4>1 DEF SingleBodies
      <4>6. \A c \in ContextNames, r \in Visits : OwnArray(r, context'[c].body) => Over(r)'
        BY <2>0, <2>3, <2>5, <4>2, <4>4 DEF SingleBodies
      <4>7. \A c \in ContextNames, r \in Visits : context'[c].body = <<"copy", r>> => At(<<r, "child">>) = "gone"
        BY <2>0, <2>5, <4>3 DEF SingleBodies
      <4> QED BY <4>5, <4>6, <4>7
    <3> QED BY <1>5, <3>1, <3>2
  <2>7. \A r \in Visits : At(<<r, "child">>) = "gone" => At(<<r, "child">>)' = "gone"
    <3>1. \A r \in Visits : <<r, "child">> \in Procs  BY DEF Procs, Sides
    <3> QED BY <1>1, <3>1 DEF InUse
  <2>8. ASSUME NEW q \in Procs, q[2] = "main", At(q)' = "next", Cx(q)'.render # NoArray
        PROVE  At(Child(q))' \in {"idle", "panicked"}
    <3>1. Child(q) \in Procs /\ Child(q) # q  BY <2>8 DEF Procs, Child, Sides
    <3>2. CASE q = p
      <4>1. At(Child(p)) \in {"idle", "panicked"}  BY <1>1, <1>2, <1>5, <2>8, <3>2 DEF At
      <4>2. proc'[Child(p)] = proc[Child(p)]  BY <3>1, <3>2, <4>1 DEF Goes, At
      <4> QED BY <3>2, <4>1, <4>2 DEF At
    <3>3. CASE q # p
      <4>1. proc'[q] = proc[q] /\ At(q) = "next"  BY <2>8, <3>3 DEF Goes, At
      <4>2. Cx(q)' = Cx(q)  BY <1>0, <1>1, <3>3, <4>1 DEF Apart
      <4>3. At(Child(q)) \in {"idle", "panicked"}  BY <2>0, <2>8, <4>1, <4>2 DEF SingleBodies
      <4>4. Child(q) # p  BY <4>3 DEF InUse
      <4>5. proc'[Child(q)] = proc[Child(q)]  BY <3>1, <4>3, <4>4 DEF Goes, At
      <4> QED BY <4>3, <4>5 DEF At
    <3> QED BY <3>2, <3>3
  <2> QED BY <1>3, <2>6, <2>7, <2>8 DEF SingleBodies
<1> QED BY <1>3, <1>4, <1>5 DEF ArraysApart

\* A step of one goroutine keeps the invariant when it is well placed behind
\* it.
LEMMA GoesSound ==
    ASSUME RqInv, NamesFit, NEW p \in Procs, InUse(p), NEW x, NEW pr, Goes(p, x, pr), At(p) \notin {"send", "panicked"},
           \/ bytesOf' = bytesOf
           \/ Acts(p) /\ \E a : WritesOwn(p, a),
           \/ stored' = stored
           \/ /\ bytesOf' = bytesOf /\ stored' \in [RouteNames -> Entries]
              /\ \A r \in Visits : stored'[Route(r).name] # stored[Route(r).name] =>
                                       Cached(r) /\ EntryFits(r, stored'[Route(r).name]),
           bufferPool' \subseteq Buffers, DOMAIN flight' = RouteNames, sent' = sent,
           \A q \in Procs \ {p} : proc'[q] # proc[q] =>
               \/ proc'[q].at = "got" /\ bytesOf' = bytesOf /\ EntryFits(q[1], proc'[q].got)
               \/ proc'[q].at = "panics" /\ Route(q[1]).handler = "panics",
           p[2] = "main" /\ At(Child(p)) # "idle" =>
               pr.at \in {"timed", "send", "gone"} \/ (pr.at = "next" /\ x.stop),
           x.render = NoArray \/ OwnArray(p[1], x.render),
           NoCache =>
               /\ \/ x.body = Cx(p).body
                  \/ OwnArray(p[1], x.body) /\ p[2] = "main" /\ pr.at = "send" /\ At(Child(p)) \in {"idle", "panicked", "gone"}
               /\ p[2] = "main" /\ pr.at = "next" /\ x.render # NoArray => At(Child(p)) \in {"idle", "panicked"},
           Placed(p)'
    PROVE  RqInv'
<1>0. site' = site /\ slot' = slot /\ ctxPool' = ctxPool /\ proc' \in [Procs -> ProcRec]  BY DEF Goes
<1>1. /\ \A r : Cached(r)' = Cached(r) /\ Route(r)' = Route(r) /\ Makers(r)' = Makers(r)
      /\ \A r, c : NoPage(r, c)' = NoPage(r, c)
      /\ \A r, c, b : FullFits(r, c, b)' = FullFits(r, c, b)
      /\ RouteNames' = RouteNames
  BY <1>0, SiteSame
<1>2. SiteFits' /\ Apart' /\ Enough' /\ Chained' /\ Pooled' /\ context' \in [ContextNames -> ContextRec]
  BY GoesKeeps
<1>3. /\ Undisturbed({p}) /\ EntriesUndisturbed
      /\ NoTimeout => OnceWritten'
      /\ ~ NoCache /\ ~ NoTimeout => OneKind'
      /\ DOMAIN bytesOf' = Arrays
  <2>1. CASE bytesOf' = bytesOf
    <3>1. Undisturbed({p}) /\ EntriesUndisturbed  BY <2>1 DEF Undisturbed, EntriesUndisturbed
    <3>2. NoTimeout => OnceWritten'  BY <1>0, <2>1, SiteSame DEF RqInv, ArraysApart, OnceWritten, Arrays
    <3>3. ~ NoCache /\ ~ NoTimeout => OneKind'  BY <1>0, <2>1, SiteSame DEF RqInv, ArraysApart, OneKind, Arrays
    <3> QED BY <2>1, <3>1, <3>2, <3>3 DEF RqInv, RqTypes
  <2>2. CASE Acts(p) /\ \E a : WritesOwn(p, a)
    <3>1. PICK a : WritesOwn(p, a)  BY <2>2
    <3>2. DOMAIN bytesOf' = Arrays  BY <3>1 DEF WritesOwn, RqInv, RqTypes
    <3> QED BY <1>0, <2>2, <3>1, <3>2, WritesOwnKeeps
  <2> QED BY <2>1, <2>2
<1>4. \A q \in Procs : Placed(q)'
  <2>1. \A q \in Procs \ {p} : Placed(q)'  BY <1>3, OthersPlaced
  <2> QED BY <2>1
<1>5. OwnRenders' /\ ArraysApart'  BY <1>3, GoesArrays
<1>6. stored' \in [RouteNames -> Entries]  BY DEF RqInv, RqTypes
<1>7. StoredFit'
  <2> SUFFICES ASSUME NEW r \in Visits, stored'[Route(r)'.name] # NoEntry
               PROVE  Cached(r)' /\ EntryFits(r, stored[Route(r).name])'
    BY DEF StoredFit
  <2> PICK e : e = stored'[Route(r).name]  OBVIOUS
  <2>0. (stored[Route(r).name])' = e  BY <1>1
  <2>1. CASE stored'[Route(r).name] = stored[Route(r).name]
    <3>1. Cached(r) /\ EntryFits(r, e)  BY <1>1, <2>1 DEF RqInv, StoredFit
    <3>2. e.full => (e.array \in Arrays /\ FullFits(r, e.code, bytesOf'[e.array]))
      BY <1>1, <1>3, <2>1, <3>1 DEF EntriesUndisturbed, EntryFits, Fit
    <3> QED BY <1>1, <2>0, <3>1, <3>2 DEF EntryFits, Fit, Arrays
  <2>2. CASE stored'[Route(r).name] # stored[Route(r).name]
    <3>1. Cached(r) /\ EntryFits(r, e) /\ bytesOf' = bytesOf  BY <2>2
    <3> QED BY <1>1, <2>0, <3>1 DEF EntryFits, Fit, Arrays
  <2> QED BY <2>1, <2>2
<1>8. AnswersAreOwn'
  <2>1. AnswersAreOwn  BY DEF RqInv
  <2> QED BY <1>1, <2>1 DEF AnswersAreOwn, AnswerFits
<1>9. RqTypes'
  <2>1. \A q \in Procs : proc'[q].at \in IF q[2] = "main" THEN MainPlaces ELSE ChildPlaces
    BY GoesFrame DEF At
  <2> QED BY <1>0, <1>1, <1>2, <1>3, <1>6, <2>1 DEF RqInv, RqTypes, Arrays
<1> QED BY <1>2, <1>4, <1>5, <1>7, <1>8, <1>9 DEF RqInv

-----------------------------------------------------------------------------
(* Where the goroutine that goes comes to.                                 *)
BrokenAt(p, pr) == p[2] = "main" /\ pr.closing /\ pr.frames = <<>>
\* The goroutine that goes is well placed by the context and the place it gets.
LEMMA SelfPlaced ==
    ASSUME RqInv, NEW p \in Procs, InUse(p), NEW x, NEW pr, Goes(p, x, pr),
           \A i \in DOMAIN pr.frames : pr.frames[i] = "cache" => Cached(p[1]),
           pr.at \in {"next", "missed", "waits", "panicked", "done", "send", "gone"},
           pr.at = "next" =>
               \/ x.stop /\ (Settled(p[1], x)' \/ BrokenAt(p, pr))
               \/ Fresh(p[1], x) /\ (x.left # <<>> \/ BrokenAt(p, pr))
               \/ Early(p[1], x)' /\ (x.left = <<>> \/ Fails(p[1])),
           pr.at \in {"missed", "waits"} =>
               Cached(p[1]) /\ x.left # <<>> /\ (Fresh(p[1], x) \/ (Early(p[1], x)' /\ Fails(p[1]))),
           pr.at = "panicked" => Route(p[1]).handler = "panics",
           pr.at = "done" => Settled(p[1], x)',
           pr.at = "send" => x.render = NoArray /\ (pr.closing \/ Settled(p[1], x)')
    PROVE  Placed(p)'
<1>0. RqTypes /\ Apart /\ Placed(p) /\ site' = site /\ proc'[p] = pr  BY DEF RqInv, Goes
<1>1. /\ Cx(p)' = x
      /\ \A u \in Procs : u # p /\ proc[u].ctx # 0 => Cx(u)' = Cx(u)
  BY GoesFrame
<1>2. /\ \A r : Cached(r)' = Cached(r) /\ Timed(r)' = Timed(r) /\ Fails(r)' = Fails(r) /\ Route(r)' = Route(r)
      /\ \A r, z : Fresh(r, z)' = Fresh(r, z)
  BY <1>0, SiteSame
<1>3. At(p)' = pr.at  BY <1>0 DEF At
<1>4. At(p)' = "next" => AtNext(p)'
  <2> SUFFICES ASSUME pr.at = "next" PROVE AtNext(p)'  BY <1>3
  <2>1. Broken(p)' = BrokenAt(p, pr)  BY <1>0 DEF Broken, BrokenAt
  <2>2. \/ x.stop /\ (Settled(p[1], x)' \/ Broken(p)')
        \/ Fresh(p[1], x)' /\ (x.left # <<>> \/ Broken(p)')
        \/ Early(p[1], x)' /\ (x.left = <<>> \/ Fails(p[1])')
    BY <1>2, <2>1
  <2> QED BY <1>1, <2>2 DEF AtNext, Settled, Early, Fit
<1>5. At(p)' \in {"missed", "waits"} => Waiting(p)'
  <2> SUFFICES ASSUME pr.at \in {"missed", "waits"} PROVE Waiting(p)'  BY <1>3
  <2>1. Cached(p[1])' /\ x.left # <<>> /\ (Fresh(p[1], x)' \/ (Early(p[1], x)' /\ Fails(p[1])'))
    BY <1>2
  <2> QED BY <1>1, <2>1 DEF Waiting, Early, Fit
<1>6. At(p)' = "done" => Settled(p[1], Cx(p))'  BY <1>1, <1>3 DEF Settled, Fit
<1>7. At(p)' = "send" => Cx(p)'.render = NoArray /\ (proc'[p].closing \/ Settled(p[1], Cx(p))')
  BY <1>0, <1>1, <1>3 DEF Settled, Fit
<1>8. p[2] = "child" =>
          /\ Timed(p[1])'
          /\ \/ At(<<p[1], "main">>)' \in {"timed", "send", "gone"}
             \/ At(<<p[1], "main">>)' = "next" /\ Cx(<<p[1], "main">>)'.stop
  <2> SUFFICES ASSUME p[2] = "child"
               PROVE  /\ Timed(p[1])'
                      /\ \/ At(<<p[1], "main">>)' \in {"timed", "send", "gone"}
                         \/ At(<<p[1], "main">>)' = "next" /\ Cx(<<p[1], "main">>)'.stop
    OBVIOUS
  <2> DEFINE m == <<p[1], "main">>
  <2>0. m \in Procs \ {p}  BY DEF Procs, Sides
  <2>1. Timed(p[1]) /\ (At(m) \in {"timed", "send", "gone"} \/ (At(m) = "next" /\ Cx(m).stop))
    BY <1>0 DEF Placed, InUse
  <2>2. proc'[m] = proc[m]  BY <2>0, <2>1 DEF Goes, At
  <2>3. At(m) = "next" => proc[m].ctx # 0  BY <1>0, <2>0 DEF Apart
  <2> QED BY <1>1, <1>2, <2>0, <2>1, <2>2, <2>3 DEF At
<1> QED BY <1>0, <1>2, <1>3, <1>4, <1>5, <1>6, <1>7, <1>8 DEF Placed

\* What a middleware or handler finds when Next calls it.
LEMMA TakesHas ==
    ASSUME RqInv, NamesFit, NEW p \in Procs, NEW what, Takes(p, what)
    PROVE  /\ InUse(p) /\ At(p) = "next" /\ Acts(p) /\ Maker(p) = p[1] /\ p[1] \in Visits
           /\ proc[p].ctx \in ContextNames /\ Cx(p) = context[proc[p].ctx] /\ Cx(p) \in ContextRec
           /\ Cx(p).left # <<>> /\ Tail(Cx(p).left) \in Seq(Wares \cup {"handler"})
           /\ IF what = "handler" THEN Tail(Cx(p).left) = <<>>
              ELSE Tail(Cx(p).left) # <<>> /\ HasWare(p[1], what)
           /\ Fresh(p[1], Cx(p)) \/ (Early(p[1], Cx(p)) /\ Fails(p[1]))
           /\ p[2] = "main" => At(Child(p)) = "idle"
<1>0. RqTypes /\ Apart /\ Placed(p) /\ p = <<p[1], p[2]>> /\ p[1] \in Visits /\ p[2] \in Sides /\ Child(p) \in Procs
  BY DEF RqInv, Procs, Child, Sides
<1>1. At(p) = "next" /\ InUse(p) /\ ~ Cx(p).stop /\ Cx(p).left # <<>> /\ Head(Cx(p).left) = what  BY DEF Takes, At, InUse
<1>2. proc[p].ctx \in ContextNames /\ proc[p].ctx # 0 /\ Cx(p) = context[proc[p].ctx] /\ Cx(p) \in ContextRec
  BY <1>0, <1>1, InUseHas
<1>3. Cx(p).left \in Seq(Wares \cup {"handler"}) /\ ChainOf(p[1], Cx(p).left)
  BY <1>2 DEF ContextRec, RqInv, Chained
<1>4. /\ Tail(Cx(p).left) \in Seq(Wares \cup {"handler"})
      /\ IF what = "handler" THEN Tail(Cx(p).left) = <<>> ELSE Tail(Cx(p).left) # <<>> /\ HasWare(p[1], what)
  <2> PICK s : s = Cx(p).left  OBVIOUS
  <2> QED BY <1>1, <1>3, ChainGoesOn
<1>5. Fresh(p[1], Cx(p)) \/ (Early(p[1], Cx(p)) /\ Fails(p[1]))
  BY <1>0, <1>1 DEF Placed, AtNext
<1>6. p[2] = "main" => At(Child(p)) = "idle"
  <2> SUFFICES ASSUME p[2] = "main", At(Child(p)) # "idle" PROVE FALSE  OBVIOUS
  <2>1. Child(p)[1] = p[1] /\ Child(p)[2] = "child" /\ p = <<p[1], "main">>  BY <1>0 DEF Child
  <2>2. At(p) \in {"timed", "send", "gone"} \/ (At(p) = "next" /\ Cx(p).stop)  BY <1>0, <2>1 DEF RqInv, Placed
  <2> QED BY <1>1, <2>2
<1>7. Maker(p) = p[1]
  <2>1. \/ Cx(p).handler = p[1]
        \/ Cx(p).handler = "slot" /\ InSlot(p[1]) /\ slot[Route(p[1]).name] = p[1]
    BY <1>2 DEF RqInv, Chained
  <2>2. p[1] # "slot"  BY <1>0 DEF NamesFit
  <2> QED BY <2>1, <2>2 DEF Maker
<1>8. Acts(p)  BY <1>0, <1>1, <1>6 DEF Acts
<1> QED BY <1>0, <1>1, <1>2, <1>4, <1>5, <1>6, <1>7, <1>8

-----------------------------------------------------------------------------
\* What has not changed keeps its type.
LEMMA RestSame ==
    ASSUME RqInv, bufferPool' = bufferPool, stored' = stored, flight' = flight, sent' = sent, site' = site
    PROVE  bufferPool' \subseteq Buffers /\ DOMAIN flight' = RouteNames
BY DEF RqInv, RqTypes

\* Each action keeps the invariant: the middleware and the handlers.
LEMMA PassesOnKeeps == ASSUME RqInv, NamesFit, NEW p \in Procs, PassesOn(p) PROVE RqInv'
<1>0. Takes(p, "plain")  BY DEF PassesOn
<1>1. /\ InUse(p) /\ At(p) = "next" /\ p[1] \in Visits
      /\ proc[p].ctx \in ContextNames /\ Cx(p) = context[proc[p].ctx] /\ Cx(p) \in ContextRec
      /\ Cx(p).left # <<>> /\ Tail(Cx(p).left) \in Seq(Wares \cup {"handler"}) /\ Tail(Cx(p).left) # <<>>
      /\ Fresh(p[1], Cx(p)) \/ (Early(p[1], Cx(p)) /\ Fails(p[1]))
      /\ p[2] = "main" => At(Child(p)) = "idle"
  BY <1>0, TakesHas
<1>2. RqTypes /\ Placed(p)  BY DEF RqInv
<1> PICK x : x = [Cx(p) EXCEPT !.left = Tail(@)]  OBVIOUS
<1> PICK pr : pr = proc[p]  OBVIOUS
<1>3. /\ x \in ContextRec /\ x.left = Tail(Cx(p).left) /\ x.handler = Cx(p).handler /\ x.stop = Cx(p).stop
      /\ x.code = Cx(p).code /\ x.render = Cx(p).render /\ x.body = Cx(p).body /\ x.full = Cx(p).full
  BY <1>1 DEF ContextRec
<1>4. context' = [context EXCEPT ![proc[p].ctx] = x]  BY <1>1, <1>2 DEF PassesOn, Passes, RqTypes
<1>5. pr \in ProcRec /\ pr.at = "next"  BY <1>1, <1>2 DEF RqTypes, At
<1>6. Goes(p, x, pr)
  BY <1>1, <1>2, <1>3, <1>4, <1>5 DEF Goes, PassesOn, RqTypes, MainPlaces, ChildPlaces
<1>7. Fresh(p[1], x) \/ (Early(p[1], x) /\ Fails(p[1]))  BY <1>1, <1>3 DEF Fresh, Early
<1>8. Early(p[1], x) => Early(p[1], x)'  BY SiteSame DEF Early, Fit, PassesOn, Arrays
<1>9. \A i \in DOMAIN pr.frames : pr.frames[i] = "cache" => Cached(p[1])  BY <1>2 DEF Placed
<1>10. Placed(p)'  BY <1>1, <1>3, <1>5, <1>6, <1>7, <1>8, <1>9, SelfPlaced
<1>11. x.render = NoArray \/ OwnArray(p[1], x.render)
  BY <1>1, <1>3 DEF RqInv, OwnRenders, Apart, InUse
<1>12. UNCHANGED <<bufferPool, bytesOf, stored, flight, sent, proc, site>>  BY DEF PassesOn
<1> QED BY <1>1, <1>3, <1>6, <1>10, <1>11, <1>12, RestSame, GoesSound

\* What an abort without a code, a render and a frame make of a record.
LEMMA ClosedIs ==
    ASSUME NEW y \in ContextRec, NEW z, z = Aborted(y, 0)
    PROVE  /\ z \in ContextRec /\ z.stop = TRUE /\ z.left = y.left /\ z.handler = y.handler
           /\ z.render = y.render /\ z.body = y.body /\ z.full = y.full /\ z.code = y.code
<1>1. CASE y.stop
  <2>1. y.stop = TRUE  BY <1>1 DEF ContextRec
  <2> QED BY <1>1, <2>1 DEF Aborted
<1>2. CASE ~ y.stop
  <2>1. Aborted(y, 0) = [y EXCEPT !.stop = TRUE, !.code = y.code]  BY <1>2 DEF Aborted, ContextRec
  <2> QED BY <1>2, <2>1 DEF ContextRec
<1> QED BY <1>1, <1>2

LEMMA RenderedIs ==
    ASSUME NEW y \in ContextRec, NEW code \in Codes, NEW a \in OptArrays, ~ y.stop \/ y.code = 0, NEW z, z = Rendered(y, code, a)
    PROVE  /\ z \in ContextRec /\ z.stop = y.stop /\ z.left = y.left /\ z.handler = y.handler
           /\ z.render = a /\ z.body = y.body /\ z.full = y.full /\ z.code = code
<1>1. Rendered(y, code, a) = [y EXCEPT !.code = code, !.render = a]  BY DEF Rendered
<1> QED BY <1>1 DEF ContextRec

LEMMA FramesIs ==
    ASSUME NEW y \in ProcRec, NEW f \in {"recovery", "cache"}, NEW z, z = [y EXCEPT !.frames = Append(@, f)]
    PROVE  /\ z \in ProcRec /\ z.at = y.at /\ z.ctx = y.ctx /\ z.closing = y.closing /\ z.got = y.got
           /\ \A k : (f # "cache" \/ k) /\ (\A i \in DOMAIN y.frames : y.frames[i] = "cache" => k)
                           => \A i \in DOMAIN z.frames : z.frames[i] = "cache" => k
<1>1. y.frames \in Seq({"recovery", "cache"})  BY DEF ProcRec
<1> PICK g : g = Append(y.frames, f)  OBVIOUS
<1>2. g \in Seq({"recovery", "cache"})  BY <1>1
<1>3. \A i \in DOMAIN g : g[i] = f \/ (i \in DOMAIN y.frames /\ g[i] = y.frames[i])  BY <1>1
<1>4. z \in ProcRec /\ z.at = y.at /\ z.ctx = y.ctx /\ z.closing = y.closing /\ z.got = y.got /\ z.frames = g
  BY <1>2 DEF ProcRec
<1> QED BY <1>3, <1>4

(* A step that only moves one goroutine on.                                *)
LEMMA GoesAlone ==
    ASSUME RqInv, NEW p \in Procs, InUse(p), site' = site, slot' = slot, ctxPool' = ctxPool,
           NEW x \in ContextRec, context' = [context EXCEPT ![proc[p].ctx] = x], x.handler = Cx(p).handler,
           x.left = Cx(p).left \/ (Cx(p).left # <<>> /\ x.left = Tail(Cx(p).left)),
           NEW pr \in ProcRec, proc' = [proc EXCEPT ![p] = pr], pr.ctx = proc[p].ctx,
           pr.at \in (IF p[2] = "main" THEN MainPlaces ELSE ChildPlaces) \ {"idle"}, p[2] = "child" => pr.at # "gone"
    PROVE  Goes(p, x, pr) /\ \A q \in Procs \ {p} : proc'[q] = proc[q]
<1>1. proc \in [Procs -> ProcRec]  BY DEF RqInv, RqTypes
<1>2. proc' \in [Procs -> ProcRec] /\ proc'[p] = pr /\ \A q \in Procs \ {p} : proc'[q] = proc[q]  BY <1>1
<1> QED BY <1>2 DEF Goes

Stopped(y, c) == [y EXCEPT !.stop = TRUE, !.code = c]
StopsWith(y, c, z) ==
    /\ z \in ContextRec /\ z.stop = TRUE /\ z.handler = y.handler /\ z.render = y.render
    /\ z.body = y.body /\ z.full = y.full /\ z.code = c
LEMMA StoppedIs ==
    ASSUME NEW y \in ContextRec, NEW c \in Codes, NEW z, z = Stopped(y, c)
    PROVE  StopsWith(y, c, z)
<1> PICK w : w = [y EXCEPT !.stop = TRUE]  OBVIOUS
<1>1. w \in ContextRec  BY DEF ContextRec
<1>2. w.stop = TRUE /\ w.handler = y.handler /\ w.render = y.render /\ w.body = y.body /\ w.full = y.full
  BY DEF ContextRec
<1>3. z = [w EXCEPT !.code = c]  BY DEF ContextRec, Stopped
<1>4. z \in ContextRec  BY <1>1, <1>3 DEF ContextRec
<1>5. /\ z.stop = w.stop /\ z.handler = w.handler /\ z.render = w.render /\ z.body = w.body
      /\ z.full = w.full /\ z.code = c
  BY <1>1, <1>3 DEF ContextRec
<1> QED BY <1>2, <1>4, <1>5 DEF StopsWith

LEMMA AbortsKeeps == ASSUME RqInv, NamesFit, NEW p \in Procs, Aborts(p) PROVE RqInv'
<1>0. Takes(p, "aborts")  BY DEF Aborts
<1>y. PICK y : y = Cx(p)  OBVIOUS
<1>t. PICK t : t = Tail(y.left)  OBVIOUS
<1>1. /\ InUse(p) /\ At(p) = "next" /\ p[1] \in Visits /\ proc[p].ctx \in ContextNames
      /\ y \in ContextRec /\ y.left # <<>> /\ t \in Seq(Wares \cup {"handler"})
      /\ t # <<>> /\ HasWare(p[1], "aborts")
      /\ Fresh(p[1], y) \/ (Early(p[1], y) /\ Fails(p[1]))
      /\ p[2] = "main" => At(Child(p)) = "idle"
  BY <1>0, <1>y, <1>t, TakesHas
<1>2. RqTypes /\ Placed(p) /\ SiteFits /\ proc[p] \in ProcRec /\ proc[p].at = "next"  BY <1>1 DEF RqInv, RqTypes, At
<1>3. y.stop = FALSE /\ y.full = FALSE  BY <1>1 DEF Fresh, Early, ContextRec
<1>4. \A i \in DOMAIN proc[p].frames : proc[p].frames[i] = "cache" => Cached(p[1])  BY <1>2 DEF Placed
<1>5. y.render = NoArray \/ OwnArray(p[1], y.render)
  BY <1>1, <1>y DEF RqInv, OwnRenders, Apart, InUse
<1>z. PICK z : z = Aborted(y, 403)  OBVIOUS
<1>x. PICK x : x = [z EXCEPT !.left = t]  OBVIOUS
<1>6. Fresh(p[1], y)  BY <1>1, <1>2 DEF SiteFits, PanicsAlone
<1>7. /\ x \in ContextRec /\ x.left = t /\ x.handler = y.handler /\ x.stop = TRUE
      /\ x.code = 403 /\ x.render = NoArray /\ x.body = y.body /\ x.full = FALSE
  <2>1. 403 \in Codes \ {0}  BY DEF Codes
  <2>2. /\ z \in ContextRec /\ z.stop = TRUE /\ z.handler = y.handler /\ z.render = y.render
        /\ z.body = y.body /\ z.full = y.full /\ z.code = 403
    <3>1. y \in ContextRec  BY <1>1
    <3>2. y.stop = FALSE  BY <1>3
    <3>3. z = [y EXCEPT !.stop = TRUE, !.code = 403]  BY <1>z, <3>2 DEF Aborted
    <3>4. PICK c \in Codes : c = 403  BY <2>1
    <3>5. z = Stopped(y, c)  BY <3>3, <3>4 DEF Stopped
    <3> HIDE <3>4
    <3>6. StopsWith(y, c, z)  BY <3>1, <3>5, StoppedIs
    <3> QED BY <3>4, <3>6 DEF StopsWith
  <2>3. /\ x \in ContextRec /\ x.stop = z.stop /\ x.left = t /\ x.handler = z.handler
        /\ x.render = z.render /\ x.body = z.body /\ x.full = z.full /\ x.code = z.code
    <3>1. z \in ContextRec  BY <2>2
    <3>2. t \in Seq(Wares \cup {"handler"})  BY <1>1
    <3> QED BY <1>x, <3>1, <3>2 DEF ContextRec
  <2>4. y.render = NoArray  BY <1>6 DEF Fresh
  <2> QED BY <1>3, <2>2, <2>3, <2>4
<1>8. context' = [context EXCEPT ![proc[p].ctx] = x]  BY <1>1, <1>2, <1>x, <1>y, <1>z, <1>t DEF Aborts, Becomes, RqTypes
<1>9. UNCHANGED <<bufferPool, bytesOf, stored, flight, sent, proc, site, slot, ctxPool>>  BY DEF Aborts
<1>pr. PICK pr : pr = proc[p]  OBVIOUS
<1>10. Goes(p, x, pr)
  <2>1. proc' = [proc EXCEPT ![p] = pr]  BY <1>2, <1>9, <1>pr DEF RqTypes
  <2>2. x \in ContextRec /\ x.left = t /\ x.handler = y.handler  BY <1>7
  <2> QED BY <1>1, <1>2, <1>8, <1>9, <1>pr, <1>y, <1>t, <2>1, <2>2, GoesAlone DEF MainPlaces, ChildPlaces
<1>11. Settled(p[1], x)'
  <2>1. NoPage(p[1], 403)'  BY <1>1, <1>9, SiteSame DEF NoPage
  <2> QED BY <1>7, <2>1 DEF Settled
<1>12. Placed(p)'
  <2>1. pr.at = "next" /\ \A i \in DOMAIN pr.frames : pr.frames[i] = "cache" => Cached(p[1])  BY <1>2, <1>4, <1>pr
  <2> QED BY <1>1, <1>7, <1>10, <1>11, <2>1, SelfPlaced
<1> QED BY <1>1, <1>2, <1>7, <1>9, <1>10, <1>12, <1>pr, <1>y, RestSame, GoesSound

LEMMA RecoveryKeeps == ASSUME RqInv, NamesFit, NEW p \in Procs, Recovery(p) PROVE RqInv'
<1>0. Takes(p, "recovery")  BY DEF Recovery
<1>y. PICK y : y = Cx(p)  OBVIOUS
<1>t. PICK t : t = Tail(y.left)  OBVIOUS
<1>1. /\ InUse(p) /\ At(p) = "next" /\ p[1] \in Visits /\ proc[p].ctx \in ContextNames
      /\ y \in ContextRec /\ y.left # <<>> /\ t \in Seq(Wares \cup {"handler"})
      /\ t # <<>> /\ HasWare(p[1], "recovery")
      /\ Fresh(p[1], y) \/ (Early(p[1], y) /\ Fails(p[1]))
      /\ p[2] = "main" => At(Child(p)) = "idle"
  BY <1>0, <1>y, <1>t, TakesHas
<1>2. RqTypes /\ Placed(p) /\ SiteFits /\ proc[p] \in ProcRec /\ proc[p].at = "next"  BY <1>1 DEF RqInv, RqTypes, At
<1>3. y.stop = FALSE /\ y.full = FALSE  BY <1>1 DEF Fresh, Early, ContextRec
<1>4. \A i \in DOMAIN proc[p].frames : proc[p].frames[i] = "cache" => Cached(p[1])  BY <1>2 DEF Placed
<1>5. y.render = NoArray \/ OwnArray(p[1], y.render)
  BY <1>1, <1>y DEF RqInv, OwnRenders, Apart, InUse
<1>x. PICK x : x = [y EXCEPT !.left = t]  OBVIOUS
<1>pr. PICK pr : pr = [proc[p] EXCEPT !.frames = Append(@, "recovery")]  OBVIOUS
<1>6. /\ x \in ContextRec /\ x.left = t /\ x.handler = y.handler /\ x.stop = y.stop
      /\ x.code = y.code /\ x.render = y.render /\ x.body = y.body /\ x.full = y.full
  <2>1. y \in ContextRec  BY <1>1
  <2>2. t \in Seq(Wares \cup {"handler"})  BY <1>1
  <2> QED BY <1>x, <2>1, <2>2 DEF ContextRec
<1>7. context' = [context EXCEPT ![proc[p].ctx] = x]  BY <1>1, <1>2, <1>x, <1>y, <1>t DEF Recovery, Passes, RqTypes, Cx
<1>9. /\ pr \in ProcRec /\ pr.at = "next" /\ pr.ctx = proc[p].ctx
      /\ \A i \in DOMAIN pr.frames : pr.frames[i] = "cache" => Cached(p[1])
  <2> PICK w : w = proc[p]  OBVIOUS
  <2>1. pr = [w EXCEPT !.frames = Append(@, "recovery")] /\ w \in ProcRec  BY <1>2, <1>pr
  <2>2. /\ pr \in ProcRec /\ pr.at = w.at /\ pr.ctx = w.ctx
        /\ \A k : (\A i \in DOMAIN w.frames : w.frames[i] = "cache" => k)
                           => \A i \in DOMAIN pr.frames : pr.frames[i] = "cache" => k
    BY <2>1, FramesIs
  <2>3. \A i \in DOMAIN pr.frames : pr.frames[i] = "cache" => Cached(p[1])  BY <1>4, <2>2
  <2> QED BY <1>2, <2>2, <2>3
<1>10. proc' = [proc EXCEPT ![p] = pr]  BY <1>2, <1>pr DEF Recovery, RqTypes
<1>17. UNCHANGED <<bufferPool, bytesOf, stored, flight, sent, site, slot, ctxPool>>  BY DEF Recovery
<1>11. Goes(p, x, pr) /\ \A q \in Procs \ {p} : proc'[q] = proc[q]
  BY <1>1, <1>6, <1>7, <1>9, <1>10, <1>17, <1>y, <1>t, GoesAlone DEF MainPlaces, ChildPlaces
<1>12. Fresh(p[1], x) \/ (Early(p[1], x) /\ Fails(p[1]))  BY <1>1, <1>6 DEF Fresh, Early
<1>13. Early(p[1], x) => Early(p[1], x)'  BY <1>17, SiteSame DEF Early, Fit, Arrays
<1>15. Placed(p)'  BY <1>1, <1>6, <1>9, <1>11, <1>12, <1>13, SelfPlaced
<1>16. x.render = NoArray \/ OwnArray(p[1], x.render)  BY <1>5, <1>6
<1> QED BY <1>1, <1>6, <1>9, <1>11, <1>15, <1>16, <1>17, <1>y, RestSame, GoesSound

LEMMA HandlerRendersKeeps == ASSUME RqInv, NamesFit, NEW p \in Procs, HandlerRenders(p) PROVE RqInv'
<1>0. Takes(p, "handler")  BY DEF HandlerRenders
<1>y. PICK y : y = Cx(p)  OBVIOUS
<1>t. PICK t : t = Tail(y.left)  OBVIOUS
<1>1. /\ InUse(p) /\ At(p) = "next" /\ p[1] \in Visits /\ proc[p].ctx \in ContextNames
      /\ y \in ContextRec /\ y.left # <<>> /\ t \in Seq(Wares \cup {"handler"})
      /\ t = <<>>
      /\ Fresh(p[1], y) \/ (Early(p[1], y) /\ Fails(p[1]))
      /\ p[2] = "main" => At(Child(p)) = "idle"
  BY <1>0, <1>y, <1>t, TakesHas
<1>2. RqTypes /\ Placed(p) /\ SiteFits /\ proc[p] \in ProcRec /\ proc[p].at = "next"  BY <1>1 DEF RqInv, RqTypes, At
<1>3. y.stop = FALSE /\ y.full = FALSE  BY <1>1 DEF Fresh, Early, ContextRec
<1>4. \A i \in DOMAIN proc[p].frames : proc[p].frames[i] = "cache" => Cached(p[1])  BY <1>2 DEF Placed
<1>5. y.render = NoArray \/ OwnArray(p[1], y.render)
  BY <1>1, <1>y DEF RqInv, OwnRenders, Apart, InUse
<1>a. PICK a : a = <<"render", p[1]>>  OBVIOUS
<1>code. PICK code : code = IF Route(p[1]).handler = "notFound" THEN 404 ELSE 200  OBVIOUS
<1>z. PICK z : z = Rendered(y, code, a)  OBVIOUS
<1>u. PICK u : u = z  OBVIOUS
<1>x. PICK x : x = [u EXCEPT !.left = t]  OBVIOUS
<1>pr. PICK pr : pr = proc[p]  OBVIOUS
<1>m. Maker(p) = p[1] /\ Acts(p)  BY <1>0, TakesHas
<1>6. a \in Arrays /\ OwnArray(p[1], a) /\ a # NoArray /\ OwnBytes(p[1], a) = p[1] /\ code \in Codes
  BY <1>a, <1>code, <1>0, <1>1 DEF Arrays, OwnArray, NoArray, OwnBytes, Codes, HandlerRenders
<1>7. FullFits(p[1], code, p[1]) /\ p[1] \in RouteBytes(p[1])
  BY <1>code, <1>0, <1>1 DEF FullFits, RouteBytes, Makers, HandlerRenders
<1>8. /\ x \in ContextRec /\ x.left = <<>> /\ x.left = t /\ x.handler = y.handler /\ x.stop = FALSE
      /\ x.code = code /\ x.render = a /\ x.body = y.body /\ x.full = FALSE
  <2>1. 0 \in Codes /\ a \in OptArrays  BY <1>6 DEF Codes, OptArrays
  <2>2. /\ z \in ContextRec /\ z.stop = FALSE /\ z.left = y.left /\ z.handler = y.handler
        /\ z.render = a /\ z.body = y.body /\ z.full = y.full /\ z.code = code
    BY <1>1, <1>3, <1>6, <1>z, <2>1, RenderedIs
  <2>3. /\ u \in ContextRec /\ u.stop = FALSE /\ u.handler = z.handler
        /\ u.render = z.render /\ u.body = z.body /\ u.full = z.full /\ u.code = z.code
    BY <1>u, <2>2
  <2>4. /\ x \in ContextRec /\ x.stop = u.stop /\ x.left = t /\ x.handler = u.handler
        /\ x.render = u.render /\ x.body = u.body /\ x.full = u.full /\ x.code = u.code
    <3>1. u \in ContextRec  BY <2>3
    <3>2. t \in Seq(Wares \cup {"handler"})  BY <1>1
    <3> QED BY <1>x, <3>1, <3>2 DEF ContextRec
  <2>5. x.left = <<>>  BY <1>1, <2>4
  <2> QED BY <1>3, <2>2, <2>3, <2>4, <2>5
<1>9. context' = [context EXCEPT ![proc[p].ctx] = x]  BY <1>a, <1>code, <1>x, <1>y, <1>z, <1>u, <1>t, <1>0 DEF HandlerRenders, Becomes
<1>10. bytesOf' = [bytesOf EXCEPT ![a] = p[1]]  BY <1>a, <1>m DEF HandlerRenders, ErrorPage
<1>11. \E c : WritesOwn(p, c)
  <2>1. WritesOwn(p, a)  BY <1>6, <1>7, <1>10 DEF WritesOwn
  <2> QED BY <2>1
<1>17. UNCHANGED <<bufferPool, stored, flight, sent, proc, site, slot, ctxPool>>  BY DEF HandlerRenders
<1>12. Fit(p[1], code, a)'
  <2>1. bytesOf'[a] = p[1]  BY <1>2, <1>6, <1>10 DEF RqTypes
  <2>2. FullFits(p[1], code, p[1])'  BY <1>7, <1>17, SiteSame
  <2> QED BY <1>6, <2>1, <2>2 DEF Fit, Arrays, FullFits
<1>14. Goes(p, x, pr)
  <2>1. proc' = [proc EXCEPT ![p] = pr]  BY <1>2, <1>17, <1>pr DEF RqTypes
  <2>2. x \in ContextRec /\ x.left = t /\ x.handler = y.handler  BY <1>8
  <2> QED BY <1>1, <1>2, <1>9, <1>17, <1>pr, <1>y, <1>t, <2>1, <2>2, GoesAlone DEF MainPlaces, ChildPlaces
<1>15. Early(p[1], x)'
  BY <1>6, <1>8, <1>12 DEF Early, Settled, Fit
<1>16. Placed(p)'
  <2>1. x.left = <<>> /\ (x.stop \/ x.stop = FALSE)  BY <1>8
  <2>2. pr.at = "next" /\ \A i \in DOMAIN pr.frames : pr.frames[i] = "cache" => Cached(p[1])  BY <1>2, <1>4, <1>pr
  <2> QED BY <1>1, <1>14, <1>15, <2>1, <2>2, SelfPlaced
<1>18. bufferPool' \subseteq Buffers /\ DOMAIN flight' = RouteNames  BY <1>2, <1>17 DEF RqTypes
<1>19. x.render = NoArray \/ OwnArray(p[1], x.render)  BY <1>6, <1>8
<1>20. \A q \in Procs \ {p} : proc'[q] = proc[q]  BY <1>17
<1>21. stored' = stored /\ sent' = sent /\ At(p) \notin {"send", "panicked"} /\ x.body = Cx(p).body  BY <1>1, <1>8, <1>17, <1>y
<1> QED BY <1>1, <1>m, <1>11, <1>14, <1>16, <1>18, <1>19, <1>20, <1>21, GoesSound

LEMMA HandlerErrsKeeps == ASSUME RqInv, NamesFit, NEW p \in Procs, HandlerErrs(p) PROVE RqInv'
<1>0. Takes(p, "handler")  BY DEF HandlerErrs
<1>y. PICK y : y = Cx(p)  OBVIOUS
<1>t. PICK t : t = Tail(y.left)  OBVIOUS
<1>1. /\ InUse(p) /\ At(p) = "next" /\ p[1] \in Visits /\ proc[p].ctx \in ContextNames
      /\ y \in ContextRec /\ y.left # <<>> /\ t \in Seq(Wares \cup {"handler"})
      /\ t = <<>>
      /\ Fresh(p[1], y) \/ (Early(p[1], y) /\ Fails(p[1]))
      /\ p[2] = "main" => At(Child(p)) = "idle"
  BY <1>0, <1>y, <1>t, TakesHas
<1>2. RqTypes /\ Placed(p) /\ SiteFits /\ proc[p] \in ProcRec /\ proc[p].at = "next"  BY <1>1 DEF RqInv, RqTypes, At
<1>3. y.stop = FALSE /\ y.full = FALSE  BY <1>1 DEF Fresh, Early, ContextRec
<1>4. \A i \in DOMAIN proc[p].frames : proc[p].frames[i] = "cache" => Cached(p[1])  BY <1>2 DEF Placed
<1>5. y.render = NoArray \/ OwnArray(p[1], y.render)
  BY <1>1, <1>y DEF RqInv, OwnRenders, Apart, InUse
<1>a. PICK a : a = <<"error", p[1]>>  OBVIOUS
<1>code. PICK code : code = 500  OBVIOUS
<1>z. PICK z : z = Rendered(y, code, a)  OBVIOUS
<1>u. PICK u : u = Aborted(z, 0)  OBVIOUS
<1>x. PICK x : x = [u EXCEPT !.left = t]  OBVIOUS
<1>pr. PICK pr : pr = proc[p]  OBVIOUS
<1>m. Maker(p) = p[1] /\ Acts(p)  BY <1>0, TakesHas
<1>6. a \in Arrays /\ OwnArray(p[1], a) /\ a # NoArray /\ OwnBytes(p[1], a) = "error" /\ code \in Codes
  BY <1>a, <1>code, <1>0, <1>1 DEF Arrays, OwnArray, NoArray, OwnBytes, Codes, HandlerErrs
<1>7. FullFits(p[1], code, "error") /\ "error" \in RouteBytes(p[1])
  BY <1>code, <1>0, <1>1 DEF FullFits, RouteBytes, Makers, HandlerErrs
<1>8. /\ x \in ContextRec /\ x.left = <<>> /\ x.left = t /\ x.handler = y.handler /\ x.stop = TRUE
      /\ x.code = code /\ x.render = a /\ x.body = y.body /\ x.full = FALSE
  <2>1. 0 \in Codes /\ a \in OptArrays  BY <1>6 DEF Codes, OptArrays
  <2>2. /\ z \in ContextRec /\ z.stop = FALSE /\ z.left = y.left /\ z.handler = y.handler
        /\ z.render = a /\ z.body = y.body /\ z.full = y.full /\ z.code = code
    BY <1>1, <1>3, <1>6, <1>z, <2>1, RenderedIs
  <2>3. /\ u \in ContextRec /\ u.stop = TRUE /\ u.handler = z.handler
        /\ u.render = z.render /\ u.body = z.body /\ u.full = z.full /\ u.code = z.code
    <3>1. z \in ContextRec  BY <2>2
    <3> QED BY <1>u, <3>1, ClosedIs
  <2>4. /\ x \in ContextRec /\ x.stop = u.stop /\ x.left = t /\ x.handler = u.handler
        /\ x.render = u.render /\ x.body = u.body /\ x.full = u.full /\ x.code = u.code
    <3>1. u \in ContextRec  BY <2>3
    <3>2. t \in Seq(Wares \cup {"handler"})  BY <1>1
    <3> QED BY <1>x, <3>1, <3>2 DEF ContextRec
  <2>5. x.left = <<>>  BY <1>1, <2>4
  <2> QED BY <1>3, <2>2, <2>3, <2>4, <2>5
<1>9. context' = [context EXCEPT ![proc[p].ctx] = x]  BY <1>a, <1>code, <1>x, <1>y, <1>z, <1>u, <1>t, <1>0 DEF HandlerErrs, Becomes
<1>10. bytesOf' = [bytesOf EXCEPT ![a] = "error"]  BY <1>a, <1>m DEF HandlerErrs, ErrorPage
<1>11. \E c : WritesOwn(p, c)
  <2>1. WritesOwn(p, a)  BY <1>6, <1>7, <1>10 DEF WritesOwn
  <2> QED BY <2>1
<1>17. UNCHANGED <<bufferPool, stored, flight, sent, proc, site, slot, ctxPool>>  BY DEF HandlerErrs
<1>12. Fit(p[1], code, a)'
  <2>1. bytesOf'[a] = "error"  BY <1>2, <1>6, <1>10 DEF RqTypes
  <2>2. FullFits(p[1], code, "error")'  BY <1>7, <1>17, SiteSame
  <2> QED BY <1>6, <2>1, <2>2 DEF Fit, Arrays, FullFits
<1>14. Goes(p, x, pr)
  <2>1. proc' = [proc EXCEPT ![p] = pr]  BY <1>2, <1>17, <1>pr DEF RqTypes
  <2>2. x \in ContextRec /\ x.left = t /\ x.handler = y.handler  BY <1>8
  <2> QED BY <1>1, <1>2, <1>9, <1>17, <1>pr, <1>y, <1>t, <2>1, <2>2, GoesAlone DEF MainPlaces, ChildPlaces
<1>15. Settled(p[1], x)'
  BY <1>6, <1>8, <1>12 DEF Early, Settled, Fit
<1>16. Placed(p)'
  <2>1. x.left = <<>> /\ (x.stop \/ x.stop = FALSE)  BY <1>8
  <2>2. pr.at = "next" /\ \A i \in DOMAIN pr.frames : pr.frames[i] = "cache" => Cached(p[1])  BY <1>2, <1>4, <1>pr
  <2> QED BY <1>1, <1>8, <1>14, <1>15, <2>1, <2>2, SelfPlaced
<1>18. bufferPool' \subseteq Buffers /\ DOMAIN flight' = RouteNames  BY <1>2, <1>17 DEF RqTypes
<1>19. x.render = NoArray \/ OwnArray(p[1], x.render)  BY <1>6, <1>8
<1>20. \A q \in Procs \ {p} : proc'[q] = proc[q]  BY <1>17
<1>21. stored' = stored /\ sent' = sent /\ At(p) \notin {"send", "panicked"} /\ x.body = Cx(p).body  BY <1>1, <1>8, <1>17, <1>y
<1> QED BY <1>1, <1>m, <1>11, <1>14, <1>16, <1>18, <1>19, <1>20, <1>21, GoesSound

LEMMA HandlerWritesKeeps == ASSUME RqInv, NamesFit, NEW p \in Procs, HandlerWrites(p) PROVE RqInv'
<1>0. Takes(p, "handler")  BY DEF HandlerWrites
<1>y. PICK y : y = Cx(p)  OBVIOUS
<1>t. PICK t : t = Tail(y.left)  OBVIOUS
<1>1. /\ InUse(p) /\ At(p) = "next" /\ p[1] \in Visits /\ proc[p].ctx \in ContextNames
      /\ y \in ContextRec /\ y.left # <<>> /\ t \in Seq(Wares \cup {"handler"})
      /\ t = <<>>
      /\ Fresh(p[1], y) \/ (Early(p[1], y) /\ Fails(p[1]))
      /\ p[2] = "main" => At(Child(p)) = "idle"
  BY <1>0, <1>y, <1>t, TakesHas
<1>2. RqTypes /\ Placed(p) /\ SiteFits /\ proc[p] \in ProcRec /\ proc[p].at = "next"  BY <1>1 DEF RqInv, RqTypes, At
<1>3. y.stop = FALSE /\ y.full = FALSE  BY <1>1 DEF Fresh, Early, ContextRec
<1>4. \A i \in DOMAIN proc[p].frames : proc[p].frames[i] = "cache" => Cached(p[1])  BY <1>2 DEF Placed
<1>5. y.render = NoArray \/ OwnArray(p[1], y.render)
  BY <1>1, <1>y DEF RqInv, OwnRenders, Apart, InUse
<1>b. PICK b \in Buffers :
        /\ bufferPool' = bufferPool \ {b}
        /\ bytesOf' = [bytesOf EXCEPT ![<<"buffer", b>>] = Maker(p)]
        /\ context' = Becomes(p, Rendered(Cx(p), 200, <<"buffer", b>>))
  BY DEF HandlerWrites
<1>a. PICK a : a = <<"buffer", b>>  OBVIOUS
<1>code. PICK code : code = 200  OBVIOUS
<1>z. PICK z : z = Rendered(y, code, a)  OBVIOUS
<1>u. PICK u : u = z  OBVIOUS
<1>x. PICK x : x = [u EXCEPT !.left = t]  OBVIOUS
<1>pr. PICK pr : pr = proc[p]  OBVIOUS
<1>m. Maker(p) = p[1] /\ Acts(p)  BY <1>0, TakesHas
<1>6. a \in Arrays /\ OwnArray(p[1], a) /\ a # NoArray /\ OwnBytes(p[1], a) = p[1] /\ code \in Codes
  BY <1>a, <1>code, <1>b, <1>0, <1>1 DEF Arrays, OwnArray, NoArray, OwnBytes, Codes, HandlerWrites
<1>7. FullFits(p[1], code, p[1]) /\ p[1] \in RouteBytes(p[1])
  BY <1>code, <1>0, <1>1 DEF FullFits, RouteBytes, Makers, HandlerWrites
<1>8. /\ x \in ContextRec /\ x.left = <<>> /\ x.left = t /\ x.handler = y.handler /\ x.stop = FALSE
      /\ x.code = code /\ x.render = a /\ x.body = y.body /\ x.full = FALSE
  <2>1. 0 \in Codes /\ a \in OptArrays  BY <1>6 DEF Codes, OptArrays
  <2>2. /\ z \in ContextRec /\ z.stop = FALSE /\ z.left = y.left /\ z.handler = y.handler
        /\ z.render = a /\ z.body = y.body /\ z.full = y.full /\ z.code = code
    BY <1>1, <1>3, <1>6, <1>z, <2>1, RenderedIs
  <2>3. /\ u \in ContextRec /\ u.stop = FALSE /\ u.handler = z.handler
        /\ u.render = z.render /\ u.body = z.body /\ u.full = z.full /\ u.code = z.code
    BY <1>u, <2>2
  <2>4. /\ x \in ContextRec /\ x.stop = u.stop /\ x.left = t /\ x.handler = u.handler
        /\ x.render = u.render /\ x.body = u.body /\ x.full = u.full /\ x.code = u.code
    <3>1. u \in ContextRec  BY <2>3
    <3>2. t \in Seq(Wares \cup {"handler"})  BY <1>1
    <3> QED BY <1>x, <3>1, <3>2 DEF ContextRec
  <2>5. x.left = <<>>  BY <1>1, <2>4
  <2> QED BY <1>3, <2>2, <2>3, <2>4, <2>5
<1>9. context' = [context EXCEPT ![proc[p].ctx] = x]  BY <1>b, <1>a, <1>code, <1>x, <1>y, <1>z, <1>u, <1>t, <1>0 DEF HandlerWrites, Becomes
<1>10. bytesOf' = [bytesOf EXCEPT ![a] = p[1]]  BY <1>b, <1>a, <1>m DEF HandlerWrites, ErrorPage
<1>11. \E c : WritesOwn(p, c)
  <2>1. WritesOwn(p, a)  BY <1>6, <1>7, <1>10 DEF WritesOwn
  <2> QED BY <2>1
<1>17. UNCHANGED <<stored, flight, sent, proc, site, slot, ctxPool>>  BY DEF HandlerWrites
<1>12. Fit(p[1], code, a)'
  <2>1. bytesOf'[a] = p[1]  BY <1>2, <1>6, <1>10 DEF RqTypes
  <2>2. FullFits(p[1], code, p[1])'  BY <1>7, <1>17, SiteSame
  <2> QED BY <1>6, <2>1, <2>2 DEF Fit, Arrays, FullFits
<1>14. Goes(p, x, pr)
  <2>1. proc' = [proc EXCEPT ![p] = pr]  BY <1>2, <1>17, <1>pr DEF RqTypes
  <2>2. x \in ContextRec /\ x.left = t /\ x.handler = y.handler  BY <1>8
  <2> QED BY <1>1, <1>2, <1>9, <1>17, <1>pr, <1>y, <1>t, <2>1, <2>2, GoesAlone DEF MainPlaces, ChildPlaces
<1>15. Early(p[1], x)'
  BY <1>6, <1>8, <1>12 DEF Early, Settled, Fit
<1>16. Placed(p)'
  <2>1. x.left = <<>> /\ (x.stop \/ x.stop = FALSE)  BY <1>8
  <2>2. pr.at = "next" /\ \A i \in DOMAIN pr.frames : pr.frames[i] = "cache" => Cached(p[1])  BY <1>2, <1>4, <1>pr
  <2> QED BY <1>1, <1>14, <1>15, <2>1, <2>2, SelfPlaced
<1>18. bufferPool' \subseteq Buffers /\ DOMAIN flight' = RouteNames  BY <1>b, <1>2, <1>17 DEF RqTypes
<1>19. x.render = NoArray \/ OwnArray(p[1], x.render)  BY <1>6, <1>8
<1>20. \A q \in Procs \ {p} : proc'[q] = proc[q]  BY <1>17
<1>21. stored' = stored /\ sent' = sent /\ At(p) \notin {"send", "panicked"} /\ x.body = Cx(p).body  BY <1>1, <1>8, <1>17, <1>y
<1> QED BY <1>1, <1>m, <1>11, <1>14, <1>16, <1>18, <1>19, <1>20, <1>21, GoesSound

-----------------------------------------------------------------------------
\* There is no copy before the timeout.
LEMMA MainIdle ==
    ASSUME RqInv, NEW p \in Procs, p[2] = "main",
           At(p) \in {"missed", "waits", "got", "panics", "idle"} \/ (At(p) = "next" /\ ~ Cx(p).stop)
    PROVE  At(Child(p)) = "idle"
<1>1. Child(p) \in Procs /\ Child(p)[1] = p[1] /\ Child(p)[2] = "child" /\ p = <<p[1], "main">>
  BY DEF Procs, Sides, Child
<1> SUFFICES ASSUME At(Child(p)) # "idle" PROVE FALSE  OBVIOUS
<1>2. At(p) \in {"timed", "send", "gone"} \/ (At(p) = "next" /\ Cx(p).stop)  BY <1>1 DEF RqInv, Placed
<1> QED BY <1>2

LEMMA BuffersIn == ASSUME RqTypes, NEW y \in ContextRec PROVE BuffersAfter(y) \subseteq Buffers
BY DEF RqTypes, ContextRec, OptArrays, Arrays, NoArray, BuffersAfter

(* What Next comes back with.                                              *)
LEMMA NextEndsHas ==
    ASSUME RqInv, NEW p \in Procs, NextEnds(p), NEW y, y = Cx(p)
    PROVE  /\ InUse(p) /\ At(p) = "next" /\ p[1] \in Visits /\ proc[p].ctx \in ContextNames /\ y \in ContextRec
           /\ ~ Broken(p) => Settled(p[1], y)
           /\ Broken(p) \/ y.stop \/ (Early(p[1], y) /\ y.left = <<>>)
           /\ y.stop \/ (~ y.stop /\ y.left = <<>>)
<1>1. At(p) = "next" /\ InUse(p) /\ (y.stop \/ y.left = <<>>) /\ p[1] \in Visits  BY DEF NextEnds, At, InUse, Procs
<1>2. proc[p].ctx \in ContextNames /\ y \in ContextRec  BY <1>1, InUseHas DEF RqInv
<1>3. \/ y.stop /\ (Settled(p[1], y) \/ Broken(p))
      \/ Fresh(p[1], y) /\ (y.left # <<>> \/ Broken(p))
      \/ Early(p[1], y) /\ (y.left = <<>> \/ Fails(p[1]))
  BY <1>1 DEF RqInv, Placed, AtNext
<1>4. Early(p[1], y) => Settled(p[1], y) /\ ~ y.stop  BY DEF Early, Settled
<1>5. Fresh(p[1], y) => ~ y.stop  BY DEF Fresh
<1> QED BY <1>1, <1>2, <1>3, <1>4, <1>5

Shows(y, v) ==
    /\ v \in ContextRec /\ v.stop = y.stop /\ v.left = y.left /\ v.handler = y.handler
    /\ v.render = NoArray /\ v.code = y.code
    /\ IF y.render = NoArray THEN v.body = y.body /\ v.full = y.full ELSE v.body = y.render /\ v.full = TRUE

\* What PrevContent makes of a context, and that it is an answer again.
LEMMA PrevIs ==
    ASSUME NEW y \in ContextRec, NEW v, v = PrevContent(y)
    PROVE  Shows(y, v)
<1> SUFFICES /\ v \in ContextRec /\ v.stop = y.stop /\ v.left = y.left /\ v.handler = y.handler
             /\ v.render = NoArray /\ v.code = y.code
             /\ IF y.render = NoArray THEN v.body = y.body /\ v.full = y.full ELSE v.body = y.render /\ v.full = TRUE
  BY DEF Shows
<1>1. CASE y.render = NoArray  BY <1>1 DEF PrevContent
<1>2. CASE y.render # NoArray
  <2>1. v = [y EXCEPT !.body = y.render, !.full = TRUE, !.render = NoArray]  BY <1>2 DEF PrevContent
  <2> QED BY <1>2, <2>1 DEF ContextRec, OptArrays
<1> QED BY <1>1, <1>2

LEMMA PrevSettles ==
    ASSUME NEW r, NEW y \in ContextRec, Settled(r, y), NEW v, v = PrevContent(y)
    PROVE  /\ v.code # 0 /\ Settled(r, v)
           /\ EntryFits(r, [code |-> v.code, array |-> v.body, full |-> v.full])
<1>1. /\ v.render = NoArray /\ v.code = y.code
      /\ IF y.render = NoArray THEN v.body = y.body /\ v.full = y.full ELSE v.body = y.render /\ v.full = TRUE
  <2>1. Shows(y, v)  BY PrevIs
  <2> QED BY <2>1 DEF Shows
<1>2. IF v.full THEN Fit(r, v.code, v.body) ELSE NoPage(r, v.code)
  BY <1>1 DEF Settled
<1>3. v.code # 0  BY <1>2 DEF Fit, FullFits, NoPage
<1> QED BY <1>1, <1>2, <1>3 DEF Settled, EntryFits

(* A response of the cache.                                                *)
LEMMA UsedSettles ==
    ASSUME SiteFits, NEW r \in Visits, Cached(r), NEW y \in ContextRec, NEW e \in Entries, EntryFits(r, e),
           Fresh(r, y) \/ (Early(r, y) /\ Fails(r)), NEW x, x = UsedEntry(y, e)
    PROVE  /\ x \in ContextRec /\ x.stop /\ x.left = y.left /\ x.handler = y.handler /\ x.render = y.render
           /\ Settled(r, x)
<1> PICK v : v = [y EXCEPT !.code = e.code, !.body = e.array, !.full = e.full]  OBVIOUS
<1>1. /\ v \in ContextRec /\ v.left = y.left /\ v.handler = y.handler /\ v.render = y.render
      /\ v.code = e.code /\ v.body = e.array /\ v.full = e.full
  BY DEF ContextRec, Entries
<1>2. x = Aborted(v, 0)  BY DEF UsedEntry
<1>3. /\ x \in ContextRec /\ x.stop = TRUE /\ x.left = v.left /\ x.handler = v.handler
      /\ x.render = v.render /\ x.body = v.body /\ x.full = v.full /\ x.code = v.code
  <2>1. v \in ContextRec  BY <1>1
  <2> QED BY <1>2, <2>1, ClosedIs
<1>4. Settled(r, x)
  <2>1. CASE y.render = NoArray  BY <1>1, <1>3, <2>1 DEF Settled, EntryFits
  <2>2. CASE y.render # NoArray
    <3>1. Early(r, y) /\ Fails(r)  BY <2>2 DEF Fresh
    <3>2. HasWare(r, "cache")  BY CachedHasWare
    <3>3. Route(r).handler = "panics" /\ ~ HasWare(r, "aborts") /\ ~ Timed(r) /\ ~ HasWare(r, "panics")
      BY <3>1 DEF SiteFits, PanicsAlone, Fails
    <3>4. \A c, b : FullFits(r, c, b) => c = 500 /\ b = "error"  BY <3>3 DEF FullFits
    <3>5. y.code = 500 /\ Fit(r, 500, y.render)  BY <3>1, <3>4 DEF Early, Fit
    <3>6. e.code = 500  BY <3>3, <3>4 DEF EntryFits, Fit, NoPage
    <3> QED BY <1>1, <1>3, <2>2, <3>5, <3>6 DEF Settled
  <2> QED BY <2>1, <2>2
<1> QED BY <1>1, <1>3, <1>4

\* An entry serves every request of its route.
LEMMA SameRoute ==
    ASSUME NEW q \in Visits, NEW r \in Visits, Route(q) = Route(r), Cached(r)
    PROVE  Cached(q) /\ \A e : EntryFits(q, e) <=> EntryFits(r, e)
<1>1. Cached(q) /\ Makers(q) = Makers(r)  BY DEF Cached, Makers
<1>2. (\A k : HasWare(q, k) <=> HasWare(r, k)) /\ (Timed(q) <=> Timed(r))  BY DEF HasWare, Timed
<1>3. \A code, b : FullFits(q, code, b) <=> FullFits(r, code, b)  BY <1>1, <1>2 DEF FullFits
<1> QED BY <1>1, <1>2, <1>3 DEF EntryFits, Fit, NoPage

-----------------------------------------------------------------------------
(* A step of one goroutine that writes no bytes.                           *)
LEMMA AloneKeeps ==
    ASSUME RqInv, NamesFit, NEW p \in Procs, InUse(p), At(p) \notin {"send", "panicked"},
           UNCHANGED <<site, slot, ctxPool, bytesOf, stored, sent>>, bufferPool' \subseteq Buffers, DOMAIN flight' = RouteNames,
           NEW x \in ContextRec, context' = [context EXCEPT ![proc[p].ctx] = x], x.handler = Cx(p).handler,
           x.left = Cx(p).left \/ (Cx(p).left # <<>> /\ x.left = Tail(Cx(p).left)),
           NEW pr \in ProcRec, proc' = [proc EXCEPT ![p] = pr], pr.ctx = proc[p].ctx,
           \A i \in DOMAIN pr.frames : pr.frames[i] = "cache" => Cached(p[1]),
           pr.at \in {"next", "missed", "waits"} \/ (pr.at = "send" /\ p[2] = "main") \/ (pr.at = "done" /\ p[2] = "child"),
           pr.at = "next" =>
               \/ x.stop /\ (Settled(p[1], x) \/ BrokenAt(p, pr))
               \/ Fresh(p[1], x) /\ (x.left # <<>> \/ BrokenAt(p, pr))
               \/ Early(p[1], x) /\ (x.left = <<>> \/ Fails(p[1])),
           pr.at \in {"missed", "waits"} =>
               Cached(p[1]) /\ x.left # <<>> /\ (Fresh(p[1], x) \/ (Early(p[1], x) /\ Fails(p[1]))),
           pr.at = "done" => Settled(p[1], x),
           pr.at = "send" => x.render = NoArray /\ (pr.closing \/ Settled(p[1], x)),
           p[2] = "main" /\ At(Child(p)) # "idle" => pr.at = "send" \/ (pr.at = "next" /\ x.stop),
           x.render = NoArray \/ x.render = Cx(p).render,
           NoCache =>
               /\ \/ x.body = Cx(p).body
                  \/ OwnArray(p[1], x.body) /\ p[2] = "main" /\ pr.at = "send" /\ At(Child(p)) \in {"idle", "panicked", "gone"}
               /\ p[2] = "main" /\ pr.at = "next" /\ x.render # NoArray => At(Child(p)) \in {"idle", "panicked"}
    PROVE  RqInv'
<1>1. Goes(p, x, pr) /\ \A q \in Procs \ {p} : proc'[q] = proc[q]
  <2>1. pr.at \in (IF p[2] = "main" THEN MainPlaces ELSE ChildPlaces) \ {"idle"} /\ (p[2] = "child" => pr.at # "gone")
    BY DEF MainPlaces, ChildPlaces, Procs, Sides
  <2> QED BY <2>1, GoesAlone
<1>2. Settled(p[1], x)' <=> Settled(p[1], x)
  BY SiteSame DEF Settled, Fit, Arrays
<1>3. Early(p[1], x)' <=> Early(p[1], x)
  BY SiteSame DEF Early, Fit, Arrays
<1>4. pr.at \in {"next", "missed", "waits", "panicked", "done", "send", "gone"} /\ pr.at # "panicked"  OBVIOUS
<1>5. Placed(p)'  BY <1>1, <1>2, <1>3, <1>4, SelfPlaced
<1>6. x.render = NoArray \/ OwnArray(p[1], x.render)
  BY DEF RqInv, OwnRenders, Apart, InUse
<1>7. /\ p[2] = "main" /\ At(Child(p)) # "idle" => pr.at \in {"timed", "send", "gone"} \/ (pr.at = "next" /\ x.stop)
      /\ bytesOf' = bytesOf /\ stored' = stored /\ sent' = sent
  OBVIOUS
<1> QED BY <1>1, <1>5, <1>6, <1>7, GoesSound

LEMMA CacheGetKeeps == ASSUME RqInv, NamesFit, NEW p \in Procs, CacheGet(p) PROVE RqInv'
<1>0. Takes(p, "cache")  BY DEF CacheGet
<1>y. PICK y : y = Cx(p)  OBVIOUS
<1>t. PICK t : t = Tail(y.left)  OBVIOUS
<1>e. PICK e : e = stored[Route(p[1]).name]  OBVIOUS
<1>1. /\ InUse(p) /\ At(p) = "next" /\ p[1] \in Visits /\ proc[p].ctx \in ContextNames
      /\ y \in ContextRec /\ y.left # <<>> /\ t \in Seq(Wares \cup {"handler"})
      /\ t # <<>> /\ HasWare(p[1], "cache")
      /\ Fresh(p[1], y) \/ (Early(p[1], y) /\ Fails(p[1]))
      /\ p[2] = "main" => At(Child(p)) = "idle"
  BY <1>0, <1>y, <1>t, TakesHas
<1>2. RqTypes /\ SiteFits /\ Placed(p) /\ proc[p] \in ProcRec /\ proc[p].at = "next"  BY <1>1 DEF RqInv, RqTypes, At
<1>3. Cached(p[1])  BY <1>1, <1>2, CachedHasWare
<1>4. \A i \in DOMAIN proc[p].frames : proc[p].frames[i] = "cache" => Cached(p[1])  BY <1>3
<1>5. UNCHANGED <<site, slot, ctxPool, bufferPool, bytesOf, stored, flight, sent>>  BY DEF CacheGet
<1>6. bufferPool' \subseteq Buffers /\ DOMAIN flight' = RouteNames  BY <1>2, <1>5 DEF RqTypes
<1>7. ~ NoCache  BY <1>1, <1>3 DEF NoCache
<1>8. CASE e # NoEntry
  <2>u. PICK u : u = UsedEntry(y, e)  OBVIOUS
  <2>x. PICK x : x = [u EXCEPT !.left = t]  OBVIOUS
  <2>pr. PICK pr : pr = proc[p]  OBVIOUS
  <2>1. e \in Entries /\ EntryFits(p[1], e)
    <3>1. Route(p[1]).name \in RouteNames  BY <1>1 DEF RouteNames
    <3> QED BY <1>1, <1>2, <1>8, <1>e, <3>1 DEF RqInv, RqTypes, StoredFit
  <2>2. /\ u \in ContextRec /\ u.stop /\ u.handler = y.handler /\ u.render = y.render /\ Settled(p[1], u)
    <3>1. p[1] \in Visits /\ y \in ContextRec /\ (Fresh(p[1], y) \/ (Early(p[1], y) /\ Fails(p[1])))  BY <1>1
    <3>2. SiteFits  BY <1>2
    <3>3. /\ u \in ContextRec /\ u.stop /\ u.handler = y.handler /\ u.render = y.render
      BY <1>3, <2>u, <2>1, <3>1, <3>2, UsedSettles
    <3>4. Settled(p[1], u)  BY <1>3, <2>u, <2>1, <3>1, <3>2, UsedSettles
    <3> QED BY <3>3, <3>4
  <2>3. /\ x \in ContextRec /\ x.stop /\ x.left = t /\ x.handler = y.handler /\ x.render = y.render
        /\ x.code = u.code /\ x.full = u.full /\ x.body = u.body
    <3>1. u \in ContextRec /\ u.stop /\ u.handler = y.handler /\ u.render = y.render  BY <2>2
    <3>2. t \in Seq(Wares \cup {"handler"})  BY <1>1
    <3> QED BY <2>x, <3>1, <3>2 DEF ContextRec
  <2>4. Settled(p[1], x)  BY <2>2, <2>3 DEF Settled
  <2>5. context' = [context EXCEPT ![proc[p].ctx] = x] /\ proc' = [proc EXCEPT ![p] = pr]
    BY <1>1, <1>2, <1>8, <1>y, <1>t, <1>e, <2>u, <2>x, <2>pr DEF CacheGet, Becomes, RqTypes
  <2>6. /\ x.handler = Cx(p).handler /\ Cx(p).left # <<>> /\ x.left = Tail(Cx(p).left) /\ x.render = Cx(p).render
        /\ x \in ContextRec /\ x.stop
    BY <1>1, <1>y, <1>t, <2>3
  <2>7. pr.at = "next" /\ pr.ctx = proc[p].ctx /\ pr \in ProcRec
        /\ \A i \in DOMAIN pr.frames : pr.frames[i] = "cache" => Cached(p[1])
    BY <1>2, <1>4, <2>pr
  <2>8. InUse(p) /\ At(p) \notin {"send", "panicked"} /\ (p[2] = "main" => At(Child(p)) = "idle")  BY <1>1
  <2> QED BY <1>5, <1>6, <1>7, <2>4, <2>5, <2>6, <2>7, <2>8, AloneKeeps
<1>9. CASE e = NoEntry
  <2>x. PICK x : x = [y EXCEPT !.left = t]  OBVIOUS
  <2>pr. PICK pr : pr = [proc[p] EXCEPT !.at = "missed"]  OBVIOUS
  <2>1. /\ x \in ContextRec /\ x.left = t /\ x.handler = y.handler /\ x.stop = y.stop
        /\ x.code = y.code /\ x.render = y.render /\ x.body = y.body /\ x.full = y.full
    <3>1. y \in ContextRec  BY <1>1
    <3>2. t \in Seq(Wares \cup {"handler"})  BY <1>1
    <3> QED BY <2>x, <3>1, <3>2 DEF ContextRec
  <2>2. Fresh(p[1], x) \/ (Early(p[1], x) /\ Fails(p[1]))  BY <1>1, <2>1 DEF Fresh, Early
  <2>3. context' = [context EXCEPT ![proc[p].ctx] = x] /\ proc' = [proc EXCEPT ![p] = pr]
    <3>1. context' = Passes(p) /\ proc' = [proc EXCEPT ![p].at = "missed"]  BY <1>9, <1>e DEF CacheGet
    <3>2. context' = [context EXCEPT ![proc[p].ctx] = x]  BY <1>1, <1>2, <1>y, <1>t, <2>x, <3>1 DEF Passes, RqTypes, Cx
    <3>3. proc' = [proc EXCEPT ![p] = pr]  BY <1>2, <2>pr, <3>1 DEF RqTypes
    <3> QED BY <3>2, <3>3
  <2>4. /\ x.handler = Cx(p).handler /\ Cx(p).left # <<>> /\ x.left = Tail(Cx(p).left) /\ x.render = Cx(p).render
        /\ x \in ContextRec /\ x.left # <<>>
    BY <1>1, <1>y, <1>t, <2>1
  <2>5. /\ pr \in ProcRec /\ pr.at = "missed" /\ pr.ctx = proc[p].ctx
        /\ \A i \in DOMAIN pr.frames : pr.frames[i] = "cache" => Cached(p[1])
    BY <1>2, <1>3, <2>pr DEF ProcRec, MainPlaces
  <2>6. InUse(p) /\ At(p) \notin {"send", "panicked"} /\ (p[2] = "main" => At(Child(p)) = "idle")  BY <1>1
  <2> QED BY <1>3, <1>5, <1>6, <1>7, <2>2, <2>3, <2>4, <2>5, <2>6, AloneKeeps
<1> QED BY <1>8, <1>9

(* What a goroutine has that waits for a response of the cache.            *)
LEMMA WaitingHas ==
    ASSUME RqInv, NEW p \in Procs, At(p) \in {"missed", "waits", "got", "panics"}, NEW y, y = Cx(p)
    PROVE  /\ InUse(p) /\ p[1] \in Visits /\ proc[p].ctx \in ContextNames /\ y \in ContextRec
           /\ Cached(p[1]) /\ ~ NoCache /\ y.left # <<>> /\ y.stop = FALSE /\ y.full = FALSE
           /\ Fresh(p[1], y) \/ (Early(p[1], y) /\ Fails(p[1]))
           /\ p[2] = "main" => At(Child(p)) = "idle"
<1>1. InUse(p) /\ p[1] \in Visits  BY DEF InUse, Procs
<1>2. proc[p].ctx \in ContextNames /\ y \in ContextRec  BY <1>1, InUseHas DEF RqInv
<1>3. Cached(p[1]) /\ y.left # <<>> /\ (Fresh(p[1], y) \/ (Early(p[1], y) /\ Fails(p[1])))  BY DEF RqInv, Placed, Waiting
<1>4. y.stop = FALSE /\ y.full = FALSE  BY <1>2, <1>3 DEF Fresh, Early, ContextRec
<1>5. p[2] = "main" => At(Child(p)) = "idle"  BY MainIdle
<1> QED BY <1>1, <1>2, <1>3, <1>4, <1>5 DEF NoCache

LEMMA CacheDoKeeps == ASSUME RqInv, NamesFit, NEW p \in Procs, CacheDo(p) PROVE RqInv'
<1>y. PICK y : y = Cx(p)  OBVIOUS
<1>1. At(p) = "missed"  BY DEF CacheDo, At
<1>2. /\ InUse(p) /\ p[1] \in Visits /\ proc[p].ctx \in ContextNames /\ y \in ContextRec
      /\ Cached(p[1]) /\ ~ NoCache /\ y.left # <<>>
      /\ Fresh(p[1], y) \/ (Early(p[1], y) /\ Fails(p[1]))
      /\ p[2] = "main" => At(Child(p)) = "idle"
  BY <1>1, <1>y, WaitingHas
<1>3. RqTypes /\ proc[p] \in ProcRec  BY DEF RqInv, RqTypes
<1>4. UNCHANGED <<site, slot, ctxPool, context, bufferPool, bytesOf, stored, sent>>  BY DEF CacheDo
<1>5. bufferPool' \subseteq Buffers /\ DOMAIN flight' = RouteNames  BY <1>3, <1>4 DEF RqTypes, CacheDo
<1>6. context' = [context EXCEPT ![proc[p].ctx] = y]  BY <1>2, <1>3, <1>4, <1>y DEF RqTypes, Cx
<1>7. /\ y.handler = Cx(p).handler /\ y.left = Cx(p).left /\ y.render = Cx(p).render /\ y \in ContextRec
      /\ InUse(p) /\ At(p) \notin {"send", "panicked"} /\ (p[2] = "main" => At(Child(p)) = "idle") /\ y.left # <<>>
  BY <1>1, <1>2, <1>y
<1>8. CASE proc' = [proc EXCEPT ![p].at = "next", ![p].frames = Append(@, "cache")]
  <2>w. PICK w : w = [proc[p] EXCEPT !.frames = Append(@, "cache")]  OBVIOUS
  <2>pr. PICK pr : pr = [w EXCEPT !.at = "next"]  OBVIOUS
  <2>1. w \in ProcRec /\ w.ctx = proc[p].ctx  BY <1>3, <2>w, FramesIs
  <2>2. pr \in ProcRec /\ pr.at = "next" /\ pr.ctx = proc[p].ctx  BY <2>1, <2>pr DEF ProcRec, MainPlaces
  <2>3. proc' = [proc EXCEPT ![p] = pr]  BY <1>3, <1>8, <2>w, <2>pr DEF RqTypes, ProcRec
  <2>4. \A i \in DOMAIN pr.frames : pr.frames[i] = "cache" => Cached(p[1])  BY <1>2
  <2>5. Fresh(p[1], y) \/ (Early(p[1], y) /\ Fails(p[1]))  BY <1>2
  <2>6. ~ NoCache  BY <1>2
  <2> QED BY <1>4, <1>5, <1>6, <1>7, <2>2, <2>3, <2>4, <2>5, <2>6, AloneKeeps
<1>9. CASE proc' = [proc EXCEPT ![p].at = "waits"]
  <2>pr. PICK pr : pr = [proc[p] EXCEPT !.at = "waits"]  OBVIOUS
  <2>1. pr \in ProcRec /\ pr.at = "waits" /\ pr.ctx = proc[p].ctx  BY <1>3, <2>pr DEF ProcRec, MainPlaces
  <2>2. proc' = [proc EXCEPT ![p] = pr]  BY <1>3, <1>9, <2>pr DEF RqTypes
  <2>3. \A i \in DOMAIN pr.frames : pr.frames[i] = "cache" => Cached(p[1])  BY <1>2
  <2>4. Cached(p[1]) /\ (Fresh(p[1], y) \/ (Early(p[1], y) /\ Fails(p[1])))  BY <1>2
  <2>5. ~ NoCache  BY <1>2
  <2> QED BY <1>4, <1>5, <1>6, <1>7, <2>1, <2>2, <2>3, <2>4, <2>5, AloneKeeps
<1> QED BY <1>8, <1>9 DEF CacheDo

LEMMA CacheGotKeeps == ASSUME RqInv, NamesFit, NEW p \in Procs, CacheGot(p) PROVE RqInv'
<1>y. PICK y : y = Cx(p)  OBVIOUS
<1>e. PICK e : e = proc[p].got  OBVIOUS
<1>x. PICK x : x = UsedEntry(y, e)  OBVIOUS
<1>pr. PICK pr : pr = [proc[p] EXCEPT !.at = "next", !.got = NoEntry]  OBVIOUS
<1>1. At(p) = "got"  BY DEF CacheGot, At
<1>2. /\ InUse(p) /\ p[1] \in Visits /\ proc[p].ctx \in ContextNames /\ y \in ContextRec
      /\ Cached(p[1]) /\ ~ NoCache
      /\ Fresh(p[1], y) \/ (Early(p[1], y) /\ Fails(p[1]))
      /\ p[2] = "main" => At(Child(p)) = "idle"
  BY <1>1, <1>y, WaitingHas
<1>3. RqTypes /\ SiteFits /\ proc[p] \in ProcRec  BY DEF RqInv, RqTypes
<1>4. e \in Entries /\ EntryFits(p[1], e)  BY <1>1, <1>3, <1>e DEF RqInv, Placed, ProcRec
<1>5. UNCHANGED <<site, slot, ctxPool, bufferPool, bytesOf, stored, sent, flight>>  BY DEF CacheGot
<1>6. bufferPool' \subseteq Buffers /\ DOMAIN flight' = RouteNames  BY <1>3, <1>5 DEF RqTypes
<1>7. context' = [context EXCEPT ![proc[p].ctx] = x]  BY <1>y, <1>e, <1>x DEF CacheGot, Cx
<1>8. /\ x \in ContextRec /\ x.stop /\ x.left = y.left /\ x.handler = y.handler /\ x.render = y.render
      /\ Settled(p[1], x)
  <2>1. p[1] \in Visits /\ y \in ContextRec /\ Cached(p[1]) /\ (Fresh(p[1], y) \/ (Early(p[1], y) /\ Fails(p[1])))  BY <1>2
  <2>2. SiteFits  BY <1>3
  <2>3. /\ x \in ContextRec /\ x.stop /\ x.left = y.left /\ x.handler = y.handler /\ x.render = y.render
    BY <1>4, <1>x, <2>1, <2>2, UsedSettles
  <2>4. Settled(p[1], x)  BY <1>4, <1>x, <2>1, <2>2, UsedSettles
  <2> QED BY <2>3, <2>4
<1>9. /\ x.handler = Cx(p).handler /\ x.left = Cx(p).left /\ x.render = Cx(p).render /\ x \in ContextRec /\ x.stop
      /\ InUse(p) /\ At(p) \notin {"send", "panicked"} /\ (p[2] = "main" => At(Child(p)) = "idle") /\ ~ NoCache
  BY <1>1, <1>2, <1>8, <1>y
<1>10. pr \in ProcRec /\ pr.at = "next" /\ pr.ctx = proc[p].ctx
  <2>1. NoEntry \in Entries  BY DEF NoEntry, Entries, Codes, OptArrays
  <2> QED BY <1>3, <1>pr, <2>1 DEF ProcRec, MainPlaces
<1>11. proc' = [proc EXCEPT ![p] = pr]  BY <1>3, <1>pr DEF CacheGot, RqTypes
<1>12. \A i \in DOMAIN pr.frames : pr.frames[i] = "cache" => Cached(p[1])  BY <1>2
<1>13. Settled(p[1], x)  BY <1>8
<1> QED BY <1>5, <1>6, <1>7, <1>9, <1>10, <1>11, <1>12, <1>13, AloneKeeps

LEMMA TimeoutFiresKeeps == ASSUME RqInv, NamesFit, NEW p \in Procs, TimeoutFires(p) PROVE RqInv'
<1>y. PICK y : y = Cx(p)  OBVIOUS
<1>x. PICK x : x = Aborted(y, 504)  OBVIOUS
<1>pr. PICK pr : pr = [proc[p] EXCEPT !.at = "next"]  OBVIOUS
<1>1. At(p) = "timed" /\ InUse(p)  BY DEF TimeoutFires, At, InUse
<1>2. RqTypes /\ Placed(p) /\ proc[p] \in ProcRec  BY DEF RqInv, RqTypes
<1>3. proc[p].ctx \in ContextNames /\ y \in ContextRec  BY <1>1, <1>2, <1>y, InUseHas DEF RqInv
<1>4. Fresh(p[1], y) /\ Timed(p[1])  BY <1>1, <1>2, <1>y DEF Placed
<1>5. UNCHANGED <<site, slot, ctxPool, bufferPool, bytesOf, stored, sent, flight>>  BY DEF TimeoutFires
<1>6. bufferPool' \subseteq Buffers /\ DOMAIN flight' = RouteNames  BY <1>2, <1>5 DEF RqTypes
<1>7. context' = [context EXCEPT ![proc[p].ctx] = x]  BY <1>y, <1>x DEF TimeoutFires, Cx
<1>8. /\ x \in ContextRec /\ x.stop /\ x.left = y.left /\ x.handler = y.handler /\ x.render = y.render
      /\ x.body = y.body /\ x.full = FALSE /\ x.code = 504
  <2>1. y.stop = FALSE  BY <1>3, <1>4 DEF Fresh, ContextRec
  <2>k. PICK k : k = 504  OBVIOUS
  <2>2. x = [y EXCEPT !.stop = TRUE, !.code = k]  BY <1>x, <2>k, <2>1 DEF Aborted
  <2>3. k \in Codes  BY <2>k DEF Codes
  <2>4. y \in ContextRec  BY <1>3
  <2>5. x \in ContextRec  BY <2>2, <2>3, <2>4 DEF ContextRec
  <2>6. x.stop /\ x.code = 504 /\ x.full = y.full  BY <2>2, <2>k, <2>4 DEF ContextRec
  <2>7. x.left = y.left /\ x.handler = y.handler /\ x.render = y.render /\ x.body = y.body  BY <2>2, <2>4 DEF ContextRec
  <2>8. y.full = FALSE  BY <1>3, <1>4 DEF Fresh, ContextRec
  <2> QED BY <2>5, <2>6, <2>7, <2>8
<1>9. Settled(p[1], x) /\ x.render = NoArray  BY <1>4, <1>8 DEF Settled, Fresh, NoPage
<1>10. /\ x.handler = Cx(p).handler /\ x.left = Cx(p).left /\ x.body = Cx(p).body /\ x \in ContextRec /\ x.stop
  BY <1>8, <1>y
<1>11. pr \in ProcRec /\ pr.at = "next" /\ pr.ctx = proc[p].ctx /\ pr.frames = proc[p].frames
  BY <1>2, <1>pr DEF ProcRec, MainPlaces
<1>12. proc' = [proc EXCEPT ![p] = pr]  BY <1>2, <1>pr DEF TimeoutFires, RqTypes
<1>13. \A i \in DOMAIN pr.frames : pr.frames[i] = "cache" => Cached(p[1])  BY <1>2, <1>11 DEF Placed
<1>14. At(p) \notin {"send", "panicked"}  BY <1>1
<1> QED BY <1>1, <1>5, <1>6, <1>7, <1>9, <1>10, <1>11, <1>12, <1>13, <1>14, AloneKeeps

\* What a frame less leaves.
LEMMA FrontIs ==
    ASSUME NEW f \in Seq({"recovery", "cache"}), f # <<>>
    PROVE  /\ Front(f) \in Seq({"recovery", "cache"})
           /\ \A i \in DOMAIN Front(f) : i \in DOMAIN f /\ Front(f)[i] = f[i]
           /\ Len(f) \in DOMAIN f
<1>1. Len(f) \in Nat \ {0}  OBVIOUS
<1> PICK n : n = Len(f) - 1  OBVIOUS
<1>2. n \in 0..Len(f)  BY <1>1
<1>3. SubSeq(f, 1, n) \in Seq({"recovery", "cache"}) /\ Len(SubSeq(f, 1, n)) = n /\ \A i \in 1..n : SubSeq(f, 1, n)[i] = f[i]
  BY <1>1, <1>2
<1>4. DOMAIN SubSeq(f, 1, n) = 1..n /\ DOMAIN f = 1..Len(f)  BY <1>3
<1>5. Front(f) = SubSeq(f, 1, n)  BY DEF Front
<1> QED BY <1>1, <1>2, <1>3, <1>4, <1>5

LEMMA FramesOf ==
    ASSUME RqInv, NEW p \in Procs, proc[p].frames # <<>>
    PROVE  /\ Front(proc[p].frames) \in Seq({"recovery", "cache"})
           /\ \A i \in DOMAIN Front(proc[p].frames) : Front(proc[p].frames)[i] = "cache" => Cached(p[1])
           /\ Last(proc[p].frames) = "cache" => Cached(p[1])
           /\ ~ Broken(p)
<1> PICK f : f = proc[p].frames  OBVIOUS
<1>1. f \in Seq({"recovery", "cache"})  BY DEF RqInv, RqTypes, ProcRec
<1>2. \A i \in DOMAIN f : f[i] = "cache" => Cached(p[1])  BY DEF RqInv, Placed
<1>3. /\ Front(f) \in Seq({"recovery", "cache"})
      /\ \A i \in DOMAIN Front(f) : i \in DOMAIN f /\ Front(f)[i] = f[i]
      /\ Len(f) \in DOMAIN f
  BY <1>1, FrontIs
<1>4. Last(f) = f[Len(f)]  BY DEF Last
<1>5. \A i \in DOMAIN Front(f) : Front(f)[i] = "cache" => Cached(p[1])  BY <1>2, <1>3
<1>6. Last(f) = "cache" => Cached(p[1])  BY <1>2, <1>3, <1>4
<1> QED BY <1>3, <1>5, <1>6 DEF Broken

\* Who has a copy is stopped.
LEMMA MainsChild ==
    ASSUME RqInv, NEW p \in Procs, At(p) = "next", p[2] = "main"
    PROVE  /\ At(Child(p)) # "idle" => Cx(p).stop
           /\ NoCache /\ Cx(p).render # NoArray => At(Child(p)) \in {"idle", "panicked"}
<1>1. At(Child(p)) # "idle" => Cx(p).stop  BY MainIdle
<1> QED BY <1>1 DEF RqInv, ArraysApart, SingleBodies

LEMMA ChildEndsKeeps == ASSUME RqInv, NamesFit, NEW p \in Procs, ChildEnds(p) PROVE RqInv'
<1>y. PICK y : y = Cx(p)  OBVIOUS
<1>pr. PICK pr : pr = [proc[p] EXCEPT !.at = "done"]  OBVIOUS
<1>0. NextEnds(p) /\ p[2] = "child"  BY DEF ChildEnds
<1>1. /\ InUse(p) /\ At(p) = "next" /\ p[1] \in Visits /\ proc[p].ctx \in ContextNames /\ y \in ContextRec
      /\ ~ Broken(p) => Settled(p[1], y)
  BY <1>0, <1>y, NextEndsHas
<1>2. RqTypes /\ Placed(p) /\ proc[p] \in ProcRec  BY DEF RqInv, RqTypes
<1>3. Settled(p[1], y)  BY <1>0, <1>1 DEF Broken
<1>5. UNCHANGED <<site, slot, ctxPool, context, bufferPool, bytesOf, stored, sent, flight>>  BY DEF ChildEnds
<1>6. bufferPool' \subseteq Buffers /\ DOMAIN flight' = RouteNames  BY <1>2, <1>5 DEF RqTypes
<1>7. context' = [context EXCEPT ![proc[p].ctx] = y]  BY <1>1, <1>2, <1>5, <1>y DEF RqTypes, Cx
<1>8. /\ y.handler = Cx(p).handler /\ y.left = Cx(p).left /\ y.render = Cx(p).render /\ y.body = Cx(p).body /\ y \in ContextRec
      /\ InUse(p) /\ At(p) \notin {"send", "panicked"}
  BY <1>1, <1>y
<1>9. pr \in ProcRec /\ pr.at = "done" /\ pr.ctx = proc[p].ctx /\ pr.frames = proc[p].frames
  BY <1>2, <1>pr DEF ProcRec, ChildPlaces
<1>10. proc' = [proc EXCEPT ![p] = pr]  BY <1>2, <1>pr DEF ChildEnds, RqTypes
<1>11. \A i \in DOMAIN pr.frames : pr.frames[i] = "cache" => Cached(p[1])  BY <1>2, <1>9 DEF Placed
<1> QED BY <1>0, <1>3, <1>5, <1>6, <1>7, <1>8, <1>9, <1>10, <1>11, AloneKeeps

LEMMA RecoveryEndsKeeps == ASSUME RqInv, NamesFit, NEW p \in Procs, RecoveryEnds(p) PROVE RqInv'
<1>y. PICK y : y = Cx(p)  OBVIOUS
<1>pr. PICK pr : pr = [proc[p] EXCEPT !.frames = Front(@)]  OBVIOUS
<1>0. NextEnds(p) /\ proc[p].frames # <<>>  BY DEF RecoveryEnds
<1>1. /\ InUse(p) /\ At(p) = "next" /\ p[1] \in Visits /\ proc[p].ctx \in ContextNames /\ y \in ContextRec
      /\ ~ Broken(p) => Settled(p[1], y)
      /\ Broken(p) \/ y.stop \/ (Early(p[1], y) /\ y.left = <<>>)
  BY <1>0, <1>y, NextEndsHas
<1>2. RqTypes /\ proc[p] \in ProcRec  BY DEF RqInv, RqTypes
<1>3. /\ Front(proc[p].frames) \in Seq({"recovery", "cache"})
      /\ \A i \in DOMAIN Front(proc[p].frames) : Front(proc[p].frames)[i] = "cache" => Cached(p[1])
      /\ ~ Broken(p)
  BY <1>0, FramesOf
<1>4. Settled(p[1], y) /\ (y.stop \/ (Early(p[1], y) /\ y.left = <<>>))  BY <1>1, <1>3
<1>5. UNCHANGED <<site, slot, ctxPool, context, bufferPool, bytesOf, stored, sent, flight>>  BY DEF RecoveryEnds
<1>6. bufferPool' \subseteq Buffers /\ DOMAIN flight' = RouteNames  BY <1>2, <1>5 DEF RqTypes
<1>7. context' = [context EXCEPT ![proc[p].ctx] = y]  BY <1>1, <1>2, <1>5, <1>y DEF RqTypes, Cx
<1>8. /\ y.handler = Cx(p).handler /\ y.left = Cx(p).left /\ y.render = Cx(p).render /\ y.body = Cx(p).body /\ y \in ContextRec
      /\ InUse(p) /\ At(p) \notin {"send", "panicked"}
  BY <1>1, <1>y
<1>9. pr \in ProcRec /\ pr.at = "next" /\ pr.ctx = proc[p].ctx /\ pr.frames = Front(proc[p].frames)
  <2>1. Front(proc[p].frames) \in Seq({"recovery", "cache"}) /\ proc[p].at = "next"  BY <1>1, <1>3 DEF At
  <2> QED BY <1>2, <1>pr, <2>1 DEF ProcRec
<1>10. proc' = [proc EXCEPT ![p] = pr]  BY <1>2, <1>pr DEF RecoveryEnds, RqTypes
<1>11. \A i \in DOMAIN pr.frames : pr.frames[i] = "cache" => Cached(p[1])  BY <1>3, <1>9
<1>12. /\ p[2] = "main" /\ At(Child(p)) # "idle" => y.stop
       /\ NoCache /\ p[2] = "main" /\ y.render # NoArray => At(Child(p)) \in {"idle", "panicked"}
  BY <1>1, <1>y, MainsChild
<1> QED BY <1>4, <1>5, <1>6, <1>7, <1>8, <1>9, <1>10, <1>11, <1>12, AloneKeeps

LEMMA WrittenKeeps == ASSUME RqInv, NamesFit, NEW p \in Procs, Written(p) PROVE RqInv'
<1>y. PICK y : y = Cx(p)  OBVIOUS
<1>v. PICK v : v = PrevContent(y)  OBVIOUS
<1>k. PICK k : k = IF v.code = 0 THEN 200 ELSE v.code  OBVIOUS
<1>x. PICK x : x = [v EXCEPT !.code = k]  OBVIOUS
<1>pr. PICK pr : pr = [proc[p] EXCEPT !.at = "send"]  OBVIOUS
<1>0. NextEnds(p) /\ proc[p].frames = <<>> /\ p[2] = "main"  BY DEF Written
<1>1. /\ InUse(p) /\ At(p) = "next" /\ p[1] \in Visits /\ proc[p].ctx \in ContextNames /\ y \in ContextRec
      /\ ~ Broken(p) => Settled(p[1], y)
  BY <1>0, <1>y, NextEndsHas
<1>2. RqTypes /\ proc[p] \in ProcRec /\ p = <<p[1], "main">> /\ Child(p) \in Procs  BY <1>0 DEF RqInv, RqTypes, Procs, Sides, Child
<1>3. /\ v \in ContextRec /\ v.stop = y.stop /\ v.left = y.left /\ v.handler = y.handler
      /\ v.render = NoArray /\ v.code = y.code
      /\ IF y.render = NoArray THEN v.body = y.body /\ v.full = y.full ELSE v.body = y.render /\ v.full = TRUE
  <2>1. Shows(y, v)  BY <1>1, <1>v, PrevIs
  <2> QED BY <2>1 DEF Shows
<1>4. /\ x \in ContextRec /\ x.left = y.left /\ x.handler = y.handler /\ x.render = NoArray /\ x.body = v.body
      /\ x.full = v.full /\ x.code = k
  <2>1. v \in ContextRec  BY <1>3
  <2>2. k \in Codes  BY <2>1, <1>k DEF Codes, ContextRec
  <2>3. x \in ContextRec  BY <1>x, <2>1, <2>2 DEF ContextRec
  <2>4. x.left = v.left /\ x.handler = v.handler /\ x.render = v.render /\ x.body = v.body /\ x.full = v.full /\ x.code = k
    BY <1>x, <2>1 DEF ContextRec
  <2> QED BY <1>3, <2>3, <2>4
<1>5. UNCHANGED <<site, slot, ctxPool, bytesOf, stored, sent, flight>>  BY DEF Written
<1>6. bufferPool' \subseteq Buffers /\ DOMAIN flight' = RouteNames
  BY <1>1, <1>2, <1>5, <1>y, BuffersIn DEF Written, RqTypes
<1>7. context' = [context EXCEPT ![proc[p].ctx] = x]  BY <1>x, <1>k, <1>v, <1>y DEF Written
<1>8. pr \in ProcRec /\ pr.at = "send" /\ pr.ctx = proc[p].ctx /\ pr.frames = <<>> /\ pr.closing = proc[p].closing
  BY <1>0, <1>2, <1>pr DEF ProcRec, MainPlaces
<1>9. proc' = [proc EXCEPT ![p] = pr]  BY <1>2, <1>pr DEF Written, RqTypes
<1>10. pr.closing \/ Settled(p[1], x)
  <2> SUFFICES ASSUME ~ proc[p].closing PROVE Settled(p[1], x)  BY <1>8
  <2>1. Settled(p[1], y)  BY <1>1 DEF Broken
  <2>2. v.code # 0 /\ Settled(p[1], v)  BY <1>1, <1>v, <2>1, PrevSettles
  <2>3. k = v.code  BY <1>k, <2>2
  <2> QED BY <1>3, <1>4, <2>2, <2>3 DEF Settled
<1>11. NoCache => x.body = Cx(p).body \/ (OwnArray(p[1], x.body) /\ At(Child(p)) \in {"idle", "panicked", "gone"})
  <2>1. CASE y.render = NoArray  BY <1>3, <1>4, <1>y, <2>1
  <2>2. CASE y.render # NoArray
    <3>1. OwnArray(p[1], y.render)  BY <1>1, <1>y, <2>2 DEF RqInv, OwnRenders, Apart, InUse
    <3>2. NoCache => At(Child(p)) \in {"idle", "panicked"}  BY <1>0, <1>1, <1>y, <2>2, MainsChild
    <3> QED BY <1>3, <1>4, <2>2, <3>1, <3>2
  <2> QED BY <2>1, <2>2
<1>12. /\ InUse(p) /\ At(p) \notin {"send", "panicked"} /\ x.handler = Cx(p).handler /\ x.left = Cx(p).left
       /\ x.render = NoArray /\ x \in ContextRec
  BY <1>1, <1>4, <1>y
<1>13. \A i \in DOMAIN pr.frames : pr.frames[i] = "cache" => Cached(p[1])
  <2>1. DOMAIN pr.frames = {}  BY <1>8
  <2> QED BY <2>1
<1> QED BY <1>0, <1>5, <1>6, <1>7, <1>8, <1>9, <1>10, <1>11, <1>12, <1>13, AloneKeeps

LEMMA CacheSetKeeps == ASSUME RqInv, NamesFit, NEW p \in Procs, CacheSet(p) PROVE RqInv'
<1>y. PICK y : y = Cx(p)  OBVIOUS
<1>v. PICK v : v = PrevContent(y)  OBVIOUS
<1>e. PICK e : e = [code |-> v.code, array |-> v.body, full |-> v.full]  OBVIOUS
<1>x. PICK x : x = Aborted(v, 0)  OBVIOUS
<1>pr. PICK pr : pr = [proc[p] EXCEPT !.frames = Front(@)]  OBVIOUS
<1>n. PICK n : n = Route(p[1]).name  OBVIOUS
<1>0. NextEnds(p) /\ proc[p].frames # <<>> /\ Last(proc[p].frames) = "cache"  BY DEF CacheSet
<1>1. /\ InUse(p) /\ At(p) = "next" /\ p[1] \in Visits /\ proc[p].ctx \in ContextNames /\ y \in ContextRec
      /\ ~ Broken(p) => Settled(p[1], y)
  BY <1>0, <1>y, NextEndsHas
<1>2. RqTypes /\ SiteFits /\ proc[p] \in ProcRec /\ n \in RouteNames  BY <1>1, <1>n DEF RqInv, RqTypes, RouteNames
<1>3. /\ Front(proc[p].frames) \in Seq({"recovery", "cache"})
      /\ \A i \in DOMAIN Front(proc[p].frames) : Front(proc[p].frames)[i] = "cache" => Cached(p[1])
      /\ Cached(p[1]) /\ ~ Broken(p)
  BY <1>0, FramesOf
<1>4. ~ NoCache  BY <1>1, <1>3 DEF NoCache
<1>5. /\ v \in ContextRec /\ v.left = y.left /\ v.handler = y.handler /\ v.render = NoArray
  <2>1. Shows(y, v)  BY <1>1, <1>v, PrevIs
  <2> QED BY <2>1 DEF Shows
<1>6. v.code # 0 /\ Settled(p[1], v) /\ EntryFits(p[1], e)
  <2>1. Settled(p[1], y)  BY <1>1, <1>3
  <2>2. v.code # 0 /\ Settled(p[1], v)  BY <1>1, <1>v, <2>1, PrevSettles
  <2>3. EntryFits(p[1], e)  BY <1>1, <1>v, <1>e, <2>1, PrevSettles
  <2> QED BY <2>2, <2>3
<1>7. e \in Entries  BY <1>5, <1>e DEF ContextRec, Entries
<1>8. /\ x \in ContextRec /\ x.stop = TRUE /\ x.left = v.left /\ x.handler = v.handler
      /\ x.render = v.render /\ x.body = v.body /\ x.full = v.full /\ x.code = v.code
  <2>1. v \in ContextRec  BY <1>5
  <2> QED BY <1>x, <2>1, ClosedIs
<1>9. /\ bufferPool' = BuffersAfter(y) /\ flight' = NoFlight(p)
      /\ proc' = [Handed(p, "got", e) EXCEPT ![p].frames = Front(@)]
      /\ stored' = [stored EXCEPT ![n] = e]
      /\ context' = [context EXCEPT ![proc[p].ctx] = x]
      /\ UNCHANGED <<site, slot, ctxPool, bytesOf, sent>>
  <2>1. v.code # 0  BY <1>6
  <2> QED BY <1>y, <1>v, <1>e, <1>x, <1>n, <2>1 DEF CacheSet
<1>10. /\ \A q \in Procs \ {p} : proc'[q] = IF At(q) = "waits" /\ Route(q[1]).name = n THEN [proc[q] EXCEPT !.at = "got", !.got = e]
                                                  ELSE proc[q]
       /\ proc'[p] = pr /\ DOMAIN proc' = Procs /\ proc' = [q \in Procs |-> proc'[q]]
  <2>h. PICK h : h = Handed(p, "got", e)  OBVIOUS
  <2>1. h = [q \in Procs |-> IF At(q) = "waits" /\ q # p /\ Route(q[1]).name = n THEN [proc[q] EXCEPT !.at = "got", !.got = e]
                                                  ELSE proc[q]]
    BY <1>n, <2>h DEF Handed, At
  <2>2. proc' = [h EXCEPT ![p].frames = Front(@)]  BY <1>9, <2>h
  <2>3. h[p] = proc[p]  BY <2>1
  <2>4. proc'[p] = pr  BY <1>pr, <2>1, <2>2, <2>3
  <2>5. \A q \in Procs \ {p} : proc'[q] = h[q]  BY <2>1, <2>2
  <2>6. proc' = [q \in Procs |-> proc'[q]]  BY <2>1, <2>2
  <2> QED BY <2>1, <2>4, <2>5, <2>6
<1>11. pr \in ProcRec /\ pr.at = "next" /\ pr.ctx = proc[p].ctx /\ pr.frames = Front(proc[p].frames)
  <2>1. Front(proc[p].frames) \in Seq({"recovery", "cache"}) /\ proc[p].at = "next"  BY <1>1, <1>3 DEF At
  <2> QED BY <1>2, <1>pr, <2>1 DEF ProcRec
<1>12. \A q \in Procs \ {p} : proc'[q] # proc[q] =>
           /\ At(q) = "waits" /\ Route(q[1]).name = n /\ proc'[q] \in ProcRec /\ proc'[q].at = "got" /\ proc'[q].got = e
           /\ proc'[q].ctx = proc[q].ctx /\ proc'[q].frames = proc[q].frames /\ proc'[q].closing = proc[q].closing
  <2> SUFFICES ASSUME NEW q \in Procs \ {p}, proc'[q] # proc[q]
               PROVE  /\ At(q) = "waits" /\ Route(q[1]).name = n /\ proc'[q] \in ProcRec /\ proc'[q].at = "got" /\ proc'[q].got = e
                      /\ proc'[q].ctx = proc[q].ctx /\ proc'[q].frames = proc[q].frames /\ proc'[q].closing = proc[q].closing
    OBVIOUS
  <2>1. At(q) = "waits" /\ Route(q[1]).name = n /\ proc'[q] = [proc[q] EXCEPT !.at = "got", !.got = e]  BY <1>10
  <2>2. proc[q] \in ProcRec  BY <1>2 DEF RqTypes
  <2> QED BY <1>7, <2>1, <2>2 DEF ProcRec, MainPlaces
<1>13. proc' \in [Procs -> ProcRec]
  <2>1. \A q \in Procs : proc'[q] \in ProcRec
    <3> SUFFICES ASSUME NEW q \in Procs PROVE proc'[q] \in ProcRec  OBVIOUS
    <3>1. CASE q = p  BY <1>10, <1>11, <3>1
    <3>2. CASE q # p /\ proc'[q] = proc[q]  BY <1>2, <3>2 DEF RqTypes
    <3>3. CASE q # p /\ proc'[q] # proc[q]  BY <1>12, <3>3
    <3> QED BY <3>1, <3>2, <3>3
  <2> QED BY <1>10, <2>1
<1>14. Goes(p, x, pr)
  <2>1. x \in ContextRec /\ x.handler = Cx(p).handler /\ x.left = Cx(p).left  BY <1>5, <1>8, <1>y
  <2>2. \A q \in Procs \ {p} :
          \/ proc'[q] = proc[q]
          \/ /\ At(q) = "waits" /\ proc'[q].at \in {"got", "panics"}
             /\ proc'[q].ctx = proc[q].ctx /\ proc'[q].frames = proc[q].frames /\ proc'[q].closing = proc[q].closing
    BY <1>12
  <2>3. pr.at \in (IF p[2] = "main" THEN MainPlaces ELSE ChildPlaces) \ {"idle"} /\ pr.at # "gone"
    BY <1>11 DEF MainPlaces, ChildPlaces
  <2> QED BY <1>9, <1>10, <1>11, <1>13, <2>1, <2>2, <2>3 DEF Goes
<1>15. \A r \in Visits : Route(r).name = n => Route(r) = Route(p[1])
  BY <1>1, <1>2, <1>n DEF SiteFits, SiteTyped
<1>16. \A r \in Visits : Route(r).name = n => Cached(r) /\ EntryFits(r, e)
  BY <1>1, <1>3, <1>6, <1>15, SameRoute
<1>17. Placed(p)'
  <2>1. Settled(p[1], x)  BY <1>6, <1>8 DEF Settled
  <2>2. Settled(p[1], x)'  BY <1>9, <2>1, SiteSame DEF Settled, Fit, Arrays
  <2>3. \A i \in DOMAIN pr.frames : pr.frames[i] = "cache" => Cached(p[1])  BY <1>3, <1>11
  <2>4. x.stop /\ pr.at = "next"  BY <1>8, <1>11
  <2> QED BY <1>1, <1>14, <2>2, <2>3, <2>4, SelfPlaced
<1>18. stored' \in [RouteNames -> Entries]  BY <1>2, <1>7, <1>9 DEF RqTypes
<1>19. \A r \in Visits : stored'[Route(r).name] # stored[Route(r).name] =>
                               Cached(r) /\ EntryFits(r, stored'[Route(r).name])
  <2> SUFFICES ASSUME NEW r \in Visits, stored'[Route(r).name] # stored[Route(r).name]
               PROVE  Cached(r) /\ EntryFits(r, stored'[Route(r).name])
    OBVIOUS
  <2>1. Route(r).name = n /\ stored'[n] = e  BY <1>2, <1>9 DEF RqTypes
  <2> QED BY <1>16, <2>1
<1>20. \A q \in Procs \ {p} : proc'[q] # proc[q] => proc'[q].at = "got" /\ EntryFits(q[1], proc'[q].got)
  <2>1. \A q \in Procs : q[1] \in Visits  BY DEF Procs
  <2> QED BY <1>12, <1>16, <2>1
<1>21. bufferPool' \subseteq Buffers /\ DOMAIN flight' = RouteNames
  BY <1>1, <1>2, <1>9, BuffersIn DEF NoFlight, RqTypes
<1>22. InUse(p) /\ At(p) \notin {"send", "panicked"} /\ pr.at = "next" /\ x.stop /\ x.render = NoArray
  BY <1>1, <1>5, <1>8, <1>11
<1>23. bytesOf' = bytesOf /\ sent' = sent  BY <1>9
<1> QED BY <1>4, <1>14, <1>17, <1>18, <1>19, <1>20, <1>21, <1>22, <1>23, GoesSound

-----------------------------------------------------------------------------
(* The last of some places there is: the places up to which there is one   *)
(* would otherwise be closed under successor, and finite.                  *)
LEMMA Latest ==
    ASSUME NEW n \in Nat, NEW S \in SUBSET (1..n), S # {}
    PROVE  \E i \in S : \A j \in S : j <= i
<1> SUFFICES ASSUME \A i \in S : \E j \in S : j > i PROVE FALSE
  <2>1. \A i \in S : i \in Nat  OBVIOUS
  <2> QED BY <2>1
<1> DEFINE U == {i \in 1..n : \E j \in S : j >= i}
<1>1. 1 \in U
  <2>1. PICK j \in S : TRUE  OBVIOUS
  <2> QED BY <2>1
<1>2. \A i \in U : i + 1 \in U
  <2> SUFFICES ASSUME NEW i \in 1..n, NEW j \in S, j >= i PROVE i + 1 \in U  OBVIOUS
  <2>1. PICK k \in S : k > j  OBVIOUS
  <2>2. k \in 1..n /\ j \in 1..n /\ i + 1 \in Nat  OBVIOUS
  <2> QED BY <2>1, <2>2
<1>3. IsFiniteSet(U)
  <2>1. IsFiniteSet(1..n)  BY FS_Interval
  <2> QED BY <2>1, FS_Subset
<1>4. IsFiniteSet(U \ {1}) /\ Cardinality(U \ {1}) = Cardinality(U) - 1
  BY <1>1, <1>3, FS_RemoveElement
<1>5. \A i \in U : i \in Nat /\ i # 0  OBVIOUS
<1>6. Cardinality(U) \in Nat  BY <1>3, FS_CardinalityType
<1> HIDE DEF U
<1> DEFINE V == U \ {1}
           f == [i \in U |-> i + 1]
<1>7. f \in [U -> V]
  <2>1. \A i \in U : i + 1 \in V  BY <1>2, <1>5
  <2> QED BY <2>1
<1>8. \A i, j \in U : f[i] = f[j] => i = j  BY <1>5
<1>9. Cardinality(V) < Cardinality(U)  BY <1>4, <1>6
<1>10. IsFiniteSet(V)  BY <1>4
<1> HIDE DEF f, V
<1>11. \E i, j \in U : i # j /\ f[i] = f[j]  BY <1>3, <1>7, <1>9, <1>10, FS_PigeonHole
<1> QED BY <1>8, <1>11

\* Who waits for a panic hears of it.
LEMMA HandedIs ==
    ASSUME RqTypes, NEW p \in Procs, NEW h, h = Handed(p, "panics", NoEntry) \/ h = proc
    PROVE  /\ h \in [Procs -> ProcRec] /\ h[p] = proc[p]
           /\ \A q \in Procs : h[q] # proc[q] =>
                 /\ h # proc /\ At(q) = "waits" /\ Route(q[1]).name = Route(p[1]).name /\ h[q].at = "panics"
                 /\ h[q].ctx = proc[q].ctx /\ h[q].frames = proc[q].frames /\ h[q].closing = proc[q].closing
<1>1. proc \in [Procs -> ProcRec]  BY DEF RqTypes
<1>2. CASE h = proc  BY <1>1, <1>2
<1>3. CASE h = Handed(p, "panics", NoEntry)
  <2>1. h = [q \in Procs |-> IF At(q) = "waits" /\ q # p /\ Route(q[1]).name = Route(p[1]).name
                             THEN [proc[q] EXCEPT !.at = "panics", !.got = NoEntry] ELSE proc[q]]
    BY <1>3 DEF Handed, At
  <2>2. \A q \in Procs : LET z == [proc[q] EXCEPT !.at = "panics", !.got = NoEntry]
                         IN  /\ z \in ProcRec /\ z.at = "panics" /\ z.ctx = proc[q].ctx
                             /\ z.frames = proc[q].frames /\ z.closing = proc[q].closing
    <3> SUFFICES ASSUME NEW q \in Procs, NEW z, z = [proc[q] EXCEPT !.at = "panics", !.got = NoEntry]
                 PROVE  /\ z \in ProcRec /\ z.at = "panics" /\ z.ctx = proc[q].ctx
                        /\ z.frames = proc[q].frames /\ z.closing = proc[q].closing
      OBVIOUS
    <3>1. proc[q] \in ProcRec  BY <1>1
    <3>2. NoEntry \in Entries  BY DEF NoEntry, Entries, Codes, OptArrays
    <3> QED BY <3>1, <3>2 DEF ProcRec, MainPlaces
  <2>3. \A q \in Procs : h[q] \in ProcRec  BY <1>1, <2>1, <2>2
  <2>4. h \in [Procs -> ProcRec]  BY <2>1, <2>3
  <2>5. h[p] = proc[p]  BY <2>1
  <2>6. \A q \in Procs : h[q] # proc[q] =>
                 /\ h # proc /\ At(q) = "waits" /\ Route(q[1]).name = Route(p[1]).name /\ h[q].at = "panics"
                 /\ h[q].ctx = proc[q].ctx /\ h[q].frames = proc[q].frames /\ h[q].closing = proc[q].closing
    BY <2>1, <2>2
  <2> QED BY <2>4, <2>5, <2>6
<1> QED BY <1>2, <1>3

(* What a panic does: to is the frame of the nearest Recovery, or 0; h is   *)
(* where the goroutines are once those who waited have heard of it.         *)
Unwound(p, z, to, h) ==
    /\ to = 0 \/ to \in DOMAIN proc[p].frames
    /\ h \in [Procs -> ProcRec] /\ h[p] = proc[p]
    /\ \A q \in Procs : h[q] # proc[q] =>
          /\ Cached(p[1]) /\ At(q) = "waits" /\ Route(q[1]).name = Route(p[1]).name /\ h[q].at = "panics"
          /\ h[q].ctx = proc[q].ctx /\ h[q].frames = proc[q].frames /\ h[q].closing = proc[q].closing
    /\ DOMAIN flight' = RouteNames
    /\ UNCHANGED <<site, slot, ctxPool, bufferPool, stored, sent>>
    /\ \/ /\ to # 0
          /\ proc' = [h EXCEPT ![p].at = "next", ![p].frames = SubSeq(@, 1, to - 1)]
          /\ bytesOf' = ErrorPage(p)
          /\ context' = [context EXCEPT ![proc[p].ctx] = Rendered(z, 500, <<"error", p[1]>>)]
       \/ /\ to = 0
          /\ proc' = [h EXCEPT ![p].frames = <<>>, ![p].closing = TRUE,
                        ![p].at = IF p[2] = "child" THEN "panicked" ELSE IF proc[p].closing THEN "gone" ELSE "next"]
          /\ context' = [context EXCEPT ![proc[p].ctx] = z]
          /\ bytesOf' = bytesOf

\* Every panic is of the form Unwound.
LEMMA UnwindsDoes ==
    ASSUME RqInv, NEW p \in Procs, p[1] \in Visits, NEW at, NEW z, Unwinds(p, at, z)
    PROVE  \E to \in Nat : \E h : Unwound(p, z, to, h)
<1> DEFINE f == proc[p].frames
           c == {i \in DOMAIN f : f[i] = "recovery"}
           to == IF c = {} THEN 0 ELSE CHOOSE i \in c : \A j \in c : j <= i
           leads == flight[Route(p[1]).name] = p /\ \E i \in to + 1..Len(f) : f[i] = "cache"
           h == IF leads THEN Handed(p, "panics", NoEntry) ELSE proc
<1>6. /\ flight' = IF leads THEN NoFlight(p) ELSE flight
      /\ UNCHANGED <<site, slot, ctxPool, bufferPool, stored, sent>>
      /\ \/ /\ to # 0
            /\ proc' = [h EXCEPT ![p].at = "next", ![p].frames = SubSeq(@, 1, to - 1)]
            /\ bytesOf' = ErrorPage(p)
            /\ context' = [context EXCEPT ![proc[p].ctx] = Rendered(z, 500, <<"error", p[1]>>)]
         \/ /\ to = 0
            /\ proc' = [h EXCEPT ![p].frames = <<>>, ![p].closing = TRUE,
                          ![p].at = IF p[2] = "child" THEN "panicked"
                                    ELSE IF proc[p].closing THEN "gone" ELSE "next"]
            /\ context' = [context EXCEPT ![proc[p].ctx] = z]
            /\ bytesOf' = bytesOf
  BY DEF Unwinds
<1> HIDE DEF f, c, to, leads, h
<1>1. f \in Seq({"recovery", "cache"}) /\ RqTypes  BY DEF f, RqInv, RqTypes, ProcRec
<1>2. to \in Nat /\ (to = 0 \/ to \in DOMAIN f)
  <2>1. DOMAIN f = 1..Len(f) /\ Len(f) \in Nat  BY <1>1
  <2>2. CASE c = {}  BY <2>2 DEF to
  <2>3. CASE c # {}
    <3>1. c \in SUBSET (1..Len(f))  BY <2>1 DEF c
    <3>2. \E i \in c : \A j \in c : j <= i  BY <2>1, <2>3, <3>1, Latest
    <3>3. to \in c  BY <2>3, <3>2 DEF to
    <3> QED BY <2>1, <3>1, <3>3
  <2> QED BY <2>2, <2>3
<1>3. leads => Cached(p[1])
  <2>1. \A i \in DOMAIN f : f[i] = "cache" => Cached(p[1])  BY DEF f, RqInv, Placed
  <2>2. \A i \in to + 1..Len(f) : i \in DOMAIN f
    <3>1. DOMAIN f = 1..Len(f) /\ Len(f) \in Nat  BY <1>1
    <3> QED BY <1>2, <3>1
  <2> QED BY <2>1, <2>2 DEF leads
<1>4. /\ h \in [Procs -> ProcRec] /\ h[p] = proc[p]
      /\ \A q \in Procs : h[q] # proc[q] =>
                 /\ h # proc /\ At(q) = "waits" /\ Route(q[1]).name = Route(p[1]).name /\ h[q].at = "panics"
                 /\ h[q].ctx = proc[q].ctx /\ h[q].frames = proc[q].frames /\ h[q].closing = proc[q].closing
  <2>1. h = Handed(p, "panics", NoEntry) \/ h = proc  BY DEF h
  <2> QED BY <1>1, <2>1, HandedIs
<1>5. h # proc => Cached(p[1])  BY <1>3 DEF h
<1>7. DOMAIN flight' = RouteNames  BY <1>1, <1>6 DEF NoFlight, RqTypes
<1>8. to \in Nat /\ (to = 0 \/ to \in DOMAIN proc[p].frames)  BY <1>2 DEF f
<1>9. \A q \in Procs : h[q] # proc[q] =>
                 /\ Cached(p[1]) /\ At(q) = "waits" /\ Route(q[1]).name = Route(p[1]).name /\ h[q].at = "panics"
                 /\ h[q].ctx = proc[q].ctx /\ h[q].frames = proc[q].frames /\ h[q].closing = proc[q].closing
  BY <1>4, <1>5
<1>10. Unwound(p, z, to, h)  BY <1>4, <1>6, <1>7, <1>8, <1>9 DEF Unwound
<1> QED BY <1>8, <1>10

(* A panic, once it is known how far it unwinds.                           *)
PanicTo(p, h, x, pr) ==
    /\ h \in [Procs -> ProcRec] /\ h[p] = proc[p]
    /\ \A q \in Procs : h[q] # proc[q] =>
          /\ Cached(p[1]) /\ At(q) = "waits" /\ Route(q[1]).name = Route(p[1]).name /\ h[q].at = "panics"
          /\ h[q].ctx = proc[q].ctx /\ h[q].frames = proc[q].frames /\ h[q].closing = proc[q].closing
    /\ DOMAIN flight' = RouteNames
    /\ UNCHANGED <<site, slot, ctxPool, bufferPool, stored, sent>>
    /\ x \in ContextRec /\ context' = [context EXCEPT ![proc[p].ctx] = x]
    /\ x.handler = Cx(p).handler
    /\ x.left = Cx(p).left \/ (Cx(p).left # <<>> /\ x.left = Tail(Cx(p).left))
    /\ pr \in ProcRec /\ proc' = [h EXCEPT ![p] = pr] /\ pr.ctx = proc[p].ctx
    /\ pr.at = "next" \/ (pr.at = "gone" /\ p[2] = "main") \/ (pr.at = "panicked" /\ p[2] = "child")
    /\ \A i \in DOMAIN pr.frames : pr.frames[i] = "cache" => Cached(p[1])
    /\ pr.at = "next" =>
          \/ x.stop /\ (Settled(p[1], x)' \/ BrokenAt(p, pr))
          \/ Fresh(p[1], x) /\ (x.left # <<>> \/ BrokenAt(p, pr))
          \/ Early(p[1], x)' /\ (x.left = <<>> \/ Fails(p[1]))
    /\ p[2] = "main" /\ At(Child(p)) # "idle" => pr.at = "gone" \/ x.stop
    /\ bytesOf' = bytesOf \/ \E a : WritesOwn(p, a)
    /\ x.render = NoArray \/ OwnArray(p[1], x.render)
    /\ x.body = Cx(p).body
\* A panic of the form PanicTo keeps the invariant.
LEMMA UnwindsTo ==
    ASSUME RqInv, NamesFit, NEW p \in Procs, p[1] \in Visits, InUse(p), Acts(p),
           Route(p[1]).handler = "panics" \/ HasWare(p[1], "panics"),
           NEW h, NEW x, NEW pr, PanicTo(p, h, x, pr)
    PROVE  RqInv'
<1> USE DEF PanicTo
<1>1. /\ proc' \in [Procs -> ProcRec] /\ proc'[p] = pr
      /\ \A q \in Procs \ {p} : proc'[q] = h[q]
  OBVIOUS
<1>2. SiteFits /\ Placed(p)  BY DEF RqInv
<1>3. \A q \in Procs \ {p} : proc'[q] # proc[q] =>
         /\ Cached(p[1]) /\ At(q) = "waits" /\ Route(q[1]).name = Route(p[1]).name /\ proc'[q].at = "panics"
         /\ proc'[q].ctx = proc[q].ctx /\ proc'[q].frames = proc[q].frames /\ proc'[q].closing = proc[q].closing
  BY <1>1
<1>4. p[2] = "child" => Route(p[1]).handler = "panics"
  <2> SUFFICES ASSUME p[2] = "child" PROVE Route(p[1]).handler = "panics"  OBVIOUS
  <2>1. Timed(p[1])  BY <1>2 DEF Placed, InUse
  <2> QED BY <1>2, <2>1 DEF SiteFits, PanicsAlone, Fails
<1>5. \A q \in Procs \ {p} : proc'[q] # proc[q] => proc'[q].at = "panics" /\ Route(q[1]).handler = "panics"
  <2> SUFFICES ASSUME NEW q \in Procs \ {p}, proc'[q] # proc[q] PROVE proc'[q].at = "panics" /\ Route(q[1]).handler = "panics"
    OBVIOUS
  <2>1. Cached(p[1]) /\ Route(q[1]).name = Route(p[1]).name /\ proc'[q].at = "panics"  BY <1>3
  <2>2. Route(p[1]).handler = "panics"  BY <1>2, <2>1 DEF SiteFits, PanicsAlone, Fails
  <2>3. q[1] \in Visits  BY DEF Procs
  <2>4. Route(q[1]) = Route(p[1])  BY <1>2, <2>1, <2>3 DEF SiteFits, SiteTyped
  <2> QED BY <2>1, <2>2, <2>4
<1>6. /\ pr.at \in (IF p[2] = "main" THEN MainPlaces ELSE ChildPlaces) \ {"idle"}
      /\ p[2] = "child" => pr.at # "gone"
  BY DEF MainPlaces, ChildPlaces, Procs, Sides
<1>7. Goes(p, x, pr)
  <2>1. \A q \in Procs \ {p} :
          \/ proc'[q] = proc[q]
          \/ /\ At(q) = "waits" /\ proc'[q].at \in {"got", "panics"}
             /\ proc'[q].ctx = proc[q].ctx /\ proc'[q].frames = proc[q].frames /\ proc'[q].closing = proc[q].closing
    BY <1>3
  <2> QED BY <1>1, <1>6, <2>1 DEF Goes
<1>8. Placed(p)'  BY <1>4, <1>7, SelfPlaced
<1>9. bufferPool' \subseteq Buffers /\ stored' = stored /\ sent' = sent  BY DEF RqInv, RqTypes
<1>10. At(p) \notin {"send", "panicked"} /\ (p[2] = "main" => At(Child(p)) \in {"idle", "panicked"})  BY DEF Acts
<1>11. p[2] = "main" /\ At(Child(p)) # "idle" =>
               pr.at \in {"timed", "send", "gone"} \/ (pr.at = "next" /\ x.stop)
  BY <1>6
<1> QED BY <1>5, <1>7, <1>8, <1>9, <1>10, <1>11, GoesSound

(* A panic: what is rendered for it, or the end it makes.                  *)
LEMMA UnwindsKeeps ==
    ASSUME RqInv, NamesFit, NEW p \in Procs, p[1] \in Visits, InUse(p), Acts(p),
           Route(p[1]).handler = "panics" \/ HasWare(p[1], "panics"),
           NEW at, NEW z \in ContextRec, Unwinds(p, at, z),
           z.handler = Cx(p).handler, z.left = Cx(p).left \/ (Cx(p).left # <<>> /\ z.left = Tail(Cx(p).left)),
           z.render = Cx(p).render, z.body = Cx(p).body, z.full = FALSE, ~ z.stop \/ z.code = 0,
           z.stop \/ Fresh(p[1], z) \/ Early(p[1], z), z.stop \/ z.left = <<>> \/ Fails(p[1]),
           p[2] = "main" /\ At(Child(p)) # "idle" => z.stop
    PROVE  RqInv'
<1>h. PICK to \in Nat : \E h : Unwound(p, z, to, h)  BY UnwindsDoes
<1>g. PICK h : Unwound(p, z, to, h)  BY <1>h
<1>1. /\ h \in [Procs -> ProcRec] /\ h[p] = proc[p]
      /\ \A q \in Procs : h[q] # proc[q] =>
                 /\ Cached(p[1]) /\ At(q) = "waits" /\ Route(q[1]).name = Route(p[1]).name /\ h[q].at = "panics"
                 /\ h[q].ctx = proc[q].ctx /\ h[q].frames = proc[q].frames /\ h[q].closing = proc[q].closing
      /\ DOMAIN flight' = RouteNames
      /\ UNCHANGED <<site, slot, ctxPool, bufferPool, stored, sent>>
      /\ to = 0 \/ to \in DOMAIN proc[p].frames
  BY <1>g DEF Unwound
<1>2. proc[p] \in ProcRec /\ RqTypes /\ SiteFits /\ Placed(p)  BY DEF RqInv, RqTypes
<1>3. z.render = NoArray \/ OwnArray(p[1], z.render)  BY DEF RqInv, OwnRenders, Apart, InUse
<1>4. \A i \in DOMAIN proc[p].frames : proc[p].frames[i] = "cache" => Cached(p[1])  BY <1>2 DEF Placed
<1>5. CASE to = 0
  <2>at. PICK k : k = IF p[2] = "child" THEN "panicked" ELSE IF proc[p].closing THEN "gone" ELSE "next"  OBVIOUS
  <2>pr. PICK pr : pr = [proc[p] EXCEPT !.frames = <<>>, !.closing = TRUE, !.at = k]  OBVIOUS
  <2>1. /\ proc' = [h EXCEPT ![p].frames = <<>>, ![p].closing = TRUE, ![p].at = k]
        /\ context' = [context EXCEPT ![proc[p].ctx] = z]
        /\ bytesOf' = bytesOf
    BY <1>g, <1>5, <2>at DEF Unwound
  <2>2. k \in MainPlaces \cup ChildPlaces  BY <2>at DEF MainPlaces, ChildPlaces
  <2>3. pr \in ProcRec /\ pr.ctx = proc[p].ctx /\ pr.at = k /\ pr.frames = <<>> /\ pr.closing = TRUE
    <3>1. <<>> \in Seq({"recovery", "cache"})  OBVIOUS
    <3> QED BY <1>2, <2>2, <2>pr, <3>1 DEF ProcRec
  <2>4. proc' = [h EXCEPT ![p] = pr]  BY <1>1, <2>1, <2>pr
  <2>5. pr.at = "next" \/ (pr.at = "gone" /\ p[2] = "main") \/ (pr.at = "panicked" /\ p[2] = "child")
    BY <2>3, <2>at DEF Procs, Sides
  <2>6. pr.at = "next" => BrokenAt(p, pr)  BY <2>3, <2>at DEF BrokenAt, Procs, Sides
  <2>7. \A i \in DOMAIN pr.frames : pr.frames[i] = "cache" => Cached(p[1])
    <3>1. DOMAIN pr.frames = {}  BY <2>3
    <3> QED BY <3>1
  <2>8. Early(p[1], z) => Early(p[1], z)'  BY <1>1, <2>1, SiteSame DEF Early, Fit, Arrays
  <2>9. pr.at = "next" =>
               \/ z.stop /\ (Settled(p[1], z)' \/ BrokenAt(p, pr))
               \/ Fresh(p[1], z) /\ (z.left # <<>> \/ BrokenAt(p, pr))
               \/ Early(p[1], z)' /\ (z.left = <<>> \/ Fails(p[1]))
    BY <2>6, <2>8
  <2>10. pr \in ProcRec /\ pr.ctx = proc[p].ctx  BY <2>3
  <2>11. PanicTo(p, h, z, pr)  BY <1>1, <1>3, <2>1, <2>4, <2>5, <2>7, <2>9, <2>10 DEF PanicTo
  <2> QED BY <2>11, UnwindsTo
<1>6. CASE to # 0
  <2>a. PICK a : a = <<"error", p[1]>>  OBVIOUS
  <2>code. PICK code : code = 500  OBVIOUS
  <2>x. PICK x : x = Rendered(z, code, a)  OBVIOUS
  <2>f. PICK f : f = SubSeq(proc[p].frames, 1, to - 1)  OBVIOUS
  <2>pr. PICK pr : pr = [proc[p] EXCEPT !.at = "next", !.frames = f]  OBVIOUS
  <2>1. /\ proc' = [h EXCEPT ![p].at = "next", ![p].frames = f]
        /\ context' = [context EXCEPT ![proc[p].ctx] = x]
        /\ bytesOf' = [bytesOf EXCEPT ![a] = "error"]
    <3>1. /\ proc' = [h EXCEPT ![p].at = "next", ![p].frames = SubSeq(@, 1, to - 1)]
          /\ bytesOf' = ErrorPage(p)
          /\ context' = [context EXCEPT ![proc[p].ctx] = Rendered(z, 500, <<"error", p[1]>>)]
      BY <1>g, <1>6 DEF Unwound
    <3>2. proc' = [h EXCEPT ![p].at = "next", ![p].frames = f]  BY <1>1, <2>f, <3>1
    <3> QED BY <2>a, <2>code, <2>x, <3>1, <3>2 DEF ErrorPage
  <2>2. f \in Seq({"recovery", "cache"}) /\ \A i \in DOMAIN f : i \in DOMAIN proc[p].frames /\ f[i] = proc[p].frames[i]
    <3>g. PICK g : g = proc[p].frames  OBVIOUS
    <3>1. g \in Seq({"recovery", "cache"}) /\ DOMAIN g = 1..Len(g)  BY <1>2, <3>g DEF ProcRec
    <3>2. to \in 1..Len(g)  BY <1>1, <1>6, <3>1, <3>g
    <3>3. f = SubSeq(g, 1, to - 1) /\ to - 1 \in 0..Len(g)  BY <2>f, <3>1, <3>2, <3>g
    <3>4. f \in Seq({"recovery", "cache"}) /\ Len(f) = to - 1 /\ \A i \in 1..to - 1 : f[i] = g[i]
      BY <3>1, <3>2, <3>3
    <3>5. DOMAIN f = 1..to - 1  BY <3>4
    <3>6. \A i \in 1..to - 1 : i \in DOMAIN g  BY <3>1, <3>2
    <3> QED BY <3>4, <3>5, <3>6, <3>g
  <2>3. pr \in ProcRec /\ pr.ctx = proc[p].ctx /\ pr.at = "next" /\ pr.frames = f
    BY <1>2, <2>2, <2>pr DEF ProcRec, MainPlaces
  <2>4. proc' = [h EXCEPT ![p] = pr]  BY <1>1, <2>1, <2>pr
  <2>5. a \in Arrays /\ a \in OptArrays /\ a # NoArray /\ OwnArray(p[1], a) /\ OwnBytes(p[1], a) = "error" /\ code \in Codes
    BY <2>a, <2>code DEF Arrays, OptArrays, NoArray, OwnArray, OwnBytes, Codes
  <2>6. /\ x \in ContextRec /\ x.stop = z.stop /\ x.left = z.left /\ x.handler = z.handler
        /\ x.render = a /\ x.body = z.body /\ x.full = z.full /\ x.code = code
    BY <2>5, <2>x, RenderedIs
  <2>7. WritesOwn(p, a)
    <3>1. Timed(p[1]) \/ Cached(p[1]) => "error" \in RouteBytes(p[1])
      BY <1>2 DEF SiteFits, PanicsAlone, Fails, RouteBytes
    <3> QED BY <2>1, <2>5, <3>1 DEF WritesOwn
  <2>8. Fit(p[1], code, a)'
    <3>1. bytesOf'[a] = "error"  BY <1>2, <2>1, <2>5 DEF RqTypes
    <3>2. FullFits(p[1], code, "error")  BY <2>code DEF FullFits
    <3>3. FullFits(p[1], code, "error")'  BY <1>1, <3>2, SiteSame
    <3> QED BY <2>5, <3>1, <3>3 DEF Fit, Arrays, FullFits
  <2>9. IF x.stop THEN Settled(p[1], x)' ELSE Early(p[1], x)' /\ (x.left = <<>> \/ Fails(p[1]))
    BY <2>5, <2>6, <2>8 DEF Early, Settled, Fit
  <2>10. \A i \in DOMAIN pr.frames : pr.frames[i] = "cache" => Cached(p[1])  BY <1>4, <2>2, <2>3
  <2>11. /\ pr.at = "next" /\ pr.ctx = proc[p].ctx /\ pr \in ProcRec /\ x \in ContextRec
         /\ x.handler = Cx(p).handler /\ x.body = Cx(p).body /\ OwnArray(p[1], x.render)
         /\ x.left = Cx(p).left \/ (Cx(p).left # <<>> /\ x.left = Tail(Cx(p).left))
         /\ p[2] = "main" /\ At(Child(p)) # "idle" => x.stop
    BY <2>3, <2>5, <2>6
  <2>12. PanicTo(p, h, x, pr)  BY <1>1, <2>1, <2>4, <2>7, <2>9, <2>10, <2>11 DEF PanicTo
  <2> QED BY <2>12, UnwindsTo
<1> QED BY <1>5, <1>6

\* The panics.
LEMMA HandlerPanicsKeeps == ASSUME RqInv, NamesFit, NEW p \in Procs, HandlerPanics(p) \/ WarePanics(p) PROVE RqInv'
<1>y. PICK y : y = Cx(p)  OBVIOUS
<1>t. PICK t : t = Tail(y.left)  OBVIOUS
<1>z. PICK z : z = [y EXCEPT !.left = t]  OBVIOUS
<1>0. \/ Takes(p, "handler") /\ Route(p[1]).handler = "panics"
      \/ Takes(p, "panics")
  BY DEF HandlerPanics, WarePanics
<1>1. /\ InUse(p) /\ Acts(p) /\ At(p) = "next" /\ p[1] \in Visits
      /\ y \in ContextRec /\ y.left # <<>> /\ t \in Seq(Wares \cup {"handler"})
      /\ (t = <<>> /\ Route(p[1]).handler = "panics") \/ HasWare(p[1], "panics")
      /\ Fresh(p[1], y) \/ (Early(p[1], y) /\ Fails(p[1]))
      /\ p[2] = "main" => At(Child(p)) = "idle"
  <2>1. CASE Takes(p, "handler") /\ Route(p[1]).handler = "panics"  BY <1>y, <1>t, <2>1, TakesHas
  <2>2. CASE Takes(p, "panics")  BY <1>y, <1>t, <2>2, TakesHas
  <2> QED BY <1>0, <2>1, <2>2
<1>2. Unwinds(p, "next", z)
  <2>1. z = [Cx(p) EXCEPT !.left = Tail(@)]  BY <1>y, <1>t, <1>z
  <2> QED BY <2>1 DEF HandlerPanics, WarePanics
<1>3. /\ z \in ContextRec /\ z.left = t /\ z.handler = y.handler /\ z.stop = y.stop
      /\ z.code = y.code /\ z.render = y.render /\ z.body = y.body /\ z.full = y.full
  <2>1. y \in ContextRec /\ t \in Seq(Wares \cup {"handler"})  BY <1>1
  <2> QED BY <1>z, <2>1 DEF ContextRec
<1>4. ~ y.stop /\ y.full = FALSE  BY <1>1 DEF Fresh, Early, ContextRec
<1>5. Fresh(p[1], z) \/ Early(p[1], z)  BY <1>1, <1>3 DEF Fresh, Early
<1>6. z.left = <<>> \/ Fails(p[1])  BY <1>1, <1>3 DEF Fails
<1>7. z.left = Tail(y.left)  BY <1>3, <1>t
<1> QED BY <1>1, <1>2, <1>3, <1>4, <1>5, <1>6, <1>7, <1>y, UnwindsKeeps

LEMMA CachePanicsKeeps == ASSUME RqInv, NamesFit, NEW p \in Procs, CachePanics(p) PROVE RqInv'
<1>y. PICK y : y = Cx(p)  OBVIOUS
<1>0. At(p) = "panics" /\ Unwinds(p, "panics", y)  BY <1>y DEF CachePanics, At
<1>1. /\ InUse(p) /\ p[1] \in Visits /\ y \in ContextRec /\ Cached(p[1])
      /\ ~ y.stop /\ y.full = FALSE
      /\ Fresh(p[1], y) \/ (Early(p[1], y) /\ Fails(p[1]))
      /\ p[2] = "main" => At(Child(p)) = "idle"
  BY <1>0, <1>y, WaitingHas
<1>2. Route(p[1]).handler = "panics"  BY <1>0 DEF RqInv, Placed
<1>3. Acts(p) /\ Fails(p[1])  BY <1>0, <1>1, <1>2 DEF Acts, Fails
<1> QED BY <1>0, <1>1, <1>2, <1>3, <1>y, UnwindsKeeps

LEMMA TimeoutPanicsKeeps == ASSUME RqInv, NamesFit, NEW p \in Procs, TimeoutPanics(p) PROVE RqInv'
<1>y. PICK y : y = Cx(p)  OBVIOUS
<1>z. PICK z : z = Aborted(y, 0)  OBVIOUS
<1>0. At(p) = "timed" /\ At(Child(p)) = "panicked" /\ Unwinds(p, "timed", z)  BY <1>y, <1>z DEF TimeoutPanics, At
<1>1. InUse(p) /\ p[2] = "main" /\ p[1] \in Visits
  <2>1. InUse(p)  BY <1>0 DEF InUse
  <2>2. p[1] \in Visits /\ p[2] \in Sides  BY DEF Procs
  <2>3. p[2] # "child"  BY <1>0 DEF RqInv, RqTypes, ChildPlaces, At
  <2> QED BY <2>1, <2>2, <2>3 DEF Sides
<1>2. y \in ContextRec  BY <1>1, <1>y, InUseHas DEF RqInv
<1>3. Fresh(p[1], y) /\ Timed(p[1])  BY <1>0, <1>y DEF RqInv, Placed
<1>4. Child(p) \in Procs /\ Child(p)[1] = p[1]  BY <1>1 DEF Child, Procs, Sides
<1>5. Route(p[1]).handler = "panics"  BY <1>0, <1>4 DEF RqInv, Placed
<1>6. y.code = 0 /\ y.full = FALSE  BY <1>2, <1>3, <1>5 DEF Fresh, ContextRec
<1>7. /\ z \in ContextRec /\ z.stop = TRUE /\ z.left = y.left /\ z.handler = y.handler
      /\ z.render = y.render /\ z.body = y.body /\ z.full = y.full /\ z.code = y.code
  BY <1>2, <1>z, ClosedIs
<1>8. Acts(p)  BY <1>0, <1>1 DEF Acts
<1> QED BY <1>0, <1>1, <1>5, <1>6, <1>7, <1>8, <1>y, UnwindsKeeps

-----------------------------------------------------------------------------
(* What a step leaves alone.                                               *)
LEMMA BytesSame ==
    ASSUME RqInv, site' = site, bytesOf' = bytesOf
    PROVE  /\ \A S : Undisturbed(S)
           /\ EntriesUndisturbed /\ DOMAIN bytesOf' = Arrays
           /\ NoTimeout => OnceWritten'
           /\ ~ NoCache /\ ~ NoTimeout => OneKind'
<1>1. NoTimeout => OnceWritten'  BY SiteSame DEF RqInv, ArraysApart, OnceWritten, Arrays
<1>2. ~ NoCache /\ ~ NoTimeout => OneKind'  BY SiteSame DEF RqInv, ArraysApart, OneKind, Arrays
<1>3. EntriesUndisturbed /\ \A S : Undisturbed(S)  BY DEF Undisturbed, EntriesUndisturbed
<1> QED BY <1>1, <1>2, <1>3 DEF RqInv, RqTypes

\* Entries stay good while they stay or go and nobody disturbs them.
LEMMA StoredStays ==
    ASSUME RqInv, site' = site, EntriesUndisturbed,
           \A r \in Visits : stored'[Route(r).name] \in {stored[Route(r).name], NoEntry}
    PROVE  StoredFit'
<1>1. /\ \A r : Cached(r)' = Cached(r) /\ Route(r)' = Route(r)
      /\ \A r, c : NoPage(r, c)' = NoPage(r, c)
      /\ \A r, c, b : FullFits(r, c, b)' = FullFits(r, c, b)
  BY SiteSame
<1> SUFFICES ASSUME NEW r \in Visits, stored'[Route(r)'.name] # NoEntry
             PROVE  Cached(r)' /\ EntryFits(r, stored[Route(r).name])'
  BY DEF StoredFit
<1> PICK e : e = stored'[Route(r).name]  OBVIOUS
<1>2. (stored[Route(r).name])' = e /\ e = stored[Route(r).name] /\ e # NoEntry  BY <1>1
<1>3. Cached(r) /\ EntryFits(r, e)  BY <1>2 DEF RqInv, StoredFit
<1>4. e.full => (e.array \in Arrays /\ FullFits(r, e.code, bytesOf'[e.array]))
  BY <1>2, <1>3 DEF EntriesUndisturbed, EntryFits, Fit
<1> QED BY <1>1, <1>2, <1>3, <1>4 DEF EntryFits, Fit, Arrays

\* What is sent stays sent.
LEMMA AnswersStay == ASSUME RqInv, site' = site, sent' = sent PROVE AnswersAreOwn'
<1>1. \A r : Makers(r)' = Makers(r)  BY SiteSame
<1>2. AnswersAreOwn  BY DEF RqInv
<1> QED BY <1>1, <1>2 DEF AnswersAreOwn, AnswerFits

\* The expiry of an entry.
LEMMA CacheExpiresKeeps == ASSUME RqInv, NEW n \in RouteNames, CacheExpires(n) PROVE RqInv'
<1>1. UNCHANGED <<site, slot, ctxPool, context, bufferPool, bytesOf, flight, proc, sent>>  BY DEF CacheExpires
<1>2. /\ stored' \in [RouteNames -> Entries]
      /\ \A r \in Visits : stored'[Route(r).name] \in {stored[Route(r).name], NoEntry}
  <2>1. NoEntry \in Entries  BY DEF NoEntry, Entries, Codes, OptArrays
  <2>2. stored \in [RouteNames -> Entries] /\ stored' = [stored EXCEPT ![n] = NoEntry]  BY DEF RqInv, RqTypes, CacheExpires
  <2>3. \A r \in Visits : Route(r).name \in RouteNames  BY DEF RouteNames
  <2> QED BY <2>1, <2>2, <2>3
<1>3. /\ \A S : Undisturbed(S)
      /\ EntriesUndisturbed /\ DOMAIN bytesOf' = Arrays
      /\ NoTimeout => OnceWritten'
      /\ ~ NoCache /\ ~ NoTimeout => OneKind'
  BY <1>1, BytesSame
<1>4. StoredFit' /\ AnswersAreOwn'  BY <1>1, <1>2, <1>3, StoredStays, AnswersStay
<1>5. \A q \in Procs : Placed(q)'
  <2> SUFFICES ASSUME NEW q \in Procs PROVE Placed(q)'  OBVIOUS
  <2>1. Placed(q)  BY DEF RqInv
  <2>2. \A u : At(u)' = At(u) /\ Cx(u)' = Cx(u)  BY <1>1 DEF At, Cx
  <2>3. /\ At(q) = "timed" => At(Child(q))' \notin {"idle", "gone"}
        /\ q[2] = "child" /\ At(q) # "idle" =>
               \/ At(<<q[1], "main">>)' \in {"timed", "send", "gone"}
               \/ At(<<q[1], "main">>)' = "next" /\ Cx(<<q[1], "main">>)'.stop
    BY <2>1, <2>2 DEF Placed
  <2> QED BY <1>1, <1>3, <2>2, <2>3, StaysPlaced
<1>6. RqTypes'  BY <1>1, <1>2, SiteSame DEF RqInv, RqTypes, Arrays
<1>7. SiteFits' /\ Apart' /\ Enough'
  BY <1>1, SiteSame DEF RqInv, Apart, Enough, MainCtx, ChildCtx, Begun, Forked, At
<1>8. Chained' /\ Pooled' /\ OwnRenders'
  <2>1. \A u : Cx(u)' = Cx(u)  BY <1>1 DEF Cx
  <2> QED BY <1>1, <2>1, SiteSame DEF RqInv, Chained, Pooled, OwnRenders
<1>9. ArraysApart'
  <2>1. \A u : At(u)' = At(u) /\ Cx(u)' = Cx(u)  BY <1>1 DEF At, Cx
  <2>2. \A r, a : OwnArray(r, a)' = OwnArray(r, a)  BY <1>1, SiteSame
  <2>3. SingleBodies => SingleBodies'  BY <1>1, <2>1, <2>2 DEF SingleBodies, Over
  <2> QED BY <1>1, <1>3, <2>3, SiteSame DEF RqInv, ArraysApart
<1> QED BY <1>4, <1>5, <1>6, <1>7, <1>8, <1>9 DEF RqInv

(* Those of one request step: the others stay where they are.              *)
LEMMA RestPlaced ==
    ASSUME RqInv, site' = site, NEW r \in Visits, NEW S \in SUBSET {<<r, "main">>, <<r, "child">>}, <<r, "main">> \in S,
           Undisturbed(S),
           \A q \in Procs \ S : proc'[q] = proc[q] /\ (proc[q].ctx # 0 => Cx(q)' = Cx(q)),
           <<r, "child">> \notin S /\ At(<<r, "child">>) # "idle" =>
               \/ At(<<r, "main">>)' \in {"timed", "send", "gone"}
               \/ At(<<r, "main">>)' = "next" /\ Cx(<<r, "main">>)'.stop
    PROVE  \A q \in Procs \ S : Placed(q)'
<1> SUFFICES ASSUME NEW q \in Procs \ S PROVE Placed(q)'  OBVIOUS
<1>1. RqTypes /\ Apart /\ Placed(q)  BY DEF RqInv
<1>2. Undisturbed(Procs \ {q})  BY DEF Undisturbed
<1>3. \A u \in Procs \ S : At(u)' = At(u)  BY DEF At
<1>4. At(q) = "timed" => At(Child(q))' \notin {"idle", "gone"}
  <2> SUFFICES ASSUME At(q) = "timed" PROVE At(Child(q))' \notin {"idle", "gone"}  OBVIOUS
  <2>1. q[2] = "main" /\ q = <<q[1], q[2]>>  BY <1>1 DEF RqTypes, ChildPlaces, At, Procs, Sides
  <2>2. Child(q) \in Procs \ S  BY <2>1 DEF Procs, Sides, Child
  <2>3. At(Child(q)) \notin {"idle", "gone"}  BY <1>1 DEF Placed
  <2> QED BY <1>3, <2>2, <2>3
<1>5. q[2] = "child" /\ At(q) # "idle" =>
          \/ At(<<q[1], "main">>)' \in {"timed", "send", "gone"}
          \/ At(<<q[1], "main">>)' = "next" /\ Cx(<<q[1], "main">>)'.stop
  <2> SUFFICES ASSUME q[2] = "child", At(q) # "idle"
               PROVE  \/ At(<<q[1], "main">>)' \in {"timed", "send", "gone"}
                      \/ At(<<q[1], "main">>)' = "next" /\ Cx(<<q[1], "main">>)'.stop
    OBVIOUS
  <2>m. PICK m : m = <<q[1], "main">>  OBVIOUS
  <2>1. m \in Procs /\ q = <<q[1], "child">>  BY <2>m DEF Procs, Sides
  <2>2. CASE q[1] = r  BY <2>1, <2>2
  <2>3. CASE q[1] # r
    <3>1. m \in Procs \ S  BY <2>1, <2>3, <2>m
    <3>2. At(m) \in {"timed", "send", "gone"} \/ (At(m) = "next" /\ Cx(m).stop)  BY <1>1, <2>m DEF Placed
    <3>3. At(m) = "next" => proc[m].ctx # 0  BY <1>1, <2>1 DEF Apart
    <3>4. At(m)' \in {"timed", "send", "gone"} \/ (At(m)' = "next" /\ Cx(m)'.stop)  BY <1>3, <3>1, <3>2, <3>3
    <3> QED BY <2>m, <3>4
  <2> QED BY <2>2, <2>3
<1> QED BY <1>2, <1>4, <1>5, StaysPlaced

(* One more context, for one more that has begun.                          *)
LEMMA OneMore ==
    ASSUME NEW S, IsFiniteSet(S), NEW T, IsFiniteSet(T), Cardinality(S) <= Cardinality(T),
           NEW c, NEW U \in SUBSET (S \cup {c}), NEW r, r \notin T
    PROVE  Cardinality(U) <= Cardinality(T \cup {r})
<1>1. Cardinality(T \cup {r}) = Cardinality(T) + 1  BY FS_AddElement
<1>2. IsFiniteSet(S \cup {c}) /\ Cardinality(S \cup {c}) <= Cardinality(S) + 1
  <2>0. Cardinality(S) \in Nat  BY FS_CardinalityType
  <2>1. CASE c \in S
    <3>1. S \cup {c} = S  BY <2>1
    <3>2. Cardinality(S) <= Cardinality(S) + 1  BY <2>0
    <3> QED BY <3>1, <3>2
  <2>2. CASE c \notin S
    <3>1. IsFiniteSet(S \cup {c}) /\ Cardinality(S \cup {c}) = Cardinality(S) + 1  BY <2>2, FS_AddElement
    <3> QED BY <2>0, <3>1
  <2> QED BY <2>1, <2>2
<1>3. IsFiniteSet(U) /\ Cardinality(U) <= Cardinality(S \cup {c})  BY <1>2, FS_Subset
<1>4. Cardinality(U) \in Nat /\ Cardinality(S \cup {c}) \in Nat /\ Cardinality(S) \in Nat /\ Cardinality(T) \in Nat
  BY <1>2, <1>3, FS_CardinalityType
<1> QED BY <1>1, <1>2, <1>3, <1>4

\* The contexts and the requests are finite.
LEMMA ContextsFinite ==
    ASSUME RqTypes, NamesFit
    PROVE  IsFiniteSet(ctxPool \cup MainCtx) /\ IsFiniteSet(ChildCtx) /\ IsFiniteSet(Begun) /\ IsFiniteSet(Forked)
<1>1. IsFiniteSet(ContextNames) /\ IsFiniteSet(Visits)  BY WebRequestsAssumption DEF NamesFit
<1>2. \A q \in Procs : proc[q].ctx \in ContextNames \cup {0}  BY DEF RqTypes, ProcRec
<1>3. Visits \X {"main"} \subseteq Procs /\ Visits \X {"child"} \subseteq Procs  BY DEF Procs, Sides
<1>4. ctxPool \cup MainCtx \subseteq ContextNames /\ ChildCtx \subseteq ContextNames
  BY <1>2, <1>3 DEF RqTypes, MainCtx, ChildCtx
<1>5. Begun \subseteq Visits /\ Forked \subseteq Visits  BY DEF Begun, Forked
<1> QED BY <1>1, <1>4, <1>5, FS_Subset

-----------------------------------------------------------------------------
(* A request is served: where it begins.                                   *)
Served(r, c, x) ==
    /\ c \in ContextNames /\ c \notin CtxInUse /\ c # 0 /\ x \in ContextRec
    /\ ctxPool' = ctxPool \ {c}
    /\ context' = [context EXCEPT ![c] = x]
    /\ proc' = [proc EXCEPT ![<<r, "main">>].at = "next", ![<<r, "main">>].ctx = c]
    /\ x.left = Append(Route(r).wares, "handler") /\ x.handler = IF InSlot(r) THEN "slot" ELSE r
    /\ Fresh(r, x) /\ x.body \in {context[c].body, NoArray}
\* A request begins in a context of its own.
LEMMA ServedIs ==
    ASSUME RqInv, NamesFit, NEW r \in Visits, ServeHTTP(r)
    PROVE  \E c, x : Served(r, c, x)
<1>1. RqTypes /\ Apart /\ Enough /\ SiteFits  BY DEF RqInv
<1>2. At(<<r, "main">>) = "idle"  BY DEF ServeHTTP, At
<1>3. Unused \in ContextNames /\ Unused \notin CtxInUse \cup ctxPool  BY <1>1, <1>2, UnusedIsNew
<1>4. PICK c \in ctxPool \cup {Unused} :
        /\ ctxPool' = ctxPool \ {c}
        /\ context' = [context EXCEPT ![c] =
                [Acquired(c) EXCEPT !.left = Append(Route(r).wares, "handler"),
                                    !.handler = IF InSlot(r) THEN "slot" ELSE r,
                                    !.code = IF Route(r).handler = "notFound" THEN 404 ELSE @]]
        /\ proc' = [proc EXCEPT ![<<r, "main">>].at = "next", ![<<r, "main">>].ctx = c]
  BY DEF ServeHTTP
<1>5. c \in ContextNames /\ c \notin CtxInUse /\ c # 0
  <2>1. c \in ctxPool => c \in ContextNames /\ c \notin CtxInUse  BY <1>1 DEF RqTypes, Apart, CtxInUse
  <2> QED BY <1>3, <2>1, WebRequestsAssumption
<1>y. PICK y : y = Acquired(c)  OBVIOUS
<1>6. /\ y \in ContextRec /\ ~ y.stop /\ ~ y.full /\ y.render = NoArray /\ y.code = 0
      /\ y.body \in {context[c].body, NoArray}
  <2>1. CASE c \in ctxPool
    <3>1. y = [context[c] EXCEPT !.stop = FALSE]  BY <1>y, <2>1 DEF Acquired
    <3>2. context[c] \in ContextRec  BY <1>1, <1>5 DEF RqTypes
    <3>3. context[c].code = 0 /\ context[c].render = NoArray /\ ~ context[c].full  BY <2>1 DEF RqInv, Pooled
    <3> QED BY <3>1, <3>2, <3>3 DEF ContextRec
  <2>2. CASE c \notin ctxPool
    <3>1. y = NewContext  BY <1>y, <2>2 DEF Acquired
    <3>2. <<>> \in Seq(Wares \cup {"handler"}) /\ 0 \in Codes /\ NoArray \in OptArrays  BY DEF Codes, OptArrays
    <3> QED BY <3>1, <3>2 DEF NewContext, ContextRec
  <2> QED BY <2>1, <2>2
<1>s. PICK s : s = Append(Route(r).wares, "handler")  OBVIOUS
<1>h. PICK h : h = IF InSlot(r) THEN "slot" ELSE r  OBVIOUS
<1>k. PICK k : k = IF Route(r).handler = "notFound" THEN 404 ELSE y.code  OBVIOUS
<1>x. PICK x : x = [y EXCEPT !.left = s, !.handler = h, !.code = k]  OBVIOUS
<1>7. s \in Seq(Wares \cup {"handler"})  BY <1>1, <1>s, ChainBegins
<1>8. h \in Visits \cup {"slot", "none"}  BY <1>h
<1>9. k \in Codes /\ (k = 0 \/ (k = 404 /\ Route(r).handler = "notFound"))  BY <1>6, <1>k DEF Codes
<1>10. /\ x \in ContextRec /\ x.left = s /\ x.handler = h /\ x.code = k /\ x.stop = y.stop /\ x.render = y.render
       /\ x.body = y.body /\ x.full = y.full
  <2>1. y \in ContextRec  BY <1>6
  <2> QED BY <1>x, <1>7, <1>8, <1>9, <2>1 DEF ContextRec
<1>11. Fresh(r, x)  BY <1>6, <1>9, <1>10 DEF Fresh
<1>12. context' = [context EXCEPT ![c] = x]  BY <1>4, <1>y, <1>s, <1>h, <1>k, <1>x
<1>13. Served(r, c, x)  BY <1>4, <1>5, <1>6, <1>10, <1>11, <1>12, <1>s, <1>h DEF Served
<1> QED BY <1>13

LEMMA ServeHTTPKeeps == ASSUME RqInv, NamesFit, NEW r \in Visits, ServeHTTP(r) PROVE RqInv'
<1>cx. PICK c, x : Served(r, c, x)  BY ServedIs
<1>p. PICK p : p = <<r, "main">>  OBVIOUS
<1>pr. PICK pr : pr = [proc[p] EXCEPT !.at = "next", !.ctx = c]  OBVIOUS
<1>0. RqTypes /\ Apart /\ Enough /\ SiteFits  BY DEF RqInv
<1>1. /\ p \in Procs /\ p[1] = r /\ p[2] = "main" /\ Child(p) \in Procs /\ Child(p) # p /\ Child(p) = <<r, "child">>
      /\ proc[p] \in ProcRec
  BY <1>0, <1>p DEF Procs, Sides, Child, RqTypes
<1>2. /\ slot' = IF InSlot(r) THEN [slot EXCEPT ![Route(r).name] = r] ELSE slot
      /\ UNCHANGED <<site, bufferPool, bytesOf, stored, flight, sent>>
      /\ At(p) = "idle"
  BY <1>p DEF ServeHTTP, At
<1>3. /\ c \in ContextNames /\ c \notin CtxInUse /\ c # 0 /\ x \in ContextRec
      /\ ctxPool' = ctxPool \ {c} /\ context' = [context EXCEPT ![c] = x]
      /\ x.left = Append(Route(r).wares, "handler") /\ x.handler = IF InSlot(r) THEN "slot" ELSE r
      /\ Fresh(r, x) /\ x.body \in {context[c].body, NoArray}
  BY <1>cx DEF Served
<1>4. pr \in ProcRec /\ pr.at = "next" /\ pr.ctx = c /\ pr.frames = proc[p].frames
  BY <1>1, <1>3, <1>pr DEF ProcRec, MainPlaces
<1>5. proc' = [proc EXCEPT ![p] = pr]  BY <1>0, <1>cx, <1>p, <1>pr DEF Served, RqTypes
<1>6. /\ proc' \in [Procs -> ProcRec] /\ proc'[p] = pr
      /\ \A q \in Procs \ {p} : proc'[q] = proc[q]
      /\ \A q \in Procs : proc[q].ctx # c
      /\ context' \in [ContextNames -> ContextRec] /\ context'[c] = x
      /\ \A d \in ContextNames \ {c} : context'[d] = context[d]
  BY <1>0, <1>1, <1>3, <1>4, <1>5 DEF RqTypes, CtxInUse
<1>7. /\ Cx(p)' = x /\ At(p)' = "next"
      /\ \A q \in Procs \ {p} : At(q)' = At(q) /\ (proc[q].ctx # 0 => Cx(q)' = Cx(q))
  <2>1. \A q \in Procs : proc[q].ctx # 0 => proc[q].ctx \in ContextNames  BY <1>0 DEF RqTypes, ProcRec
  <2> QED BY <1>4, <1>6, <2>1 DEF Cx, At
<1>8. At(Child(p)) = "idle"  BY <1>1, <1>2, MainIdle
<1>9. SiteFits' /\ AnswersAreOwn' /\ StoredFit'
  <2>1. EntriesUndisturbed  BY <1>2, BytesSame
  <2> QED BY <1>0, <1>2, <2>1, SiteSame, StoredStays, AnswersStay
<1>10. RqTypes'
  <2>1. Route(r).name \in RouteNames /\ RouteNames' = RouteNames  BY <1>2, SiteSame DEF RouteNames
  <2>2. slot' \in [RouteNames -> Visits \cup {"none"}]  BY <1>0, <1>2, <2>1 DEF RqTypes
  <2>3. \A q \in Procs : proc'[q].at \in IF q[2] = "main" THEN MainPlaces ELSE ChildPlaces
    BY <1>0, <1>1, <1>4, <1>6 DEF RqTypes, MainPlaces
  <2> QED BY <1>0, <1>2, <1>3, <1>6, <2>1, <2>2, <2>3 DEF RqTypes, Arrays
<1>11. Apart'
  <2>1. \A q \in Procs : At(q)' = "idle" => proc'[q].ctx = 0  BY <1>0, <1>6, <1>7 DEF Apart
  <2>2. \A q \in Procs : At(q)' \notin {"idle", "gone"} => proc'[q].ctx # 0  BY <1>0, <1>3, <1>4, <1>6, <1>7 DEF Apart
  <2>3. \A q, u \in Procs : q # u /\ proc'[q].ctx # 0 => proc'[q].ctx # proc'[u].ctx  BY <1>0, <1>4, <1>6 DEF Apart
  <2>4. \A q \in Procs : proc'[q].ctx \notin ctxPool'  BY <1>0, <1>3, <1>4, <1>6 DEF Apart
  <2> QED BY <2>1, <2>2, <2>3, <2>4 DEF Apart
<1>12. Enough'
  <2>v. \A q \in Visits : <<q, "main">> \in Procs /\ <<q, "child">> \in Procs /\ <<q, "child">> # p  BY <1>p DEF Procs, Sides
  <2>1. Begun' = Begun \cup {r} /\ r \notin Begun
    <3>1. \A q \in Visits : <<q, "main">> = p <=> q = r  BY <1>p
    <3> QED BY <1>2, <1>7, <1>p, <2>v, <3>1 DEF Begun
  <2>2. Forked' = Forked  BY <1>7, <2>v DEF Forked
  <2>3. ChildCtx' = ChildCtx
    <3>1. \A q \in Visits \X {"child"} : q \in Procs \ {p}  BY <1>1 DEF Procs, Sides
    <3>2. {proc'[q].ctx : q \in Visits \X {"child"}} = {proc[q].ctx : q \in Visits \X {"child"}}  BY <1>6, <3>1
    <3> QED BY <3>2 DEF ChildCtx
  <2>4. MainCtx' \subseteq MainCtx \cup {c}
    <3>1. \A q \in Visits \X {"main"} : q \in Procs  BY DEF Procs, Sides
    <3>2. \A q \in Visits \X {"main"} : proc'[q].ctx = c \/ proc'[q].ctx = proc[q].ctx  BY <1>4, <1>6, <3>1
    <3> QED BY <3>2 DEF MainCtx
  <2>5. ctxPool' \cup MainCtx' \subseteq (ctxPool \cup MainCtx) \cup {c}  BY <1>3, <2>4
  <2>6. IsFiniteSet(ctxPool \cup MainCtx) /\ IsFiniteSet(Begun)  BY <1>0, ContextsFinite
  <2>12. Cardinality(ctxPool \cup MainCtx) <= Cardinality(Begun) /\ Cardinality(ChildCtx) <= Cardinality(Forked)
    BY <1>0 DEF Enough
  <2>13. Cardinality(ctxPool' \cup MainCtx') <= Cardinality(Begun')  BY <2>1, <2>5, <2>6, <2>12, OneMore
  <2> QED BY <2>2, <2>3, <2>12, <2>13 DEF Enough
<1>13. Chained'
  <2>0. /\ \A q : InSlot(q)' = InSlot(q) /\ Route(q)' = Route(q)
        /\ \A q, s : ChainOf(q, s)' = ChainOf(q, s)
    BY <1>2, SiteSame
  <2>1. /\ ChainOf(r, x.left)
        /\ x.handler = r \/ (x.handler = "slot" /\ InSlot(r) /\ slot'[Route(r).name] = r)
    <3>1. ChainOf(r, Append(Route(r).wares, "handler"))  BY <1>0, ChainBegins
    <3>2. Route(r).name \in RouteNames  BY DEF RouteNames
    <3>3. InSlot(r) => slot'[Route(r).name] = r  BY <1>0, <1>2, <3>2 DEF RqTypes
    <3> QED BY <1>3, <3>1, <3>3
  <2>2. \A q \in Visits : InSlot(q) /\ slot[Route(q).name] = q => slot'[Route(q).name] = q
    <3> SUFFICES ASSUME NEW q \in Visits, InSlot(q), slot[Route(q).name] = q PROVE slot'[Route(q).name] = q  OBVIOUS
    <3>1. Route(q).name = Route(r).name => q = r  BY <1>0 DEF SiteFits, OwnSlots
    <3>2. Route(q).name \in RouteNames  BY DEF RouteNames
    <3> QED BY <1>0, <1>2, <3>1, <3>2 DEF RqTypes
  <2> SUFFICES ASSUME NEW q \in Procs, proc'[q].ctx # 0
               PROVE  /\ ChainOf(q[1], Cx(q).left)'
                      /\ \/ Cx(q)'.handler = q[1]
                         \/ Cx(q)'.handler = "slot" /\ InSlot(q[1])' /\ slot'[Route(q[1])'.name] = q[1]
    BY DEF Chained
  <2>3. CASE q = p  BY <1>1, <1>7, <2>0, <2>1, <2>3
  <2>4. CASE q # p
    <3>1. Cx(q)' = Cx(q) /\ proc[q].ctx # 0 /\ q[1] \in Visits  BY <1>6, <1>7, <2>4 DEF Procs
    <3>2. /\ ChainOf(q[1], Cx(q).left)
          /\ \/ Cx(q).handler = q[1]
             \/ Cx(q).handler = "slot" /\ InSlot(q[1]) /\ slot[Route(q[1]).name] = q[1]
      BY <3>1 DEF RqInv, Chained
    <3> QED BY <2>0, <2>2, <3>1, <3>2
  <2> QED BY <2>3, <2>4
<1>14. Pooled'  BY <1>0, <1>3, <1>6 DEF RqInv, Pooled, RqTypes
<1>15. OwnRenders'
  <2>1. x.render = NoArray  BY <1>3 DEF Fresh
  <2> QED BY <1>2, <1>6, <1>7, <2>1, SiteSame DEF RqInv, OwnRenders
<1>16. ArraysApart'
  <2>1. ASSUME NoCache PROVE SingleBodies'
    <3>0. SingleBodies /\ \A q, a : OwnArray(q, a)' = OwnArray(q, a)  BY <1>2, <2>1, SiteSame DEF RqInv, ArraysApart
    <3>1. \A q \in Visits : <<q, "child">> \in Procs \ {p} /\ <<q, "main">> \in Procs /\ (<<q, "main">> = p => q = r)
      BY <1>p DEF Procs, Sides
    <3>2. \A q \in Visits : Over(q) => Over(q)'
      <4> SUFFICES ASSUME NEW q \in Visits, Over(q) PROVE Over(q)'  OBVIOUS
      <4>1. <<q, "main">> # p  BY <1>2 DEF Over
      <4> QED BY <1>7, <3>1, <4>1 DEF Over
    <3>3. \A d \in ContextNames : context'[d].body \in {context[d].body, NoArray}  BY <1>3, <1>6
    <3>4. NoArray # <<"copy", r>> /\ \A q : ~ OwnArray(q, NoArray) /\ NoArray # <<"copy", q>>  BY DEF OwnArray, NoArray
    <3>5. \A d, e \in ContextNames : context'[d].body = context'[e].body => d = e \/ context'[d].body = NoArray
      BY <3>0, <3>3 DEF SingleBodies
    <3>6. \A d \in ContextNames, q \in Visits : OwnArray(q, context'[d].body) => Over(q)'
      BY <3>0, <3>2, <3>3, <3>4 DEF SingleBodies
    <3>7. \A d \in ContextNames, q \in Visits : context'[d].body = <<"copy", q>> => At(<<q, "child">>)' = "gone"
      BY <1>7, <3>0, <3>1, <3>3, <3>4 DEF SingleBodies
    <3>8. ASSUME NEW q \in Procs, q[2] = "main", At(q)' = "next", Cx(q)'.render # NoArray PROVE At(Child(q))' \in {"idle", "panicked"}
      <4>1. q # p  BY <1>3, <1>7, <3>8 DEF Fresh
      <4>2. At(q) = "next" /\ Cx(q)' = Cx(q)
        <5>1. At(q) = "next"  BY <1>7, <3>8, <4>1
        <5> QED BY <1>0, <1>7, <4>1, <5>1 DEF Apart
      <4>3. At(Child(q)) \in {"idle", "panicked"}  BY <3>0, <3>8, <4>2 DEF SingleBodies
      <4>4. Child(q) \in Procs \ {p}  BY <1>p DEF Procs, Sides, Child
      <4> QED BY <1>7, <4>3, <4>4
    <3> QED BY <3>0, <3>5, <3>6, <3>7, <3>8 DEF SingleBodies
  <2>2. /\ NoTimeout => OnceWritten'
        /\ ~ NoCache /\ ~ NoTimeout => OneKind'
    BY <1>2, BytesSame
  <2>3. NoCache' = NoCache /\ NoTimeout' = NoTimeout  BY <1>2, SiteSame
  <2> QED BY <2>1, <2>2, <2>3 DEF ArraysApart
<1>17. Placed(p)'
  <2>1. AtNext(p)'
    <3>1. x.left # <<>>  BY <1>0, <1>3, ChainBegins
    <3>2. Fresh(r, x)'  BY <1>2, <1>3, SiteSame
    <3> QED BY <1>1, <1>7, <3>1, <3>2 DEF AtNext, Fresh
  <2>2. \A i \in DOMAIN proc'[p].frames : proc'[p].frames[i] = "cache" => Cached(p[1])'
    <3>1. proc'[p].frames = proc[p].frames  BY <1>4, <1>6
    <3>2. Cached(p[1])' = Cached(p[1])  BY <1>2, SiteSame
    <3>3. \A i \in DOMAIN proc[p].frames : proc[p].frames[i] = "cache" => Cached(p[1])  BY <1>1 DEF RqInv, Placed
    <3> QED BY <3>1, <3>2, <3>3
  <2> QED BY <1>1, <1>7, <2>1, <2>2 DEF Placed
<1>18. \A q \in Procs \ {p} : Placed(q)'
  <2>1. Undisturbed({p})  BY <1>2, BytesSame
  <2>2. \A q \in Procs \ {p} : proc'[q] = proc[q] /\ (proc[q].ctx # 0 => Cx(q)' = Cx(q))  BY <1>6, <1>7
  <2> QED BY <1>1, <1>2, <1>8, <1>p, <2>1, <2>2, RestPlaced
<1>19. \A q \in Procs : Placed(q)'  BY <1>17, <1>18
<1> QED BY <1>9, <1>10, <1>11, <1>12, <1>13, <1>14, <1>15, <1>16, <1>19 DEF RqInv

-----------------------------------------------------------------------------
(* The answer is sent, and the context goes back to the pool.              *)
\* What is sent is the request's own.
LEMMA SendsAnswer ==
    ASSUME RqInv, NEW p \in Procs, p[1] \in Visits, Sends(p)
    PROVE  AnswersAreOwn'
<1>y. PICK y : y = Cx(p)  OBVIOUS
<1>b. PICK b : b = IF y.full THEN bytesOf[y.body] ELSE "none"  OBVIOUS
<1>k. PICK k : k = IF proc[p].closing THEN 1 ELSE y.code  OBVIOUS
<1>s. PICK s : s = [code |-> k, body |-> b]  OBVIOUS
<1>0. At(p) = "send" /\ sent' = [sent EXCEPT ![p[1]] = s] /\ site' = site  BY <1>y, <1>b, <1>k, <1>s DEF Sends, At
<1>1. y.render = NoArray /\ (proc[p].closing \/ Settled(p[1], y))  BY <1>0, <1>y DEF RqInv, Placed
<1>2. \A r : Makers(r)' = Makers(r)  BY <1>0, SiteSame
<1>3. DOMAIN sent = Visits /\ AnswersAreOwn  BY DEF RqInv, RqTypes
<1>4. AnswerFits(p[1], s)
  <2>1. CASE proc[p].closing
    <3>1. s.code = 1  BY <1>k, <1>s, <2>1
    <3> QED BY <3>1 DEF AnswerFits
  <2>2. CASE ~ proc[p].closing
    <3>1. s.code = y.code /\ s.body = b  BY <1>k, <1>s, <2>2
    <3>2. IF y.full THEN FullFits(p[1], y.code, b) ELSE NoPage(p[1], y.code) /\ b = "none"
      BY <1>1, <1>b, <2>2 DEF Settled, Fit
    <3>3. FullFits(p[1], y.code, b) => AnswerFits(p[1], s)  BY <3>1 DEF FullFits, AnswerFits
    <3>4. NoPage(p[1], y.code) /\ b = "none" => AnswerFits(p[1], s)  BY <3>1 DEF NoPage, AnswerFits
    <3> QED BY <3>2, <3>3, <3>4
  <2> QED BY <2>1, <2>2
<1>5. \A r \in Visits : sent'[r] # NoAnswer => AnswerFits(r, sent'[r])
  BY <1>0, <1>3, <1>4 DEF AnswersAreOwn
<1> QED BY <1>2, <1>5 DEF AnswersAreOwn, AnswerFits

LEMMA SendsKeeps == ASSUME RqInv, NamesFit, NEW p \in Procs, Sends(p) PROVE RqInv'
<1>y. PICK y : y = Cx(p)  OBVIOUS
<1>c. PICK c : c = proc[p].ctx  OBVIOUS
<1>x. PICK x : x = Released(y)  OBVIOUS
<1>pr. PICK pr : pr = [Off EXCEPT !.at = "gone"]  OBVIOUS
<1>0. RqTypes /\ Apart /\ Enough /\ SiteFits  BY DEF RqInv
<1>1. At(p) = "send" /\ InUse(p)  BY DEF Sends, At, InUse
<1>2. p[1] \in Visits /\ p[2] = "main" /\ p = <<p[1], "main">> /\ Child(p) \in Procs /\ Child(p) # p
  <2>1. p[1] \in Visits /\ p[2] \in Sides /\ p = <<p[1], p[2]>>  BY DEF Procs
  <2>2. p[2] # "child"  BY <1>0, <1>1 DEF RqTypes, ChildPlaces, At
  <2>3. p[2] = "main"  BY <2>1, <2>2 DEF Sides
  <2> QED BY <2>1, <2>3 DEF Procs, Sides, Child
<1>3. c \in ContextNames /\ c # 0 /\ y = context[c] /\ y \in ContextRec  BY <1>0, <1>1, <1>c, <1>y, InUseHas
<1>4. /\ context' = [context EXCEPT ![c] = x] /\ ctxPool' = ctxPool \cup {c} /\ proc' = [proc EXCEPT ![p] = pr]
      /\ DOMAIN sent' = Visits
      /\ UNCHANGED <<site, slot, bufferPool, bytesOf, stored, flight>>
  BY <1>0, <1>y, <1>c, <1>x, <1>pr DEF Sends, RqTypes
<1>5. x \in ContextRec /\ x.body = y.body /\ x.code = 0 /\ x.render = NoArray /\ x.full = FALSE
  <2>1. <<>> \in Seq(Wares \cup {"handler"}) /\ 0 \in Codes /\ NoArray \in OptArrays  BY DEF Codes, OptArrays
  <2> QED BY <1>3, <1>x, <2>1 DEF Released, NewContext, ContextRec
<1>6. pr \in ProcRec /\ pr.at = "gone" /\ pr.ctx = 0 /\ pr.frames = <<>>
  <2>1. NoEntry \in Entries  BY DEF NoEntry, Entries, Codes, OptArrays
  <2>2. <<>> \in Seq({"recovery", "cache"})  OBVIOUS
  <2> QED BY <1>pr, <2>1, <2>2 DEF Off, ProcRec, MainPlaces
<1>7. /\ proc' \in [Procs -> ProcRec] /\ proc'[p] = pr
      /\ \A q \in Procs \ {p} : proc'[q] = proc[q] /\ proc[q].ctx # c
      /\ context' \in [ContextNames -> ContextRec] /\ context'[c] = x
      /\ \A d \in ContextNames \ {c} : context'[d] = context[d]
  BY <1>0, <1>3, <1>4, <1>5, <1>6, <1>c DEF RqTypes, Apart
<1>8. At(p)' = "gone" /\ \A q \in Procs \ {p} : At(q)' = At(q) /\ (proc[q].ctx # 0 => Cx(q)' = Cx(q))
  <2>1. \A q \in Procs : proc[q].ctx # 0 => proc[q].ctx \in ContextNames  BY <1>0 DEF RqTypes, ProcRec
  <2> QED BY <1>6, <1>7, <2>1 DEF Cx, At
<1>9. SiteFits' /\ AnswersAreOwn' /\ StoredFit'
  <2>1. EntriesUndisturbed  BY <1>4, BytesSame
  <2> QED BY <1>0, <1>2, <1>4, <2>1, SiteSame, StoredStays, SendsAnswer
<1>10. RqTypes'
  <2>1. RouteNames' = RouteNames  BY <1>4, SiteSame
  <2>2. \A q \in Procs : proc'[q].at \in IF q[2] = "main" THEN MainPlaces ELSE ChildPlaces
    BY <1>0, <1>2, <1>6, <1>7 DEF RqTypes, MainPlaces
  <2> QED BY <1>0, <1>3, <1>4, <1>7, <2>1, <2>2 DEF RqTypes, Arrays
<1>11. Apart'
  <2>1. \A q \in Procs : At(q)' = "idle" => proc'[q].ctx = 0  BY <1>0, <1>7, <1>8 DEF Apart
  <2>2. \A q \in Procs : At(q)' \notin {"idle", "gone"} => proc'[q].ctx # 0  BY <1>0, <1>7, <1>8 DEF Apart
  <2>3. \A q, u \in Procs : q # u /\ proc'[q].ctx # 0 => proc'[q].ctx # proc'[u].ctx  BY <1>0, <1>6, <1>7 DEF Apart
  <2>4. \A q \in Procs : proc'[q].ctx \notin ctxPool'
    <3>1. 0 \notin ctxPool /\ c # 0  BY <1>0, <1>3, WebRequestsAssumption DEF RqTypes
    <3> QED BY <1>0, <1>4, <1>6, <1>7, <3>1 DEF Apart
  <2> QED BY <2>1, <2>2, <2>3, <2>4 DEF Apart
<1>12. Enough'
  <2>v. \A q \in Visits : <<q, "main">> \in Procs /\ <<q, "child">> \in Procs /\ <<q, "child">> # p  BY <1>2 DEF Procs, Sides
  <2>1. Begun' = Begun /\ Forked' = Forked  BY <1>1, <1>8, <2>v DEF Begun, Forked
  <2>2. ChildCtx' = ChildCtx
    <3>1. \A q \in Visits \X {"child"} : q \in Procs \ {p}  BY <1>2 DEF Procs, Sides
    <3>2. {proc'[q].ctx : q \in Visits \X {"child"}} = {proc[q].ctx : q \in Visits \X {"child"}}  BY <1>7, <3>1
    <3> QED BY <3>2 DEF ChildCtx
  <2>3. MainCtx' \subseteq MainCtx /\ c \in MainCtx
    <3>1. \A q \in Visits \X {"main"} : q \in Procs  BY DEF Procs, Sides
    <3>2. \A q \in Visits \X {"main"} : proc'[q].ctx = 0 \/ proc'[q].ctx = proc[q].ctx  BY <1>6, <1>7, <3>1
    <3>3. p \in Visits \X {"main"}  BY <1>2
    <3> QED BY <1>3, <1>c, <3>2, <3>3 DEF MainCtx
  <2>4. ctxPool' \cup MainCtx' \subseteq ctxPool \cup MainCtx  BY <1>4, <2>3
  <2>5. IsFiniteSet(ctxPool \cup MainCtx) /\ IsFiniteSet(Begun)  BY <1>0, ContextsFinite
  <2>6. IsFiniteSet(ctxPool' \cup MainCtx') /\ Cardinality(ctxPool' \cup MainCtx') <= Cardinality(ctxPool \cup MainCtx)
    BY <2>4, <2>5, FS_Subset
  <2>7. /\ Cardinality(ctxPool' \cup MainCtx') \in Nat /\ Cardinality(ctxPool \cup MainCtx) \in Nat
        /\ Cardinality(Begun) \in Nat
    BY <2>5, <2>6, FS_CardinalityType
  <2>8. Cardinality(ctxPool \cup MainCtx) <= Cardinality(Begun) /\ Cardinality(ChildCtx) <= Cardinality(Forked)
    BY <1>0 DEF Enough
  <2>9. Cardinality(ctxPool' \cup MainCtx') <= Cardinality(Begun)  BY <2>6, <2>7, <2>8
  <2> QED BY <2>1, <2>2, <2>8, <2>9 DEF Enough
<1>13. Chained'
  <2>0. /\ \A q : InSlot(q)' = InSlot(q) /\ Route(q)' = Route(q)
        /\ \A q, s : ChainOf(q, s)' = ChainOf(q, s)
    BY <1>4, SiteSame
  <2> SUFFICES ASSUME NEW q \in Procs, proc'[q].ctx # 0
               PROVE  /\ ChainOf(q[1], Cx(q).left)'
                      /\ \/ Cx(q)'.handler = q[1]
                         \/ Cx(q)'.handler = "slot" /\ InSlot(q[1])' /\ slot'[Route(q[1])'.name] = q[1]
    BY DEF Chained
  <2>1. Cx(q)' = Cx(q) /\ proc[q].ctx # 0  BY <1>6, <1>7, <1>8
  <2>2. /\ ChainOf(q[1], Cx(q).left)
        /\ \/ Cx(q).handler = q[1]
           \/ Cx(q).handler = "slot" /\ InSlot(q[1]) /\ slot[Route(q[1]).name] = q[1]
    BY <2>1 DEF RqInv, Chained
  <2> QED BY <1>4, <2>0, <2>1, <2>2
<1>14. Pooled'  BY <1>0, <1>4, <1>5, <1>7 DEF RqInv, Pooled, RqTypes
<1>15. OwnRenders'  BY <1>4, <1>6, <1>7, <1>8, SiteSame DEF RqInv, OwnRenders
<1>16. ArraysApart'
  <2>1. ASSUME NoCache PROVE SingleBodies'
    <3>0. SingleBodies /\ \A q, a : OwnArray(q, a)' = OwnArray(q, a)  BY <1>4, <2>1, SiteSame DEF RqInv, ArraysApart
    <3>1. \A q \in Visits : <<q, "child">> \in Procs \ {p} /\ <<q, "main">> \in Procs  BY <1>2 DEF Procs, Sides
    <3>2. \A q \in Visits : Over(q) => Over(q)'  BY <1>8, <3>1 DEF Over
    <3>3. \A d \in ContextNames : context'[d].body = context[d].body  BY <1>3, <1>5, <1>7
    <3>4. ASSUME NEW q \in Procs, q[2] = "main", At(q)' = "next", Cx(q)'.render # NoArray PROVE At(Child(q))' \in {"idle", "panicked"}
      <4>1. q # p  BY <1>8, <3>4
      <4>2. At(q) = "next" /\ Cx(q)' = Cx(q)
        <5>1. At(q) = "next"  BY <1>8, <3>4, <4>1
        <5> QED BY <1>0, <1>8, <4>1, <5>1 DEF Apart
      <4>3. At(Child(q)) \in {"idle", "panicked"}  BY <3>0, <3>4, <4>2 DEF SingleBodies
      <4>4. Child(q) \in Procs \ {p}  BY <1>2 DEF Procs, Sides, Child
      <4> QED BY <1>8, <4>3, <4>4
    <3>5. \A d \in ContextNames, q \in Visits : OwnArray(q, context'[d].body) => Over(q)'  BY <3>0, <3>2, <3>3 DEF SingleBodies
    <3>6. \A d \in ContextNames, q \in Visits : context'[d].body = <<"copy", q>> => At(<<q, "child">>)' = "gone"
      BY <1>8, <3>0, <3>1, <3>3 DEF SingleBodies
    <3>7. \A d, e \in ContextNames : context'[d].body = context'[e].body => d = e \/ context'[d].body = NoArray
      BY <3>0, <3>3 DEF SingleBodies
    <3> QED BY <3>0, <3>4, <3>5, <3>6, <3>7 DEF SingleBodies
  <2>2. /\ NoTimeout => OnceWritten'
        /\ ~ NoCache /\ ~ NoTimeout => OneKind'
    BY <1>4, BytesSame
  <2>3. NoCache' = NoCache /\ NoTimeout' = NoTimeout  BY <1>4, SiteSame
  <2> QED BY <2>1, <2>2, <2>3 DEF ArraysApart
<1>17. Placed(p)'
  <2>1. DOMAIN proc'[p].frames = {}  BY <1>6, <1>7
  <2> QED BY <1>2, <1>8, <2>1 DEF Placed
<1>18. \A q \in Procs \ {p} : Placed(q)'
  <2>1. Undisturbed({p})  BY <1>4, BytesSame
  <2>2. \A q \in Procs \ {p} : proc'[q] = proc[q] /\ (proc[q].ctx # 0 => Cx(q)' = Cx(q))  BY <1>7, <1>8
  <2> QED BY <1>2, <1>4, <1>8, <2>1, <2>2, RestPlaced
<1>19. \A q \in Procs : Placed(q)'  BY <1>17, <1>18
<1> QED BY <1>9, <1>10, <1>11, <1>12, <1>13, <1>14, <1>15, <1>16, <1>19 DEF RqInv

-----------------------------------------------------------------------------
(* The timeout's copy of the context begins.                               *)
CopiedTo(p, c, x, z) ==
    /\ c \in ContextNames /\ c \notin CtxInUse \cup ctxPool /\ c # 0
    /\ x \in ContextRec /\ x.left = Tail(Cx(p).left) /\ x.handler = Cx(p).handler /\ x.body = Cx(p).body /\ Fresh(p[1], x)
    /\ z \in ContextRec /\ z.left = Tail(Cx(p).left) /\ z.handler = p[1] /\ z.body = NoArray /\ Fresh(p[1], z)
    /\ context' = [[context EXCEPT ![proc[p].ctx] = x] EXCEPT ![c] = z]
    /\ proc' = [proc EXCEPT ![p].at = "timed", ![Child(p)] = [Off EXCEPT !.at = "next", !.ctx = c]]
\* The copy is a context of its own.
LEMMA TimeoutBeginsDoes ==
    ASSUME RqInv, NamesFit, NEW p \in Procs, TimeoutBegins(p)
    PROVE  (\E c, x, z : CopiedTo(p, c, x, z)) /\ At(Child(p)) = "idle" /\ At(p) = "next" /\ p[2] = "main"
           /\ Timed(p[1]) /\ Cx(p).left # <<>> /\ Tail(Cx(p).left) # <<>>
<1>y. PICK y : y = Cx(p)  OBVIOUS
<1>t. PICK t : t = Tail(y.left)  OBVIOUS
<1>c. PICK c : c = Unused  OBVIOUS
<1>x. PICK x : x = [y EXCEPT !.left = t]  OBVIOUS
<1>z. PICK z : z = CloneOf(p)  OBVIOUS
<1>0. RqTypes /\ Apart /\ Enough /\ SiteFits  BY DEF RqInv
<1>1. Takes(p, "timeout") /\ p[2] = "main"  BY DEF TimeoutBegins
<1>2. /\ InUse(p) /\ At(p) = "next" /\ Maker(p) = p[1] /\ p[1] \in Visits
      /\ y \in ContextRec /\ y = context[proc[p].ctx]
      /\ y.left # <<>> /\ t \in Seq(Wares \cup {"handler"}) /\ t # <<>> /\ HasWare(p[1], "timeout")
      /\ Fresh(p[1], y) \/ (Early(p[1], y) /\ Fails(p[1]))
      /\ At(Child(p)) = "idle"
  BY <1>1, <1>y, <1>t, TakesHas
<1>3. Timed(p[1]) /\ Fresh(p[1], y)  BY <1>0, <1>2 DEF Timed, SiteFits, PanicsAlone
<1>4. c \in ContextNames /\ c \notin CtxInUse \cup ctxPool /\ c # 0
  <2>1. At(<<p[1], "child">>) = "idle"  BY <1>2 DEF Child
  <2>2. Unused \in ContextNames /\ Unused \notin CtxInUse \cup ctxPool  BY <1>0, <1>2, <2>1, UnusedIsNew
  <2> QED BY <1>c, <2>2, WebRequestsAssumption
<1>5. /\ x \in ContextRec /\ x.left = t /\ x.handler = y.handler /\ x.body = y.body /\ x.stop = y.stop /\ x.full = y.full
      /\ x.render = y.render /\ x.code = y.code
  <2>1. y \in ContextRec /\ t \in Seq(Wares \cup {"handler"})  BY <1>2
  <2> QED BY <1>x, <2>1 DEF ContextRec
<1>6. Fresh(p[1], x)  BY <1>3, <1>5 DEF Fresh
<1>7. z = [NewContext EXCEPT !.left = t, !.handler = p[1], !.code = y.code, !.render = y.render]
  BY <1>2, <1>t, <1>y, <1>z DEF CloneOf
<1>8. /\ z \in ContextRec /\ z.left = t /\ z.handler = p[1] /\ z.body = NoArray /\ z.stop = FALSE /\ z.full = FALSE
      /\ z.render = y.render /\ z.code = y.code
  <2>1. y.code \in Codes /\ y.render \in OptArrays /\ NoArray \in OptArrays  BY <1>2 DEF ContextRec, OptArrays
  <2>2. t \in Seq(Wares \cup {"handler"}) /\ p[1] \in Visits  BY <1>2
  <2> QED BY <1>7, <2>1, <2>2 DEF NewContext, ContextRec
<1>9. Fresh(p[1], z)  BY <1>3, <1>8 DEF Fresh
<1>10. /\ context' = [[context EXCEPT ![proc[p].ctx] = x] EXCEPT ![c] = z]
       /\ proc' = [proc EXCEPT ![p].at = "timed", ![Child(p)] = [Off EXCEPT !.at = "next", !.ctx = c]]
  <2>1. [context EXCEPT ![proc[p].ctx] = x] = Passes(p)  BY <1>2, <1>t, <1>x DEF Passes
  <2> QED BY <1>c, <1>z, <2>1 DEF TimeoutBegins
<1>11. CopiedTo(p, c, x, z)  BY <1>4, <1>5, <1>6, <1>8, <1>9, <1>10, <1>t, <1>y DEF CopiedTo
<1> QED BY <1>1, <1>2, <1>3, <1>11, <1>t, <1>y

LEMMA TimeoutBeginsKeeps == ASSUME RqInv, NamesFit, NEW p \in Procs, TimeoutBegins(p) PROVE RqInv'
<1>cx. PICK c, x, z : CopiedTo(p, c, x, z)  BY TimeoutBeginsDoes
<1>q. PICK q : q = Child(p)  OBVIOUS
<1>y. PICK y : y = Cx(p)  OBVIOUS
<1>t. PICK t : t = Tail(y.left)  OBVIOUS
<1>k. PICK k : k = proc[p].ctx  OBVIOUS
<1>pr. PICK pr : pr = [proc[p] EXCEPT !.at = "timed"]  OBVIOUS
<1>cr. PICK cr : cr = [Off EXCEPT !.at = "next", !.ctx = c]  OBVIOUS
<1>0. RqTypes /\ Apart /\ Enough /\ SiteFits  BY DEF RqInv
<1>1. /\ At(q) = "idle" /\ At(p) = "next" /\ p[2] = "main" /\ Timed(p[1]) /\ y.left # <<>> /\ t # <<>>
  BY <1>q, <1>y, <1>t, TimeoutBeginsDoes
<1>2. /\ p[1] \in Visits /\ p = <<p[1], "main">> /\ q = <<p[1], "child">> /\ q \in Procs /\ q # p /\ q[1] = p[1] /\ q[2] = "child"
  BY <1>1, <1>q DEF Procs, Sides, Child
<1>3. k \in ContextNames /\ k # 0 /\ y = context[k] /\ y \in ContextRec  BY <1>0, <1>1, <1>k, <1>y, InUseHas DEF InUse
<1>4. UNCHANGED <<site, slot, ctxPool, bufferPool, bytesOf, stored, flight, sent>>  BY DEF TimeoutBegins
<1>5. /\ c \in ContextNames /\ c \notin CtxInUse \cup ctxPool /\ c # 0 /\ c # k
      /\ x \in ContextRec /\ x.left = t /\ x.handler = y.handler /\ x.body = y.body /\ Fresh(p[1], x)
      /\ z \in ContextRec /\ z.left = t /\ z.handler = p[1] /\ z.body = NoArray /\ Fresh(p[1], z)
      /\ context' = [[context EXCEPT ![k] = x] EXCEPT ![c] = z]
      /\ proc' = [proc EXCEPT ![p].at = "timed", ![q] = cr]
  <2>1. k \in CtxInUse  BY <1>k DEF CtxInUse
  <2> QED BY <1>cx, <1>q, <1>y, <1>t, <1>k, <1>cr, <2>1 DEF CopiedTo
<1>6. proc[p] \in ProcRec  BY <1>0 DEF RqTypes
<1>7. pr \in ProcRec /\ pr.at = "timed" /\ pr.ctx = k /\ pr.frames = proc[p].frames
  BY <1>6, <1>k, <1>pr DEF ProcRec, MainPlaces
<1>8. cr \in ProcRec /\ cr.at = "next" /\ cr.ctx = c /\ cr.frames = <<>>
  <2>1. NoEntry \in Entries  BY DEF NoEntry, Entries, Codes, OptArrays
  <2>2. <<>> \in Seq({"recovery", "cache"})  OBVIOUS
  <2> QED BY <1>cr, <1>5, <2>1, <2>2 DEF Off, ProcRec, MainPlaces
<1>9. /\ proc' \in [Procs -> ProcRec] /\ proc'[p] = pr /\ proc'[q] = cr
      /\ \A u \in Procs \ {p, q} : proc'[u] = proc[u]
  <2>1. proc' = [[proc EXCEPT ![p] = pr] EXCEPT ![q] = cr]  BY <1>0, <1>2, <1>5, <1>pr DEF RqTypes
  <2> QED BY <1>0, <1>2, <1>7, <1>8, <2>1 DEF RqTypes
<1>10. /\ context' \in [ContextNames -> ContextRec] /\ context'[k] = x /\ context'[c] = z
       /\ \A d \in ContextNames \ {c, k} : context'[d] = context[d]
  BY <1>0, <1>3, <1>5 DEF RqTypes
<1>11. \A u \in Procs \ {p, q} : proc[u].ctx # c /\ proc[u].ctx # k /\ proc[q].ctx = 0
  <2>1. \A u \in Procs : proc[u].ctx # c  BY <1>5 DEF CtxInUse
  <2>2. \A u \in Procs \ {p} : proc[u].ctx # k  BY <1>0, <1>3, <1>k DEF Apart
  <2>3. proc[q].ctx = 0  BY <1>0, <1>1, <1>2 DEF Apart
  <2> QED BY <2>1, <2>2, <2>3
<1>12. /\ Cx(p)' = x /\ Cx(q)' = z /\ At(p)' = "timed" /\ At(q)' = "next"
       /\ \A u \in Procs \ {p, q} : At(u)' = At(u) /\ (proc[u].ctx # 0 => Cx(u)' = Cx(u))
  <2>1. \A u \in Procs : proc[u].ctx # 0 => proc[u].ctx \in ContextNames  BY <1>0 DEF RqTypes, ProcRec
  <2> QED BY <1>7, <1>8, <1>9, <1>10, <1>11, <2>1 DEF Cx, At
<1>13. SiteFits' /\ AnswersAreOwn' /\ StoredFit'
  <2>1. EntriesUndisturbed  BY <1>4, BytesSame
  <2> QED BY <1>0, <1>4, <2>1, SiteSame, StoredStays, AnswersStay
<1>14. RqTypes'
  <2>1. RouteNames' = RouteNames  BY <1>4, SiteSame
  <2>2. \A u \in Procs : proc'[u].at \in IF u[2] = "main" THEN MainPlaces ELSE ChildPlaces
    BY <1>0, <1>2, <1>7, <1>8, <1>9 DEF RqTypes, MainPlaces, ChildPlaces
  <2> QED BY <1>0, <1>4, <1>9, <1>10, <2>1, <2>2 DEF RqTypes, Arrays
<1>15. Apart'
  <2>1. \A u \in Procs : At(u)' = "idle" => proc'[u].ctx = 0  BY <1>0, <1>9, <1>12 DEF Apart
  <2>2. \A u \in Procs : At(u)' \notin {"idle", "gone"} => proc'[u].ctx # 0
    BY <1>0, <1>3, <1>5, <1>7, <1>8, <1>9, <1>12 DEF Apart
  <2>3. \A u, w \in Procs : u # w /\ proc'[u].ctx # 0 => proc'[u].ctx # proc'[w].ctx
    BY <1>0, <1>5, <1>7, <1>8, <1>9, <1>11 DEF Apart
  <2>4. \A u \in Procs : proc'[u].ctx \notin ctxPool'  BY <1>0, <1>4, <1>5, <1>7, <1>8, <1>9, <1>k DEF Apart
  <2> QED BY <2>1, <2>2, <2>3, <2>4 DEF Apart
<1>16. Enough'
  <2>v. \A u \in Visits : /\ <<u, "main">> \in Procs /\ <<u, "child">> \in Procs
                          /\ <<u, "main">> # q /\ <<u, "child">> # p /\ (<<u, "child">> = q <=> u = p[1])
    BY <1>2 DEF Procs, Sides
  <2>1. Forked' = Forked \cup {p[1]} /\ p[1] \notin Forked  BY <1>1, <1>2, <1>12, <2>v DEF Forked
  <2>2. Begun' = Begun
    <3>1. \A u \in Visits : At(<<u, "main">>)' # "idle" <=> At(<<u, "main">>) # "idle"  BY <1>1, <1>12, <2>v
    <3> QED BY <3>1 DEF Begun
  <2>3. MainCtx' = MainCtx
    <3>1. \A u \in Visits \X {"main"} : u \in Procs \ {q}  BY <1>2 DEF Procs, Sides
    <3>2. \A u \in Visits \X {"main"} : proc'[u].ctx = proc[u].ctx  BY <1>7, <1>9, <1>k, <3>1
    <3>3. {proc'[u].ctx : u \in Visits \X {"main"}} = {proc[u].ctx : u \in Visits \X {"main"}}  BY <3>2
    <3> QED BY <3>3 DEF MainCtx
  <2>4. ChildCtx' \subseteq ChildCtx \cup {c}
    <3>1. \A u \in Visits \X {"child"} : u \in Procs \ {p}  BY <1>2 DEF Procs, Sides
    <3>2. \A u \in Visits \X {"child"} : proc'[u].ctx = c \/ proc'[u].ctx = proc[u].ctx  BY <1>8, <1>9, <3>1
    <3> QED BY <3>2 DEF ChildCtx
  <2>5. IsFiniteSet(ChildCtx) /\ IsFiniteSet(Forked)  BY <1>0, ContextsFinite
  <2>6. Cardinality(ctxPool \cup MainCtx) <= Cardinality(Begun) /\ Cardinality(ChildCtx) <= Cardinality(Forked)
    BY <1>0 DEF Enough
  <2>7. Cardinality(ChildCtx') <= Cardinality(Forked')  BY <2>1, <2>4, <2>5, <2>6, OneMore
  <2> QED BY <1>4, <2>2, <2>3, <2>6, <2>7 DEF Enough
<1>17. Chained'
  <2>0. /\ \A u : InSlot(u)' = InSlot(u) /\ Route(u)' = Route(u)
        /\ \A u, s : ChainOf(u, s)' = ChainOf(u, s)
    BY <1>4, SiteSame
  <2>p. /\ ChainOf(p[1], y.left)
        /\ \/ y.handler = p[1]
           \/ y.handler = "slot" /\ InSlot(p[1]) /\ slot[Route(p[1]).name] = p[1]
    BY <1>3, <1>k, <1>y DEF RqInv, Chained
  <2>t. ChainOf(p[1], t)
    <3>1. y.left \in Seq(Wares \cup {"handler"})  BY <1>3 DEF ContextRec
    <3> QED BY <1>1, <1>t, <2>p, <3>1, ChainGoesOn
  <2> SUFFICES ASSUME NEW u \in Procs, proc'[u].ctx # 0
               PROVE  /\ ChainOf(u[1], Cx(u).left)'
                      /\ \/ Cx(u)'.handler = u[1]
                         \/ Cx(u)'.handler = "slot" /\ InSlot(u[1])' /\ slot'[Route(u[1])'.name] = u[1]
    BY DEF Chained
  <2>1. CASE u = p  BY <1>4, <1>5, <1>12, <2>0, <2>1, <2>p, <2>t
  <2>2. CASE u = q  BY <1>2, <1>5, <1>12, <2>0, <2>2, <2>t
  <2>3. CASE u \notin {p, q}
    <3>1. Cx(u)' = Cx(u) /\ proc[u].ctx # 0  BY <1>9, <1>12, <2>3
    <3>2. /\ ChainOf(u[1], Cx(u).left)
          /\ \/ Cx(u).handler = u[1]
             \/ Cx(u).handler = "slot" /\ InSlot(u[1]) /\ slot[Route(u[1]).name] = u[1]
      BY <3>1 DEF RqInv, Chained
    <3> QED BY <1>4, <2>0, <3>1, <3>2
  <2> QED BY <2>1, <2>2, <2>3
<1>18. Pooled'
  <2>1. \A d \in ctxPool : d \in ContextNames \ {c, k}  BY <1>0, <1>5, <1>k DEF Apart, RqTypes
  <2> QED BY <1>4, <1>10, <2>1 DEF RqInv, Pooled
<1>19. OwnRenders'
  <2>1. x.render = NoArray /\ z.render = NoArray  BY <1>5 DEF Fresh
  <2> QED BY <1>4, <1>9, <1>12, <2>1, SiteSame DEF RqInv, OwnRenders
<1>20. ArraysApart'
  <2>1. ASSUME NoCache PROVE SingleBodies'
    <3>0. SingleBodies /\ \A u, a : OwnArray(u, a)' = OwnArray(u, a)  BY <1>4, <2>1, SiteSame DEF RqInv, ArraysApart
    <3>1. \A u \in Visits : <<u, "child">> \in Procs \ {p} /\ <<u, "main">> \in Procs \ {q}  BY <1>2 DEF Procs, Sides
    <3>2. \A u \in Visits : Over(u) => Over(u)'
      <4> SUFFICES ASSUME NEW u \in Visits, Over(u) PROVE Over(u)'  OBVIOUS
      <4>1. u # p[1]  BY <1>1, <1>2 DEF Over
      <4>2. <<u, "main">> \in Procs \ {p, q} /\ <<u, "child">> \in Procs \ {p, q}  BY <1>2, <3>1, <4>1
      <4> QED BY <1>12, <4>2 DEF Over
    <3>3. \A d \in ContextNames : context'[d].body \in {context[d].body, NoArray}  BY <1>3, <1>5, <1>10
    <3>4. \A u : ~ OwnArray(u, NoArray) /\ NoArray # <<"copy", u>>  BY DEF OwnArray, NoArray
    <3>5. \A d, e \in ContextNames : context'[d].body = context'[e].body => d = e \/ context'[d].body = NoArray
      BY <3>0, <3>3 DEF SingleBodies
    <3>6. \A d \in ContextNames, u \in Visits : OwnArray(u, context'[d].body) => Over(u)'
      BY <3>0, <3>2, <3>3, <3>4 DEF SingleBodies
    <3>7. \A d \in ContextNames, u \in Visits : context'[d].body = <<"copy", u>> => At(<<u, "child">>)' = "gone"
      <4> SUFFICES ASSUME NEW d \in ContextNames, NEW u \in Visits, context'[d].body = <<"copy", u>>
                   PROVE  At(<<u, "child">>)' = "gone"
        OBVIOUS
      <4>1. At(<<u, "child">>) = "gone"  BY <3>0, <3>3, <3>4 DEF SingleBodies
      <4>2. <<u, "child">> \in Procs \ {p, q}  BY <1>1, <3>1, <4>1
      <4> QED BY <1>12, <4>1, <4>2
    <3>8. ASSUME NEW u \in Procs, u[2] = "main", At(u)' = "next", Cx(u)'.render # NoArray PROVE At(Child(u))' \in {"idle", "panicked"}
      <4>1. u \in Procs \ {p, q}  BY <1>2, <1>12, <3>8
      <4>2. At(u) = "next" /\ Cx(u)' = Cx(u)
        <5>1. At(u) = "next"  BY <1>12, <3>8, <4>1
        <5> QED BY <1>0, <1>12, <4>1, <5>1 DEF Apart
      <4>3. At(Child(u)) \in {"idle", "panicked"}  BY <3>0, <3>8, <4>2 DEF SingleBodies
      <4>4. Child(u) \in Procs \ {p, q}
        <5>1. u = <<u[1], "main">> /\ u[1] # p[1] /\ u[1] \in Visits  BY <1>2, <3>8, <4>1 DEF Procs, Sides
        <5> QED BY <1>2, <5>1 DEF Child, Procs, Sides
      <4> QED BY <1>12, <4>3, <4>4
    <3> QED BY <3>0, <3>5, <3>6, <3>7, <3>8 DEF SingleBodies
  <2>2. /\ NoTimeout => OnceWritten'
        /\ ~ NoCache /\ ~ NoTimeout => OneKind'
    BY <1>4, BytesSame
  <2>3. NoCache' = NoCache /\ NoTimeout' = NoTimeout  BY <1>4, SiteSame
  <2> QED BY <2>1, <2>2, <2>3 DEF ArraysApart
<1>21. Placed(p)'
  <2>1. Fresh(p[1], x)' /\ Timed(p[1])' /\ Cached(p[1])' = Cached(p[1])  BY <1>1, <1>4, <1>5, SiteSame
  <2>2. \A i \in DOMAIN proc'[p].frames : proc'[p].frames[i] = "cache" => Cached(p[1])'
    <3>1. proc'[p].frames = proc[p].frames  BY <1>7, <1>9
    <3>2. \A i \in DOMAIN proc[p].frames : proc[p].frames[i] = "cache" => Cached(p[1])  BY DEF RqInv, Placed
    <3> QED BY <2>1, <3>1, <3>2
  <2>3. Fresh(p[1], Cx(p))'  BY <1>12, <2>1 DEF Fresh
  <2>4. At(Child(p))' \notin {"idle", "gone"}  BY <1>12, <1>q
  <2> QED BY <1>1, <1>12, <2>1, <2>2, <2>3, <2>4 DEF Placed
<1>22. Placed(q)'
  <2>1. Fresh(q[1], z)' /\ Timed(q[1])'  BY <1>1, <1>2, <1>4, <1>5, SiteSame
  <2>2. AtNext(q)'  BY <1>1, <1>5, <1>12, <2>1 DEF AtNext, Fresh
  <2>3. DOMAIN proc'[q].frames = {}  BY <1>8, <1>9
  <2>4. At(<<q[1], "main">>)' = "timed"  BY <1>2, <1>12
  <2> QED BY <1>12, <2>1, <2>2, <2>3, <2>4 DEF Placed
<1>23. \A u \in Procs \ {p, q} : Placed(u)'
  <2>1. Undisturbed({p, q})  BY <1>4, BytesSame
  <2>2. \A u \in Procs \ {p, q} : proc'[u] = proc[u] /\ (proc[u].ctx # 0 => Cx(u)' = Cx(u))  BY <1>9, <1>12
  <2> QED BY <1>2, <1>4, <2>1, <2>2, RestPlaced
<1>24. \A u \in Procs : Placed(u)'  BY <1>21, <1>22, <1>23
<1> QED BY <1>13, <1>14, <1>15, <1>16, <1>17, <1>18, <1>19, <1>20, <1>24 DEF RqInv

-----------------------------------------------------------------------------
(* The copy of the context is done: what of it the context takes.          *)
CopiedBack(p, x, to) ==
    LET y == Cx(p)
        w == Cx(Child(p))
        from == PrevContent(w)
    IN  /\ x \in ContextRec /\ x.left = y.left /\ x.handler = y.handler /\ x.stop /\ x.render = NoArray
        /\ x.code = from.code /\ x.full = from.full /\ x.body = IF from.full THEN to ELSE y.body
        /\ to = IF y.body = NoArray THEN <<"copy", p[1]>> ELSE y.body
        /\ to \in Arrays
        /\ EntryFits(p[1], [code |-> from.code, array |-> from.body, full |-> from.full])
        /\ bytesOf' = IF from.full THEN [bytesOf EXCEPT ![to] = bytesOf[from.body]] ELSE bytesOf
        /\ context' = [context EXCEPT ![proc[p].ctx] = x]
        /\ proc' = [proc EXCEPT ![p].at = "next", ![Child(p)] = [Off EXCEPT !.at = "gone"]]
        /\ bufferPool' \subseteq Buffers
\* The copy has an answer when it is done.
LEMMA TimeoutDoneHas ==
    ASSUME RqInv, NEW p \in Procs, TimeoutDone(p)
    PROVE  /\ At(p) = "timed" /\ At(Child(p)) = "done" /\ p[2] = "main" /\ p[1] \in Visits /\ Child(p) \in Procs
           /\ InUse(p) /\ InUse(Child(p)) /\ Timed(p[1]) /\ Fresh(p[1], Cx(p)) /\ Settled(p[1], Cx(Child(p)))
           /\ Cx(p) \in ContextRec /\ Cx(Child(p)) \in ContextRec
<1>0. RqTypes /\ Apart /\ Placed(p)  BY DEF RqInv
<1>1. At(p) = "timed" /\ At(Child(p)) = "done"  BY DEF TimeoutDone, At
<1>2. p[1] \in Visits /\ p[2] \in Sides  BY DEF Procs
<1>3. p[2] = "main" /\ Child(p) \in Procs /\ Child(p)[1] = p[1]  BY <1>0, <1>1, <1>2 DEF RqTypes, ChildPlaces, At, Sides, Child, Procs
<1>4. InUse(p) /\ InUse(Child(p))  BY <1>1 DEF InUse
<1>5. Cx(p) \in ContextRec /\ Cx(Child(p)) \in ContextRec  BY <1>0, <1>3, <1>4, InUseHas
<1>6. Settled(p[1], Cx(Child(p)))  BY <1>1, <1>3 DEF RqInv, Placed
<1> QED BY <1>0, <1>1, <1>2, <1>3, <1>4, <1>5, <1>6 DEF Placed

\* The context takes it over.
LEMMA TimeoutDoneDoes ==
    ASSUME RqInv, NEW p \in Procs, TimeoutDone(p)
    PROVE  \E x, to : CopiedBack(p, x, to)
<1>y. PICK y : y = Cx(p)  OBVIOUS
<1>w. PICK w : w = Cx(Child(p))  OBVIOUS
<1>f. PICK from : from = PrevContent(w)  OBVIOUS
<1>to. PICK to : to = CopyTo(y, p[1])  OBVIOUS
<1>v. PICK v : v = [y EXCEPT !.code = from.code, !.full = from.full, !.body = IF from.full THEN to ELSE y.body]  OBVIOUS
<1>x. PICK x : x = Aborted(v, 0)  OBVIOUS
<1>0. RqTypes  BY DEF RqInv
<1>1. p[1] \in Visits /\ y \in ContextRec /\ w \in ContextRec /\ Fresh(p[1], y) /\ Settled(p[1], w)
  BY <1>y, <1>w, TimeoutDoneHas
<1>2. from \in ContextRec  BY <1>1, <1>f, PrevIs DEF Shows
<1>3. EntryFits(p[1], [code |-> from.code, array |-> from.body, full |-> from.full])  BY <1>1, <1>f, PrevSettles
<1>4. to \in Arrays /\ to = IF y.body = NoArray THEN <<"copy", p[1]>> ELSE y.body
  <2>1. y.body \in OptArrays  BY <1>1 DEF ContextRec
  <2>2. <<"copy", p[1]>> \in Arrays  BY <1>1 DEF Arrays
  <2> QED BY <1>to, <2>1, <2>2 DEF CopyTo, OptArrays
<1>5. /\ v \in ContextRec /\ v.left = y.left /\ v.handler = y.handler /\ v.render = y.render /\ v.stop = y.stop
      /\ v.code = from.code /\ v.full = from.full /\ v.body = IF from.full THEN to ELSE y.body
  <2>b. PICK b : b = IF from.full THEN to ELSE y.body  OBVIOUS
  <2>1. from.code \in Codes /\ from.full \in BOOLEAN /\ y \in ContextRec  BY <1>1, <1>2 DEF ContextRec
  <2>2. b \in OptArrays  BY <1>4, <2>1, <2>b DEF ContextRec, OptArrays
  <2>3. v = [y EXCEPT !.code = from.code, !.full = from.full, !.body = b]  BY <1>v, <2>b
  <2>4. /\ v \in ContextRec /\ v.left = y.left /\ v.handler = y.handler /\ v.render = y.render /\ v.stop = y.stop
        /\ v.code = from.code /\ v.full = from.full /\ v.body = b
    BY <2>1, <2>2, <2>3 DEF ContextRec
  <2> QED BY <2>4, <2>b
<1>6. /\ x \in ContextRec /\ x.stop = TRUE /\ x.left = v.left /\ x.handler = v.handler
      /\ x.render = v.render /\ x.body = v.body /\ x.full = v.full /\ x.code = v.code
  <2>1. v \in ContextRec  BY <1>5
  <2> QED BY <1>x, <2>1, ClosedIs
<1>7. y.render = NoArray  BY <1>1 DEF Fresh
<1>8. /\ bytesOf' = IF from.full THEN [bytesOf EXCEPT ![to] = bytesOf[from.body]] ELSE bytesOf
      /\ context' = [context EXCEPT ![proc[p].ctx] = x]
      /\ proc' = [proc EXCEPT ![p].at = "next", ![Child(p)] = [Off EXCEPT !.at = "gone"]]
      /\ bufferPool' = BuffersAfter(w)
  <2>1. v = [y EXCEPT !.code = from.code, !.full = from.full, !.body = IF from.full THEN to ELSE @]  BY <1>1, <1>v DEF ContextRec
  <2> QED BY <1>y, <1>w, <1>f, <1>to, <1>x, <2>1 DEF TimeoutDone
<1>9. bufferPool' \subseteq Buffers  BY <1>0, <1>1, <1>8, BuffersIn
<1>10. CopiedBack(p, x, to)
  BY <1>3, <1>4, <1>5, <1>6, <1>7, <1>8, <1>9, <1>y, <1>w, <1>f DEF CopiedBack
<1> QED BY <1>10

(* The bytes it is copied into are nobody else's, or of one kind with them. *)
LEMMA CopyDisturbs ==
    ASSUME RqInv, NEW p \in Procs, TimeoutDone(p), NEW to \in Arrays, to = CopyTo(Cx(p), p[1]),
           NEW code, NEW b, FullFits(p[1], code, b), bytesOf' = [bytesOf EXCEPT ![to] = b], site' = site
    PROVE  /\ Undisturbed({p, Child(p)}) /\ EntriesUndisturbed
           /\ NoTimeout => OnceWritten'
           /\ ~ NoCache /\ ~ NoTimeout => OneKind'
<1>y. PICK y : y = Cx(p)  OBVIOUS
<1>k. PICK k : k = proc[p].ctx  OBVIOUS
<1>0. RqTypes /\ Apart /\ SiteFits /\ DOMAIN bytesOf = Arrays  BY DEF RqInv, RqTypes
<1>1. /\ At(p) = "timed" /\ At(Child(p)) = "done" /\ p[1] \in Visits /\ Timed(p[1]) /\ p[2] = "main" /\ Child(p) \in Procs
      /\ InUse(p)
  BY TimeoutDoneHas
<1>2. k \in ContextNames /\ k # 0 /\ y = context[k]  BY <1>0, <1>1, <1>k, <1>y, InUseHas
<1>3. to = IF y.body = NoArray THEN <<"copy", p[1]>> ELSE y.body  BY <1>y DEF CopyTo
<1>4. ~ NoTimeout  BY <1>1 DEF NoTimeout
<1>5. \A a \in Arrays : bytesOf'[a] = IF a = to THEN b ELSE bytesOf[a]  BY <1>0
<1>6. CASE NoCache
  <2>1. SingleBodies  BY <1>6 DEF RqInv, ArraysApart
  <2>2. \A u \in Procs \ {p, Child(p)} : ~ Refers(u, to)
    <3> SUFFICES ASSUME NEW u \in Procs \ {p, Child(p)}, Refers(u, to) PROVE FALSE  OBVIOUS
    <3>1. /\ proc[u].ctx \in ContextNames
          /\ \/ At(u) \in {"next", "done"} /\ Cx(u).render = to /\ OwnArray(u[1], to)
             \/ context[proc[u].ctx].body = to
      BY <1>6, RefersBody
    <3>2. proc[u].ctx # k  BY <1>0, <1>2, <1>k DEF Apart
    <3>3. CASE y.body = NoArray
      <4>1. to = <<"copy", p[1]>>  BY <1>3, <3>3
      <4>2. ~ OwnArray(u[1], to)  BY <4>1 DEF OwnArray
      <4>3. context[proc[u].ctx].body = <<"copy", p[1]>>  BY <3>1, <4>1, <4>2
      <4>4. At(<<p[1], "child">>) = "gone"  BY <1>1, <2>1, <3>1, <4>3 DEF SingleBodies
      <4> QED BY <1>1, <4>4 DEF Child
    <3>4. CASE y.body # NoArray
      <4>1. to = context[k].body /\ context[k].body # NoArray  BY <1>2, <1>3, <3>4
      <4>2. CASE At(u) \in {"next", "done"} /\ OwnArray(u[1], to)
        <5>1. u[1] \in Visits /\ (u = <<u[1], "main">> \/ u = <<u[1], "child">>)  BY DEF Procs, Sides
        <5>2. Over(u[1])  BY <1>2, <2>1, <4>1, <4>2, <5>1 DEF SingleBodies
        <5> QED BY <4>2, <5>1, <5>2 DEF Over
      <4>3. CASE context[proc[u].ctx].body = to
        <5>1. context[proc[u].ctx].body = context[k].body  BY <4>1, <4>3
        <5> QED BY <1>2, <2>1, <3>1, <3>2, <4>1, <4>3, <5>1 DEF SingleBodies
      <4> QED BY <3>1, <4>2, <4>3
    <3> QED BY <3>3, <3>4
  <2>3. Undisturbed({p, Child(p)})  BY <1>5, <2>2 DEF Undisturbed
  <2>4. EntriesUndisturbed  BY <1>6, EntriesOfCached DEF EntriesUndisturbed
  <2> QED BY <1>4, <1>6, <2>3, <2>4
<1>7. CASE ~ NoCache
  <2>1. \A u, r \in Visits : Timed(u) /\ RouteBytes(u) = RouteBytes(r)  BY <1>0, <1>4, <1>7, OneRoute
  <2>2. b \in RouteBytes(p[1])  BY <1>0, <1>1, BytesOfRoute
  <2>3. \A r \in Visits : \A d, e : FullFits(r, d, e) => FullFits(r, d, b)
    <3> SUFFICES ASSUME NEW r \in Visits, NEW d, NEW e, FullFits(r, d, e) PROVE FullFits(r, d, b)  OBVIOUS
    <3>1. Timed(r) /\ b \in RouteBytes(r)  BY <1>1, <2>1, <2>2
    <3> QED BY <1>0, <3>1, BytesOfRoute
  <2>4. Undisturbed({p, Child(p)})
    <3>1. \A u \in Procs : u[1] \in Visits  BY DEF Procs
    <3> QED BY <1>5, <2>3, <3>1 DEF Undisturbed
  <2>5. EntriesUndisturbed
    <3> SUFFICES ASSUME NEW r \in Visits, NEW a \in Arrays, NEW d, FullFits(r, d, bytesOf[a]) PROVE FullFits(r, d, bytesOf'[a])
      BY DEF EntriesUndisturbed
    <3> QED BY <1>5, <2>3
  <2>6. OneKind'
    <3>1. OneKind  BY <1>4, <1>7 DEF RqInv, ArraysApart
    <3>2. \A a \in Arrays, r \in Visits : bytesOf'[a] \in {"none"} \cup RouteBytes(r)
      BY <1>1, <1>5, <2>1, <2>2, <3>1 DEF OneKind
    <3>3. \A r : RouteBytes(r)' = RouteBytes(r)  BY SiteSame
    <3> QED BY <3>2, <3>3 DEF OneKind, Arrays
  <2> QED BY <1>4, <2>4, <2>5, <2>6
<1> QED BY <1>6, <1>7

LEMMA TimeoutDoneKeeps == ASSUME RqInv, NamesFit, NEW p \in Procs, TimeoutDone(p) PROVE RqInv'
<1>xt. PICK x, to : CopiedBack(p, x, to)  BY TimeoutDoneDoes
<1>q. PICK q : q = Child(p)  OBVIOUS
<1>y. PICK y : y = Cx(p)  OBVIOUS
<1>f. PICK from : from = PrevContent(Cx(q))  OBVIOUS
<1>k. PICK k : k = proc[p].ctx  OBVIOUS
<1>pr. PICK pr : pr = [proc[p] EXCEPT !.at = "next"]  OBVIOUS
<1>cr. PICK cr : cr = [Off EXCEPT !.at = "gone"]  OBVIOUS
<1>0. RqTypes /\ Apart /\ Enough /\ SiteFits  BY DEF RqInv
<1>1. /\ At(p) = "timed" /\ At(q) = "done" /\ p[2] = "main" /\ p[1] \in Visits /\ q \in Procs
      /\ InUse(p) /\ Timed(p[1]) /\ Fresh(p[1], y) /\ y \in ContextRec
  BY <1>q, <1>y, TimeoutDoneHas
<1>2. /\ p = <<p[1], "main">> /\ q = <<p[1], "child">> /\ q # p /\ q[1] = p[1] /\ q[2] = "child"
  BY <1>1, <1>q DEF Procs, Child
<1>3. k \in ContextNames /\ k # 0 /\ y = context[k]  BY <1>0, <1>1, <1>k, <1>y, InUseHas
<1>4. UNCHANGED <<site, slot, ctxPool, stored, flight, sent>>  BY DEF TimeoutDone
<1>5. /\ x \in ContextRec /\ x.left = y.left /\ x.handler = y.handler /\ x.stop /\ x.render = NoArray
      /\ x.code = from.code /\ x.full = from.full /\ x.body = IF from.full THEN to ELSE y.body
      /\ to = IF y.body = NoArray THEN <<"copy", p[1]>> ELSE y.body
      /\ to \in Arrays
      /\ EntryFits(p[1], [code |-> from.code, array |-> from.body, full |-> from.full])
      /\ bytesOf' = IF from.full THEN [bytesOf EXCEPT ![to] = bytesOf[from.body]] ELSE bytesOf
      /\ context' = [context EXCEPT ![k] = x]
      /\ proc' = [proc EXCEPT ![p].at = "next", ![q] = cr]
      /\ bufferPool' \subseteq Buffers
  BY <1>xt, <1>q, <1>y, <1>f, <1>k, <1>cr DEF CopiedBack
<1>6. proc[p] \in ProcRec  BY <1>0 DEF RqTypes
<1>7. pr \in ProcRec /\ pr.at = "next" /\ pr.ctx = k /\ pr.frames = proc[p].frames
  BY <1>6, <1>k, <1>pr DEF ProcRec, MainPlaces
<1>8. cr \in ProcRec /\ cr.at = "gone" /\ cr.ctx = 0 /\ cr.frames = <<>>
  <2>1. NoEntry \in Entries  BY DEF NoEntry, Entries, Codes, OptArrays
  <2>2. <<>> \in Seq({"recovery", "cache"})  OBVIOUS
  <2> QED BY <1>cr, <2>1, <2>2 DEF Off, ProcRec, MainPlaces
<1>9. /\ proc' \in [Procs -> ProcRec] /\ proc'[p] = pr /\ proc'[q] = cr
      /\ \A u \in Procs \ {p, q} : proc'[u] = proc[u]
  <2>1. proc' = [[proc EXCEPT ![p] = pr] EXCEPT ![q] = cr]  BY <1>0, <1>2, <1>5, <1>pr DEF RqTypes
  <2> QED BY <1>0, <1>1, <1>2, <1>7, <1>8, <2>1 DEF RqTypes
<1>10. /\ context' \in [ContextNames -> ContextRec] /\ context'[k] = x
       /\ \A d \in ContextNames \ {k} : context'[d] = context[d]
  BY <1>0, <1>3, <1>5 DEF RqTypes
<1>11. \A u \in Procs \ {p} : proc[u].ctx # k  BY <1>0, <1>3, <1>k DEF Apart
<1>12. /\ Cx(p)' = x /\ At(p)' = "next" /\ At(q)' = "gone"
       /\ \A u \in Procs \ {p, q} : At(u)' = At(u) /\ (proc[u].ctx # 0 => Cx(u)' = Cx(u))
  <2>1. \A u \in Procs : proc[u].ctx # 0 => proc[u].ctx \in ContextNames  BY <1>0 DEF RqTypes, ProcRec
  <2> QED BY <1>7, <1>8, <1>9, <1>10, <1>11, <2>1 DEF Cx, At
<1>13. /\ Undisturbed({p, q}) /\ EntriesUndisturbed /\ DOMAIN bytesOf' = Arrays
       /\ NoTimeout => OnceWritten'
       /\ ~ NoCache /\ ~ NoTimeout => OneKind'
  <2>1. CASE from.full
    <3>b. PICK b : b = bytesOf[from.body]  OBVIOUS
    <3>1. bytesOf' = [bytesOf EXCEPT ![to] = b]  BY <1>5, <2>1, <3>b
    <3>2. FullFits(p[1], from.code, b)  BY <1>5, <2>1, <3>b DEF EntryFits, Fit
    <3>3. to = CopyTo(Cx(p), p[1]) /\ to \in Arrays  BY <1>5, <1>y DEF CopyTo
    <3>4. DOMAIN bytesOf' = Arrays  BY <1>0, <3>1 DEF RqTypes
    <3> QED BY <1>4, <1>q, <3>1, <3>2, <3>3, <3>4, CopyDisturbs
  <2>2. CASE ~ from.full
    <3>1. bytesOf' = bytesOf  BY <1>5, <2>2
    <3> QED BY <1>4, <3>1, BytesSame
  <2> QED BY <2>1, <2>2
<1>14. SiteFits' /\ AnswersAreOwn' /\ StoredFit'  BY <1>0, <1>4, <1>13, SiteSame, StoredStays, AnswersStay
<1>15. RqTypes'
  <2>1. RouteNames' = RouteNames  BY <1>4, SiteSame
  <2>2. \A u \in Procs : proc'[u].at \in IF u[2] = "main" THEN MainPlaces ELSE ChildPlaces
    BY <1>0, <1>1, <1>2, <1>7, <1>8, <1>9 DEF RqTypes, MainPlaces, ChildPlaces
  <2> QED BY <1>0, <1>4, <1>5, <1>9, <1>10, <1>13, <2>1, <2>2 DEF RqTypes, Arrays
<1>16. Apart'
  <2>1. \A u \in Procs : At(u)' = "idle" => proc'[u].ctx = 0  BY <1>0, <1>9, <1>12 DEF Apart
  <2>2. \A u \in Procs : At(u)' \notin {"idle", "gone"} => proc'[u].ctx # 0  BY <1>0, <1>3, <1>7, <1>9, <1>12 DEF Apart
  <2>3. \A u, w \in Procs : u # w /\ proc'[u].ctx # 0 => proc'[u].ctx # proc'[w].ctx
    BY <1>0, <1>3, <1>7, <1>8, <1>9, <1>11 DEF Apart
  <2>4. \A u \in Procs : proc'[u].ctx \notin ctxPool'
    <3>1. 0 \notin ctxPool  BY <1>0, WebRequestsAssumption DEF RqTypes
    <3> QED BY <1>0, <1>4, <1>7, <1>8, <1>9, <1>k, <3>1 DEF Apart
  <2> QED BY <2>1, <2>2, <2>3, <2>4 DEF Apart
<1>17. Enough'
  <2>v. \A u \in Visits : /\ <<u, "main">> \in Procs /\ <<u, "child">> \in Procs
                          /\ <<u, "main">> # q /\ <<u, "child">> # p
    BY <1>2 DEF Procs, Sides
  <2>1. Forked' = Forked
    <3>1. \A u \in Visits : At(<<u, "child">>)' # "idle" <=> At(<<u, "child">>) # "idle"  BY <1>1, <1>12, <2>v
    <3> QED BY <3>1 DEF Forked
  <2>2. Begun' = Begun
    <3>1. \A u \in Visits : At(<<u, "main">>)' # "idle" <=> At(<<u, "main">>) # "idle"  BY <1>1, <1>12, <2>v
    <3> QED BY <3>1 DEF Begun
  <2>3. MainCtx' = MainCtx
    <3>1. \A u \in Visits \X {"main"} : u \in Procs \ {q}  BY <1>2 DEF Procs, Sides
    <3>2. \A u \in Visits \X {"main"} : proc'[u].ctx = proc[u].ctx  BY <1>7, <1>9, <1>k, <3>1
    <3>3. {proc'[u].ctx : u \in Visits \X {"main"}} = {proc[u].ctx : u \in Visits \X {"main"}}  BY <3>2
    <3> QED BY <3>3 DEF MainCtx
  <2>4. ChildCtx' \subseteq ChildCtx
    <3>1. \A u \in Visits \X {"child"} : u \in Procs \ {p}  BY <1>2 DEF Procs, Sides
    <3>2. \A u \in Visits \X {"child"} : proc'[u].ctx = 0 \/ proc'[u].ctx = proc[u].ctx  BY <1>8, <1>9, <3>1
    <3> QED BY <3>2 DEF ChildCtx
  <2>5. IsFiniteSet(ChildCtx) /\ IsFiniteSet(Forked)  BY <1>0, ContextsFinite
  <2>6. Cardinality(ctxPool \cup MainCtx) <= Cardinality(Begun) /\ Cardinality(ChildCtx) <= Cardinality(Forked)
    BY <1>0 DEF Enough
  <2>7. IsFiniteSet(ChildCtx') /\ Cardinality(ChildCtx') <= Cardinality(ChildCtx)  BY <2>4, <2>5, FS_Subset
  <2>8. Cardinality(ChildCtx') \in Nat /\ Cardinality(ChildCtx) \in Nat /\ Cardinality(Forked) \in Nat
    BY <2>5, <2>7, FS_CardinalityType
  <2>9. Cardinality(ChildCtx') <= Cardinality(Forked)  BY <2>6, <2>7, <2>8
  <2> QED BY <1>4, <2>1, <2>2, <2>3, <2>6, <2>9 DEF Enough
<1>18. Chained'
  <2>0. /\ \A u : InSlot(u)' = InSlot(u) /\ Route(u)' = Route(u)
        /\ \A u, s : ChainOf(u, s)' = ChainOf(u, s)
    BY <1>4, SiteSame
  <2>p. /\ ChainOf(p[1], y.left)
        /\ \/ y.handler = p[1]
           \/ y.handler = "slot" /\ InSlot(p[1]) /\ slot[Route(p[1]).name] = p[1]
    BY <1>3, <1>k, <1>y DEF RqInv, Chained
  <2> SUFFICES ASSUME NEW u \in Procs, proc'[u].ctx # 0
               PROVE  /\ ChainOf(u[1], Cx(u).left)'
                      /\ \/ Cx(u)'.handler = u[1]
                         \/ Cx(u)'.handler = "slot" /\ InSlot(u[1])' /\ slot'[Route(u[1])'.name] = u[1]
    BY DEF Chained
  <2>1. CASE u = p  BY <1>4, <1>5, <1>12, <2>0, <2>1, <2>p
  <2>2. CASE u = q  BY <1>8, <1>9, <2>2
  <2>3. CASE u \notin {p, q}
    <3>1. Cx(u)' = Cx(u) /\ proc[u].ctx # 0  BY <1>9, <1>12, <2>3
    <3>2. /\ ChainOf(u[1], Cx(u).left)
          /\ \/ Cx(u).handler = u[1]
             \/ Cx(u).handler = "slot" /\ InSlot(u[1]) /\ slot[Route(u[1]).name] = u[1]
      BY <3>1 DEF RqInv, Chained
    <3> QED BY <1>4, <2>0, <3>1, <3>2
  <2> QED BY <2>1, <2>2, <2>3
<1>19. Pooled'
  <2>1. \A d \in ctxPool : d \in ContextNames \ {k}  BY <1>0, <1>k DEF Apart, RqTypes
  <2> QED BY <1>4, <1>10, <2>1 DEF RqInv, Pooled
<1>20. OwnRenders'
  <2>1. \A r, a : OwnArray(r, a)' = OwnArray(r, a)  BY <1>4, SiteSame
  <2> SUFFICES ASSUME NEW u \in Procs, proc'[u].ctx # 0 PROVE Cx(u)'.render = NoArray \/ OwnArray(u[1], Cx(u)'.render)
    BY <2>1 DEF OwnRenders
  <2>2. u # q  BY <1>8, <1>9
  <2>3. CASE u = p  BY <1>5, <1>12, <2>3
  <2>4. CASE u # p  BY <1>9, <1>12, <2>2, <2>4 DEF RqInv, OwnRenders
  <2> QED BY <2>3, <2>4
<1>21. ArraysApart'
  <2>1. ASSUME NoCache PROVE SingleBodies'
    <3>0. SingleBodies /\ \A u, a : OwnArray(u, a)' = OwnArray(u, a)  BY <1>4, <2>1, SiteSame DEF RqInv, ArraysApart
    <3>1. \A u \in Visits : <<u, "child">> \in Procs \ {p} /\ <<u, "main">> \in Procs \ {q}  BY <1>2 DEF Procs, Sides
    <3>2. \A u \in Visits : Over(u) => Over(u)' /\ u # p[1]
      <4> SUFFICES ASSUME NEW u \in Visits, Over(u) PROVE Over(u)' /\ u # p[1]  OBVIOUS
      <4>1. u # p[1]  BY <1>1, <1>2 DEF Over
      <4>2. <<u, "main">> \in Procs \ {p, q} /\ <<u, "child">> \in Procs \ {p, q}  BY <1>2, <3>1, <4>1
      <4> QED BY <1>12, <4>1, <4>2 DEF Over
    <3>3. \A u \in Visits : At(<<u, "child">>) = "gone" \/ u = p[1] => At(<<u, "child">>)' = "gone"
      <4> SUFFICES ASSUME NEW u \in Visits, At(<<u, "child">>) = "gone" \/ u = p[1] PROVE At(<<u, "child">>)' = "gone"  OBVIOUS
      <4>1. CASE u = p[1]  BY <1>2, <1>12, <4>1
      <4>2. CASE u # p[1]
        <5>1. <<u, "child">> \in Procs \ {p, q}  BY <1>2, <3>1, <4>2
        <5> QED BY <1>12, <4>2, <5>1
      <4> QED BY <4>1, <4>2
    <3>4. /\ \A d, e \in ContextNames : context'[d].body = context'[e].body => d = e \/ context'[d].body = NoArray
          /\ \A d \in ContextNames, u \in Visits : OwnArray(u, context'[d].body) => Over(u)'
          /\ \A d \in ContextNames, u \in Visits : context'[d].body = <<"copy", u>> => At(<<u, "child">>)' = "gone"
      <4>1. CASE x.body = y.body
        <5>1. \A d \in ContextNames : context'[d].body = context[d].body  BY <1>3, <1>10, <4>1
        <5> QED BY <3>0, <3>2, <3>3, <5>1 DEF SingleBodies
      <4>2. CASE x.body # y.body
        <5>1. x.body = <<"copy", p[1]>>  BY <1>5, <4>2
        <5>2. \A d \in ContextNames : context[d].body # <<"copy", p[1]>>  BY <1>1, <1>2, <3>0 DEF SingleBodies
        <5>3. \A u : ~ OwnArray(u, <<"copy", p[1]>>) /\ (<<"copy", p[1]>> = <<"copy", u>> => u = p[1])  BY DEF OwnArray
        <5>4. \A d \in ContextNames : context'[d].body = IF d = k THEN <<"copy", p[1]>> ELSE context[d].body
          BY <1>10, <5>1
        <5>5. \A d, e \in ContextNames : context'[d].body = context'[e].body => d = e \/ context'[d].body = NoArray
          BY <3>0, <5>2, <5>4 DEF SingleBodies
        <5>6. \A d \in ContextNames, u \in Visits : OwnArray(u, context'[d].body) => Over(u)'
          BY <3>0, <3>2, <5>3, <5>4 DEF SingleBodies
        <5>7. \A d \in ContextNames, u \in Visits : context'[d].body = <<"copy", u>> => At(<<u, "child">>)' = "gone"
          BY <3>0, <3>3, <5>3, <5>4 DEF SingleBodies
        <5> QED BY <5>5, <5>6, <5>7
      <4> QED BY <4>1, <4>2
    <3>5. ASSUME NEW u \in Procs, u[2] = "main", At(u)' = "next", Cx(u)'.render # NoArray PROVE At(Child(u))' \in {"idle", "panicked"}
      <4>1. u \in Procs \ {p, q}  BY <1>2, <1>5, <1>12, <3>5
      <4>2. At(u) = "next" /\ Cx(u)' = Cx(u)
        <5>1. At(u) = "next"  BY <1>12, <3>5, <4>1
        <5> QED BY <1>0, <1>12, <4>1, <5>1 DEF Apart
      <4>3. At(Child(u)) \in {"idle", "panicked"}  BY <3>0, <3>5, <4>2 DEF SingleBodies
      <4>4. Child(u) \in Procs \ {p, q}
        <5>1. u = <<u[1], "main">> /\ u[1] # p[1] /\ u[1] \in Visits  BY <1>2, <3>5, <4>1 DEF Procs, Sides
        <5> QED BY <1>2, <5>1 DEF Child, Procs, Sides
      <4> QED BY <1>12, <4>3, <4>4
    <3> QED BY <3>0, <3>4, <3>5 DEF SingleBodies
  <2>3. NoCache' = NoCache /\ NoTimeout' = NoTimeout  BY <1>4, SiteSame
  <2> QED BY <1>13, <2>1, <2>3 DEF ArraysApart
<1>22. Placed(p)'
  <2>1. Settled(p[1], x)'
    <3>1. CASE from.full
      <4>b. PICK b : b = bytesOf[from.body]  OBVIOUS
      <4>code. PICK code : code = from.code  OBVIOUS
      <4>1. bytesOf'[to] = b  BY <1>0, <1>5, <3>1, <4>b DEF RqTypes
      <4>2. FullFits(p[1], code, b)  BY <1>5, <3>1, <4>b, <4>code DEF EntryFits, Fit
      <4>3. FullFits(p[1], code, b)'  BY <1>4, <4>2, SiteSame
      <4>4. Fit(p[1], code, to)'  BY <1>5, <4>1, <4>3 DEF Fit, Arrays, FullFits
      <4>5. x.full /\ x.render = NoArray /\ x.body = to /\ x.code = code  BY <1>5, <3>1, <4>code
      <4> QED BY <4>4, <4>5 DEF Settled, Fit
    <3>2. CASE ~ from.full
      <4>1. NoPage(p[1], from.code)'  BY <1>4, <1>5, <3>2, SiteSame DEF EntryFits
      <4> QED BY <1>5, <3>2, <4>1 DEF Settled
    <3> QED BY <3>1, <3>2
  <2>2. AtNext(p)'  BY <1>5, <1>12, <2>1 DEF AtNext, Settled
  <2>3. \A i \in DOMAIN proc'[p].frames : proc'[p].frames[i] = "cache" => Cached(p[1])'
    <3>1. proc'[p].frames = proc[p].frames  BY <1>7, <1>9
    <3>2. \A i \in DOMAIN proc[p].frames : proc[p].frames[i] = "cache" => Cached(p[1])  BY DEF RqInv, Placed
    <3> QED BY <1>4, <3>1, <3>2, SiteSame
  <2> QED BY <1>1, <1>12, <2>2, <2>3 DEF Placed
<1>23. Placed(q)'
  <2>1. DOMAIN proc'[q].frames = {}  BY <1>8, <1>9
  <2>2. Timed(q[1])'  BY <1>1, <1>2, <1>4, SiteSame
  <2>3. At(<<q[1], "main">>)' = "next" /\ Cx(<<q[1], "main">>)'.stop  BY <1>2, <1>5, <1>12
  <2> QED BY <1>12, <2>1, <2>2, <2>3 DEF Placed
<1>24. \A u \in Procs \ {p, q} : Placed(u)'
  <2>2. \A u \in Procs \ {p, q} : proc'[u] = proc[u] /\ (proc[u].ctx # 0 => Cx(u)' = Cx(u))  BY <1>9, <1>12
  <2> QED BY <1>1, <1>2, <1>4, <1>13, <2>2, RestPlaced
<1>25. \A u \in Procs : Placed(u)'  BY <1>22, <1>23, <1>24
<1> QED BY <1>14, <1>15, <1>16, <1>17, <1>18, <1>19, <1>20, <1>21, <1>25 DEF RqInv

-----------------------------------------------------------------------------
\* The invariant holds initially, while nothing happens, and behind every step.
LEMMA RqInvBegins == ASSUME RqInit, SiteFits, NamesFit PROVE RqInv
<1>1. /\ slot = [n \in RouteNames |-> "none"] /\ ctxPool = {} /\ bufferPool = {}
      /\ context = [c \in ContextNames |-> NewContext] /\ bytesOf = [a \in Arrays |-> "none"]
      /\ stored = [n \in RouteNames |-> NoEntry] /\ flight = [n \in RouteNames |-> <<"none", "none">>]
      /\ proc = [p \in Procs |-> Off] /\ sent = [r \in Visits |-> NoAnswer]
  BY DEF RqInit
<1>2. NewContext \in ContextRec /\ NoEntry \in Entries /\ Off \in ProcRec
  <2>1. /\ <<>> \in Seq(Wares \cup {"handler"}) /\ <<>> \in Seq({"recovery", "cache"})
        /\ 0 \in Codes /\ NoArray \in OptArrays
    BY DEF Codes, OptArrays
  <2>2. NoEntry \in Entries  BY <2>1 DEF NoEntry, Entries
  <2> QED BY <2>1, <2>2 DEF NewContext, ContextRec, Off, ProcRec, MainPlaces
<1>3. \A p \in Procs : proc[p] = Off /\ At(p) = "idle" /\ proc[p].ctx = 0 /\ proc[p].frames = <<>>
  BY <1>1 DEF Off, At
<1>4. \A r \in Visits : /\ <<r, "main">> \in Procs /\ <<r, "child">> \in Procs
                        /\ At(<<r, "main">>) = "idle" /\ At(<<r, "child">>) = "idle"
  BY <1>3 DEF Procs, Sides
<1>5. RqTypes
  <2>1. \A p \in Procs : proc[p].at \in IF p[2] = "main" THEN MainPlaces ELSE ChildPlaces
    BY <1>3 DEF At, MainPlaces, ChildPlaces
  <2> QED BY <1>1, <1>2, <2>1 DEF RqTypes
<1>6. Apart  BY <1>1, <1>3 DEF Apart
<1>7. Enough
  <2>1. MainCtx = {} /\ ChildCtx = {}
    <3>1. \A q \in (Visits \X {"main"}) \cup (Visits \X {"child"}) : q \in Procs  BY DEF Procs, Sides
    <3> QED BY <1>3, <3>1 DEF MainCtx, ChildCtx
  <2>2. Begun = {} /\ Forked = {}  BY <1>4 DEF Begun, Forked
  <2>3. ctxPool \cup MainCtx = {}  BY <1>1, <2>1
  <2>4. Cardinality({}) = 0  BY FS_EmptySet
  <2> QED BY <2>1, <2>2, <2>3, <2>4 DEF Enough
<1>8. Chained /\ OwnRenders  BY <1>3 DEF Chained, OwnRenders
<1>9. StoredFit
  <2>1. \A r \in Visits : Route(r).name \in RouteNames  BY DEF RouteNames
  <2> QED BY <1>1, <2>1 DEF StoredFit
<1>10. Pooled  BY <1>1 DEF Pooled
<1>11. ArraysApart
  <2>1. SingleBodies
    <3>1. \A c \in ContextNames : context[c].body = NoArray  BY <1>1 DEF NewContext
    <3>2. \A r : ~ OwnArray(r, NoArray) /\ NoArray # <<"copy", r>>  BY DEF OwnArray, NoArray
    <3> QED BY <1>3, <3>1, <3>2 DEF SingleBodies
  <2> QED BY <1>1, <2>1 DEF ArraysApart, OnceWritten, OneKind
<1>12. \A p \in Procs : Placed(p)
  <2> SUFFICES ASSUME NEW p \in Procs PROVE Placed(p)  OBVIOUS
  <2>1. DOMAIN proc[p].frames = {}  BY <1>3
  <2> QED BY <1>3, <2>1 DEF Placed
<1>13. AnswersAreOwn  BY <1>1 DEF AnswersAreOwn
<1> QED BY <1>5, <1>6, <1>7, <1>8, <1>9, <1>10, <1>11, <1>12, <1>13 DEF RqInv

LEMMA RqInvStutters == ASSUME RqInv, UNCHANGED rqVars PROVE RqInv'
<1>0. UNCHANGED <<site, slot, ctxPool, context, bufferPool, bytesOf, stored, flight, proc, sent>>  BY DEF rqVars
<1>1. \A u : At(u)' = At(u) /\ Cx(u)' = Cx(u)  BY <1>0 DEF At, Cx
<1>2. /\ \A S : Undisturbed(S)
      /\ EntriesUndisturbed /\ DOMAIN bytesOf' = Arrays
      /\ NoTimeout => OnceWritten'
      /\ ~ NoCache /\ ~ NoTimeout => OneKind'
  BY <1>0, BytesSame
<1>3. StoredFit' /\ AnswersAreOwn'  BY <1>0, <1>2, StoredStays, AnswersStay
<1>4. \A q \in Procs : Placed(q)'
  <2> SUFFICES ASSUME NEW q \in Procs PROVE Placed(q)'  OBVIOUS
  <2>1. Placed(q)  BY DEF RqInv
  <2>2. /\ At(q) = "timed" => At(Child(q))' \notin {"idle", "gone"}
        /\ q[2] = "child" /\ At(q) # "idle" =>
               \/ At(<<q[1], "main">>)' \in {"timed", "send", "gone"}
               \/ At(<<q[1], "main">>)' = "next" /\ Cx(<<q[1], "main">>)'.stop
    BY <1>1, <2>1 DEF Placed
  <2> QED BY <1>0, <1>1, <1>2, <2>2, StaysPlaced
<1>5. RqTypes'  BY <1>0, SiteSame DEF RqInv, RqTypes, Arrays
<1>6. SiteFits' /\ Apart' /\ Enough'
  BY <1>0, SiteSame DEF RqInv, Apart, Enough, MainCtx, ChildCtx, Begun, Forked, At
<1>7. Chained' /\ Pooled' /\ OwnRenders'  BY <1>0, <1>1, SiteSame DEF RqInv, Chained, Pooled, OwnRenders
<1>8. ArraysApart'
  <2>1. \A r, a : OwnArray(r, a)' = OwnArray(r, a)  BY <1>0, SiteSame
  <2>2. SingleBodies => SingleBodies'  BY <1>0, <1>1, <2>1 DEF SingleBodies, Over
  <2> QED BY <1>0, <1>2, <2>2, SiteSame DEF RqInv, ArraysApart
<1> QED BY <1>3, <1>4, <1>5, <1>6, <1>7, <1>8 DEF RqInv

LEMMA RqInvStep == ASSUME RqInv, NamesFit, [RqNext]_rqVars PROVE RqInv'
<1>1. CASE \E r \in Visits : ServeHTTP(r)  BY <1>1, ServeHTTPKeeps
<1>2. CASE \E n \in RouteNames : CacheExpires(n)  BY <1>2, CacheExpiresKeeps
<1>3. CASE UNCHANGED rqVars  BY <1>3, RqInvStutters
<1>4. CASE \E p \in Procs : RqGoes(p)
  <2>1. PICK p \in Procs : RqGoes(p)  BY <1>4
  <2>2. CASE PassesOn(p) \/ Aborts(p) \/ Recovery(p)  BY <2>2, PassesOnKeeps, AbortsKeeps, RecoveryKeeps
  <2>3. CASE HandlerRenders(p) \/ HandlerWrites(p) \/ HandlerErrs(p)
    BY <2>3, HandlerRendersKeeps, HandlerWritesKeeps, HandlerErrsKeeps
  <2>4. CASE HandlerPanics(p) \/ WarePanics(p) \/ CachePanics(p) \/ TimeoutPanics(p)
    BY <2>4, HandlerPanicsKeeps, CachePanicsKeeps, TimeoutPanicsKeeps
  <2>5. CASE CacheGet(p) \/ CacheDo(p) \/ CacheSet(p) \/ CacheGot(p)
    BY <2>5, CacheGetKeeps, CacheDoKeeps, CacheSetKeeps, CacheGotKeeps
  <2>6. CASE TimeoutBegins(p) \/ ChildEnds(p) \/ TimeoutDone(p) \/ TimeoutFires(p)
    BY <2>6, TimeoutBeginsKeeps, ChildEndsKeeps, TimeoutDoneKeeps, TimeoutFiresKeeps
  <2>7. CASE RecoveryEnds(p) \/ Written(p) \/ Sends(p)  BY <2>7, RecoveryEndsKeeps, WrittenKeeps, SendsKeeps
  <2> QED BY <2>1, <2>2, <2>3, <2>4, <2>5, <2>6, <2>7 DEF RqGoes
<1> QED BY <1>1, <1>2, <1>3, <1>4 DEF RqNext

(* The property of run sync_all, for every site that fits: what is sent for *)
(* a request is the code and the bytes its own chain made, whatever other   *)
(* requests, pooled contexts and buffers, cache entries and timeouts do     *)
(* (router.go, context.go, cache.go, timeout.go).                           *)
THEOREM AnswersStayOwn == ASSUME NamesFit PROVE RqSpec /\ SiteFits => []AnswersAreOwn
<1>1. RqInit /\ SiteFits => RqInv  BY RqInvBegins
<1>2. RqInv /\ [RqNext]_rqVars => RqInv'  BY RqInvStep
<1>3. RqInv => AnswersAreOwn  BY DEF RqInv
<1> QED BY <1>1, <1>2, <1>3, PTL DEF RqSpec
=============================================================================
