---------------------------- MODULE WebRequests ----------------------------
(***************************************************************************)
(* What becomes of requests in znet: pooled contexts and the chain of      *)
(* middleware (router.go, utils.go, context.go, render.go), Recovery       *)
(* (handler.go), the response cache (cache/cache.go) and the timeout       *)
(* (timeout/timeout.go, context_clone.go).  Bodies are arrays of bytes    *)
(* that several may lead to; what is in one is the request it is for.      *)
(***************************************************************************)
EXTENDS Integers, Sequences, FiniteSets
LOCAL INSTANCE SequencesExt

CONSTANTS
    Visits,         \* requests
    Sites,          \* what each is for: the route's name, wares, pattern and handler
    Buffers,        \* buffers of bufferPool
    ContextNames    \* names of contexts, in the pool or not

ASSUME WebRequestsAssumption == ContextNames \subseteq Nat \ {0} /\ IsFiniteSet(ContextNames)

VARIABLES
    site,       \* which of Sites it is
    slot,       \* slot[n]: the handler in the spare element behind a route's middleware
    ctxPool,    \* contexts in Engine.pool
    context,    \* the contexts: chain left and its handler, stopHandle, code, render, body
    bufferPool,
    bytesOf,    \* what is in an array
    stored, flight, \* the response cache: its entries, and the leader
                \* of the call for a key
    proc,       \* where the goroutine of a request, or of its timeout, is: at, ctx,
                \* frames, what ProvideGet gave it
    sent        \* sent[r]: the answer

rqVars == <<site, slot, ctxPool, context, bufferPool, bytesOf, stored, flight, proc, sent>>

Sides == {"main", "child"}
Procs == Visits \X Sides
Arrays == ({"render", "copy", "error"} \X Visits) \cup ({"buffer"} \X Buffers)
NoArray == <<"none", "none">>
NoEntry == [code |-> 0, array |-> NoArray, full |-> FALSE]
NewContext ==
    [left |-> <<>>, handler |-> "none", stop |-> FALSE, code |-> 0, render |-> NoArray,
     body |-> NoArray, full |-> FALSE]
Off == [at |-> "idle", ctx |-> 0, frames |-> <<>>, closing |-> FALSE, got |-> NoEntry]
NoAnswer == [code |-> 0, body |-> "none"]

Route(r) == site[r]
RouteNames == {Route(r).name : r \in Visits}
Cx(p) == context[proc[p].ctx]
Child(p) == <<p[1], "child">>

RqInit ==
    /\ site \in Sites
    /\ slot = [n \in RouteNames |-> "none"]
    /\ ctxPool = {} /\ bufferPool = {}
    /\ context = [c \in ContextNames |-> NewContext]
    /\ bytesOf = [a \in Arrays |-> "none"]
    /\ stored = [n \in RouteNames |-> NoEntry]
    /\ flight = [n \in RouteNames |-> <<"none", "none">>]
    /\ proc = [p \in Procs |-> Off]
    /\ sent = [r \in Visits |-> NoAnswer]

-----------------------------------------------------------------------------
\* A node's middleware is appended to nothing: Go rounds the room up to a size class.
HasSpare(n) == n >= 5 /\ n % 2 = 1

CtxInUse == {proc[p].ctx : p \in Procs}
Unused == CHOOSE c \in ContextNames : c \notin CtxInUse \cup ctxPool

(* ServeHTTP up to the call of Next: a context, the route, and handleAction, *)
(* which appends the handler to the middleware of the node.  The handler of  *)
(* a pattern is made for the request, with its parameters.                   *)
KeptStopped(c) == IF c \in ctxPool THEN context[c] ELSE NewContext   \* mutant: stopHandle is not reset
Acquired(c) == IF c \in ctxPool THEN [context[c] EXCEPT !.stop = FALSE] ELSE NewContext
InSlot(r) == Route(r).pattern /\ HasSpare(Len(Route(r).wares))
ServeHTTP(r) ==
    LET p == <<r, "main">> IN
    /\ proc[p].at = "idle"
    /\ \E c \in ctxPool \cup {Unused} :
        /\ ctxPool' = ctxPool \ {c}
        /\ context' = [context EXCEPT ![c] =
                [Acquired(c) EXCEPT !.left = Append(Route(r).wares, "handler"),
                                    !.handler = IF InSlot(r) THEN "slot" ELSE r,
                                    !.code = IF Route(r).handler = "notFound" THEN 404 ELSE @]]
        /\ proc' = [proc EXCEPT ![p].at = "next", ![p].ctx = c]
    /\ slot' = IF InSlot(r) THEN [slot EXCEPT ![Route(r).name] = r] ELSE slot
    /\ UNCHANGED <<site, bufferPool, bytesOf, stored, flight, sent>>

\* Context.renderProcessing: nothing more once aborted with a code.
Rendered(x, code, array) == IF x.stop /\ x.code # 0 THEN x ELSE [x EXCEPT !.code = code, !.render = array]
Aborted(x, code) == IF x.stop THEN x ELSE [x EXCEPT !.stop = TRUE, !.code = IF code = 0 THEN @ ELSE code]

\* Context.PrevContent: the render's bytes; a buffer goes back to its pool with it.
PrevContent(x) == IF x.render = NoArray THEN x ELSE [x EXCEPT !.body = x.render, !.full = TRUE, !.render = NoArray]
BuffersAfter(x) == IF x.render[1] = "buffer" THEN bufferPool \cup {x.render[2]} ELSE bufferPool

-----------------------------------------------------------------------------
\* Context.Next takes the first of what is left, unless it is stopped.
Takes(p, what) ==
    /\ proc[p].at = "next" /\ ~ Cx(p).stop /\ Cx(p).left # <<>>
    /\ Head(Cx(p).left) = what
Passes(p) == [context EXCEPT ![proc[p].ctx].left = Tail(@)]
Becomes(p, x) == [context EXCEPT ![proc[p].ctx] = [x EXCEPT !.left = Tail(Cx(p).left)]]

\* A middleware that does nothing but go on.
PassesOn(p) ==
    /\ Takes(p, "plain")
    /\ context' = Passes(p)
    /\ UNCHANGED <<site, slot, ctxPool, bufferPool, bytesOf, stored, flight, proc, sent>>

\* One that aborts with a code.
Aborts(p) ==
    /\ Takes(p, "aborts")
    /\ context' = Becomes(p, Aborted(Cx(p), 403))
    /\ UNCHANGED <<site, slot, ctxPool, bufferPool, bytesOf, stored, flight, proc, sent>>

\* Recovery calls Next itself.
Recovery(p) ==
    /\ Takes(p, "recovery")
    /\ context' = Passes(p)
    /\ proc' = [proc EXCEPT ![p].frames = Append(@, "recovery")]
    /\ UNCHANGED <<site, slot, ctxPool, bufferPool, bytesOf, stored, flight, sent>>

(* The handler: it renders bytes of its own, or writes into a buffer of the    *)
(* pool, or fails.  Whose handler it is, is read from the chain only now.   *)
Maker(p) == IF Cx(p).handler = "slot" THEN slot[Route(p[1]).name] ELSE Cx(p).handler
HandlerRenders(p) ==
    LET kind == Route(p[1]).handler
        a == <<"render", p[1]>>
    IN  /\ Takes(p, "handler") /\ kind \in {"renders", "notFound"}
        /\ bytesOf' = [bytesOf EXCEPT ![a] = Maker(p)]
        /\ context' = Becomes(p, Rendered(Cx(p), IF kind = "notFound" THEN 404 ELSE 200, a))
        /\ UNCHANGED <<site, slot, ctxPool, bufferPool, stored, flight, proc, sent>>
HandlerWrites(p) ==
    /\ Takes(p, "handler") /\ Route(p[1]).handler = "writes"
    /\ \E b \in Buffers :
        /\ b \in bufferPool \/ \A c \in CtxInUse \ {0} : context[c].render # <<"buffer", b>>
        /\ bufferPool' = bufferPool \ {b}
        /\ bytesOf' = [bytesOf EXCEPT ![<<"buffer", b>>] = Maker(p)]
        /\ context' = Becomes(p, Rendered(Cx(p), 200, <<"buffer", b>>))
    /\ UNCHANGED <<site, slot, ctxPool, stored, flight, proc, sent>>
ErrorPage(p) == [bytesOf EXCEPT ![<<"error", p[1]>>] = "error"]
HandlerErrs(p) ==
    /\ Takes(p, "handler") /\ Route(p[1]).handler = "errs"
    /\ bytesOf' = ErrorPage(p)
    /\ context' = Becomes(p, Aborted(Rendered(Cx(p), 500, <<"error", p[1]>>), 0))
    /\ UNCHANGED <<site, slot, ctxPool, bufferPool, stored, flight, proc, sent>>

-----------------------------------------------------------------------------
\* Who waits for the leader of a call of ProvideGet gets what it got.
Handed(leader, how, e) ==
    [p \in Procs |-> IF proc[p].at = "waits" /\ p # leader /\ Route(p[1]).name = Route(leader[1]).name
                     THEN [proc[p] EXCEPT !.at = how, !.got = e] ELSE proc[p]]
NoFlight(p) == [flight EXCEPT ![Route(p[1]).name] = <<"none", "none">>]

(* A panic unwinds to the nearest Recovery, which renders it; the Next that *)
(* called Recovery goes on with what is left.  Without one it ends the      *)
(* child of a timeout, or runs ServeHTTP's deferred write.                  *)
Unwinds(p, at, x) ==
    LET frames == proc[p].frames
        caught == {i \in DOMAIN frames : frames[i] = "recovery"}
        to == IF caught = {} THEN 0 ELSE CHOOSE i \in caught : \A j \in caught : j <= i
        leads == flight[Route(p[1]).name] = p /\ \E i \in to + 1..Len(frames) : frames[i] = "cache"
        others == IF leads THEN Handed(p, "panics", NoEntry) ELSE proc
    IN  /\ flight' = IF leads THEN NoFlight(p) ELSE flight
        /\ \/ /\ to # 0
              /\ proc' = [others EXCEPT ![p].at = "next", ![p].frames = SubSeq(@, 1, to - 1)]
              /\ bytesOf' = ErrorPage(p)
              /\ context' = [context EXCEPT ![proc[p].ctx] = Rendered(x, 500, <<"error", p[1]>>)]
           \/ /\ to = 0
              /\ proc' = [others EXCEPT ![p].frames = <<>>, ![p].closing = TRUE,
                            ![p].at = IF p[2] = "child" THEN "panicked"
                                      ELSE IF proc[p].closing THEN "gone" ELSE "next"]
              /\ context' = [context EXCEPT ![proc[p].ctx] = x]
              /\ bytesOf' = bytesOf
        /\ UNCHANGED <<site, slot, ctxPool, bufferPool, stored, sent>>
HandlerPanics(p) ==
    /\ Takes(p, "handler") /\ Route(p[1]).handler = "panics"
    /\ Unwinds(p, "next", [Cx(p) EXCEPT !.left = Tail(@)])
WarePanics(p) ==
    /\ Takes(p, "panics")
    /\ Unwinds(p, "next", [Cx(p) EXCEPT !.left = Tail(@)])

-----------------------------------------------------------------------------
\* The response cache: an entry is used, and the request aborted with it.
UsedEntry(x, e) == Aborted([x EXCEPT !.code = e.code, !.body = e.array, !.full = e.full], 0)
CacheGet(p) ==
    /\ Takes(p, "cache")
    /\ LET e == stored[Route(p[1]).name]
       IN  IF e # NoEntry
           THEN context' = Becomes(p, UsedEntry(Cx(p), e)) /\ proc' = proc
           ELSE context' = Passes(p) /\ proc' = [proc EXCEPT ![p].at = "missed"]
    /\ UNCHANGED <<site, slot, ctxPool, bufferPool, bytesOf, stored, flight, sent>>

\* singleflight.Group.Do: the first leads, and calls Next; the others wait.
CacheDo(p) ==
    LET n == Route(p[1]).name IN
    /\ proc[p].at = "missed"
    /\ \/ /\ flight[n][1] = "none"
          /\ flight' = [flight EXCEPT ![n] = p]
          /\ proc' = [proc EXCEPT ![p].at = "next", ![p].frames = Append(@, "cache")]
       \/ /\ flight[n][1] # "none"
          /\ proc' = [proc EXCEPT ![p].at = "waits"]
          /\ flight' = flight
    /\ UNCHANGED <<site, slot, ctxPool, context, bufferPool, bytesOf, stored, sent>>

\* Next comes back to the leader.
NextEnds(p) == proc[p].at = "next" /\ (Cx(p).stop \/ Cx(p).left = <<>>)
CacheSet(p) ==
    LET frames == proc[p].frames
        x == PrevContent(Cx(p))
        e == [code |-> x.code, array |-> x.body, full |-> x.full]
        n == Route(p[1]).name
    IN  /\ NextEnds(p) /\ frames # <<>> /\ Last(frames) = "cache"
        /\ bufferPool' = BuffersAfter(Cx(p))
        /\ flight' = NoFlight(p)
        /\ proc' = [Handed(p, IF x.code # 0 THEN "got" ELSE "next", e) EXCEPT ![p].frames = Front(@)]
        /\ stored' = IF x.code # 0 THEN [stored EXCEPT ![n] = e] ELSE stored
        /\ context' = [context EXCEPT ![proc[p].ctx] = IF x.code # 0 THEN Aborted(x, 0) ELSE x]
        /\ UNCHANGED <<site, slot, ctxPool, bytesOf, sent>>
CacheGot(p) ==
    /\ proc[p].at = "got"
    /\ context' = [context EXCEPT ![proc[p].ctx] = UsedEntry(@, proc[p].got)]
    /\ proc' = [proc EXCEPT ![p].at = "next", ![p].got = NoEntry]
    /\ UNCHANGED <<site, slot, ctxPool, bufferPool, bytesOf, stored, flight, sent>>
CachePanics(p) == proc[p].at = "panics" /\ Unwinds(p, "panics", Cx(p))
CacheExpires(n) ==
    /\ stored[n] # NoEntry
    /\ stored' = [stored EXCEPT ![n] = NoEntry]
    /\ UNCHANGED <<site, slot, ctxPool, context, bufferPool, bytesOf, flight, proc, sent>>

-----------------------------------------------------------------------------
\* The timeout: a copy of the context runs the rest of the chain in a goroutine.
CloneOf(p) ==
    [NewContext EXCEPT !.left = Tail(Cx(p).left), !.handler = Maker(p),
                       !.code = Cx(p).code, !.render = Cx(p).render]
TimeoutBegins(p) ==
    /\ Takes(p, "timeout") /\ p[2] = "main"
    /\ LET c == Unused IN
        /\ context' = [Passes(p) EXCEPT ![c] = CloneOf(p)]
        /\ proc' = [proc EXCEPT ![p].at = "timed", ![Child(p)] = [Off EXCEPT !.at = "next", !.ctx = c]]
    /\ UNCHANGED <<site, slot, ctxPool, bufferPool, bytesOf, stored, flight, sent>>
ChildEnds(p) ==
    /\ p[2] = "child" /\ NextEnds(p) /\ proc[p].frames = <<>>
    /\ proc' = [proc EXCEPT ![p].at = "done"]
    /\ UNCHANGED <<site, slot, ctxPool, context, bufferPool, bytesOf, stored, flight, sent>>

(* applyBufferedResponse and CopyResponse: the bytes are appended to what   *)
(* is left of the context's last body.                                    *)
CopyTo(x, r) == IF x.body = NoArray THEN <<"copy", r>> ELSE x.body
TimeoutDone(p) ==
    LET q == Child(p)
        from == PrevContent(Cx(q))
        x == Cx(p)
        to == CopyTo(x, p[1])
    IN  /\ proc[p].at = "timed" /\ proc[q].at = "done"
        /\ bufferPool' = BuffersAfter(Cx(q))
        /\ bytesOf' = IF from.full THEN [bytesOf EXCEPT ![to] = bytesOf[from.body]] ELSE bytesOf
        /\ context' = [context EXCEPT ![proc[p].ctx] =
                Aborted([x EXCEPT !.code = from.code, !.full = from.full,
                                  !.body = IF from.full THEN to ELSE @], 0)]
        /\ proc' = [proc EXCEPT ![p].at = "next", ![q] = [Off EXCEPT !.at = "gone"]]
        /\ UNCHANGED <<site, slot, ctxPool, stored, flight, sent>>
TimeoutFires(p) ==
    /\ proc[p].at = "timed"
    /\ context' = [context EXCEPT ![proc[p].ctx] = Aborted(@, 504)]
    /\ proc' = [proc EXCEPT ![p].at = "next"]
    /\ UNCHANGED <<site, slot, ctxPool, bufferPool, bytesOf, stored, flight, sent>>
TimeoutPanics(p) ==
    /\ proc[p].at = "timed" /\ proc[Child(p)].at = "panicked"
    /\ Unwinds(p, "timed", Aborted(Cx(p), 0))

-----------------------------------------------------------------------------
\* Next comes back to Recovery, or to ServeHTTP, whose write prepares the answer.
RecoveryEnds(p) ==
    /\ NextEnds(p) /\ proc[p].frames # <<>> /\ Last(proc[p].frames) = "recovery"
    /\ proc' = [proc EXCEPT ![p].frames = Front(@)]
    /\ UNCHANGED <<site, slot, ctxPool, context, bufferPool, bytesOf, stored, flight, sent>>
Written(p) ==
    LET x == PrevContent(Cx(p)) IN
    /\ p[2] = "main" /\ NextEnds(p) /\ proc[p].frames = <<>>
    /\ bufferPool' = BuffersAfter(Cx(p))
    /\ context' = [context EXCEPT ![proc[p].ctx] = [x EXCEPT !.code = IF @ = 0 THEN 200 ELSE @]]
    /\ proc' = [proc EXCEPT ![p].at = "send"]
    /\ UNCHANGED <<site, slot, ctxPool, bytesOf, stored, flight, sent>>

\* The bytes are written, and the context goes back to the pool, with the array of its
\* last body.
Released(x) == [NewContext EXCEPT !.body = x.body, !.stop = x.stop]
Sends(p) ==
    LET x == Cx(p) IN
    /\ proc[p].at = "send"
    /\ sent' = [sent EXCEPT ![p[1]] =
            [code |-> IF proc[p].closing THEN 1 ELSE x.code, body |-> IF x.full THEN bytesOf[x.body] ELSE "none"]]
    /\ context' = [context EXCEPT ![proc[p].ctx] = Released(x)]
    /\ ctxPool' = ctxPool \cup {proc[p].ctx}
    /\ proc' = [proc EXCEPT ![p] = [Off EXCEPT !.at = "gone"]]
    /\ UNCHANGED <<site, slot, bufferPool, bytesOf, stored, flight>>

RqGoes(p) ==
    \/ PassesOn(p) \/ Aborts(p) \/ Recovery(p) \/ HandlerRenders(p) \/ HandlerWrites(p)
    \/ HandlerErrs(p) \/ HandlerPanics(p) \/ WarePanics(p)
    \/ CacheGet(p) \/ CacheDo(p) \/ CacheSet(p) \/ CacheGot(p) \/ CachePanics(p)
    \/ TimeoutBegins(p) \/ ChildEnds(p) \/ TimeoutDone(p) \/ TimeoutFires(p) \/ TimeoutPanics(p)
    \/ RecoveryEnds(p) \/ Written(p) \/ Sends(p)
RqNext == (\E r \in Visits : ServeHTTP(r)) \/ (\E p \in Procs : RqGoes(p)) \/ (\E n \in RouteNames : CacheExpires(n))
RqSpec == RqInit /\ [][RqNext]_rqVars

\* Goroutines that have begun go on, handlers return, and nobody waits for a
\* leader that is gone.
RqFairSpec == RqSpec /\ \A p \in Procs : WF_rqVars(RqGoes(p))

-----------------------------------------------------------------------------
Cached(r) == Contains(Route(r).wares, "cache")
Makers(r) == IF Cached(r) THEN {q \in Visits : Route(q) = Route(r)} ELSE {r}
AnswerFits(r, s) ==
    CASE s.code = 200 -> s.body \in Makers(r)
      [] s.code = 404 -> s.body \in Makers(r)
      [] s.code = 500 -> s.body = "error"
      [] s.code \in {403, 504} -> s.body = "none"
      [] OTHER -> s.code = 1

\* However requests overlap, use contexts and buffers again, share responses,
\* panic and run out of time: each is answered with what was made for it, or
\* what it shares by the cache, or with the page that belongs to its code.
AnswersAreOwn == \A r \in Visits : sent[r] # NoAnswer => AnswerFits(r, sent[r])

\* "GetParam Get the value of the param inside the route" (input.go:54): a
\* handler sees the parameters of its own request.
ParamsAreOwn ==
    \A r \in Visits : Route(r).pattern /\ sent[r].code = 200 => sent[r].body = r
=============================================================================
