---------------------------- MODULE MCPoolCalls ----------------------------
(***************************************************************************)
(* The calls of WorkPool and whether they return, for TLC.  Who calls is   *)
(* chosen in the initial state: a Close that always comes would end every  *)
(* wait, and hide that it would have had no end without it.                *)
(***************************************************************************)
EXTENDS MCWorkPool

VARIABLE calling   \* the callers that make their call

callVars == <<vars, calling>>

\* Submitters alone or with one other caller, who may come at any moment;
\* those with Close and AdjustSize, which both wait for workers; one of each
\* other sort with two submitters.
Casts ==
    {Clients \cup {p} : p \in Callers} \cup {Clients \cup Shrinkers}
    \cup {Callers \ {CHOOSE c \in Clients : TRUE}}

CallsInit == Init /\ calling \in Casts

CallsNext == Next /\ (\A p \in Callers \ calling : pc'[p] = pc[p]) /\ UNCHANGED calling

\* Fairness as in WorkPool, of those who call.
CallsFairSpec ==
    /\ CallsInit /\ [][CallsNext]_callVars
    /\ \A c \in Clients : SF_callVars(c \in calling /\ DoStep(c) /\ UNCHANGED calling)
    /\ \A k \in Closers : SF_callVars(k \in calling /\ CloseStep(k) /\ UNCHANGED calling)
    /\ \A a \in Adjusters : SF_callVars(a \in calling /\ AdjustStep(a) /\ UNCHANGED calling)
    /\ \A i \in PreIniters : SF_callVars(i \in calling /\ PreInitStep(i) /\ UNCHANGED calling)
    /\ \A w \in Workers : WF_callVars(WorkerStep(w) /\ UNCHANGED calling)

-----------------------------------------------------------------------------
AllReturned == \A p \in calling : pc[p] \in {"done", "closed"}

\* Nothing leaves this state (pool.go:248): Close or AdjustSize waits, with
\* wp.mu, for a worker, and every worker is in the hands of a submitter that
\* waits for wp.mu, after pop.
Jammed ==
    /\ \E p \in Shrinkers : mu = p /\ pc[p] \in {"pop", "look", "wait"} /\ queue = <<>>
    /\ Live # {} /\ \A w \in Live : \E c \in Clients : held[c] = w /\ pc[c] = "popped"

\* Nor this one, but a new call: AdjustSize(0), which Pause is, has stopped
\* all workers, and the submitters that waited for one still do.
Paused ==
    /\ minIdle = 0 /\ Live = {} /\ ~closed
    /\ \A p \in calling :
          pc[p] = "done" \/ (p \in Clients /\ pc[p] \in {"pop", "look", "wait"})

\* Every call of Do, Close, AdjustSize and PreInit returns, whoever else calls
\* and in whatever order, and whether jobs return or panic; but for the
\* deadlock of a Close or AdjustSize with submitters, and for submitters that
\* a pause has come upon.
CallsReturn == <>(AllReturned \/ Jammed \/ Paused)
=============================================================================
