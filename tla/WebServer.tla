----------------------------- MODULE WebServer -----------------------------
(***************************************************************************)
(* The start and the stop of znet's engines: RunContext starts a server    *)
(* for every address, waits for the end of its context or a signal and     *)
(* shuts them down, and Shutdown does so from anywhere.  srvs and wg are   *)
(* shared without a lock.  A server is an engine and the number of its     *)
(* address; of net/http's Server is modelled what they use.  An address    *)
(* that cannot be listened on ends the program, and is left out.           *)
(***************************************************************************)
EXTENDS Integers, Sequences
LOCAL INSTANCE SequencesExt

CONSTANTS
    Engines,      \* zservers
    Addrs,        \* Addrs[e]: how many addresses it has
    Shutters,     \* goroutines that call Shutdown
    Main,         \* the goroutine of RunContext
    MaxActive,    \* bound on the requests of a server
    MaxRuns       \* bound on the calls of RunContext, one after the other

ASSUME WebServerAssumption ==
    /\ Main \notin Shutters /\ {MaxActive, MaxRuns} \subseteq Nat
    /\ \A e \in Engines : Addrs[e] \in Nat \ {0}

ServersOf(e) == {e} \X (1..Addrs[e])
Servers == UNION {ServersOf(e) : e \in Engines}

VARIABLES
    isRunContext, srvs, serversWg,
    server,      \* server[s]: none, made, listening, closing or closed
    active,      \* active[s]: the requests that it serves
    shutdowns,   \* shutdowns[e]: how often the hooks of e have run, in this run
    stop,        \* stop[p]: where the goroutine is, and the servers that it has yet to stop
    starts,      \* engines that RunContext has yet to start
    runs,
    meddled      \* history: Shutdown was called during the start or another shutdown

wsVars == <<isRunContext, srvs, serversWg, server, active, shutdowns, stop, starts, runs, meddled>>

Away == [at |-> "idle", left |-> <<>>]
Stoppers == Shutters \cup {Main}
Halting == {p \in Stoppers : stop[p].at \in {"hooks", "server", "quiet", "done", "drain", "clear"}}
Starting == starts # {} \/ stop[Main].at \in {"start", "append"}
WsGoes(p, from, call) == stop[p].at = from /\ stop' = [stop EXCEPT ![p] = call]

WsInit ==
    /\ isRunContext = FALSE /\ srvs = <<>> /\ serversWg = 0
    /\ server = [s \in Servers |-> "none"] /\ active = [s \in Servers |-> 0]
    /\ shutdowns = [e \in Engines |-> 0]
    /\ stop = [p \in Stoppers |-> Away]
    /\ starts = {} /\ runs = 0 /\ meddled = FALSE

-----------------------------------------------------------------------------
RunContext ==
    /\ runs < MaxRuns /\ runs' = runs + 1
    /\ WsGoes(Main, "idle", [Away EXCEPT !.at = "start"])
    /\ isRunContext' = TRUE /\ starts' = Engines
    /\ shutdowns' = [e \in Engines |-> 0]
    /\ meddled' = (meddled \/ Halting # {})
    /\ UNCHANGED <<srvs, serversWg, server, active>>

\* StartUp has made every server of the engine when it returns; they listen when they get
\* to it, maybe later than somebody stops them.
StartUp(e) ==
    /\ e \in starts /\ starts' = starts \ {e}
    /\ WsGoes(Main, "start", [at |-> "append", left |-> SetToSeq(ServersOf(e))])
    /\ server' = [s \in Servers |-> IF s \in ServersOf(e) THEN "made" ELSE server[s]]
    /\ UNCHANGED <<isRunContext, srvs, serversWg, active, shutdowns, runs, meddled>>
AddsOne(ss) == 1   \* mutant: one for the engine
Adds(ss) == Len(ss)
AddServers ==
    LET ss == stop[Main].left IN
    /\ WsGoes(Main, "append", [Away EXCEPT !.at = "start"])
    /\ serversWg' = serversWg + Adds(ss)
    /\ srvs' = srvs \o ss
    /\ UNCHANGED <<isRunContext, server, active, shutdowns, starts, runs, meddled>>

\* The context ends, or the signal comes.
StopRun ==
    /\ starts = {} /\ WsGoes(Main, "start", [at |-> "hooks", left |-> srvs])
    /\ meddled' = (meddled \/ Halting # {})
    /\ UNCHANGED <<isRunContext, srvs, serversWg, server, active, shutdowns, starts, runs>>
Shutdown(p) ==
    /\ p \in Shutters /\ isRunContext
    /\ WsGoes(p, "idle", [at |-> "hooks", left |-> srvs])
    /\ meddled' = (meddled \/ Halting # {} \/ starts # {} \/ stop[Main].at = "append")
    /\ UNCHANGED <<isRunContext, srvs, serversWg, server, active, shutdowns, starts, runs>>

-----------------------------------------------------------------------------
\* shutdown: for each server the hooks of its engine, then its end, then wg.Done.
Hooks(p) ==
    LET me == stop[p] IN
    /\ IF me.left = <<>> THEN WsGoes(p, "hooks", [me EXCEPT !.at = "drain"]) /\ UNCHANGED shutdowns
       ELSE /\ WsGoes(p, "hooks", [me EXCEPT !.at = "server"])
            /\ shutdowns' = [shutdowns EXCEPT ![Head(me.left)[1]] = @ + 1]
    /\ UNCHANGED <<isRunContext, srvs, serversWg, server, active, starts, runs, meddled>>
SrvShutdown(p) ==
    LET me == stop[p] IN
    /\ WsGoes(p, "server", [me EXCEPT !.at = "quiet"])
    /\ server' = [server EXCEPT ![Head(me.left)] = "closing"]
    /\ UNCHANGED <<isRunContext, srvs, serversWg, active, shutdowns, starts, runs, meddled>>
\* No request is left, or the 20 s of all servers together are over and it is closed.
SrvClosed(p) ==
    LET me == stop[p]
        s == Head(me.left)
    IN  /\ WsGoes(p, "quiet", [me EXCEPT !.at = "done"])
        /\ server' = [server EXCEPT ![s] = "closed"]
        /\ active' = [active EXCEPT ![s] = 0]
        /\ UNCHANGED <<isRunContext, srvs, serversWg, shutdowns, starts, runs, meddled>>
\* Below zero wg panics.
SrvDone(p) ==
    /\ serversWg >= 0
    /\ WsGoes(p, "done", [at |-> "hooks", left |-> Tail(stop[p].left)])
    /\ serversWg' = serversWg - 1
    /\ UNCHANGED <<isRunContext, srvs, server, active, shutdowns, starts, runs, meddled>>
Drained(p) ==
    /\ serversWg = 0 /\ WsGoes(p, "drain", [Away EXCEPT !.at = "clear"])
    /\ UNCHANGED <<isRunContext, srvs, serversWg, server, active, shutdowns, starts, runs, meddled>>
KeptSrvs == srvs   \* mutant: the stopped servers stay in srvs
NoSrvs == <<>>
ClearSrvs(p) ==
    /\ WsGoes(p, "clear", Away)
    /\ srvs' = NoSrvs
    /\ isRunContext' = (p # Main /\ isRunContext)
    /\ UNCHANGED <<serversWg, server, active, shutdowns, starts, runs, meddled>>

-----------------------------------------------------------------------------
\* net/http: ListenAndServe returns at once after Shutdown, and requests come and end.
Listen(s) ==
    /\ server[s] = "made" /\ server' = [server EXCEPT ![s] = "listening"]
    /\ UNCHANGED <<isRunContext, srvs, serversWg, active, shutdowns, stop, starts, runs, meddled>>
Serve(s) ==
    /\ \/ server[s] = "listening" /\ active[s] < MaxActive /\ active' = [active EXCEPT ![s] = @ + 1]
       \/ active[s] > 0 /\ active' = [active EXCEPT ![s] = @ - 1]
    /\ UNCHANGED <<isRunContext, srvs, serversWg, server, shutdowns, stop, starts, runs, meddled>>

StopperStep(p) ==
    Hooks(p) \/ SrvShutdown(p) \/ SrvClosed(p) \/ SrvDone(p) \/ Drained(p) \/ ClearSrvs(p)
WsNext ==
    \/ RunContext \/ (\E e \in Engines : StartUp(e)) \/ AddServers \/ StopRun
    \/ \E p \in Stoppers : Shutdown(p) \/ StopperStep(p)
    \/ \E s \in Servers : Listen(s) \/ Serve(s)

WsSpec == WsInit /\ [][WsNext]_wsVars

-----------------------------------------------------------------------------
\* Whether the context, the signal or one call of Shutdown stops them, and in every run:
\* wg counts the servers that somebody has yet to stop, so that no shutdown waits for
\* ever and none panics; every server that works is known to srvs; and from the end of a
\* shutdown on no server works or serves, the hooks having run once for each.  A call of
\* Shutdown during the start or another shutdown breaks all of this.
ServersStop ==
    ~meddled =>
        /\ \A p \in Halting : serversWg = Len(stop[p].left)
        /\ \A s \in Servers : server[s] \in {"made", "listening"} => s \in ToSet(srvs) \cup ToSet(stop[Main].left)
        /\ srvs = <<>> /\ ~Starting /\ runs > 0 =>
               /\ \A s \in Servers : server[s] = "closed" /\ active[s] = 0
               /\ \A e \in Engines : shutdowns[e] = Addrs[e]
=============================================================================
