----------------------------- MODULE MCServices -----------------------------
(***************************************************************************)
(* The services that others start, use and stop, for TLC: the injector,    *)
(* the languages, the cleaner of the fast cache, the memory limiter and    *)
(* the web servers.  One of them runs in a behaviour, chosen in the        *)
(* initial state, and the others rest.                                     *)
(***************************************************************************)
EXTENDS Injector, Locale, Cleaner, MemLimiter, WebServer

\* The default thresholds, of which one step of the clock passes all, and longer ones.
MCThresholds ==
    {[short |-> 1, medium |-> 2, long |-> 3], [short |-> 1, medium |-> 1000001, long |-> 2000001]}
\* f makes two values at once, h takes both of them, and a implements the interface i;
\* either all in one injector, or f's in the parent.
MCImplements == [t \in DiTypes |-> IF t = "i" THEN {"a"} ELSE {}]
MCProviders ==
    [f \in {"f", "h"} |-> IF f = "f" THEN [ins |-> <<>>, outs |-> {"a", "b"}]
                          ELSE [ins |-> <<"a", "b">>, outs |-> {"c"}]]
MCLayouts ==
    {[nested |-> FALSE, child |-> <<"f", "h">>, parent |-> <<>>],
     [nested |-> TRUE, child |-> <<"h">>, parent |-> <<"f">>]}
MCWishes ==
    {[kind |-> "Apply", types |-> <<"s", "c">>], [kind |-> "Resolve", types |-> <<"b">>],
     [kind |-> "Invoke", types |-> <<"a", "i">>]}
MCAddrs == [e \in Engines |-> IF e = "site" THEN 2 ELSE 1]

VARIABLE part   \* the component that runs

servicesVars == <<part, diVars, loVars, clVars, meVars, wsVars>>

\* The components begin; those that do not run in one way only.
ServicesBegin ==
    /\ LoInit /\ WsInit
    /\ DiInit /\ (part = "injector" \/ layout = CHOOSE l \in Layouts : TRUE)
    /\ ClInit /\ (part = "cleaner" \/ (lazyCleaner /\ thresholds = CHOOSE t \in Thresholds : TRUE))
    /\ MeInit /\ (part = "limiter" \/ (enableGC /\ hasOnPause /\ memLimit = CHOOSE l \in MemLimits : TRUE))

ServicesInit ==
    part \in {"injector", "locale", "cleaner", "limiter", "servers"} /\ ServicesBegin

ServicesNext ==
    \/ part = "injector" /\ DiNext /\ UNCHANGED <<part, loVars, clVars, meVars, wsVars>>
    \/ part = "locale" /\ LoNext /\ UNCHANGED <<part, diVars, clVars, meVars, wsVars>>
    \/ part = "cleaner" /\ ClNext /\ UNCHANGED <<part, diVars, loVars, meVars, wsVars>>
    \/ part = "limiter" /\ MeNext /\ UNCHANGED <<part, diVars, loVars, clVars, wsVars>>
    \/ part = "servers" /\ WsNext /\ UNCHANGED <<part, diVars, loVars, clVars, meVars>>

ServicesSpec == ServicesInit /\ [][ServicesNext]_servicesVars

-----------------------------------------------------------------------------
\* Whoever asks, loads and translates, sets and closes, measures and stops at the same time:
\* there is one value of each type, translations are the best that there are, cleaners and
\* monitors end when they are told and none is left behind, and no server outlives its
\* shutdown.  What meets what is excepted is said where each is stated: CleanerSound
\* excepts a Close that meets a Set or another Close, and Close, Set, Close before a tick;
\* ServersStop a Shutdown during the start or another shutdown.
ServicesSound ==
    /\ part = "injector" => InjectorSound
    /\ part = "locale" => LocaleSound
    /\ part = "cleaner" => CleanerSound
    /\ part = "limiter" => LimiterSound
    /\ part = "servers" => ServersStop
=============================================================================
