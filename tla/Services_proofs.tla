--------------------------- MODULE Services_proofs --------------------------
(***************************************************************************)
(* What znet's start and shutdown and zdi's injector keep, for any         *)
(* servers, goroutines, types and providers; and with Upkeep_proofs, what  *)
(* all the services of MCServices keep.  Each part states the invariant    *)
(* that its steps keep and proves it step by step.                         *)
(***************************************************************************)
EXTENDS FiniteSets, Functions, MCServices, Upkeep_proofs, FiniteSetTheorems, TLAPS
-----------------------------------------------------------------------------
(* The servers: those that somebody has yet to stop are listed once each,  *)
(* and all others are closed.                                              *)

\* As many different ones of a set as there are in it are all of it.
LEMMA AllOfThem ==
    ASSUME NEW T, NEW n \in Nat, NEW f \in [1..n -> T], \A i, j \in 1..n : f[i] = f[j] => i = j,
           IsFiniteSet(T), Cardinality(T) = n
    PROVE  \A x \in T : \E i \in 1..n : f[i] = x
<1>1. IsFiniteSet(1..n) /\ Cardinality(1..n) = n  BY FS_Interval
<1>2. f \in Injection(1..n, T)  BY DEF Injection, IsInjective
<1>3. f \in Surjection(1..n, T)  BY <1>1, <1>2, FS_Injection
<1> QED BY <1>3 DEF Surjection

Numbers(f, n, T) ==
    /\ f \in [1..n -> T]
    /\ \A i, j \in 1..n : f[i] = f[j] => i = j
    /\ \A x \in T : \E i \in 1..n : f[i] = x

LEMMA AsManyAs ==
    ASSUME NEW T, NEW n \in Nat, NEW f, Numbers(f, n, T)
    PROVE  IsFiniteSet(T) /\ Cardinality(T) = n
<1>1. IsFiniteSet(1..n) /\ Cardinality(1..n) = n  BY FS_Interval
<1>2. f \in Bijection(1..n, T)  BY DEF Numbers, Bijection, Injection, Surjection, IsInjective
<1>3. ExistsBijection(1..n, T)  BY <1>2 DEF ExistsBijection
<1> QED BY <1>1, <1>3, FS_Bijection

LOCAL INSTANCE SequencesExt

Listed(s) == {s[i] : i \in 1..Len(s)}
OnceEach(s) == s \in Seq(Servers) /\ \A i, j \in 1..Len(s) : s[i] = s[j] => i = j

LEMMA ListedIs == ASSUME NEW s \in Seq(Servers) PROVE ToSet(s) = Listed(s)
BY DEF ToSet, Listed

\* What is made of an engine are its servers, each once.
LEMMA EngineListed ==
    ASSUME NEW e \in Engines
    PROVE  LET s == SetToSeq(ServersOf(e))
           IN  /\ OnceEach(s) /\ Listed(s) = ServersOf(e)
               /\ IsFiniteSet(ServersOf(e)) /\ Cardinality(ServersOf(e)) = Addrs[e]
<1> DEFINE T == ServersOf(e)
           S == 1..Addrs[e]
           s == SetToSeq(T)
<1>1. Addrs[e] \in Nat  BY WebServerAssumption
<1> DEFINE f == [i \in S |-> <<e, i>>]
<1>2. f \in [S -> T] /\ \A i, j \in S : f[i] = f[j] => i = j  BY DEF ServersOf
<1>3. \A x \in T : \E i \in S : f[i] = x  BY DEF ServersOf
<1>4. IsFiniteSet(T) /\ Cardinality(T) = Addrs[e]
  <2>1. Numbers(f, Addrs[e], T)  BY <1>2, <1>3 DEF Numbers
  <2> HIDE DEF f, T
  <2> QED BY <1>1, <2>1, AsManyAs
<1>5. f \in [1..Cardinality(T) -> T] /\ \A i, j \in DOMAIN f : f[i] = f[j] => i = j
  BY <1>2, <1>4
<1>6. s \in [1..Cardinality(T) -> T] /\ \A i, j \in DOMAIN s : s[i] = s[j] => i = j
  <2> HIDE DEF f, T
  <2> QED BY <1>5 DEF SetToSeq, IsInjective
<1>7. s \in [1..Addrs[e] -> T]  BY <1>4, <1>6
<1> HIDE DEF s, T, S, f
<1>8. Len(s) = Addrs[e] /\ s \in Seq(T) /\ DOMAIN s = 1..Addrs[e]  BY <1>1, <1>7
<1>9. T \subseteq Servers  BY DEF T, Servers
<1>10. OnceEach(s)
  <2>1. s \in Seq(Servers)  BY <1>8, <1>9
  <2> QED BY <1>6, <1>8, <2>1 DEF OnceEach
<1>11. Listed(s) = T
  <2>1. \A i, j \in 1..Addrs[e] : s[i] = s[j] => i = j  BY <1>6, <1>8
  <2>3. \A x \in T : \E i \in 1..Addrs[e] : s[i] = x  BY <1>1, <1>4, <1>7, <2>1, AllOfThem
  <2>4. \A i \in 1..Addrs[e] : s[i] \in T  BY <1>7
  <2> QED BY <1>8, <2>3, <2>4 DEF Listed
<1> QED BY <1>4, <1>10, <1>11 DEF s, T

LEMMA ListedBoth ==
    ASSUME NEW s, OnceEach(s), NEW t, OnceEach(t), Listed(s) \cap Listed(t) = {}
    PROVE  OnceEach(s \o t) /\ Listed(s \o t) = Listed(s) \cup Listed(t) /\ Len(s \o t) = Len(s) + Len(t)
<1>1. s \in Seq(Servers) /\ t \in Seq(Servers) /\ Len(s) \in Nat /\ Len(t) \in Nat  BY DEF OnceEach
<1> PICK u : u = s \o t  OBVIOUS
<1>2. /\ u \in Seq(Servers) /\ Len(u) = Len(s) + Len(t)
      /\ \A i \in 1..Len(u) : u[i] = IF i <= Len(s) THEN s[i] ELSE t[i - Len(s)]
  BY <1>1
<1>3. \A i \in 1..Len(u) : i > Len(s) => i - Len(s) \in 1..Len(t)  BY <1>1, <1>2
<1>4. \A i \in 1..Len(s) : i \in 1..Len(u) /\ u[i] = s[i]  BY <1>1, <1>2
<1>5. \A i \in 1..Len(t) : i + Len(s) \in 1..Len(u) /\ u[i + Len(s)] = t[i]
  <2> SUFFICES ASSUME NEW i \in 1..Len(t) PROVE i + Len(s) \in 1..Len(u) /\ u[i + Len(s)] = t[i]  OBVIOUS
  <2>1. i + Len(s) \in 1..Len(u) /\ ~ (i + Len(s) <= Len(s)) /\ i + Len(s) - Len(s) = i  BY <1>1, <1>2
  <2> QED BY <1>2, <2>1
<1>6. Listed(u) = Listed(s) \cup Listed(t)
  <2>1. \A x \in Listed(u) : x \in Listed(s) \cup Listed(t)
    <3> SUFFICES ASSUME NEW i \in 1..Len(u) PROVE u[i] \in Listed(s) \cup Listed(t)  BY DEF Listed
    <3>1. CASE i <= Len(s)  BY <1>1, <1>2, <3>1 DEF Listed
    <3>2. CASE i > Len(s)  BY <1>1, <1>2, <1>3, <3>2 DEF Listed
    <3> QED BY <1>1, <1>2, <3>1, <3>2
  <2>2. Listed(s) \subseteq Listed(u) /\ Listed(t) \subseteq Listed(u)
    <3>1. \A i \in 1..Len(s) : s[i] \in Listed(u)
      <4> SUFFICES ASSUME NEW i \in 1..Len(s) PROVE s[i] \in Listed(u)  OBVIOUS
      <4>1. i \in 1..Len(u) /\ u[i] = s[i]  BY <1>4
      <4>2. u[i] \in Listed(u)  BY <4>1 DEF Listed
      <4> QED BY <4>1, <4>2
    <3>2. \A i \in 1..Len(t) : t[i] \in Listed(u)
      <4> SUFFICES ASSUME NEW i \in 1..Len(t) PROVE t[i] \in Listed(u)  OBVIOUS
      <4>1. i + Len(s) \in 1..Len(u) /\ u[i + Len(s)] = t[i]  BY <1>5
      <4>2. u[i + Len(s)] \in Listed(u)  BY <4>1 DEF Listed
      <4> QED BY <4>1, <4>2
    <3> QED BY <3>1, <3>2 DEF Listed
  <2> QED BY <2>1, <2>2
<1>7. \A i, j \in 1..Len(u) : u[i] = u[j] => i = j
  <2> SUFFICES ASSUME NEW i \in 1..Len(u), NEW j \in 1..Len(u), u[i] = u[j] PROVE i = j  OBVIOUS
  <2>0. i \in Int /\ j \in Int  OBVIOUS
  <2>1. CASE i <= Len(s) /\ j <= Len(s)
    <3>1. i \in 1..Len(s) /\ j \in 1..Len(s)  BY <1>1, <2>1
    <3> QED BY <1>2, <2>1, <3>1 DEF OnceEach
  <2>2. CASE i > Len(s) /\ j > Len(s)
    <3>1. i - Len(s) \in 1..Len(t) /\ j - Len(s) \in 1..Len(t)  BY <1>3, <2>2
    <3>2. t[i - Len(s)] = t[j - Len(s)]  BY <1>1, <1>2, <2>2
    <3>3. i - Len(s) = j - Len(s)  BY <3>1, <3>2 DEF OnceEach
    <3> QED BY <1>1, <2>0, <3>3
  <2>3. ASSUME NEW a \in 1..Len(u), NEW b \in 1..Len(u), a <= Len(s), b > Len(s) PROVE u[a] # u[b]
    <3>1. a \in 1..Len(s) /\ b - Len(s) \in 1..Len(t)  BY <1>1, <1>3, <2>3
    <3>2. u[a] = s[a] /\ u[b] = t[b - Len(s)]  BY <1>1, <1>2, <2>3
    <3>3. s[a] \in Listed(s) /\ t[b - Len(s)] \in Listed(t)  BY <3>1 DEF Listed
    <3> QED BY <3>2, <3>3
  <2> QED BY <1>1, <2>0, <2>1, <2>2, <2>3
<1> QED BY <1>2, <1>6, <1>7 DEF OnceEach

LEMMA ListedLess ==
    ASSUME NEW s, OnceEach(s), s # <<>>
    PROVE  /\ OnceEach(Tail(s)) /\ Listed(Tail(s)) = Listed(s) \ {Head(s)} /\ Len(Tail(s)) = Len(s) - 1
           /\ Head(s) \in Listed(s) /\ Head(s) \in Servers
<1>1. s \in Seq(Servers) /\ Len(s) \in Nat /\ Len(s) # 0  BY DEF OnceEach
<1> PICK t : t = Tail(s)  OBVIOUS
<1>2. t \in Seq(Servers) /\ Len(t) = Len(s) - 1 /\ \A i \in 1..Len(t) : t[i] = s[i + 1]  BY <1>1
<1>3. Head(s) = s[1] /\ 1 \in 1..Len(s)  BY <1>1
<1>4. \A i \in 1..Len(t) : i + 1 \in 1..Len(s) /\ i + 1 # 1  BY <1>1, <1>2
<1>5. \A i \in 1..Len(s) : i # 1 => i - 1 \in 1..Len(t) /\ t[i - 1] = s[i]
  <2> SUFFICES ASSUME NEW i \in 1..Len(s), i # 1 PROVE i - 1 \in 1..Len(t) /\ t[i - 1] = s[i]  OBVIOUS
  <2>1. i - 1 \in 1..Len(t) /\ i - 1 + 1 = i  BY <1>1, <1>2
  <2> QED BY <1>2, <2>1
<1>6. Listed(t) = Listed(s) \ {Head(s)}
  <2>1. \A i \in 1..Len(t) : t[i] \in Listed(s) \ {Head(s)}
    <3> SUFFICES ASSUME NEW i \in 1..Len(t) PROVE t[i] \in Listed(s) \ {Head(s)}  OBVIOUS
    <3>1. i + 1 \in 1..Len(s) /\ i + 1 # 1 /\ t[i] = s[i + 1]  BY <1>2, <1>4
    <3>2. s[i + 1] # s[1]  BY <1>3, <3>1 DEF OnceEach
    <3> QED BY <1>3, <3>1, <3>2 DEF Listed
  <2>2. \A i \in 1..Len(s) : s[i] # Head(s) => s[i] \in Listed(t)
    <3> SUFFICES ASSUME NEW i \in 1..Len(s), s[i] # Head(s) PROVE s[i] \in Listed(t)  OBVIOUS
    <3>1. i # 1  BY <1>3
    <3>2. i - 1 \in 1..Len(t) /\ t[i - 1] = s[i]  BY <1>5, <3>1
    <3>3. t[i - 1] \in Listed(t)  BY <3>2 DEF Listed
    <3> QED BY <3>2, <3>3
  <2> QED BY <2>1, <2>2 DEF Listed
<1>7. OnceEach(t)
  <2> SUFFICES ASSUME NEW i \in 1..Len(t), NEW j \in 1..Len(t), t[i] = t[j] PROVE i = j  BY <1>2 DEF OnceEach
  <2>1. s[i + 1] = s[j + 1] /\ i + 1 \in 1..Len(s) /\ j + 1 \in 1..Len(s)  BY <1>2, <1>4
  <2>2. i + 1 = j + 1  BY <2>1 DEF OnceEach
  <2> QED BY <2>2
<1>8. Head(s) \in Listed(s) /\ Head(s) \in Servers  BY <1>1, <1>3 DEF Listed
<1> QED BY <1>2, <1>6, <1>7, <1>8

HaltPlaces == {"hooks", "server", "quiet", "done", "drain", "clear"}
StopCalls == [at : HaltPlaces \cup {"idle", "start", "append"}, left : Seq(Servers)]
WsTypes ==
    /\ isRunContext \in BOOLEAN /\ serversWg \in Nat /\ runs \in Nat
    /\ server \in [Servers -> {"none", "made", "listening", "closing", "closed"}]
    /\ active \in [Servers -> Nat]
    /\ shutdowns \in [Engines -> Nat]
    /\ stop \in [Stoppers -> StopCalls]
    /\ starts \in SUBSET Engines
    /\ OnceEach(srvs) /\ \A p \in Stoppers : OnceEach(stop[p].left)
Left(p) == Listed(stop[p].left)
Filling == starts # {} \/ stop[Main].at = "append"
Ended(s) == server[s] = "closed" /\ active[s] = 0
Unstopped(s) == server[s] \in {"made", "listening"}
HookedIn(e, S) == Cardinality(ServersOf(e) \ S)

\* Who may be where at the same time.
InTurn ==
    /\ \A p, q \in Halting : p = q
    /\ \A p \in Shutters : stop[p].at \notin {"start", "append"}
    /\ starts # {} => stop[Main].at \in {"start", "append"}
    /\ Filling => Halting = {}
    /\ stop[Main].at = "idle" => ~ isRunContext /\ srvs = <<>> /\ Halting = {}
    /\ stop[Main].at # "idle" => runs > 0
    /\ stop[Main].at = "start" => stop[Main].left = <<>>
    /\ stop[Main].at = "append" => Left(Main) \cap Listed(srvs) = {}
\* Servers are made, and their hooks have not run yet.
Fills ==
    Filling =>
        /\ \A e \in Engines : shutdowns[e] = 0
        /\ \A e \in starts : ServersOf(e) \cap (Listed(srvs) \cup Left(Main)) = {}
        /\ \A e \in Engines \ starts : ServersOf(e) \subseteq Listed(srvs) \cup Left(Main)
        /\ \A e \in starts : \A s \in ServersOf(e) : ~ Unstopped(s)
        /\ Halting = {} /\ serversWg = Len(srvs)
\* Nobody makes or stops servers.
Rests ==
    ~ Filling /\ Halting = {} =>
        /\ serversWg = Len(srvs)
        /\ runs = 0 => \A s \in Servers : ~ Unstopped(s)
        /\ runs > 0 =>
            /\ \A s \in Servers \ Listed(srvs) : Ended(s)
            /\ \A e \in Engines : shutdowns[e] = HookedIn(e, Listed(srvs))
\* p stops them, one by one.
Stops(p) ==
    /\ serversWg = Len(stop[p].left) /\ Left(p) \subseteq Listed(srvs)
    /\ stop[p].at \in {"server", "quiet", "done"} => stop[p].left # <<>>
    /\ stop[p].at \in {"drain", "clear"} => stop[p].left = <<>>
    /\ stop[p].at = "quiet" => ~ Unstopped(Head(stop[p].left))
    /\ stop[p].at = "done" => Ended(Head(stop[p].left))
    /\ \A s \in Servers \ Left(p) : Ended(s)
    /\ \A e \in Engines :
          shutdowns[e] = HookedIn(e, Left(p)) +
              IF stop[p].at \in {"server", "quiet", "done"} /\ Head(stop[p].left)[1] = e THEN 1 ELSE 0
WsGood == WsTypes /\ InTurn /\ Fills /\ Rests /\ \A p \in Halting : Stops(p)
WsInv == meddled \/ WsGood
-----------------------------------------------------------------------------
(* What a step has to show.                                                *)

LEMMA HaltingIs == Halting = {p \in Stoppers : stop[p].at \in HaltPlaces}
BY DEF Halting, HaltPlaces

LEMMA GoesIs ==
    ASSUME WsTypes, NEW p \in Stoppers, NEW c \in StopCalls, OnceEach(c.left), stop' = [stop EXCEPT ![p] = c]
    PROVE  /\ stop' \in [Stoppers -> StopCalls] /\ stop'[p] = c
           /\ \A q \in Stoppers : q # p => stop'[q] = stop[q]
           /\ \A q \in Stoppers : OnceEach(stop'[q].left)
<1>1. stop \in [Stoppers -> StopCalls]  BY DEF WsTypes
<1>2. stop' \in [Stoppers -> StopCalls] /\ stop'[p] = c /\ \A q \in Stoppers : q # p => stop'[q] = stop[q]
  BY <1>1
<1>3. \A q \in Stoppers : OnceEach(stop[q].left)  BY DEF WsTypes
<1> QED BY <1>1, <1>2, <1>3

\* Only the servers change, and those that have ended stay as they are.
LEMMA ServersChange ==
    ASSUME WsGood, UNCHANGED <<isRunContext, srvs, serversWg, shutdowns, stop, starts, runs>>,
           server' \in [Servers -> {"none", "made", "listening", "closing", "closed"}],
           active' \in [Servers -> Nat],
           \A s \in Servers : Unstopped(s)' => Unstopped(s),
           \A s \in Servers : Ended(s) => Ended(s)'
    PROVE  WsGood'
<1>1. WsTypes'  BY DEF WsGood, WsTypes
<1>2. Halting' = Halting /\ (Filling' <=> Filling) /\ \A p \in Stoppers : Left(p)' = Left(p)
  BY DEF Halting, Filling, Left
<1>3. InTurn'  BY <1>2 DEF WsGood, InTurn, Left
<1>e. \A e \in Engines : ServersOf(e) \subseteq Servers  BY DEF Servers
<1>4. Fills'
  <2> SUFFICES ASSUME Filling' PROVE Fills'  BY DEF Fills
  <2>1. Fills /\ Filling  BY <1>2 DEF WsGood
  <2>2. \A e \in starts : \A s \in ServersOf(e) : ~ Unstopped(s)'
    <3>1. starts \subseteq Engines  BY DEF WsGood, WsTypes
    <3> QED BY <1>e, <2>1, <3>1 DEF Fills
  <2>3. Left(Main)' = Left(Main)  BY <1>2 DEF Stoppers
  <2> QED BY <1>2, <2>1, <2>2, <2>3 DEF Fills
<1>5. Rests'
  <2> SUFFICES ASSUME ~ Filling', Halting' = {} PROVE Rests'  BY DEF Rests
  <2>1. Rests /\ ~ Filling /\ Halting = {}  BY <1>2 DEF WsGood
  <2>2. \A e : HookedIn(e, Listed(srvs))' = HookedIn(e, Listed(srvs))  BY DEF HookedIn
  <2> QED BY <2>1, <2>2 DEF Rests
<1>6. ASSUME NEW p \in Halting PROVE Stops(p)'
  <2>1. Stops(p) /\ p \in Stoppers  BY <1>6 DEF WsGood, Halting
  <2>2. Left(p)' = Left(p)  BY <1>2, <2>1
  <2>3. stop[p].left # <<>> => Head(stop[p].left) \in Servers
    <3>1. OnceEach(stop[p].left)  BY <2>1 DEF WsGood, WsTypes
    <3> QED BY <3>1, ListedLess
  <2>4. stop[p].at = "quiet" => ~ Unstopped(Head(stop[p].left))'  BY <2>1, <2>3 DEF Stops
  <2>5. stop[p].at = "done" => Ended(Head(stop[p].left))'  BY <2>1, <2>3 DEF Stops
  <2>6. \A s \in Servers \ Left(p) : Ended(s)'  BY <2>1 DEF Stops
  <2>7. \A e : HookedIn(e, Left(p))' = HookedIn(e, Left(p))  BY <2>2 DEF HookedIn
  <2> QED BY <2>1, <2>2, <2>4, <2>5, <2>6, <2>7 DEF Stops
<1> QED BY <1>1, <1>2, <1>3, <1>4, <1>5, <1>6 DEF WsGood

LEMMA ListenKeeps == ASSUME WsGood, NEW s \in Servers, Listen(s) PROVE WsGood'
<1>1. server \in [Servers -> {"none", "made", "listening", "closing", "closed"}]  BY DEF WsGood, WsTypes
<1>2. server' = [server EXCEPT ![s] = "listening"] /\ server[s] = "made" /\ active' = active  BY DEF Listen
<1>3. server' \in [Servers -> {"none", "made", "listening", "closing", "closed"}]  BY <1>1, <1>2
<1>4. \A t \in Servers : (Unstopped(t)' => Unstopped(t)) /\ (Ended(t) => Ended(t)')
  BY <1>1, <1>2 DEF Unstopped, Ended
<1> QED BY <1>2, <1>3, <1>4, ServersChange DEF Listen, WsGood, WsTypes

LEMMA ServeKeeps == ASSUME WsGood, NEW s \in Servers, Serve(s) PROVE WsGood'
<1>1. active \in [Servers -> Nat]  BY DEF WsGood, WsTypes
<1>2. server' = server  BY DEF Serve
<1>3. active' \in [Servers -> Nat] /\ \A t \in Servers : Ended(t) => active'[t] = 0
  BY <1>1, <1>2 DEF Serve, Ended
<1>4. \A t \in Servers : (Unstopped(t)' => Unstopped(t)) /\ (Ended(t) => Ended(t)')
  BY <1>2, <1>3 DEF Unstopped, Ended
<1> QED BY <1>2, <1>3, <1>4, ServersChange DEF Serve, WsGood, WsTypes

\* While somebody stops the servers nobody starts any.
LEMMA HaltingAlone ==
    ASSUME WsGood, NEW p \in Halting
    PROVE  /\ p \in Stoppers /\ Halting = {p} /\ ~ Filling /\ starts = {} /\ Stops(p) /\ runs > 0
           /\ stop[Main].at # "append" /\ stop[Main].at # "idle"
           /\ OnceEach(stop[p].left) /\ stop[p] \in StopCalls /\ serversWg \in Nat
<1> Main \in Stoppers  BY DEF Stoppers
<1>1. p \in Stoppers  BY DEF Halting
<1>2. InTurn /\ WsTypes /\ Stops(p)  BY DEF WsGood
<1>3. ~ Filling /\ Halting = {p}  BY <1>2 DEF InTurn
<1> QED BY <1>1, <1>2, <1>3 DEF InTurn, WsTypes, Filling

LEMMA OneStops ==
    ASSUME WsGood, NEW p \in Halting, NEW c \in StopCalls, c.at \in HaltPlaces, OnceEach(c.left),
           stop' \in [Stoppers -> StopCalls], stop'[p] = c,
           \A q \in Stoppers : q # p => stop'[q] = stop[q],
           \A q \in Stoppers : OnceEach(stop'[q].left),
           UNCHANGED <<isRunContext, srvs, starts, runs>>,
           serversWg' \in Nat, shutdowns' \in [Engines -> Nat], active' \in [Servers -> Nat],
           server' \in [Servers -> {"none", "made", "listening", "closing", "closed"}],
           Stops(p)'
    PROVE  WsGood'
<1>1. /\ p \in Stoppers /\ Halting = {p} /\ ~ Filling /\ starts = {} /\ Stops(p) /\ runs > 0
      /\ stop[Main].at # "append" /\ stop[Main].at # "idle"
  BY HaltingAlone
<1> Main \in Stoppers /\ Shutters \subseteq Stoppers  BY DEF Stoppers
<1>2. WsTypes'  BY DEF WsGood, WsTypes
<1>3. Halting' = {p}
  <2>1. \A q \in Stoppers : q # p => stop'[q].at \notin HaltPlaces  BY <1>1, HaltingIs
  <2> QED BY <1>1, <2>1 DEF Halting, HaltPlaces
<1>4. stop'[Main].at # "append" /\ stop'[Main].at # "idle"  BY <1>1 DEF HaltPlaces
<1>5. ~ Filling'  BY <1>1, <1>4 DEF Filling
<1>6. InTurn'
  <2>1. InTurn  BY DEF WsGood
  <2>2. \A q \in Shutters : stop'[q].at \notin {"start", "append"}  BY <2>1 DEF InTurn, HaltPlaces
  <2>3. stop'[Main].at = "start" => stop'[Main].left = <<>>  BY <2>1 DEF InTurn, HaltPlaces
  <2> QED BY <1>1, <1>3, <1>4, <1>5, <2>2, <2>3 DEF InTurn
<1>7. Fills' /\ Rests'  BY <1>3, <1>5 DEF Fills, Rests
<1> QED BY <1>2, <1>3, <1>6, <1>7 DEF WsGood

-----------------------------------------------------------------------------
(* The steps of somebody who stops them.                                   *)

LEMMA OwnServer == ASSUME NEW s \in Servers PROVE s[1] \in Engines /\ \A e \in Engines : s \in ServersOf(e) <=> s[1] = e
BY DEF Servers, ServersOf

LEMMA HookedMore ==
    ASSUME NEW L, NEW s \in L, L \subseteq Servers, NEW e \in Engines
    PROVE  /\ HookedIn(e, L) \in Nat
           /\ HookedIn(e, L \ {s}) = HookedIn(e, L) + IF s[1] = e THEN 1 ELSE 0
<1>1. IsFiniteSet(ServersOf(e))  BY EngineListed
<1> PICK T : T = ServersOf(e) \ L  OBVIOUS
<1>2. IsFiniteSet(T)  BY <1>1, FS_Subset
<1>3. Cardinality(T) \in Nat  BY <1>2, FS_CardinalityType
<1>4. s \in ServersOf(e) <=> s[1] = e  BY OwnServer
<1>5. CASE s[1] = e
  <2>1. ServersOf(e) \ (L \ {s}) = T \cup {s}  BY <1>4, <1>5
  <2>2. s \notin T  OBVIOUS
  <2>3. Cardinality(T \cup {s}) = Cardinality(T) + 1  BY <1>2, <2>2, FS_AddElement
  <2> QED BY <1>3, <1>5, <2>1, <2>3 DEF HookedIn
<1>6. CASE s[1] # e
  <2>1. ServersOf(e) \ (L \ {s}) = T  BY <1>4, <1>6
  <2>2. Cardinality(T) = Cardinality(T) + 0  BY <1>3
  <2>3. HookedIn(e, L) = Cardinality(T) /\ HookedIn(e, L \ {s}) = Cardinality(T)  BY <2>1 DEF HookedIn
  <2> QED BY <1>3, <1>6, <2>2, <2>3
<1> QED BY <1>5, <1>6

LEMMA HooksKeeps == ASSUME WsGood, NEW p \in Stoppers, Hooks(p) PROVE WsGood'
<1>0. stop[p].at = "hooks"  BY DEF Hooks, WsGoes
<1>1. p \in Halting  BY <1>0 DEF Halting
<1>2. /\ Stops(p) /\ OnceEach(stop[p].left) /\ stop[p] \in StopCalls /\ WsTypes
      /\ serversWg \in Nat /\ shutdowns \in [Engines -> Nat] /\ active \in [Servers -> Nat]
      /\ server \in [Servers -> {"none", "made", "listening", "closing", "closed"}]
  BY <1>1, HaltingAlone DEF WsGood, WsTypes
<1>3. UNCHANGED <<isRunContext, srvs, serversWg, server, active, starts, runs>>  BY DEF Hooks, WsGoes
<1>u. \A s : (Ended(s)' <=> Ended(s)) /\ (Unstopped(s)' <=> Unstopped(s))  BY <1>3 DEF Ended, Unstopped
<1>4. CASE stop[p].left = <<>>
  <2> PICK c : c = [stop[p] EXCEPT !.at = "drain"]  OBVIOUS
  <2>1. c \in StopCalls /\ c.at = "drain" /\ c.left = stop[p].left  BY <1>2 DEF StopCalls, HaltPlaces
  <2>2. stop' = [stop EXCEPT ![p] = c] /\ shutdowns' = shutdowns  BY <1>4 DEF Hooks, WsGoes
  <2>3. OnceEach(c.left)  BY <1>2, <2>1
  <2>4. /\ stop' \in [Stoppers -> StopCalls] /\ stop'[p] = c
        /\ \A q \in Stoppers : q # p => stop'[q] = stop[q]
        /\ \A q \in Stoppers : OnceEach(stop'[q].left)
    BY <1>2, <2>1, <2>2, <2>3, GoesIs
  <2>5. Left(p)' = Left(p)  BY <2>1, <2>4 DEF Left
  <2>6. \A e : HookedIn(e, Left(p))' = HookedIn(e, Left(p))  BY <2>5 DEF HookedIn
  <2>7. Stops(p)'  BY <1>0, <1>2, <1>3, <1>4, <1>u, <2>1, <2>2, <2>4, <2>5, <2>6 DEF Stops
  <2>8. c.at \in HaltPlaces  BY <2>1 DEF HaltPlaces
  <2> QED BY <1>1, <1>2, <1>3, <2>1, <2>2, <2>3, <2>4, <2>7, <2>8, OneStops
<1>5. CASE stop[p].left # <<>>
  <2> PICK c : c = [stop[p] EXCEPT !.at = "server"]  OBVIOUS
  <2> PICK h : h = Head(stop[p].left)  OBVIOUS
  <2>1. c \in StopCalls /\ c.at = "server" /\ c.left = stop[p].left  BY <1>2 DEF StopCalls, HaltPlaces
  <2>2. stop' = [stop EXCEPT ![p] = c] /\ shutdowns' = [shutdowns EXCEPT ![h[1]] = @ + 1]  BY <1>5 DEF Hooks, WsGoes
  <2>3. OnceEach(c.left)  BY <1>2, <2>1
  <2>4. /\ stop' \in [Stoppers -> StopCalls] /\ stop'[p] = c
        /\ \A q \in Stoppers : q # p => stop'[q] = stop[q]
        /\ \A q \in Stoppers : OnceEach(stop'[q].left)
    BY <1>2, <2>1, <2>2, <2>3, GoesIs
  <2>5. Left(p)' = Left(p)  BY <2>1, <2>4 DEF Left
  <2>6. \A e : HookedIn(e, Left(p))' = HookedIn(e, Left(p))  BY <2>5 DEF HookedIn
  <2>7. h \in Servers /\ h[1] \in Engines  BY <1>2, <1>5, ListedLess, OwnServer
  <2>8. shutdowns' \in [Engines -> Nat]
        /\ \A e \in Engines : shutdowns'[e] = shutdowns[e] + IF h[1] = e THEN 1 ELSE 0
    BY <1>2, <2>2, <2>7
  <2>9. \A e \in Engines : shutdowns[e] = HookedIn(e, Left(p))
    <3> SUFFICES ASSUME NEW e \in Engines PROVE shutdowns[e] = HookedIn(e, Left(p))  OBVIOUS
    <3>1. shutdowns[e] = HookedIn(e, Left(p)) + 0  BY <1>0, <1>2 DEF Stops
    <3>2. Left(p) \subseteq Servers /\ h \in Left(p)
      <4>1. OnceEach(stop[p].left) /\ stop[p].left # <<>>  BY <1>2, <1>5
      <4>2. h \in Left(p)  BY <4>1, ListedLess DEF Left
      <4>3. Left(p) \subseteq Servers  BY <4>1 DEF Left, Listed, OnceEach
      <4> QED BY <4>2, <4>3
    <3>3. HookedIn(e, Left(p)) \in Nat  BY <3>2, HookedMore
    <3> QED BY <3>1, <3>3
  <2>10. Stops(p)'
    BY <1>0, <1>2, <1>3, <1>5, <1>u, <2>1, <2>4, <2>5, <2>6, <2>8, <2>9 DEF Stops
  <2>11. c.at \in HaltPlaces  BY <2>1 DEF HaltPlaces
  <2> QED BY <1>1, <1>2, <1>3, <2>1, <2>3, <2>4, <2>8, <2>10, <2>11, OneStops
<1> QED BY <1>4, <1>5

LEMMA SrvShutdownKeeps == ASSUME WsGood, NEW p \in Stoppers, SrvShutdown(p) PROVE WsGood'
<1>0. stop[p].at = "server"  BY DEF SrvShutdown, WsGoes
<1>1. p \in Halting  BY <1>0 DEF Halting
<1>2. /\ Stops(p) /\ OnceEach(stop[p].left) /\ stop[p] \in StopCalls /\ WsTypes
      /\ serversWg \in Nat /\ shutdowns \in [Engines -> Nat] /\ active \in [Servers -> Nat]
      /\ server \in [Servers -> {"none", "made", "listening", "closing", "closed"}]
  BY <1>1, HaltingAlone DEF WsGood, WsTypes
<1>3. UNCHANGED <<isRunContext, srvs, serversWg, shutdowns, active, starts, runs>>  BY DEF SrvShutdown, WsGoes
<1> PICK c : c = [stop[p] EXCEPT !.at = "quiet"]  OBVIOUS
<1> PICK h : h = Head(stop[p].left)  OBVIOUS
<1>4. c \in StopCalls /\ c.at = "quiet" /\ c.left = stop[p].left  BY <1>2 DEF StopCalls, HaltPlaces
<1>5. stop' = [stop EXCEPT ![p] = c] /\ server' = [server EXCEPT ![h] = "closing"]  BY DEF SrvShutdown, WsGoes
<1>6. OnceEach(c.left)  BY <1>2, <1>4
<1>7. /\ stop' \in [Stoppers -> StopCalls] /\ stop'[p] = c
      /\ \A q \in Stoppers : q # p => stop'[q] = stop[q]
      /\ \A q \in Stoppers : OnceEach(stop'[q].left)
  BY <1>2, <1>4, <1>5, <1>6, GoesIs
<1>8. Left(p)' = Left(p)  BY <1>4, <1>7 DEF Left
<1>9. \A e : HookedIn(e, Left(p))' = HookedIn(e, Left(p))  BY <1>8 DEF HookedIn
<1>10. stop[p].left # <<>>  BY <1>0, <1>2 DEF Stops
<1>11. h \in Servers /\ h \in Left(p)  BY <1>2, <1>10, ListedLess DEF Left
<1>12. /\ server' \in [Servers -> {"none", "made", "listening", "closing", "closed"}]
       /\ server'[h] = "closing" /\ \A s \in Servers : s # h => server'[s] = server[s]
  BY <1>2, <1>5, <1>11
<1>13. ~ Unstopped(h)' /\ \A s \in Servers \ Left(p) : Ended(s)'
  <2>1. \A s \in Servers \ Left(p) : Ended(s)  BY <1>2 DEF Stops
  <2> QED BY <1>3, <1>11, <1>12, <2>1 DEF Unstopped, Ended
<1>14. Stops(p)'
  BY <1>0, <1>2, <1>3, <1>4, <1>7, <1>8, <1>9, <1>10, <1>13 DEF Stops
<1>15. c.at \in HaltPlaces  BY <1>4 DEF HaltPlaces
<1> QED BY <1>1, <1>2, <1>3, <1>4, <1>6, <1>7, <1>12, <1>14, <1>15, OneStops

LEMMA SrvClosedKeeps == ASSUME WsGood, NEW p \in Stoppers, SrvClosed(p) PROVE WsGood'
<1>0. stop[p].at = "quiet"  BY DEF SrvClosed, WsGoes
<1>1. p \in Halting  BY <1>0 DEF Halting
<1>2. /\ Stops(p) /\ OnceEach(stop[p].left) /\ stop[p] \in StopCalls /\ WsTypes
      /\ serversWg \in Nat /\ shutdowns \in [Engines -> Nat] /\ active \in [Servers -> Nat]
      /\ server \in [Servers -> {"none", "made", "listening", "closing", "closed"}]
  BY <1>1, HaltingAlone DEF WsGood, WsTypes
<1>3. UNCHANGED <<isRunContext, srvs, serversWg, shutdowns, starts, runs>>  BY DEF SrvClosed, WsGoes
<1> PICK c : c = [stop[p] EXCEPT !.at = "done"]  OBVIOUS
<1> PICK h : h = Head(stop[p].left)  OBVIOUS
<1>4. c \in StopCalls /\ c.at = "done" /\ c.left = stop[p].left  BY <1>2 DEF StopCalls, HaltPlaces
<1>5. stop' = [stop EXCEPT ![p] = c] /\ server' = [server EXCEPT ![h] = "closed"] /\ active' = [active EXCEPT ![h] = 0]
  BY DEF SrvClosed, WsGoes
<1>6. OnceEach(c.left)  BY <1>2, <1>4
<1>7. /\ stop' \in [Stoppers -> StopCalls] /\ stop'[p] = c
      /\ \A q \in Stoppers : q # p => stop'[q] = stop[q]
      /\ \A q \in Stoppers : OnceEach(stop'[q].left)
  BY <1>2, <1>4, <1>5, <1>6, GoesIs
<1>8. Left(p)' = Left(p)  BY <1>4, <1>7 DEF Left
<1>9. \A e : HookedIn(e, Left(p))' = HookedIn(e, Left(p))  BY <1>8 DEF HookedIn
<1>10. stop[p].left # <<>>  BY <1>0, <1>2 DEF Stops
<1>11. h \in Servers /\ h \in Left(p)  BY <1>2, <1>10, ListedLess DEF Left
<1>12. /\ server' \in [Servers -> {"none", "made", "listening", "closing", "closed"}]
       /\ server'[h] = "closed" /\ \A s \in Servers : s # h => server'[s] = server[s]
  BY <1>2, <1>5, <1>11
<1>13. active' \in [Servers -> Nat] /\ active'[h] = 0 /\ \A s \in Servers : s # h => active'[s] = active[s]
  BY <1>2, <1>5, <1>11
<1>14. Ended(h)' /\ \A s \in Servers \ Left(p) : Ended(s)'
  <2>1. \A s \in Servers \ Left(p) : Ended(s)  BY <1>2 DEF Stops
  <2> QED BY <1>11, <1>12, <1>13, <2>1 DEF Ended
<1>15. Stops(p)'
  BY <1>0, <1>2, <1>3, <1>4, <1>7, <1>8, <1>9, <1>10, <1>14 DEF Stops
<1>16. c.at \in HaltPlaces  BY <1>4 DEF HaltPlaces
<1> QED BY <1>1, <1>2, <1>3, <1>4, <1>6, <1>7, <1>12, <1>13, <1>15, <1>16, OneStops

LEMMA SrvDoneKeeps == ASSUME WsGood, NEW p \in Stoppers, SrvDone(p) PROVE WsGood'
<1>0. stop[p].at = "done"  BY DEF SrvDone, WsGoes
<1>1. p \in Halting  BY <1>0 DEF Halting
<1>2. /\ Stops(p) /\ OnceEach(stop[p].left) /\ stop[p] \in StopCalls /\ WsTypes
      /\ serversWg \in Nat /\ shutdowns \in [Engines -> Nat] /\ active \in [Servers -> Nat]
      /\ server \in [Servers -> {"none", "made", "listening", "closing", "closed"}]
  BY <1>1, HaltingAlone DEF WsGood, WsTypes
<1>3. UNCHANGED <<isRunContext, srvs, server, active, shutdowns, starts, runs>> /\ serversWg' = serversWg - 1
  BY DEF SrvDone, WsGoes
<1>u. \A s : Ended(s)' <=> Ended(s)  BY <1>3 DEF Ended
<1> PICK l : l = Tail(stop[p].left)  OBVIOUS
<1> PICK c : c = [at |-> "hooks", left |-> l]  OBVIOUS
<1> PICK h : h = Head(stop[p].left)  OBVIOUS
<1>4. stop[p].left # <<>>  BY <1>0, <1>2 DEF Stops
<1>5. /\ OnceEach(l) /\ Listed(l) = Left(p) \ {h} /\ Len(l) = Len(stop[p].left) - 1
      /\ h \in Left(p) /\ h \in Servers
  BY <1>2, <1>4, ListedLess DEF Left
<1>6. c \in StopCalls /\ c.at = "hooks" /\ c.left = l
  <2>1. l \in Seq(Servers)  BY <1>5 DEF OnceEach
  <2>2. "hooks" \in HaltPlaces  BY DEF HaltPlaces
  <2> QED BY <2>1, <2>2 DEF StopCalls
<1>7. stop' = [stop EXCEPT ![p] = c]  BY DEF SrvDone, WsGoes
<1>8. OnceEach(c.left)  BY <1>5, <1>6
<1>9. /\ stop' \in [Stoppers -> StopCalls] /\ stop'[p] = c
      /\ \A q \in Stoppers : q # p => stop'[q] = stop[q]
      /\ \A q \in Stoppers : OnceEach(stop'[q].left)
  BY <1>2, <1>6, <1>7, <1>8, GoesIs
<1>10. Left(p)' = Left(p) \ {h}  BY <1>5, <1>6, <1>9 DEF Left
<1>11. serversWg' = Len(l) /\ serversWg' \in Nat
  <2>1. Len(l) \in Nat  BY <1>5 DEF OnceEach
  <2>2. serversWg = Len(stop[p].left)  BY <1>2 DEF Stops
  <2> QED BY <1>2, <1>3, <1>5, <2>1, <2>2
<1>12. Left(p) \subseteq Servers  BY <1>2 DEF Left, Listed, OnceEach
<1>13. \A e \in Engines : shutdowns'[e] = HookedIn(e, Left(p))'
  <2> SUFFICES ASSUME NEW e \in Engines PROVE shutdowns'[e] = HookedIn(e, Left(p))'  OBVIOUS
  <2>1. shutdowns[e] = HookedIn(e, Left(p)) + IF h[1] = e THEN 1 ELSE 0  BY <1>0, <1>2 DEF Stops
  <2>2. HookedIn(e, Left(p) \ {h}) = HookedIn(e, Left(p)) + IF h[1] = e THEN 1 ELSE 0  BY <1>5, <1>12, HookedMore
  <2>3. HookedIn(e, Left(p))' = HookedIn(e, Left(p) \ {h})  BY <1>10 DEF HookedIn
  <2> QED BY <1>3, <2>1, <2>2, <2>3
<1>14. \A e \in Engines : HookedIn(e, Left(p))' \in Nat
  <2> SUFFICES ASSUME NEW e \in Engines PROVE HookedIn(e, Left(p))' \in Nat  OBVIOUS
  <2>1. shutdowns'[e] \in Nat  BY <1>2, <1>3
  <2> QED BY <1>13, <2>1
<1>15. \A s \in Servers \ (Left(p) \ {h}) : Ended(s)'
  <2>1. \A s \in Servers \ Left(p) : Ended(s)  BY <1>2 DEF Stops
  <2>2. Ended(h)  BY <1>0, <1>2 DEF Stops
  <2> QED BY <1>u, <2>1, <2>2
<1>16. Left(p)' \subseteq Listed(srvs)'
  <2>1. Left(p) \subseteq Listed(srvs)  BY <1>2 DEF Stops
  <2> QED BY <1>3, <1>10, <2>1
<1>17. Stops(p)'
  <2>1. stop'[p].at = "hooks" /\ stop'[p].left = l  BY <1>6, <1>9
  <2>2. \A e \in Engines : shutdowns'[e] = HookedIn(e, Left(p))' + 0  BY <1>13, <1>14
  <2> QED BY <1>10, <1>11, <1>15, <1>16, <2>1, <2>2 DEF Stops
<1>18. c.at \in HaltPlaces  BY <1>6 DEF HaltPlaces
<1> QED BY <1>1, <1>2, <1>3, <1>6, <1>8, <1>9, <1>11, <1>17, <1>18, OneStops

LEMMA DrainedKeeps == ASSUME WsGood, NEW p \in Stoppers, Drained(p) PROVE WsGood'
<1>0. stop[p].at = "drain"  BY DEF Drained, WsGoes
<1>1. p \in Halting  BY <1>0 DEF Halting
<1>2. /\ Stops(p) /\ OnceEach(stop[p].left) /\ stop[p] \in StopCalls /\ WsTypes
      /\ serversWg \in Nat /\ shutdowns \in [Engines -> Nat] /\ active \in [Servers -> Nat]
      /\ server \in [Servers -> {"none", "made", "listening", "closing", "closed"}]
  BY <1>1, HaltingAlone DEF WsGood, WsTypes
<1>3. UNCHANGED <<isRunContext, srvs, serversWg, server, active, shutdowns, starts, runs>>  BY DEF Drained, WsGoes
<1>u. \A s : Ended(s)' <=> Ended(s)  BY <1>3 DEF Ended
<1>c. PICK c : c = [Away EXCEPT !.at = "clear"]  OBVIOUS
<1>4. stop[p].left = <<>>  BY <1>0, <1>2 DEF Stops
<1>5. c.at = "clear" /\ c.left = stop[p].left /\ c \in StopCalls
  <2> PICK l : l = stop[p].left  OBVIOUS
  <2>1. c = [at |-> "clear", left |-> l]  BY <1>c, <1>4 DEF Away
  <2>2. l \in Seq(Servers)  BY <1>2 DEF OnceEach
  <2>3. "clear" \in HaltPlaces  BY DEF HaltPlaces
  <2>4. c \in StopCalls  BY <2>1, <2>2, <2>3 DEF StopCalls
  <2> QED BY <2>1, <2>4
<1>6. stop' = [stop EXCEPT ![p] = c]  BY <1>c DEF Drained, WsGoes
<1>7. OnceEach(c.left)  BY <1>2, <1>5
<1>8. /\ stop' \in [Stoppers -> StopCalls] /\ stop'[p] = c
      /\ \A q \in Stoppers : q # p => stop'[q] = stop[q]
      /\ \A q \in Stoppers : OnceEach(stop'[q].left)
  BY <1>2, <1>5, <1>6, <1>7, GoesIs
<1>9. Left(p)' = Left(p)  BY <1>5, <1>8 DEF Left
<1>10. \A e : HookedIn(e, Left(p))' = HookedIn(e, Left(p))  BY <1>9 DEF HookedIn
<1>11. Stops(p)'  BY <1>0, <1>2, <1>3, <1>4, <1>u, <1>5, <1>8, <1>9, <1>10 DEF Stops
<1>12. c.at \in HaltPlaces  BY <1>5 DEF HaltPlaces
<1> QED BY <1>1, <1>2, <1>3, <1>5, <1>7, <1>8, <1>11, <1>12, OneStops

-----------------------------------------------------------------------------
(* The end of a shutdown, its begin, and the start.                        *)

LEMMA EmptyList == OnceEach(<<>>) /\ Listed(<<>>) = {}
<1>1. \A s : Len(s) = 0 /\ s \in Seq(Servers) => OnceEach(s) /\ Listed(s) = {}  BY DEF OnceEach, Listed
<1>2. <<>> \in Seq(Servers)  OBVIOUS
<1> QED BY <1>1, <1>2

LEMMA AwayIs == Away \in StopCalls /\ Away.at = "idle" /\ Away.left = <<>> /\ OnceEach(Away.left)
<1> PICK l : l = <<>>  OBVIOUS
<1>1. l \in Seq(Servers) /\ OnceEach(l)  BY EmptyList
<1>2. Away = [at |-> "idle", left |-> l]  BY DEF Away
<1>3. Away \in StopCalls  BY <1>1, <1>2 DEF StopCalls
<1> QED BY <1>1, <1>2, <1>3

LEMMA ClearSrvsKeeps == ASSUME WsGood, NEW p \in Stoppers, ClearSrvs(p) PROVE WsGood'
<1> Main \in Stoppers /\ Shutters \subseteq Stoppers /\ \A q \in Stoppers : q # Main => q \in Shutters
  BY DEF Stoppers
<1>0. stop[p].at = "clear"  BY DEF ClearSrvs, WsGoes
<1>1. p \in Halting  BY <1>0 DEF Halting
<1>2. /\ Stops(p) /\ WsTypes /\ InTurn /\ Halting = {p} /\ ~ Filling /\ starts = {} /\ runs > 0
      /\ stop[Main].at # "append" /\ stop[Main].at # "idle"
  BY <1>1, HaltingAlone DEF WsGood
<1>3. UNCHANGED <<serversWg, server, active, shutdowns, starts, runs>> /\ srvs' = <<>>
      /\ isRunContext' = (p # Main /\ isRunContext)
  BY DEF ClearSrvs, NoSrvs
<1>u. \A s : (Ended(s)' <=> Ended(s)) /\ (Unstopped(s)' <=> Unstopped(s))  BY <1>3 DEF Ended, Unstopped
<1>4. stop' = [stop EXCEPT ![p] = Away]  BY DEF ClearSrvs, WsGoes
<1>5. /\ stop' \in [Stoppers -> StopCalls] /\ stop'[p] = Away
      /\ \A q \in Stoppers : q # p => stop'[q] = stop[q]
      /\ \A q \in Stoppers : OnceEach(stop'[q].left)
  BY <1>2, <1>4, AwayIs, GoesIs
<1>6. Halting' = {}
  <2>1. \A q \in Stoppers : q # p => stop'[q].at \notin HaltPlaces  BY <1>2, <1>5, HaltingIs
  <2>2. stop'[p].at \notin HaltPlaces  BY <1>5, AwayIs DEF HaltPlaces
  <2> QED BY <2>1, <2>2 DEF Halting, HaltPlaces
<1>7. WsTypes'
  <2>1. isRunContext' \in BOOLEAN  BY <1>3
  <2>2. OnceEach(srvs')  BY <1>3, EmptyList
  <2> QED BY <1>2, <1>3, <1>5, <2>1, <2>2 DEF WsTypes
<1>8. stop'[Main].at # "append"  BY <1>2, <1>5, AwayIs
<1>9. ~ Filling'  BY <1>2, <1>3, <1>8 DEF Filling
<1>10. InTurn'
  <2>1. stop'[Main].at = "idle" => ~ isRunContext'
    <3>1. CASE p = Main  BY <1>3, <3>1
    <3>2. CASE p # Main  BY <1>2, <1>5, <3>2
    <3> QED BY <3>1, <3>2
  <2>2. \A q \in Shutters : stop'[q].at \notin {"start", "append"}  BY <1>2, <1>5, AwayIs DEF InTurn
  <2>3. stop'[Main].at = "start" => stop'[Main].left = <<>>  BY <1>2, <1>5, AwayIs DEF InTurn
  <2> QED BY <1>2, <1>3, <1>6, <1>8, <1>9, <2>1, <2>2, <2>3 DEF InTurn
<1>11. Rests'
  <2>1. stop[p].left = <<>> /\ serversWg = Len(stop[p].left) /\ \A s \in Servers \ Left(p) : Ended(s)
    BY <1>0, <1>2 DEF Stops
  <2>2. Left(p) = {} /\ Listed(srvs)' = {}
    <3>1. Left(p) = {}  BY <2>1, EmptyList DEF Left
    <3>2. Listed(srvs)' = Listed(srvs')  BY DEF Listed
    <3> QED BY <1>3, <3>1, <3>2, EmptyList
  <2>3. \A s \in Servers : Ended(s)'  BY <1>u, <2>1, <2>2
  <2>4. \A e \in Engines : shutdowns'[e] = HookedIn(e, Listed(srvs))'
    <3> SUFFICES ASSUME NEW e \in Engines PROVE shutdowns'[e] = HookedIn(e, Listed(srvs))'  OBVIOUS
    <3>1. shutdowns[e] = HookedIn(e, {}) + 0  BY <1>0, <1>2, <2>2 DEF Stops
    <3>2. ServersOf(e) \ {} = ServersOf(e)  OBVIOUS
    <3>3. HookedIn(e, {}) = Addrs[e] /\ Addrs[e] \in Nat  BY <3>2, EngineListed, WebServerAssumption DEF HookedIn
    <3>4. HookedIn(e, Listed(srvs))' = HookedIn(e, {})  BY <2>2 DEF HookedIn
    <3> QED BY <1>3, <3>1, <3>3, <3>4
  <2>5. serversWg' = Len(srvs')  BY <1>3, <2>1
  <2>6. ~ (runs' = 0)  BY <1>2, <1>3 DEF WsTypes
  <2> QED BY <2>3, <2>4, <2>5, <2>6 DEF Rests
<1>12. Fills'  BY <1>9 DEF Fills
<1> QED BY <1>6, <1>7, <1>10, <1>11, <1>12 DEF WsGood

\* Whoever begins to stop them stops what srvs lists.
LEMMA BeginsKeeps ==
    ASSUME WsGood, NEW p \in Stoppers, ~ Filling, Halting = {}, stop[Main].at # "idle",
           stop' = [stop EXCEPT ![p] = [at |-> "hooks", left |-> srvs]],
           UNCHANGED <<isRunContext, srvs, serversWg, server, active, shutdowns, starts, runs>>
    PROVE  WsGood'
<1> Main \in Stoppers /\ Shutters \subseteq Stoppers  BY DEF Stoppers
<1> PICK c : c = [at |-> "hooks", left |-> srvs]  OBVIOUS
<1>1. WsTypes /\ InTurn /\ Rests /\ OnceEach(srvs) /\ runs > 0  BY DEF WsGood, WsTypes, InTurn
<1>2. c \in StopCalls /\ c.at = "hooks" /\ c.left = srvs
  <2>1. srvs \in Seq(Servers)  BY <1>1 DEF OnceEach
  <2>2. "hooks" \in HaltPlaces  BY DEF HaltPlaces
  <2> QED BY <2>1, <2>2 DEF StopCalls
<1>3. /\ stop' \in [Stoppers -> StopCalls] /\ stop'[p] = c
      /\ \A q \in Stoppers : q # p => stop'[q] = stop[q]
      /\ \A q \in Stoppers : OnceEach(stop'[q].left)
  <2>1. OnceEach(c.left)  BY <1>1, <1>2
  <2> QED BY <1>1, <1>2, <2>1, GoesIs
<1>u. \A s : (Ended(s)' <=> Ended(s)) /\ (Unstopped(s)' <=> Unstopped(s))  BY DEF Ended, Unstopped
<1>4. Halting' = {p}
  <2>1. \A q \in Stoppers : q # p => stop'[q].at \notin HaltPlaces  BY <1>3, HaltingIs
  <2>2. stop'[p].at \in HaltPlaces  BY <1>2, <1>3 DEF HaltPlaces
  <2> QED BY <2>1, <2>2 DEF Halting, HaltPlaces
<1>5. WsTypes'  BY <1>1, <1>3 DEF WsTypes
<1>6. stop'[Main].at # "append" /\ stop'[Main].at # "idle"  BY <1>2, <1>3 DEF Filling
<1>7. ~ Filling'  BY <1>6 DEF Filling
<1>8. InTurn'
  <2>1. \A q \in Shutters : stop'[q].at \notin {"start", "append"}  BY <1>1, <1>2, <1>3 DEF InTurn
  <2>2. stop'[Main].at = "start" => stop'[Main].left = <<>>  BY <1>1, <1>2, <1>3 DEF InTurn
  <2>3. starts' = {}  BY DEF Filling
  <2> QED BY <1>1, <1>4, <1>6, <1>7, <2>1, <2>2, <2>3 DEF InTurn
<1>9. Stops(p)'
  <2>1. stop'[p].at = "hooks" /\ stop'[p].left = srvs /\ Left(p)' = Listed(srvs)  BY <1>2, <1>3 DEF Left
  <2>2. ~ (runs = 0)  BY <1>1 DEF WsTypes
  <2>3. /\ serversWg = Len(srvs) /\ \A s \in Servers \ Listed(srvs) : Ended(s)
        /\ \A e \in Engines : shutdowns[e] = HookedIn(e, Listed(srvs))
    BY <1>1, <2>2 DEF Rests
  <2>4. \A e : HookedIn(e, Left(p))' = HookedIn(e, Listed(srvs))  BY <2>1 DEF HookedIn
  <2>5. \A e \in Engines : shutdowns'[e] = HookedIn(e, Left(p))' + 0
    <3> SUFFICES ASSUME NEW e \in Engines PROVE shutdowns'[e] = HookedIn(e, Left(p))' + 0  OBVIOUS
    <3>1. shutdowns[e] \in Nat  BY <1>1 DEF WsTypes
    <3> QED BY <2>3, <2>4, <3>1
  <2>6. Listed(srvs)' = Listed(srvs)  BY DEF Listed
  <2> QED BY <1>u, <2>1, <2>3, <2>5, <2>6 DEF Stops
<1>10. Fills' /\ Rests'  BY <1>4, <1>7 DEF Fills, Rests
<1> QED BY <1>4, <1>5, <1>8, <1>9, <1>10 DEF WsGood

LEMMA StopRunKeeps == ASSUME WsGood, StopRun, ~ meddled' PROVE WsGood'
<1> Main \in Stoppers  BY DEF Stoppers
<1>1. starts = {} /\ stop[Main].at = "start"  BY DEF StopRun, WsGoes
<1>2. Halting = {}  BY DEF StopRun
<1>3. ~ Filling  BY <1>1 DEF Filling
<1> QED BY <1>1, <1>2, <1>3, BeginsKeeps DEF StopRun, WsGoes

LEMMA ShutdownKeeps == ASSUME WsGood, NEW p \in Stoppers, Shutdown(p), ~ meddled' PROVE WsGood'
<1>1. isRunContext /\ Halting = {} /\ starts = {} /\ stop[Main].at # "append"  BY DEF Shutdown
<1>2. ~ Filling  BY <1>1 DEF Filling
<1>3. stop[Main].at # "idle"  BY <1>1 DEF WsGood, InTurn
<1> QED BY <1>1, <1>2, <1>3, BeginsKeeps DEF Shutdown, WsGoes

LEMMA ApartEngines == ASSUME NEW e \in Engines, NEW f \in Engines, e # f PROVE ServersOf(e) \cap ServersOf(f) = {}
BY DEF ServersOf

LEMMA RunContextKeeps == ASSUME WsGood, RunContext PROVE WsGood'
<1> Main \in Stoppers /\ Shutters \subseteq Stoppers /\ \A q \in Stoppers : q # Main => q \in Shutters
  BY DEF Stoppers
<1>c. PICK c : c = [Away EXCEPT !.at = "start"]  OBVIOUS
<1>1. /\ stop[Main].at = "idle" /\ stop' = [stop EXCEPT ![Main] = c] /\ runs' = runs + 1
      /\ isRunContext' = TRUE /\ starts' = Engines /\ shutdowns' = [e \in Engines |-> 0]
      /\ UNCHANGED <<srvs, serversWg, server, active>>
  BY <1>c DEF RunContext, WsGoes
<1>2. WsTypes /\ InTurn /\ Rests /\ srvs = <<>> /\ Halting = {} /\ starts = {}
  BY <1>1 DEF WsGood, InTurn
<1>3. ~ Filling  BY <1>1, <1>2 DEF Filling
<1>4. c \in StopCalls /\ c.at = "start" /\ c.left = <<>> /\ OnceEach(c.left)
  <2> PICK l : l = <<>>  OBVIOUS
  <2>1. l \in Seq(Servers) /\ OnceEach(l)  BY EmptyList
  <2>2. c = [at |-> "start", left |-> l]  BY <1>c DEF Away
  <2>3. c \in StopCalls  BY <2>1, <2>2 DEF StopCalls
  <2> QED BY <2>1, <2>2, <2>3
<1>5. /\ stop' \in [Stoppers -> StopCalls] /\ stop'[Main] = c
      /\ \A q \in Stoppers : q # Main => stop'[q] = stop[q]
      /\ \A q \in Stoppers : OnceEach(stop'[q].left)
  BY <1>1, <1>2, <1>4, GoesIs
<1>6. Halting' = {}
  <2>1. \A q \in Stoppers : q # Main => stop'[q].at \notin HaltPlaces  BY <1>2, <1>5, HaltingIs
  <2>2. stop'[Main].at \notin HaltPlaces  BY <1>4, <1>5 DEF HaltPlaces
  <2> QED BY <2>1, <2>2 DEF Halting, HaltPlaces
<1>7. runs \in Nat /\ runs' \in Nat /\ runs' > 0  BY <1>1, <1>2 DEF WsTypes
<1>8. WsTypes'
  <2>1. shutdowns' \in [Engines -> Nat]  BY <1>1
  <2> QED BY <1>1, <1>2, <1>5, <1>7, <2>1 DEF WsTypes
<1>9. InTurn'
  <2>1. \A q \in Shutters : stop'[q].at \notin {"start", "append"}
    <3>1. Main \notin Shutters  BY WebServerAssumption
    <3> QED BY <1>2, <1>5, <3>1 DEF InTurn
  <2>2. stop'[Main].at = "start" /\ stop'[Main].left = <<>>  BY <1>4, <1>5
  <2> QED BY <1>6, <1>7, <2>1, <2>2 DEF InTurn
<1>10. Left(Main)' = {} /\ Listed(srvs)' = {} /\ Len(srvs') = 0 /\ serversWg' = 0
  <2>1. stop'[Main].left = <<>>  BY <1>4, <1>5
  <2>2. Left(Main)' = Listed(stop'[Main].left) /\ Listed(srvs)' = Listed(srvs')  BY DEF Left, Listed
  <2>3. serversWg = Len(srvs)  BY <1>2, <1>3 DEF Rests
  <2>4. srvs' = <<>>  BY <1>1, <1>2
  <2> QED BY <1>1, <1>2, <2>1, <2>2, <2>3, <2>4, EmptyList
<1>11. \A s \in Servers : ~ Unstopped(s)
  <2>1. CASE runs = 0  BY <1>2, <1>3, <2>1 DEF Rests
  <2>2. CASE runs > 0
    <3>1. Listed(srvs) = {}  BY <1>2, EmptyList
    <3>2. \A s \in Servers : Ended(s)  BY <1>2, <1>3, <2>2, <3>1 DEF Rests
    <3> QED BY <3>2 DEF Ended, Unstopped
  <2> QED BY <1>7, <2>1, <2>2
<1>e. \A e \in Engines : ServersOf(e) \subseteq Servers  BY DEF Servers
<1>12. Fills'
  <2>1. \A e \in starts' : \A s \in ServersOf(e) : ~ Unstopped(s)'
    <3>1. \A s \in Servers : ~ Unstopped(s)'  BY <1>1, <1>11 DEF Unstopped
    <3> QED BY <1>1, <1>e, <3>1
  <2>2. \A e \in Engines : shutdowns'[e] = 0  BY <1>1
  <2>3. \A e \in starts' : ServersOf(e) \cap (Listed(srvs)' \cup Left(Main)') = {}  BY <1>10
  <2>4. \A e \in Engines \ starts' : ServersOf(e) \subseteq Listed(srvs)' \cup Left(Main)'  BY <1>1
  <2>5. serversWg' = Len(srvs')  BY <1>10
  <2> QED BY <1>6, <2>1, <2>2, <2>3, <2>4, <2>5 DEF Fills
<1>13. Rests'
  <2> SUFFICES ASSUME ~ Filling' PROVE Rests'  BY DEF Rests
  <2>1. Engines = {} /\ Servers = {}  BY <1>1 DEF Filling, Servers
  <2>2. serversWg' = Len(srvs') /\ ~ (runs' = 0)  BY <1>7, <1>10
  <2> QED BY <2>1, <2>2 DEF Rests
<1> QED BY <1>6, <1>8, <1>9, <1>12, <1>13 DEF WsGood

LEMMA StartUpKeeps == ASSUME WsGood, NEW e \in Engines, StartUp(e) PROVE WsGood'
<1> Main \in Stoppers /\ Shutters \subseteq Stoppers /\ \A q \in Stoppers : q # Main => q \in Shutters
  BY DEF Stoppers
<1>l. PICK l : l = SetToSeq(ServersOf(e))  OBVIOUS
<1>c. PICK c : c = [at |-> "append", left |-> l]  OBVIOUS
<1>1. /\ e \in starts /\ starts' = starts \ {e} /\ stop[Main].at = "start" /\ stop' = [stop EXCEPT ![Main] = c]
      /\ server' = [s \in Servers |-> IF s \in ServersOf(e) THEN "made" ELSE server[s]]
      /\ UNCHANGED <<isRunContext, srvs, serversWg, active, shutdowns, runs>>
  BY <1>l, <1>c DEF StartUp, WsGoes
<1>2. WsTypes /\ InTurn /\ Fills /\ Filling /\ Halting = {} /\ stop[Main].left = <<>>
  BY <1>1 DEF WsGood, InTurn, Filling
<1>3. OnceEach(l) /\ Listed(l) = ServersOf(e)  BY <1>l, EngineListed
<1>4. c \in StopCalls /\ c.at = "append" /\ c.left = l
  <2>1. l \in Seq(Servers)  BY <1>3 DEF OnceEach
  <2> QED BY <1>c, <2>1 DEF StopCalls
<1>5. /\ stop' \in [Stoppers -> StopCalls] /\ stop'[Main] = c
      /\ \A q \in Stoppers : q # Main => stop'[q] = stop[q]
      /\ \A q \in Stoppers : OnceEach(stop'[q].left)
  BY <1>1, <1>2, <1>3, <1>4, GoesIs
<1>6. Halting' = {}
  <2>1. \A q \in Stoppers : q # Main => stop'[q].at \notin HaltPlaces  BY <1>2, <1>5, HaltingIs
  <2>2. stop'[Main].at \notin HaltPlaces  BY <1>4, <1>5 DEF HaltPlaces
  <2> QED BY <2>1, <2>2 DEF Halting, HaltPlaces
<1>7. WsTypes'
  <2>1. server' \in [Servers -> {"none", "made", "listening", "closing", "closed"}]  BY <1>1, <1>2 DEF WsTypes
  <2>2. starts' \in SUBSET Engines  BY <1>1, <1>2 DEF WsTypes
  <2> QED BY <1>1, <1>2, <1>5, <2>1, <2>2 DEF WsTypes
<1>8. Left(Main) = {} /\ Left(Main)' = ServersOf(e) /\ Listed(srvs)' = Listed(srvs)
  <2>1. Left(Main)' = Listed(l)  BY <1>4, <1>5 DEF Left
  <2>2. Left(Main) = {}  BY <1>2, EmptyList DEF Left
  <2> QED BY <1>1, <1>3, <2>1, <2>2 DEF Listed
<1>9. InTurn'
  <2>1. \A q \in Shutters : stop'[q].at \notin {"start", "append"}
    <3>1. Main \notin Shutters  BY WebServerAssumption
    <3> QED BY <1>2, <1>5, <3>1 DEF InTurn
  <2>2. stop'[Main].at = "append"  BY <1>4, <1>5
  <2>3. Left(Main)' \cap Listed(srvs)' = {}
    <3>1. ServersOf(e) \cap (Listed(srvs) \cup Left(Main)) = {}  BY <1>1, <1>2 DEF Fills
    <3> QED BY <1>8, <3>1
  <2>4. runs' > 0  BY <1>1, <1>2 DEF InTurn
  <2> QED BY <1>6, <2>1, <2>2, <2>3, <2>4 DEF InTurn
<1>10. Fills'
  <2>0. starts \subseteq Engines  BY <1>2 DEF WsTypes
  <2>1. \A f \in starts' : ServersOf(f) \cap (Listed(srvs)' \cup Left(Main)') = {}
    <3> SUFFICES ASSUME NEW f \in starts' PROVE ServersOf(f) \cap (Listed(srvs)' \cup Left(Main)') = {}  OBVIOUS
    <3>1. f \in starts /\ f # e  BY <1>1
    <3>2. ServersOf(f) \cap Listed(srvs) = {}  BY <1>2, <3>1 DEF Fills
    <3>3. ServersOf(f) \cap ServersOf(e) = {}  BY <2>0, <3>1, ApartEngines
    <3> QED BY <1>8, <3>2, <3>3
  <2>2. \A f \in Engines \ starts' : ServersOf(f) \subseteq Listed(srvs)' \cup Left(Main)'
    <3> SUFFICES ASSUME NEW f \in Engines \ starts' PROVE ServersOf(f) \subseteq Listed(srvs)' \cup Left(Main)'
      OBVIOUS
    <3>1. f = e \/ f \in Engines \ starts  BY <1>1
    <3>2. f \in Engines \ starts => ServersOf(f) \subseteq Listed(srvs) \cup Left(Main)  BY <1>2 DEF Fills
    <3> QED BY <1>8, <3>1, <3>2
  <2>3. \A f \in starts' : \A s \in ServersOf(f) : ~ Unstopped(s)'
    <3> SUFFICES ASSUME NEW f \in starts', NEW s \in ServersOf(f) PROVE ~ Unstopped(s)'  OBVIOUS
    <3>1. f \in starts /\ f # e /\ f \in Engines  BY <1>1, <2>0
    <3>2. ~ Unstopped(s)  BY <1>2, <3>1 DEF Fills
    <3>3. s \notin ServersOf(e) /\ s \in Servers  BY <3>1, ApartEngines DEF Servers
    <3>4. server'[s] = server[s]  BY <1>1, <3>3
    <3> QED BY <3>2, <3>4 DEF Unstopped
  <2>4. \A f \in Engines : shutdowns'[f] = 0  BY <1>1, <1>2 DEF Fills
  <2>5. serversWg' = Len(srvs')  BY <1>1, <1>2 DEF Fills
  <2> QED BY <1>6, <2>1, <2>2, <2>3, <2>4, <2>5 DEF Fills
<1>11. Filling'  BY <1>4, <1>5 DEF Filling
<1>12. Rests'  BY <1>11 DEF Rests
<1> QED BY <1>6, <1>7, <1>9, <1>10, <1>12 DEF WsGood

LEMMA AddServersKeeps == ASSUME WsGood, AddServers PROVE WsGood'
<1> Main \in Stoppers /\ Shutters \subseteq Stoppers /\ \A q \in Stoppers : q # Main => q \in Shutters
  BY DEF Stoppers
<1>l. PICK l : l = stop[Main].left  OBVIOUS
<1>c. PICK c : c = [Away EXCEPT !.at = "start"]  OBVIOUS
<1>1. /\ stop[Main].at = "append" /\ stop' = [stop EXCEPT ![Main] = c]
      /\ serversWg' = serversWg + Len(l) /\ srvs' = srvs \o l
      /\ UNCHANGED <<isRunContext, server, active, shutdowns, starts, runs>>
  BY <1>l, <1>c DEF AddServers, WsGoes, Adds
<1>2. WsTypes /\ InTurn /\ Fills /\ Filling /\ Halting = {} /\ runs > 0
  BY <1>1 DEF WsGood, InTurn, Filling
<1>3. OnceEach(l) /\ OnceEach(srvs) /\ Listed(l) = Left(Main) /\ Listed(srvs) \cap Listed(l) = {}
  BY <1>l, <1>1, <1>2 DEF WsTypes, InTurn, Left
<1>4. OnceEach(srvs') /\ Listed(srvs') = Listed(srvs) \cup Left(Main) /\ Len(srvs') = Len(srvs) + Len(l)
  BY <1>1, <1>3, ListedBoth
<1>5. c \in StopCalls /\ c.at = "start" /\ c.left = <<>> /\ OnceEach(c.left)
  <2> PICK k : k = <<>>  OBVIOUS
  <2>1. k \in Seq(Servers) /\ OnceEach(k)  BY EmptyList
  <2>2. c = [at |-> "start", left |-> k]  BY <1>c DEF Away
  <2>3. c \in StopCalls  BY <2>1, <2>2 DEF StopCalls
  <2> QED BY <2>1, <2>2, <2>3
<1>6. /\ stop' \in [Stoppers -> StopCalls] /\ stop'[Main] = c
      /\ \A q \in Stoppers : q # Main => stop'[q] = stop[q]
      /\ \A q \in Stoppers : OnceEach(stop'[q].left)
  BY <1>1, <1>2, <1>5, GoesIs
<1>7. Halting' = {}
  <2>1. \A q \in Stoppers : q # Main => stop'[q].at \notin HaltPlaces  BY <1>2, <1>6, HaltingIs
  <2>2. stop'[Main].at \notin HaltPlaces  BY <1>5, <1>6 DEF HaltPlaces
  <2> QED BY <2>1, <2>2 DEF Halting, HaltPlaces
<1>8. serversWg' = Len(srvs') /\ serversWg' \in Nat
  <2>1. serversWg = Len(srvs)  BY <1>2 DEF Fills
  <2>2. Len(srvs') \in Nat  BY <1>4 DEF OnceEach
  <2> QED BY <1>1, <1>4, <2>1, <2>2
<1>9. WsTypes'  BY <1>1, <1>2, <1>4, <1>6, <1>8 DEF WsTypes
<1>10. Left(Main)' = {} /\ Listed(srvs)' = Listed(srvs) \cup Left(Main)
  <2>1. Left(Main)' = Listed(<<>>)  BY <1>5, <1>6 DEF Left
  <2>2. Listed(srvs)' = Listed(srvs')  BY DEF Listed
  <2> QED BY <1>4, <2>1, <2>2, EmptyList
<1>11. InTurn'
  <2>1. \A q \in Shutters : stop'[q].at \notin {"start", "append"}
    <3>1. Main \notin Shutters  BY WebServerAssumption
    <3> QED BY <1>2, <1>6, <3>1 DEF InTurn
  <2>2. stop'[Main].at = "start" /\ stop'[Main].left = <<>>  BY <1>5, <1>6
  <2>3. runs' > 0  BY <1>1, <1>2
  <2> QED BY <1>7, <2>1, <2>2, <2>3 DEF InTurn
<1>u. \A s : Unstopped(s)' <=> Unstopped(s)  BY <1>1 DEF Unstopped
<1>12. Fills'
  <2> SUFFICES ASSUME Filling' PROVE Fills'  BY DEF Fills
  <2>1. \A e \in starts' : ServersOf(e) \cap (Listed(srvs)' \cup Left(Main)') = {}
    BY <1>1, <1>2, <1>10 DEF Fills
  <2>2. \A e \in Engines \ starts' : ServersOf(e) \subseteq Listed(srvs)' \cup Left(Main)'
    BY <1>1, <1>2, <1>10 DEF Fills
  <2>3. \A e \in starts' : \A s \in ServersOf(e) : ~ Unstopped(s)'  BY <1>1, <1>2, <1>u DEF Fills
  <2>4. \A e \in Engines : shutdowns'[e] = 0  BY <1>1, <1>2 DEF Fills
  <2> QED BY <1>7, <1>8, <2>1, <2>2, <2>3, <2>4 DEF Fills
<1>13. Rests'
  <2> SUFFICES ASSUME ~ Filling' PROVE Rests'  BY DEF Rests
  <2>1. starts = {}  BY <1>1 DEF Filling
  <2>2. \A e \in Engines : ServersOf(e) \subseteq Listed(srvs)'  BY <1>2, <1>10, <2>1 DEF Fills
  <2>3. Servers \ Listed(srvs)' = {}  BY <2>2 DEF Servers
  <2>4. \A e \in Engines : shutdowns'[e] = HookedIn(e, Listed(srvs))'
    <3> SUFFICES ASSUME NEW e \in Engines PROVE shutdowns'[e] = HookedIn(e, Listed(srvs))'  OBVIOUS
    <3>1. shutdowns'[e] = 0  BY <1>1, <1>2 DEF Fills
    <3>2. ServersOf(e) \ Listed(srvs)' = {}  BY <2>2
    <3> QED BY <3>1, <3>2, FS_EmptySet DEF HookedIn
  <2>5. ~ (runs' = 0)  BY <1>9, <1>11, <1>1, <1>2 DEF WsTypes
  <2> QED BY <1>8, <2>3, <2>4, <2>5 DEF Rests
<1> QED BY <1>7, <1>9, <1>11, <1>12, <1>13 DEF WsGood

-----------------------------------------------------------------------------
(* The theorem.                                                            *)

LEMMA WsInitGood == WsInit => WsGood
<1> SUFFICES ASSUME WsInit PROVE WsGood  OBVIOUS
<1> Main \in Stoppers /\ Shutters \subseteq Stoppers  BY DEF Stoppers
<1>1. \A p \in Stoppers : stop[p] = Away  BY DEF WsInit
<1>2. Halting = {}  BY <1>1, AwayIs DEF Halting
<1>3. ~ Filling  BY <1>1, AwayIs DEF Filling, WsInit
<1>4. WsTypes
  <2>1. stop \in [Stoppers -> StopCalls]  BY AwayIs DEF WsInit
  <2>2. OnceEach(srvs) /\ \A p \in Stoppers : OnceEach(stop[p].left)  BY <1>1, AwayIs, EmptyList DEF WsInit
  <2>3. /\ server \in [Servers -> {"none", "made", "listening", "closing", "closed"}]
        /\ active \in [Servers -> Nat] /\ shutdowns \in [Engines -> Nat]
    BY DEF WsInit
  <2> QED BY <2>1, <2>2, <2>3 DEF WsInit, WsTypes
<1>5. InTurn  BY <1>1, <1>2, <1>3, AwayIs DEF InTurn, WsInit
<1>6. Fills  BY <1>3 DEF Fills
<1>7. Rests
  <2>1. Len(srvs) = 0  BY DEF WsInit
  <2>2. \A s \in Servers : ~ Unstopped(s)  BY DEF WsInit, Unstopped
  <2> QED BY <2>1, <2>2 DEF Rests, WsInit
<1> QED BY <1>2, <1>4, <1>5, <1>6, <1>7 DEF WsGood

LEMMA WsStep == WsInv /\ [WsNext]_wsVars => WsInv'
<1> SUFFICES ASSUME WsInv, [WsNext]_wsVars, ~ meddled' PROVE WsGood'  BY DEF WsInv
<1>1. ~ meddled  BY DEF WsNext, wsVars, RunContext, StartUp, AddServers, StopRun, Shutdown, StopperStep, Hooks,
        SrvShutdown, SrvClosed, SrvDone, Drained, ClearSrvs, Listen, Serve
<1>2. WsGood  BY <1>1 DEF WsInv
<1>3. CASE UNCHANGED wsVars  BY <1>2, <1>3, ServersChange DEF wsVars, WsGood, WsTypes, Unstopped, Ended
<1>4. CASE RunContext  BY <1>2, <1>4, RunContextKeeps
<1>5. CASE \E e \in Engines : StartUp(e)  BY <1>2, <1>5, StartUpKeeps
<1>6. CASE AddServers  BY <1>2, <1>6, AddServersKeeps
<1>7. CASE StopRun  BY <1>2, <1>7, StopRunKeeps
<1>8. CASE \E p \in Stoppers : Shutdown(p)  BY <1>2, <1>8, ShutdownKeeps
<1>9. CASE \E p \in Stoppers : StopperStep(p)
  BY <1>2, <1>9, HooksKeeps, SrvShutdownKeeps, SrvClosedKeeps, SrvDoneKeeps, DrainedKeeps, ClearSrvsKeeps DEF StopperStep
<1>10. CASE \E s \in Servers : Listen(s) \/ Serve(s)  BY <1>2, <1>10, ListenKeeps, ServeKeeps
<1> QED BY <1>3, <1>4, <1>5, <1>6, <1>7, <1>8, <1>9, <1>10 DEF WsNext

LEMMA GoodStops == WsInv => ServersStop
<1> SUFFICES ASSUME WsGood PROVE ServersStop  BY DEF WsInv, ServersStop
<1> Main \in Stoppers  BY DEF Stoppers
<1>0. WsTypes /\ InTurn /\ Fills /\ Rests  BY DEF WsGood
<1>t. ToSet(srvs) = Listed(srvs) /\ ToSet(stop[Main].left) = Left(Main)
  <2>1. srvs \in Seq(Servers) /\ stop[Main].left \in Seq(Servers)  BY <1>0 DEF WsTypes, OnceEach
  <2> QED BY <2>1, ListedIs DEF Left
<1>1. \A p \in Halting : serversWg = Len(stop[p].left)  BY DEF WsGood, Stops
<1>2. ASSUME NEW s \in Servers, Unstopped(s) PROVE s \in Listed(srvs) \cup Left(Main)
  <2>0. ~ Ended(s)  BY <1>2 DEF Unstopped, Ended
  <2>1. CASE Filling
    <3>1. PICK e \in Engines : s \in ServersOf(e)  BY DEF Servers
    <3>2. e \notin starts  BY <1>0, <1>2, <2>1, <3>1 DEF Fills
    <3> QED BY <1>0, <2>1, <3>1, <3>2 DEF Fills
  <2>2. CASE ~ Filling /\ Halting = {}
    <3>1. runs = 0 \/ runs > 0  BY <1>0 DEF WsTypes
    <3> QED BY <1>0, <1>2, <2>0, <2>2, <3>1 DEF Rests
  <2>3. CASE Halting # {}
    <3>1. PICK p \in Halting : TRUE  BY <2>3
    <3>2. Stops(p)  BY DEF WsGood
    <3> QED BY <2>0, <3>2 DEF Stops
  <2> QED BY <2>1, <2>2, <2>3
<1>3. ASSUME srvs = <<>>, ~ Starting, runs > 0
      PROVE  /\ \A s \in Servers : Ended(s)
             /\ \A e \in Engines : shutdowns[e] = Addrs[e]
  <2>1. Listed(srvs) = {}  BY <1>3, EmptyList
  <2>2. ~ Filling  BY <1>3 DEF Filling, Starting
  <2>3. \A e \in Engines : HookedIn(e, {}) = Addrs[e] /\ Addrs[e] \in Nat
    <3>1. \A e \in Engines : ServersOf(e) \ {} = ServersOf(e)  OBVIOUS
    <3> QED BY <3>1, EngineListed, WebServerAssumption DEF HookedIn
  <2>4. CASE Halting = {}
    <3>1. /\ \A s \in Servers \ {} : Ended(s)
          /\ \A e \in Engines : shutdowns[e] = HookedIn(e, {})
      BY <1>0, <1>3, <2>1, <2>2, <2>4 DEF Rests
    <3> QED BY <2>3, <3>1
  <2>5. CASE Halting # {}
    <3>1. PICK p \in Halting : TRUE  BY <2>5
    <3>2. Stops(p) /\ OnceEach(stop[p].left)  BY HaltingAlone
    <3>3. Left(p) = {}  BY <2>1, <3>2 DEF Stops
    <3>4. stop[p].left = <<>>  BY <3>2, <3>3, ListedLess DEF Left
    <3>5. stop[p].at \notin {"server", "quiet", "done"}  BY <3>2, <3>4 DEF Stops
    <3>6. \A e \in Engines : shutdowns[e] = HookedIn(e, {}) + 0  BY <3>2, <3>3, <3>5 DEF Stops
    <3>7. \A s \in Servers : Ended(s)  BY <3>2, <3>3 DEF Stops
    <3> QED BY <2>3, <3>6, <3>7
  <2> QED BY <2>4, <2>5
<1> QED BY <1>1, <1>2, <1>3, <1>t DEF ServersStop, Unstopped, Ended

\* However RunContext and Shutdown interleave with the servers and their requests, for any
\* engines and goroutines: until somebody calls Shutdown during the start or another
\* shutdown, wg counts the servers that are yet to be stopped, srvs knows every one that
\* works, and after a shutdown none works and each had its hooks run once.
THEOREM ServersAllStop == WsSpec => []ServersStop
<1>1. WsInit => WsInv  BY WsInitGood DEF WsInv
<1> QED BY <1>1, WsStep, GoodStops, PTL DEF WsSpec

-----------------------------------------------------------------------------
(* The injector: who runs a provider is alone with it, what it makes is    *)
(* there for everybody who waited, and a type that it made is found.       *)

Makers == DOMAIN Providers
DiPcs == {"look", "do", "join", "check", "args", "store", "land", "again", "scan", "up", "found", "missing", "panic"}
DiValues == [by : Makers \cup {"none", "map"}, run : Nat]
DiFrames == [n : Injectors, t : DiTypes, pc : DiPcs, fn : Makers \cup {"none"}, k : Nat \ {0}, bad : BOOLEAN, val : DiValues]
DiAnswers == [t : DiTypes, r : {"found", "missing", "panic"}, val : DiValues]
Nothing == [kind |-> "none", types |-> <<>>]

DiTyped ==
    /\ layout \in Layouts
    /\ values \in [Injectors -> [DiTypes -> DiValues]]
    /\ providers \in [Injectors -> [DiTypes -> Makers \cup {"none"}]]
    /\ flights \in [Injectors -> SUBSET Makers]
    /\ asked \in [Askers -> Wishes \cup {Nothing}]
    /\ frames \in [Askers -> Seq(DiFrames)]
    /\ answers \in [Askers -> Seq(DiAnswers)]
    /\ made \in [Makers -> Nat] /\ news \in Nat

\* A Get is under another, for an argument of its provider or as the child that asks its parent.
Above(x, y) ==
    \/ y.pc = "args" /\ x.n = y.n
    \/ y.pc = "up" /\ x.n = "parent" /\ x.t = y.t
Stack(s) ==
    /\ \A i \in 2..Len(s) : Above(s[i - 1], s[i])
    /\ s # <<>> => s[Len(s)].n = "child"
Owner(x) == x.pc \in {"check", "args", "store", "land"}
FrameKnown(x) ==
    /\ x.pc \in {"do", "join", "check", "args", "store", "land"} => x.fn \in Makers
    /\ x.pc \in {"args", "store"} => x.val.by \in Makers
    /\ x.pc \in {"up", "found", "missing"} => x.n = "child"
Stacks ==
    \A a \in Askers : Stack(frames[a]) /\ \A i \in DOMAIN frames[a] : FrameKnown(frames[a][i])
Asking ==
    \A a \in Askers :
        /\ asked[a] = Nothing => frames[a] = <<>> /\ answers[a] = <<>>
        /\ frames[a] # <<>> => asked[a] \in Wishes /\ Len(answers[a]) < Len(asked[a].types)
\* A provider that runs is run by one Get.
OwnersOnce ==
    \A a, b \in Askers : \A i \in DOMAIN frames[a], j \in DOMAIN frames[b] :
        Owner(frames[a][i]) /\ Owner(frames[b][j]) /\ frames[a][i].n = frames[b][j].n
          /\ frames[a][i].fn = frames[b][j].fn => a = b /\ i = j
OwnersFly == \A a \in Askers : \A i \in DOMAIN frames[a] :
    Owner(frames[a][i]) => frames[a][i].fn \in flights[frames[a][i].n]
FlightsOwned == \A n \in Injectors : \A f \in flights[n] : \E a \in Askers : \E i \in DOMAIN frames[a] :
    frames[a][i].n = n /\ frames[a][i].fn = f /\ Owner(frames[a][i])

\* What was registered at the start, and the value that it makes.
First(n, t) == Given(layout[n], t)
Worth(n, t) == [by |-> First(n, t), run |-> 1]
There(n, t) == values[n][t] # NoValue
Supplies ==
    /\ \A n \in Injectors, t \in DiTypes :
          IF First(n, t) = "none" THEN ~ There(n, t) /\ providers[n][t] = "none"
          ELSE IF There(n, t) THEN values[n][t] = Worth(n, t) /\ providers[n][t] = "none"
          ELSE providers[n][t] = First(n, t)
    /\ \A n \in Injectors, t, u \in DiTypes :
          First(n, t) # "none" /\ First(n, t) = First(n, u) => (There(n, t) <=> There(n, u))
Storing(n, f) == \E a \in Askers : At(a, "store") /\ Top(a).n = n /\ Top(a).fn = f
MadeOnce ==
    \A f \in Makers :
        /\ made[f] \in {0, 1}
        /\ made[f] = 1 => \A n \in Injectors, t \in DiTypes : First(n, t) = f => There(n, t) \/ Storing(n, f)
FrameRight(x) ==
    /\ x.pc \in {"do", "join", "check", "args", "store", "land", "again"} => x.fn \in Makers /\ x.fn = First(x.n, x.t)
    /\ x.pc \in {"args", "store"} => x.val.by = x.fn /\ ~ There(x.n, x.t)
    /\ x.pc = "args" => made[x.fn] = 0
    /\ x.pc = "store" => x.val.run = 1
    /\ (x.pc = "land" /\ ~ x.bad) \/ x.pc = "again" => There(x.n, x.t)
    /\ x.pc \in {"scan", "up", "found", "missing"} => First(x.n, x.t) = "none"
    /\ x.pc = "missing" => (layout.nested => First("parent", x.t) = "none")
    /\ x.pc = "found" /\ Implements[x.t] = {} => x.val = Worth("parent", x.t)
FramesRight == \A a \in Askers : \A i \in DOMAIN frames[a] : FrameRight(frames[a][i])
\* The answer of a Get in an injector.
Result(n, t, r, val) ==
    /\ r = "found" /\ Implements[t] = {} => val = Worth(IF First(n, t) = "none" THEN "parent" ELSE n, t)
    /\ r = "missing" => First(n, t) = "none" /\ (n = "child" /\ layout.nested => First("parent", t) = "none")
AnswersRight ==
    \A a \in Askers : \A i \in DOMAIN answers[a] : Result("child", answers[a][i].t, answers[a][i].r, answers[a][i].val)
DiRight == Supplies /\ MadeOnce /\ FramesRight /\ AnswersRight
DiInv == DiTyped /\ Stacks /\ Asking /\ OwnersOnce /\ OwnersFly /\ FlightsOwned /\ (news = 0 => DiRight)

-----------------------------------------------------------------------------
(* Stacks.                                                                 *)

Of(s) == {s[i] : i \in 1..Len(s)}
\* The owners of one stack are those of the other, d places further down.
Reshapes(s, u, d) ==
    /\ s \in Seq(DiFrames) /\ u \in Seq(DiFrames) /\ d \in Int
    /\ \A i \in 1..Len(u) : Owner(u[i]) =>
          i + d \in 1..Len(s) /\ Owner(s[i + d]) /\ s[i + d].n = u[i].n /\ s[i + d].fn = u[i].fn
    /\ \A i \in 1..Len(s) : Owner(s[i]) =>
          i - d \in 1..Len(u) /\ Owner(u[i - d]) /\ u[i - d].n = s[i].n /\ u[i - d].fn = s[i].fn

LEMMA PushIs ==
    ASSUME NEW F, NEW s \in Seq(F), NEW x \in F, NEW u, u = <<x>> \o s
    PROVE  /\ u \in Seq(F) /\ Len(s) \in Nat /\ Len(u) = Len(s) + 1 /\ u[1] = x
           /\ (\A i \in 1..Len(s) : u[i + 1] = s[i]) /\ (\A i \in 2..Len(u) : i - 1 \in 1..Len(s) /\ u[i] = s[i - 1])
<1>1. u \in Seq(F) /\ Len(s) \in Nat /\ Len(u) = Len(s) + 1  OBVIOUS
<1>2. \A i \in 1..Len(u) : u[i] = IF i <= 1 THEN x ELSE s[i - 1]  BY <1>1
<1>3. u[1] = x  BY <1>1, <1>2
<1>4. \A i \in 1..Len(s) : i + 1 \in 1..Len(u) /\ ~ (i + 1 <= 1) /\ i + 1 - 1 = i  BY <1>1
<1>5. \A i \in 1..Len(s) : u[i + 1] = s[i]  BY <1>2, <1>4
<1>6. \A i \in 2..Len(u) : i - 1 \in 1..Len(s) /\ i \in 1..Len(u) /\ ~ (i <= 1)  BY <1>1
<1> QED BY <1>1, <1>2, <1>3, <1>5, <1>6

LEMMA TailIs ==
    ASSUME NEW F, NEW s \in Seq(F), s # <<>>, NEW u, u = Tail(s)
    PROVE  /\ u \in Seq(F) /\ Len(s) \in Nat \ {0} /\ Len(u) = Len(s) - 1 /\ Head(s) = s[1] /\ s[1] \in F
           /\ \A i \in 1..Len(u) : i + 1 \in 2..Len(s) /\ u[i] = s[i + 1]
           /\ \A i \in 2..Len(s) : i - 1 \in 1..Len(u) /\ u[i - 1] = s[i]
<1>1. u \in Seq(F) /\ Len(s) \in Nat \ {0} /\ Len(u) = Len(s) - 1 /\ Head(s) = s[1] /\ s[1] \in F  OBVIOUS
<1>2. \A i \in 1..Len(u) : i + 1 \in 2..Len(s) /\ u[i] = s[i + 1]  BY <1>1
<1>3. \A i \in 2..Len(s) : i - 1 \in 1..Len(u) /\ i - 1 + 1 = i  BY <1>1
<1>4. \A i \in 2..Len(s) : u[i - 1] = s[i]
  <2> SUFFICES ASSUME NEW i \in 2..Len(s) PROVE u[i - 1] = s[i]  OBVIOUS
  <2> PICK j : j = i - 1  OBVIOUS
  <2>1. j \in 1..Len(u) /\ j + 1 = i  BY <1>3
  <2> QED BY <1>2, <2>1
<1> QED BY <1>1, <1>2, <1>3, <1>4

LEMMA RetopIs ==
    ASSUME NEW F, NEW s \in Seq(F), s # <<>>, NEW x \in F, NEW u, u = <<x>> \o Tail(s)
    PROVE  u \in Seq(F) /\ Len(u) = Len(s) /\ u[1] = x /\ \A i \in 2..Len(s) : u[i] = s[i]
<1> PICK r : r = Tail(s)  OBVIOUS
<1>1. /\ r \in Seq(F) /\ Len(s) \in Nat \ {0} /\ Len(r) = Len(s) - 1
      /\ \A i \in 2..Len(s) : i - 1 \in 1..Len(r) /\ r[i - 1] = s[i]
  BY TailIs
<1>2. u = <<x>> \o r  OBVIOUS
<1>3. /\ u \in Seq(F) /\ Len(u) = Len(r) + 1 /\ u[1] = x
      /\ \A i \in 2..Len(u) : i - 1 \in 1..Len(r) /\ u[i] = r[i - 1]
  BY <1>1, <1>2, PushIs
<1>4. Len(u) = Len(s)  BY <1>1, <1>3
<1> QED BY <1>1, <1>3, <1>4

LEMMA SameSeq ==
    ASSUME NEW F, NEW s \in Seq(F), NEW u \in Seq(F), Len(s) = Len(u), \A i \in 1..Len(s) : s[i] = u[i]
    PROVE  s = u
OBVIOUS

\* A Get that asks its parent is put over itself in one step.
LEMMA PairIs ==
    ASSUME NEW F, NEW s \in Seq(F), NEW x \in F, NEW y \in F
    PROVE  <<x, y>> \o s = <<x>> \o (<<y>> \o s)
<1> PICK u : u = <<y>> \o s  OBVIOUS
<1> PICK v : v = <<x>> \o u  OBVIOUS
<1> PICK w : w = <<x, y>> \o s  OBVIOUS
<1>1. /\ u \in Seq(F) /\ Len(s) \in Nat /\ Len(u) = Len(s) + 1 /\ u[1] = y
      /\ \A i \in 2..Len(u) : i - 1 \in 1..Len(s) /\ u[i] = s[i - 1]
  BY PushIs
<1>2. /\ v \in Seq(F) /\ Len(v) = Len(u) + 1 /\ v[1] = x
      /\ \A i \in 2..Len(v) : i - 1 \in 1..Len(u) /\ v[i] = u[i - 1]
  BY <1>1, PushIs
<1>3. w \in Seq(F) /\ Len(w) = Len(s) + 2  OBVIOUS
<1>4. \A i \in 1..Len(w) : w[i] = IF i <= 2 THEN <<x, y>>[i] ELSE s[i - 2]  BY <1>3
<1>5. w[1] = x /\ w[2] = y  BY <1>1, <1>3, <1>4
<1>6. v[2] = y  BY <1>1, <1>2
<1>7. \A i \in 3..Len(w) : v[i] = w[i]
  <2> SUFFICES ASSUME NEW i \in 3..Len(w) PROVE v[i] = w[i]  OBVIOUS
  <2>1. i \in 2..Len(v) /\ i - 1 \in 2..Len(u) /\ i - 1 - 1 = i - 2 /\ i \in 1..Len(w) /\ ~ (i <= 2)
    BY <1>1, <1>2, <1>3
  <2>2. v[i] = u[i - 1] /\ u[i - 1] = s[i - 1 - 1]  BY <1>1, <1>2, <2>1
  <2> QED BY <1>4, <2>1, <2>2
<1>8. \A i \in 1..Len(w) : i = 1 \/ i = 2 \/ i \in 3..Len(w)  BY <1>3
<1>9. \A i \in 1..Len(w) : v[i] = w[i]  BY <1>2, <1>5, <1>6, <1>7, <1>8
<1>10. Len(v) = Len(w)  BY <1>1, <1>2, <1>3
<1> QED BY <1>2, <1>3, <1>9, <1>10, SameSeq

LEMMA PushStack ==
    ASSUME NEW s \in Seq(DiFrames), Stack(s), s # <<>>, NEW x \in DiFrames, Above(x, s[1]), ~ Owner(x),
           NEW u, u = <<x>> \o s
    PROVE  Stack(u) /\ Reshapes(s, u, 0 - 1) /\ Of(u) \subseteq Of(s) \cup {x} /\ u # <<>> /\ u[1] = x
<1>1. /\ u \in Seq(DiFrames) /\ Len(s) \in Nat /\ Len(u) = Len(s) + 1 /\ u[1] = x
      /\ \A i \in 1..Len(s) : u[i + 1] = s[i]
      /\ \A i \in 2..Len(u) : i - 1 \in 1..Len(s) /\ u[i] = s[i - 1]
  BY PushIs
<1>2. Len(s) # 0 /\ u # <<>>  BY <1>1
<1>3. \A i \in 2..Len(u) : Above(u[i - 1], u[i])
  <2> SUFFICES ASSUME NEW i \in 2..Len(u) PROVE Above(u[i - 1], u[i])  OBVIOUS
  <2>1. CASE i = 2  BY <1>1, <2>1
  <2>2. CASE i # 2
    <3>1. i - 1 \in 2..Len(u) /\ i - 1 \in 2..Len(s)  BY <1>1, <2>2
    <3>2. u[i] = s[i - 1] /\ u[i - 1] = s[i - 1 - 1]  BY <1>1, <3>1
    <3> QED BY <3>1, <3>2 DEF Stack
  <2> QED BY <2>1, <2>2
<1>4. u[Len(u)].n = "child"
  <2>1. Len(s) \in 1..Len(s)  BY <1>1, <1>2
  <2>2. u[Len(s) + 1] = s[Len(s)]  BY <1>1, <2>1
  <2> QED BY <1>1, <2>2 DEF Stack
<1>5. Stack(u)  BY <1>3, <1>4 DEF Stack
<1>6. \A i \in 1..Len(u) : i = 1 \/ i \in 2..Len(u)  BY <1>1
<1>7. \A i \in 1..Len(s) : i + 1 \in 1..Len(u) /\ i - (0 - 1) = i + 1  BY <1>1
<1>8. \A i \in 2..Len(u) : i + (0 - 1) = i - 1  OBVIOUS
<1>9. Reshapes(s, u, 0 - 1)
  <2>1. \A i \in 1..Len(u) : Owner(u[i]) => i + (0 - 1) \in 1..Len(s) /\ u[i] = s[i + (0 - 1)]
    BY <1>1, <1>6, <1>8
  <2>2. \A i \in 1..Len(s) : i - (0 - 1) \in 1..Len(u) /\ u[i - (0 - 1)] = s[i]  BY <1>1, <1>7
  <2> QED BY <1>1, <2>1, <2>2 DEF Reshapes
<1>10. \A i \in 1..Len(u) : u[i] \in Of(s) \cup {x}  BY <1>1, <1>6 DEF Of
<1> QED BY <1>1, <1>2, <1>5, <1>9, <1>10 DEF Of

\* What is below stays; the frame on top is another one of the same Get.
Retops(s, x, u) ==
    /\ s \in Seq(DiFrames) /\ Stack(s) /\ s # <<>>
    /\ x \in DiFrames /\ x.n = s[1].n /\ x.t = s[1].t
    /\ u = <<x>> \o Tail(s)
Retopped(s, x, u) ==
    /\ Stack(u) /\ u \in Seq(DiFrames) /\ Of(u) \subseteq Of(s) \cup {x} /\ u # <<>> /\ u[1] = x
    /\ (Owner(x) <=> Owner(s[1])) /\ (Owner(x) => x.fn = s[1].fn) => Reshapes(s, u, 0)

LEMMA RetopStack == ASSUME NEW s, NEW x, NEW u, Retops(s, x, u) PROVE Retopped(s, x, u)
<1>0. /\ s \in Seq(DiFrames) /\ Stack(s) /\ s # <<>>
      /\ x \in DiFrames /\ x.n = s[1].n /\ x.t = s[1].t /\ u = <<x>> \o Tail(s)
  BY DEF Retops
<1>1. u \in Seq(DiFrames) /\ Len(u) = Len(s) /\ u[1] = x /\ \A i \in 2..Len(s) : u[i] = s[i]  BY <1>0, RetopIs
<1>2. Len(s) \in Nat \ {0} /\ u # <<>>  BY <1>0, <1>1
<1>3. \A i \in 2..Len(u) : Above(u[i - 1], u[i])
  <2> SUFFICES ASSUME NEW i \in 2..Len(u) PROVE Above(u[i - 1], u[i])  OBVIOUS
  <2>0. u[i] = s[i] /\ Above(s[i - 1], s[i])  BY <1>0, <1>1 DEF Stack
  <2>1. CASE i = 2  BY <1>0, <1>1, <2>0, <2>1 DEF Above
  <2>2. CASE i # 2
    <3>1. i - 1 \in 2..Len(s)  BY <1>1, <1>2, <2>2
    <3> QED BY <1>1, <2>0, <3>1
  <2> QED BY <2>1, <2>2
<1>4. u[Len(u)].n = "child"
  <2>1. s[Len(s)].n = "child"  BY <1>0 DEF Stack
  <2>2. Len(s) = 1 \/ Len(s) \in 2..Len(s)
    <3>1. \A n \in Nat \ {0} : n = 1 \/ n \in 2..n  OBVIOUS
    <3> QED BY <1>2, <3>1
  <2> QED BY <1>0, <1>1, <2>1, <2>2
<1>5. Stack(u)  BY <1>3, <1>4 DEF Stack
<1>6. \A i \in 1..Len(s) : i = 1 \/ i \in 2..Len(s)  BY <1>2
<1>7. \A i \in 1..Len(u) : u[i] \in Of(s) \cup {x}
  <2>1. \A i \in 2..Len(s) : s[i] \in Of(s)  BY <1>0, <1>2 DEF Of
  <2> QED BY <1>1, <1>6, <2>1
<1>8. ASSUME Owner(x) <=> Owner(s[1]), Owner(x) => x.fn = s[1].fn PROVE Reshapes(s, u, 0)
  <2>1. \A i \in 1..Len(s) : (Owner(u[i]) <=> Owner(s[i])) /\ (Owner(s[i]) => u[i].n = s[i].n /\ u[i].fn = s[i].fn)
    BY <1>0, <1>1, <1>6, <1>8
  <2>2. \A i \in 1..Len(s) : i + 0 = i /\ i - 0 = i  BY <1>2
  <2> QED BY <1>0, <1>1, <2>1, <2>2 DEF Reshapes
<1>9. Of(u) \subseteq Of(s) \cup {x}  BY <1>7 DEF Of
<1> QED BY <1>1, <1>2, <1>5, <1>8, <1>9 DEF Retopped

LEMMA TailStack ==
    ASSUME NEW s \in Seq(DiFrames), Stack(s), s # <<>>, ~ Owner(s[1]), NEW u, u = Tail(s)
    PROVE  /\ Stack(u) /\ u \in Seq(DiFrames) /\ Of(u) \subseteq Of(s) /\ Reshapes(s, u, 1)
           /\ u = <<>> => s[1].n = "child"
           /\ u # <<>> => u[1] \in Of(s) /\ Above(s[1], u[1])
<1>1. /\ u \in Seq(DiFrames) /\ Len(s) \in Nat \ {0} /\ Len(u) = Len(s) - 1
      /\ \A i \in 1..Len(u) : i + 1 \in 2..Len(s) /\ u[i] = s[i + 1]
      /\ \A i \in 2..Len(s) : i - 1 \in 1..Len(u) /\ u[i - 1] = s[i]
  BY TailIs
<1>2. u # <<>> => Len(u) > 0  BY <1>1
<1>3. \A i \in 2..Len(u) : Above(u[i - 1], u[i])
  <2> SUFFICES ASSUME NEW i \in 2..Len(u) PROVE Above(u[i - 1], u[i])  OBVIOUS
  <2>1. i \in 2..Len(s) /\ i \in 1..Len(u) /\ i - 1 \in 1..Len(u) /\ i - 1 + 1 = i /\ i + 1 \in 2..Len(s) /\ i + 1 - 1 = i
    BY <1>1
  <2>2. u[i] = s[i + 1] /\ u[i - 1] = s[i]
    <3>1. u[i] = s[i + 1]  BY <1>1, <2>1
    <3>2. u[i - 1] = s[i]  BY <1>1, <2>1
    <3> QED BY <3>1, <3>2
  <2>3. Above(s[i + 1 - 1], s[i + 1])  BY <2>1 DEF Stack
  <2> QED BY <2>1, <2>2, <2>3
<1>4. u # <<>> => u[Len(u)].n = "child"
  <2> SUFFICES ASSUME u # <<>> PROVE u[Len(u)].n = "child"  OBVIOUS
  <2>1. Len(s) \in 2..Len(s) /\ Len(s) - 1 = Len(u)  BY <1>1, <1>2
  <2>2. u[Len(s) - 1] = s[Len(s)]  BY <1>1, <2>1
  <2> QED BY <2>1, <2>2 DEF Stack
<1>5. Stack(u)  BY <1>3, <1>4 DEF Stack
<1>6. \A i \in 1..Len(u) : u[i] \in Of(s)
  <2>1. \A i \in 1..Len(u) : i + 1 \in 1..Len(s) /\ u[i] = s[i + 1]  BY <1>1
  <2> QED BY <2>1 DEF Of
<1>7. u = <<>> => s[1].n = "child"
  <2>1. u = <<>> => Len(u) = 0  OBVIOUS
  <2>2. Len(u) = 0 => Len(s) = 1  BY <1>1
  <2> QED BY <2>1, <2>2 DEF Stack
<1>8. u # <<>> => u[1] \in Of(s) /\ Above(s[1], u[1])
  <2> SUFFICES ASSUME u # <<>> PROVE u[1] \in Of(s) /\ Above(s[1], u[1])  OBVIOUS
  <2>1. 1 \in 1..Len(u) /\ 2 \in 2..Len(s)  BY <1>1, <1>2
  <2>2. u[1] = s[2]  BY <1>1, <2>1
  <2>3. Above(s[2 - 1], s[2])  BY <2>1 DEF Stack
  <2> QED BY <1>6, <2>1, <2>2, <2>3
<1>9. Reshapes(s, u, 1)
  <2>1. \A i \in 1..Len(u) : i + 1 \in 1..Len(s) /\ u[i] = s[i + 1]  BY <1>1
  <2>2. \A i \in 1..Len(s) : i = 1 \/ i \in 2..Len(s)  BY <1>1
  <2>3. \A i \in 1..Len(s) : Owner(s[i]) => i - 1 \in 1..Len(u) /\ u[i - 1] = s[i]  BY <1>1, <2>2
  <2> QED BY <1>1, <2>1, <2>3 DEF Reshapes
<1> QED BY <1>1, <1>5, <1>6, <1>7, <1>8, <1>9 DEF Of

LEMMA ReshapesTwice ==
    ASSUME NEW s, NEW u, NEW v, NEW d, NEW e, Reshapes(s, u, d), Reshapes(u, v, e)
    PROVE  Reshapes(s, v, d + e)
<1>1. /\ s \in Seq(DiFrames) /\ u \in Seq(DiFrames) /\ v \in Seq(DiFrames) /\ d \in Int /\ e \in Int
      /\ Len(s) \in Nat /\ Len(u) \in Nat /\ Len(v) \in Nat
  BY DEF Reshapes
<1>2. ASSUME NEW i \in 1..Len(v), Owner(v[i])
      PROVE  /\ i + (d + e) \in 1..Len(s) /\ Owner(s[i + (d + e)])
             /\ s[i + (d + e)].n = v[i].n /\ s[i + (d + e)].fn = v[i].fn
  <2>1. i + e \in 1..Len(u) /\ Owner(u[i + e]) /\ u[i + e].n = v[i].n /\ u[i + e].fn = v[i].fn  BY <1>2 DEF Reshapes
  <2> PICK j \in 1..Len(u) : j = i + e  BY <2>1
  <2>2. j + d \in 1..Len(s) /\ Owner(s[j + d]) /\ s[j + d].n = u[j].n /\ s[j + d].fn = u[j].fn  BY <2>1 DEF Reshapes
  <2>3. j + d = i + (d + e)  BY <1>1
  <2> QED BY <2>1, <2>2, <2>3
<1>3. ASSUME NEW i \in 1..Len(s), Owner(s[i])
      PROVE  /\ i - (d + e) \in 1..Len(v) /\ Owner(v[i - (d + e)])
             /\ v[i - (d + e)].n = s[i].n /\ v[i - (d + e)].fn = s[i].fn
  <2>1. i - d \in 1..Len(u) /\ Owner(u[i - d]) /\ u[i - d].n = s[i].n /\ u[i - d].fn = s[i].fn  BY <1>3 DEF Reshapes
  <2> PICK j \in 1..Len(u) : j = i - d  BY <2>1
  <2>2. j - e \in 1..Len(v) /\ Owner(v[j - e]) /\ v[j - e].n = u[j].n /\ v[j - e].fn = u[j].fn  BY <2>1 DEF Reshapes
  <2>3. j - e = i - (d + e)  BY <1>1
  <2> QED BY <2>1, <2>2, <2>3
<1>4. d + e \in Int  BY <1>1
<1> QED BY <1>1, <1>2, <1>3, <1>4 DEF Reshapes

-----------------------------------------------------------------------------
(* What a step of one goroutine has to show.                               *)

LEMMA OwnersKept ==
    ASSUME DiTyped, OwnersOnce, OwnersFly, FlightsOwned, NEW a \in Askers, NEW u, NEW d,
           frames' = [frames EXCEPT ![a] = u], Reshapes(frames[a], u, d), flights' = flights
    PROVE  OwnersOnce' /\ OwnersFly' /\ FlightsOwned'
<1>1. /\ frames \in [Askers -> Seq(DiFrames)] /\ u \in Seq(DiFrames)
      /\ frames'[a] = u /\ \A b \in Askers : b # a => frames'[b] = frames[b]
  BY DEF DiTyped, Reshapes
<1>2. \A b \in Askers : Len(frames[b]) \in Nat /\ DOMAIN frames[b] = 1..Len(frames[b])  BY <1>1
<1>3. Len(u) \in Nat /\ DOMAIN u = 1..Len(u)  BY <1>1
<1>4. d \in Int  BY DEF Reshapes
\* Every owner was one, with the same provider.
<1>5. ASSUME NEW b \in Askers, NEW i \in DOMAIN frames'[b], Owner(frames'[b][i])
      PROVE  LET j == IF b = a THEN i + d ELSE i
             IN  j \in DOMAIN frames[b] /\ Owner(frames[b][j])
                 /\ frames[b][j].n = frames'[b][i].n /\ frames[b][j].fn = frames'[b][i].fn
  <2>1. CASE b = a
    <3>1. i \in 1..Len(u) /\ Owner(u[i])  BY <1>1, <1>3, <1>5, <2>1
    <3>2. i + d \in 1..Len(frames[a]) /\ Owner(frames[a][i + d]) /\ frames[a][i + d].n = u[i].n
          /\ frames[a][i + d].fn = u[i].fn
      BY <3>1 DEF Reshapes
    <3> QED BY <1>1, <1>2, <2>1, <3>2
  <2>2. CASE b # a  BY <1>1, <1>5, <2>2
  <2> QED BY <2>1, <2>2
<1>6. OwnersOnce'
  <2> SUFFICES ASSUME NEW b \in Askers, NEW c \in Askers, NEW i \in DOMAIN frames'[b], NEW j \in DOMAIN frames'[c],
                      Owner(frames'[b][i]), Owner(frames'[c][j]), frames'[b][i].n = frames'[c][j].n,
                      frames'[b][i].fn = frames'[c][j].fn
               PROVE  b = c /\ i = j
    BY DEF OwnersOnce, Owner
  <2> PICK k : k = IF b = a THEN i + d ELSE i  OBVIOUS
  <2> PICK l : l = IF c = a THEN j + d ELSE j  OBVIOUS
  <2>1. /\ k \in DOMAIN frames[b] /\ Owner(frames[b][k])
        /\ frames[b][k].n = frames'[b][i].n /\ frames[b][k].fn = frames'[b][i].fn
    BY <1>5
  <2>2. /\ l \in DOMAIN frames[c] /\ Owner(frames[c][l])
        /\ frames[c][l].n = frames'[c][j].n /\ frames[c][l].fn = frames'[c][j].fn
    BY <1>5
  <2>3. b = c /\ k = l  BY <2>1, <2>2 DEF OwnersOnce
  <2>4. b = a => i \in Int /\ j \in Int  BY <1>1, <1>3, <2>3
  <2> QED BY <1>4, <2>3, <2>4
<1>7. OwnersFly'
  <2> SUFFICES ASSUME NEW b \in Askers, NEW i \in DOMAIN frames'[b], Owner(frames'[b][i])
               PROVE  frames'[b][i].fn \in flights[frames'[b][i].n]
    BY DEF OwnersFly, Owner
  <2> PICK k : k = IF b = a THEN i + d ELSE i  OBVIOUS
  <2>1. /\ k \in DOMAIN frames[b] /\ Owner(frames[b][k])
        /\ frames[b][k].n = frames'[b][i].n /\ frames[b][k].fn = frames'[b][i].fn
    BY <1>5
  <2>2. frames[b][k].fn \in flights[frames[b][k].n]  BY <2>1 DEF OwnersFly
  <2> QED BY <2>1, <2>2
<1>8. FlightsOwned'
  <2> SUFFICES ASSUME NEW n \in Injectors, NEW f \in flights[n]
               PROVE  \E b \in Askers : \E i \in DOMAIN frames'[b] :
                          frames'[b][i].n = n /\ frames'[b][i].fn = f /\ Owner(frames'[b][i])
    BY DEF FlightsOwned, Owner
  <2> PICK b \in Askers : \E i \in DOMAIN frames[b] :
            frames[b][i].n = n /\ frames[b][i].fn = f /\ Owner(frames[b][i])
    BY DEF FlightsOwned
  <2> PICK i \in DOMAIN frames[b] : frames[b][i].n = n /\ frames[b][i].fn = f /\ Owner(frames[b][i])
    OBVIOUS
  <2>1. CASE b = a
    <3>1. i \in 1..Len(frames[a])  BY <1>2, <2>1
    <3>2. i - d \in 1..Len(u) /\ Owner(u[i - d]) /\ u[i - d].n = n /\ u[i - d].fn = f
      BY <2>1, <3>1 DEF Reshapes
    <3> QED BY <1>1, <1>3, <3>2
  <2>2. CASE b # a  BY <1>1, <2>2
  <2> QED BY <2>1, <2>2
<1> QED BY <1>6, <1>7, <1>8

LEMMA StacksKept ==
    ASSUME DiTyped, Stacks, NEW a \in Askers, NEW u \in Seq(DiFrames), frames' = [frames EXCEPT ![a] = u],
           Stack(u), \A x \in Of(u) : FrameKnown(x)
    PROVE  /\ frames' \in [Askers -> Seq(DiFrames)] /\ frames'[a] = u
           /\ (\A b \in Askers : b # a => frames'[b] = frames[b]) /\ Stacks'
<1>1. /\ frames \in [Askers -> Seq(DiFrames)]
      /\ frames' \in [Askers -> Seq(DiFrames)] /\ frames'[a] = u /\ \A b \in Askers : b # a => frames'[b] = frames[b]
  BY DEF DiTyped
<1>2. \A i \in DOMAIN u : FrameKnown(u[i])
  <2>1. DOMAIN u = 1..Len(u)  OBVIOUS
  <2> QED BY <2>1 DEF Of
<1>3. \A b \in Askers : Stack(frames'[b]) /\ \A i \in DOMAIN frames'[b] : FrameKnown(frames'[b][i])
  BY <1>1, <1>2 DEF Stacks
<1> QED BY <1>1, <1>3 DEF Stacks, Stack, FrameKnown, Above

LEMMA FrameTops == ASSUME DiTyped, NEW a \in Askers, frames[a] # <<>>
                   PROVE  /\ frames[a] \in Seq(DiFrames) /\ Top(a) = frames[a][1] /\ Top(a) \in DiFrames
                          /\ Top(a) \in Of(frames[a]) /\ 1 \in DOMAIN frames[a]
<1>1. frames[a] \in Seq(DiFrames)  BY DEF DiTyped
<1>2. /\ Head(frames[a]) = frames[a][1] /\ frames[a][1] \in DiFrames /\ 1 \in DOMAIN frames[a] /\ 1 \in 1..Len(frames[a])
  BY <1>1
<1> QED BY <1>1, <1>2 DEF Top, Of

LEMMA OfFrames == ASSUME NEW a \in Askers, DiTyped
                  PROVE  /\ Stacks => \A x \in Of(frames[a]) : FrameKnown(x)
                         /\ FramesRight => \A x \in Of(frames[a]) : FrameRight(x)
<1>1. DOMAIN frames[a] = 1..Len(frames[a])  BY DEF DiTyped
<1> QED BY <1>1 DEF Of, Stacks, FramesRight

\* Who runs a provider works for nobody else, so that those who wait keep their right.
LEMMA RightKept ==
    ASSUME DiTyped, DiRight, NEW a \in Askers, NEW u \in Seq(DiFrames), frames' = [frames EXCEPT ![a] = u],
           frames[a] # <<>> => Top(a).pc # "store", \A x \in Of(u) : FrameRight(x), AnswersRight',
           UNCHANGED <<layout, values, providers, made>>
    PROVE  DiRight'
<1>1. /\ frames \in [Askers -> Seq(DiFrames)]
      /\ frames'[a] = u /\ \A b \in Askers : b # a => frames'[b] = frames[b]
  BY DEF DiTyped
<1>2. \A n, t : First(n, t)' = First(n, t) /\ (There(n, t)' <=> There(n, t)) /\ Worth(n, t)' = Worth(n, t)
  BY DEF First, There, Worth
<1>3. Supplies'  BY <1>2 DEF DiRight, Supplies
<1>4. \A n, f : Storing(n, f) => Storing(n, f)'
  <2> SUFFICES ASSUME NEW n, NEW f, Storing(n, f) PROVE Storing(n, f)'  OBVIOUS
  <2> PICK b \in Askers : At(b, "store") /\ Top(b).n = n /\ Top(b).fn = f  BY DEF Storing
  <2>1. b # a  BY DEF At
  <2>2. frames'[b] = frames[b]  BY <1>1, <2>1
  <2> QED BY <2>2 DEF Storing, At, Top
<1>5. MadeOnce'  BY <1>2, <1>4 DEF DiRight, MadeOnce
<1>6. \A x : FrameRight(x)' <=> FrameRight(x)  BY <1>2 DEF FrameRight
<1>7. FramesRight'
  <2>1. \A i \in DOMAIN u : FrameRight(u[i])
    <3>1. DOMAIN u = 1..Len(u)  OBVIOUS
    <3> QED BY <3>1 DEF Of
  <2>2. \A b \in Askers : \A i \in DOMAIN frames'[b] : FrameRight(frames'[b][i])  BY <1>1, <2>1 DEF DiRight, FramesRight
  <2> QED BY <2>2, <1>6 DEF FramesRight
<1> QED BY <1>3, <1>5, <1>7 DEF DiRight

LEMMA RightNow == ASSUME UNCHANGED <<layout, values, providers, made>> PROVE \A x : FrameRight(x)' <=> FrameRight(x)
<1>1. \A n, t : First(n, t)' = First(n, t) /\ (There(n, t)' <=> There(n, t)) /\ Worth(n, t)' = Worth(n, t)
  BY DEF First, There, Worth
<1> QED BY <1>1 DEF FrameRight

\* A step that changes nothing but the goroutine's own stack and answers.
LEMMA StackStep ==
    ASSUME DiInv, NEW a \in Askers, NEW u, NEW d, frames' = [frames EXCEPT ![a] = u],
           Reshapes(frames[a], u, d), Stack(u), \A x \in Of(u) : FrameKnown(x),
           frames[a] # <<>> => Top(a).pc # "store",
           UNCHANGED <<layout, values, providers, flights, made, news>>,
           asked' \in [Askers -> Wishes \cup {Nothing}], answers' \in [Askers -> Seq(DiAnswers)], Asking',
           news = 0 => AnswersRight' /\ \A x \in Of(u) : FrameRight(x)
    PROVE  DiInv'
<1>1. DiTyped /\ Stacks /\ Asking /\ OwnersOnce /\ OwnersFly /\ FlightsOwned /\ (news = 0 => DiRight)  BY DEF DiInv
<1>2. u \in Seq(DiFrames)  BY DEF Reshapes
<1>3. Stacks' /\ frames' \in [Askers -> Seq(DiFrames)]  BY <1>1, <1>2, StacksKept
<1>4. DiTyped'  BY <1>1, <1>3 DEF DiTyped
<1>5. OwnersOnce' /\ OwnersFly' /\ FlightsOwned'  BY <1>1, OwnersKept
<1>6. news' = 0 => DiRight'  BY <1>1, <1>2, RightKept
<1> QED BY <1>3, <1>4, <1>5, <1>6 DEF DiInv

\* The goroutine goes on in the same Get.
LEMMA GoesStep ==
    ASSUME DiInv, NEW a \in Askers, frames[a] # <<>>, NEW x \in DiFrames, Goes(a, x),
           x.n = Top(a).n, x.t = Top(a).t, Top(a).pc # "store",
           Owner(x) <=> Owner(Top(a)), Owner(x) => x.fn = Top(a).fn, FrameKnown(x), news = 0 => FrameRight(x),
           UNCHANGED <<layout, values, providers, flights, asked, made, news>>
    PROVE  DiInv'
<1>1. DiTyped /\ Stacks /\ Asking /\ (news = 0 => DiRight)  BY DEF DiInv
<1> PICK s : s = frames[a]  OBVIOUS
<1>2. s \in Seq(DiFrames) /\ Stack(s) /\ s # <<>> /\ Top(a) = s[1]  BY <1>1, FrameTops DEF Stacks
<1> PICK u : u = <<x>> \o Tail(s)  OBVIOUS
<1>3. frames' = [frames EXCEPT ![a] = u] /\ answers' = answers  BY DEF Goes, Below
<1>4. Stack(u) /\ u \in Seq(DiFrames) /\ Of(u) \subseteq Of(s) \cup {x} /\ Reshapes(s, u, 0)
  <2>1. x.n = s[1].n /\ x.t = s[1].t /\ (Owner(x) <=> Owner(s[1])) /\ (Owner(x) => x.fn = s[1].fn)  BY <1>2
  <2> HIDE <1>2
  <2>2. s \in Seq(DiFrames) /\ Stack(s) /\ s # <<>>  BY <1>2
  <2>3. Retops(s, x, u)  BY <2>1, <2>2 DEF Retops
  <2>4. Retopped(s, x, u)  BY <2>3, RetopStack
  <2> QED BY <2>1, <2>4 DEF Retopped
<1>5. \A y \in Of(u) : FrameKnown(y)  BY <1>1, <1>4, OfFrames
<1>6. news = 0 => \A y \in Of(u) : FrameRight(y)  BY <1>1, <1>4, OfFrames DEF DiRight
<1>7. frames \in [Askers -> Seq(DiFrames)] /\ frames'[a] = u /\ \A b \in Askers : b # a => frames'[b] = frames[b]
  BY <1>1, <1>3 DEF DiTyped
<1>8. Asking'
  <2>1. \A b \in Askers : asked[b] = Nothing => frames'[b] = <<>>  BY <1>1, <1>2, <1>7 DEF Asking
  <2>2. \A b \in Askers : frames'[b] # <<>> => frames[b] # <<>>  BY <1>2, <1>7
  <2> QED BY <1>1, <1>3, <2>1, <2>2 DEF Asking
<1>9. news = 0 => AnswersRight'
  <2>1. \A n, t : First(n, t)' = First(n, t) /\ Worth(n, t)' = Worth(n, t)  BY DEF First, Worth
  <2> QED BY <1>1, <1>3, <2>1 DEF DiRight, AnswersRight, Result
<1>10. asked' \in [Askers -> Wishes \cup {Nothing}] /\ answers' \in [Askers -> Seq(DiAnswers)]
  BY <1>1, <1>3 DEF DiTyped
<1> QED BY <1>2, <1>3, <1>4, <1>5, <1>6, <1>8, <1>9, <1>10, StackStep

-----------------------------------------------------------------------------
(* The end of a Get.                                                       *)

LEMMA NewFrame ==
    ASSUME NEW n \in Injectors, NEW t \in DiTypes, NEW x, x = Frame(n, t)
    PROVE  x \in DiFrames /\ x.n = n /\ x.t = t /\ x.pc = "look" /\ ~ Owner(x) /\ FrameKnown(x) /\ FrameRight(x)
<1>1. NoValue \in DiValues  BY DEF NoValue, DiValues
<1> PICK v : v = NoValue  OBVIOUS
<1>2. x = [n |-> n, t |-> t, pc |-> "look", fn |-> "none", k |-> 1, bad |-> FALSE, val |-> v]  BY DEF Frame
<1>3. v \in DiValues  BY <1>1
<1>4. x \in DiFrames  BY <1>2, <1>3 DEF DiFrames, DiPcs
<1>5. x.n = n /\ x.t = t /\ x.pc = "look"  BY <1>2
<1> QED BY <1>4, <1>5 DEF Owner, FrameKnown, FrameRight

\* The wish tells what is asked for next.
LEMMA NextWish ==
    ASSUME NEW w \in Wishes, NEW i \in Nat, i < Len(w.types)
    PROVE  w.types[i + 1] \in DiTypes
<1>1. w.types \in Seq(DiTypes)  BY InjectorAssumption
<1> QED BY <1>1

LEMMA EndsMore ==
    ASSUME DiTyped, Asking, NEW a \in Askers, frames[a] # <<>>, NEW r \in {"found", "missing", "panic"}, Ends(a, r) = "none"
    PROVE  Len(answers[a]) \in Nat /\ Len(answers[a]) + 1 < Len(asked[a].types)
<1>1. asked[a] \in Wishes /\ Len(answers[a]) < Len(asked[a].types)  BY DEF Asking
<1> PICK w : w = asked[a]  OBVIOUS
<1> PICK so : so = answers[a]  OBVIOUS
<1>2. w \in Wishes /\ w.types \in Seq(DiTypes) /\ (w.kind = "Apply" => Len(w.types) >= 2)  BY <1>1, InjectorAssumption
<1>3. Len(w.types) \in Nat /\ so \in Seq(DiAnswers) /\ Len(so) \in Nat /\ Len(so) < Len(w.types)  BY <1>1, <1>2 DEF DiTyped
<1>4. r # "panic"  BY DEF Ends
<1>5. CASE r = "missing"
  <2>1. w.kind = "Apply" /\ so = <<>>  BY <1>5 DEF Ends
  <2> QED BY <1>2, <1>3, <2>1
<1>6. CASE r = "found"
  <2>1. Len(so) + 1 # Len(w.types)  BY <1>6 DEF Ends
  <2> QED BY <1>3, <2>1
<1> QED BY <1>4, <1>5, <1>6

LEMMA ReturnOut ==
    ASSUME DiInv, NEW a \in Askers, frames[a] # <<>>, ~ Owner(Top(a)), Tail(frames[a]) = <<>>,
           NEW r \in {"found", "missing", "panic"}, NEW val \in DiValues, Return(a, r, val),
           news = 0 => Result(Top(a).n, Top(a).t, r, val),
           UNCHANGED <<layout, values, providers, flights, asked, made, news>>
    PROVE  DiInv'
<1>1. DiTyped /\ Stacks /\ Asking /\ (news = 0 => DiRight)  BY DEF DiInv
<1>s. PICK s : s = frames[a]  OBVIOUS
<1>2. s \in Seq(DiFrames) /\ Stack(s) /\ s # <<>> /\ Top(a) = s[1] /\ ~ Owner(s[1]) /\ s[1] \in DiFrames /\ Tail(s) = <<>>
  BY <1>1, <1>s, FrameTops DEF Stacks
<1>e. PICK e : e = Tail(s)  OBVIOUS
<1>3. s[1].n = "child" /\ Reshapes(s, e, 1) /\ e = <<>>  BY <1>2, <1>e, TailStack
<1>x. PICK x : x = Frame("child", asked[a].types[Len(answers[a]) + 2])  OBVIOUS
<1>u. PICK u : u = IF Ends(a, r) = "none" THEN <<x>> ELSE <<>>  OBVIOUS
<1>m. PICK m : m = [t |-> Top(a).t, r |-> r, val |-> val]  OBVIOUS
<1>4. /\ frames' = [frames EXCEPT ![a] = u]
      /\ answers' = [answers EXCEPT ![a] = Append(@, m)]
  BY <1>x, <1>u, <1>m DEF Return
<1>5. asked[a] \in Wishes /\ Len(answers[a]) < Len(asked[a].types) /\ asked[a] # Nothing
  <2>1. asked[a] \in Wishes /\ Len(answers[a]) < Len(asked[a].types)  BY <1>1 DEF Asking
  <2>2. asked[a] # Nothing  BY <2>1, InjectorAssumption DEF Nothing
  <2> QED BY <2>1, <2>2
<1>6. Ends(a, r) = "none" => /\ x \in DiFrames /\ x.n = "child" /\ ~ Owner(x) /\ FrameKnown(x) /\ FrameRight(x)
                             /\ Len(answers[a]) + 1 < Len(asked[a].types)
  <2> SUFFICES ASSUME Ends(a, r) = "none"
               PROVE  /\ x \in DiFrames /\ x.n = "child" /\ ~ Owner(x) /\ FrameKnown(x) /\ FrameRight(x)
                      /\ Len(answers[a]) + 1 < Len(asked[a].types)
    OBVIOUS
  <2>1. Len(answers[a]) \in Nat /\ Len(answers[a]) + 1 < Len(asked[a].types)  BY <1>1, EndsMore
  <2> PICK i : i = Len(answers[a]) + 1  OBVIOUS
  <2>2. i \in Nat /\ i < Len(asked[a].types) /\ i + 1 = Len(answers[a]) + 2  BY <2>1
  <2>3. asked[a].types[i + 1] \in DiTypes  BY <1>5, <2>2, NextWish
  <2>4. "child" \in Injectors  BY DEF Injectors
  <2> PICK t \in DiTypes : t = asked[a].types[Len(answers[a]) + 2]  BY <2>2, <2>3
  <2>5. x = Frame("child", t)  BY <1>x
  <2> QED BY <2>1, <2>4, <2>5, NewFrame
<1>7. Stack(u) /\ Reshapes(s, u, 1) /\ (\A y \in Of(u) : FrameKnown(y) /\ FrameRight(y)) /\ u \in Seq(DiFrames)
  <2>1. CASE Ends(a, r) # "none"
    <3>1. u = e  BY <1>3, <1>u, <2>1
    <3>2. Len(u) = 0  BY <1>3, <3>1
    <3>3. Of(u) = {} /\ Stack(u) /\ u \in Seq(DiFrames)  BY <1>3, <3>1, <3>2 DEF Of, Stack
    <3> QED BY <1>3, <3>1, <3>3
  <2>2. CASE Ends(a, r) = "none"
    <3>1. u = <<x>> /\ x \in DiFrames /\ x.n = "child" /\ ~ Owner(x) /\ FrameKnown(x) /\ FrameRight(x)
      BY <1>6, <1>u, <2>2
    <3>2. u \in Seq(DiFrames) /\ Len(u) = 1 /\ u[1] = x  BY <3>1
    <3>3. \A i \in 1..Len(u) : u[i] = x  BY <3>2
    <3>4. Stack(u) /\ \A y \in Of(u) : y = x  BY <3>1, <3>2, <3>3 DEF Stack, Of
    <3>5. Reshapes(s, u, 1)
      <4>1. Len(e) = 0  BY <1>3
      <4>2. \A i \in 1..Len(s) : ~ Owner(s[i])  BY <1>3, <4>1 DEF Reshapes
      <4> QED BY <1>2, <3>1, <3>2, <3>3, <4>2 DEF Reshapes
    <3> QED BY <3>1, <3>2, <3>4, <3>5
  <2> QED BY <2>1, <2>2
<1>8. Top(a).pc # "store"  BY DEF Owner
<1>9. m \in DiAnswers
  <2>1. Top(a).t \in DiTypes  BY <1>2 DEF DiFrames
  <2> QED BY <1>m, <2>1 DEF DiAnswers
<1>10. /\ answers \in [Askers -> Seq(DiAnswers)] /\ answers' \in [Askers -> Seq(DiAnswers)]
       /\ answers'[a] = Append(answers[a], m) /\ \A b \in Askers : b # a => answers'[b] = answers[b]
  BY <1>1, <1>4, <1>9 DEF DiTyped
<1>11. Len(answers'[a]) = Len(answers[a]) + 1 /\ Len(answers[a]) \in Nat  BY <1>10
<1>12. frames'[a] = u /\ \A b \in Askers : b # a => frames'[b] = frames[b]  BY <1>1, <1>4 DEF DiTyped
<1>13. Asking'
  <2> SUFFICES ASSUME NEW b \in Askers
               PROVE  /\ asked[b] = Nothing => frames'[b] = <<>> /\ answers'[b] = <<>>
                      /\ frames'[b] # <<>> => asked[b] \in Wishes /\ Len(answers'[b]) < Len(asked[b].types)
    BY DEF Asking
  <2>1. CASE b = a
    <3>1. frames'[a] # <<>> => Ends(a, r) = "none"  BY <1>12, <1>u
    <3> QED BY <1>5, <1>6, <1>11, <2>1, <3>1
  <2>2. CASE b # a  BY <1>1, <1>10, <1>12, <2>2 DEF Asking
  <2> QED BY <2>1, <2>2
<1>14. news = 0 => AnswersRight'
  <2> SUFFICES ASSUME news = 0 PROVE AnswersRight'  OBVIOUS
  <2>1. \A n, t : First(n, t)' = First(n, t) /\ Worth(n, t)' = Worth(n, t)  BY DEF First, Worth
  <2>2. \A n, t, q, v : Result(n, t, q, v)' <=> Result(n, t, q, v)  BY <2>1 DEF Result
  <2> SUFFICES ASSUME NEW b \in Askers, NEW i \in DOMAIN answers'[b]
               PROVE  Result("child", answers'[b][i].t, answers'[b][i].r, answers'[b][i].val)
    BY <2>2 DEF AnswersRight
  <2>3. CASE b # a \/ i \in DOMAIN answers[a]
    <3>1. i \in DOMAIN answers[b] /\ answers'[b][i] = answers[b][i]
      <4>1. CASE b # a  BY <1>10, <4>1
      <4>2. CASE b = a
        <5>1. answers[a] \in Seq(DiAnswers) /\ i \in 1..Len(answers[a])  BY <1>10, <2>3, <4>2
        <5>2. Append(answers[a], m)[i] = answers[a][i]  BY <5>1
        <5> QED BY <1>10, <2>3, <4>2, <5>2
      <4> QED BY <4>1, <4>2
    <3> QED BY <1>1, <3>1 DEF DiRight, AnswersRight
  <2>4. CASE b = a /\ i \notin DOMAIN answers[a]
    <3>1. answers'[b][i] = m  BY <1>10, <2>4
    <3>2. m.t = Top(a).t /\ m.r = r /\ m.val = val  BY <1>m
    <3> QED BY <1>2, <1>3, <3>1, <3>2
  <2> QED BY <2>3, <2>4
<1>15. asked' \in [Askers -> Wishes \cup {Nothing}]  BY <1>1 DEF DiTyped
<1> QED BY <1>4, <1>7, <1>8, <1>10, <1>13, <1>14, <1>15, <1>s, StackStep

\* Another Get of the goroutine goes on with the answer.
LEMMA ReturnIn ==
    ASSUME DiInv, NEW a \in Askers, frames[a] # <<>>, ~ Owner(Top(a)), Tail(frames[a]) # <<>>,
           NEW r \in {"found", "missing", "panic"}, NEW val \in DiValues, Return(a, r, val),
           news = 0 => Result(Top(a).n, Top(a).t, r, val),
           UNCHANGED <<layout, values, providers, flights, asked, made, news>>
    PROVE  DiInv'
<1>1. DiTyped /\ Stacks /\ Asking /\ (news = 0 => DiRight)  BY DEF DiInv
<1>s. PICK s : s = frames[a]  OBVIOUS
<1>2. s \in Seq(DiFrames) /\ Stack(s) /\ s # <<>> /\ Top(a) = s[1] /\ ~ Owner(s[1]) /\ s[1] \in DiFrames
  BY <1>1, <1>s, FrameTops DEF Stacks
<1>e. PICK e : e = Tail(s)  OBVIOUS
<1>3. e # <<>>  BY <1>e, <1>s
<1>4. /\ Stack(e) /\ e \in Seq(DiFrames) /\ Of(e) \subseteq Of(s) /\ Reshapes(s, e, 1)
      /\ e[1] \in Of(s) /\ Above(s[1], e[1])
  BY <1>2, <1>e, <1>3, TailStack
<1>z. PICK z : z = e[1]  OBVIOUS
<1>5. z \in DiFrames /\ z = Head(e)  BY <1>3, <1>4, <1>z
<1>y. PICK y : y = CASE z.pc = "args" /\ r = "found" -> [z EXCEPT !.k = @ + 1]
                     [] z.pc = "args" /\ r # "found" -> [z EXCEPT !.pc = "land", !.bad = TRUE]
                     [] OTHER -> [z EXCEPT !.pc = r, !.val = val]
  OBVIOUS
<1>u. PICK u : u = <<y>> \o Tail(e)  OBVIOUS
<1>6. frames' = [frames EXCEPT ![a] = u] /\ answers' = answers
  BY <1>3, <1>5, <1>s, <1>e, <1>y, <1>u DEF Return
<1>7. z.pc = "args" \/ (z.pc = "up" /\ s[1].n = "parent" /\ s[1].t = z.t)  BY <1>4, <1>z DEF Above
<1>8. FrameKnown(z) /\ (news = 0 => FrameRight(z))  BY <1>1, <1>4, <1>s, <1>z, OfFrames DEF DiRight
\* What the Get below becomes.
<1>9. /\ y \in DiFrames /\ y.n = z.n /\ y.t = z.t /\ (Owner(y) <=> Owner(z)) /\ y.fn = z.fn
      /\ FrameKnown(y) /\ (news = 0 => FrameRight(y))
  <2>1. CASE z.pc = "args" /\ r = "found"
    <3>1. y = [z EXCEPT !.k = z.k + 1]  BY <1>y, <2>1
    <3>2. z.k + 1 \in Nat \ {0}  BY <1>5 DEF DiFrames
    <3>3. y \in DiFrames  BY <1>5, <3>1, <3>2 DEF DiFrames
    <3>4. y.n = z.n /\ y.t = z.t /\ y.fn = z.fn /\ y.pc = "args" /\ y.val = z.val /\ z.pc = "args"
      BY <1>5, <2>1, <3>1 DEF DiFrames
    <3>5. Owner(y) /\ Owner(z)  BY <3>4 DEF Owner
    <3>6. FrameKnown(y)  BY <1>8, <3>4 DEF FrameKnown
    <3>7. FrameRight(z) => FrameRight(y)  BY <3>4 DEF FrameRight
    <3> QED BY <1>8, <3>3, <3>4, <3>5, <3>6, <3>7
  <2>2. CASE z.pc = "args" /\ r # "found"
    <3>1. y = [z EXCEPT !.pc = "land", !.bad = TRUE]  BY <1>y, <2>2
    <3>2. y \in DiFrames  BY <1>5, <3>1 DEF DiFrames, DiPcs
    <3>3. y.n = z.n /\ y.t = z.t /\ y.fn = z.fn /\ y.pc = "land" /\ y.bad = TRUE /\ z.pc = "args"
      BY <1>5, <2>2, <3>1 DEF DiFrames
    <3>4. Owner(y) /\ Owner(z)  BY <3>3 DEF Owner
    <3>5. FrameKnown(y)  BY <1>8, <3>3 DEF FrameKnown
    <3>6. FrameRight(z) => FrameRight(y)  BY <3>3 DEF FrameRight
    <3> QED BY <1>8, <3>2, <3>3, <3>4, <3>5, <3>6
  <2>3. CASE z.pc = "up"
    <3>1. y = [z EXCEPT !.pc = r, !.val = val]  BY <1>y, <2>3
    <3>2. r \in DiPcs  BY DEF DiPcs
    <3>3. y \in DiFrames  BY <1>5, <3>1, <3>2 DEF DiFrames
    <3>4. y.n = z.n /\ y.t = z.t /\ y.fn = z.fn /\ y.pc = r /\ y.val = val  BY <1>5, <3>1 DEF DiFrames
    <3>5. ~ Owner(y) /\ ~ Owner(z)  BY <2>3, <3>4 DEF Owner
    <3>6. z.n = "child"  BY <1>8, <2>3 DEF FrameKnown
    <3>7. FrameKnown(y)  BY <3>4, <3>6 DEF FrameKnown
    <3>8. ASSUME news = 0 PROVE FrameRight(y)
      <4>1. Result("parent", z.t, r, val)  BY <1>2, <1>7, <2>3, <3>8
      <4>2. First(z.n, z.t) = "none"  BY <1>8, <2>3, <3>8 DEF FrameRight
      <4>3. r = "missing" => (layout.nested => First("parent", z.t) = "none")  BY <4>1 DEF Result
      <4>4. r = "found" /\ Implements[z.t] = {} => val = Worth("parent", z.t)  BY <4>1 DEF Result
      <4> QED BY <3>4, <4>2, <4>3, <4>4 DEF FrameRight
    <3> QED BY <3>3, <3>4, <3>5, <3>7, <3>8
  <2> QED BY <1>7, <2>1, <2>2, <2>3
<1>10. /\ Stack(u) /\ u \in Seq(DiFrames) /\ Of(u) \subseteq Of(e) \cup {y} /\ Reshapes(e, u, 0)
  <2>1. y \in DiFrames /\ y.n = e[1].n /\ y.t = e[1].t /\ (Owner(y) <=> Owner(e[1])) /\ (Owner(y) => y.fn = e[1].fn)
    BY <1>9, <1>z
  <2>2. e \in Seq(DiFrames) /\ Stack(e) /\ e # <<>>  BY <1>3, <1>4
  <2>3. Retops(e, y, u)  BY <1>u, <2>1, <2>2 DEF Retops
  <2>4. Retopped(e, y, u)  BY <2>3, RetopStack
  <2> QED BY <2>1, <2>4 DEF Retopped
<1>11. Reshapes(s, u, 1)
  <2>1. Reshapes(s, u, 1 + 0)  BY <1>4, <1>10, ReshapesTwice
  <2> QED BY <2>1
<1>12. \A x \in Of(u) : FrameKnown(x)  BY <1>1, <1>4, <1>9, <1>10, <1>s, OfFrames
<1>13. news = 0 => \A x \in Of(u) : FrameRight(x)  BY <1>1, <1>4, <1>9, <1>10, <1>s, OfFrames DEF DiRight
<1>14. frames'[a] = u /\ \A b \in Askers : b # a => frames'[b] = frames[b]  BY <1>1, <1>6 DEF DiTyped
<1>15. Asking'
  <2>1. \A b \in Askers : asked[b] = Nothing => frames'[b] = <<>>  BY <1>1, <1>2, <1>14, <1>s DEF Asking
  <2>2. \A b \in Askers : frames'[b] # <<>> => frames[b] # <<>>  BY <1>2, <1>14, <1>s
  <2> QED BY <1>1, <1>6, <2>1, <2>2 DEF Asking
<1>16. news = 0 => AnswersRight'
  <2>1. \A n, t : First(n, t)' = First(n, t) /\ Worth(n, t)' = Worth(n, t)  BY DEF First, Worth
  <2> QED BY <1>1, <1>6, <2>1 DEF DiRight, AnswersRight, Result
<1>17. asked' \in [Askers -> Wishes \cup {Nothing}] /\ answers' \in [Askers -> Seq(DiAnswers)]
  BY <1>1, <1>6 DEF DiTyped
<1>18. Top(a).pc # "store"  BY DEF Owner
<1> QED BY <1>6, <1>10, <1>11, <1>12, <1>13, <1>15, <1>16, <1>17, <1>18, <1>s, StackStep

LEMMA ReturnStep ==
    ASSUME DiInv, NEW a \in Askers, frames[a] # <<>>, ~ Owner(Top(a)),
           NEW r \in {"found", "missing", "panic"}, NEW val \in DiValues, Return(a, r, val),
           news = 0 => Result(Top(a).n, Top(a).t, r, val),
           UNCHANGED <<layout, values, providers, flights, asked, made, news>>
    PROVE  DiInv'
BY ReturnIn, ReturnOut

-----------------------------------------------------------------------------
(* The steps that only change the goroutine's own stack.                   *)

LEMMA AtTop == ASSUME DiInv, NEW a \in Askers, NEW pc, At(a, pc)
               PROVE  /\ frames[a] # <<>> /\ Top(a).pc = pc /\ Top(a) \in DiFrames /\ FrameKnown(Top(a))
                      /\ news = 0 => FrameRight(Top(a)) /\ Supplies /\ MadeOnce
                      /\ DiTyped /\ Top(a).n \in Injectors /\ Top(a).t \in DiTypes
<1>1. DiTyped /\ Stacks /\ (news = 0 => DiRight) /\ frames[a] # <<>> /\ Top(a).pc = pc  BY DEF DiInv, At
<1>2. Top(a) \in DiFrames /\ Top(a) \in Of(frames[a])  BY <1>1, FrameTops
<1>3. FrameKnown(Top(a)) /\ (news = 0 => FrameRight(Top(a)))  BY <1>1, <1>2, OfFrames DEF DiRight
<1>4. Top(a).n \in Injectors /\ Top(a).t \in DiTypes  BY <1>2 DEF DiFrames
<1> QED BY <1>1, <1>2, <1>3, <1>4 DEF DiRight

LEMMA ValueTyped == ASSUME DiTyped, NEW n \in Injectors, NEW t \in DiTypes
                    PROVE  values[n][t] \in DiValues /\ providers[n][t] \in Makers \cup {"none"}
BY DEF DiTyped

LEMMA AskKeeps == ASSUME DiInv, NEW a \in Askers, Ask(a) PROVE DiInv'
<1>1. DiTyped /\ Stacks /\ Asking /\ (news = 0 => DiRight)  BY DEF DiInv
<1>2. PICK w \in Wishes : asked' = [asked EXCEPT ![a] = w] /\ frames' = [frames EXCEPT ![a] = <<Frame("child", w.types[1])>>]
  BY DEF Ask
<1>3. asked[a] = Nothing
  <2>1. asked[a] \in Wishes \cup {Nothing}  BY <1>1 DEF DiTyped
  <2>2. asked[a].kind = "none"  BY DEF Ask
  <2> QED BY <2>1, <2>2, InjectorAssumption
<1>4. frames[a] = <<>> /\ answers[a] = <<>>  BY <1>1, <1>3 DEF Asking
<1>5. w.types \in Seq(DiTypes) /\ Len(w.types) > 0 /\ w.types[1] \in DiTypes
  <2>1. w.types \in Seq(DiTypes) /\ w.types # <<>>  BY InjectorAssumption
  <2> QED BY <2>1
<1>x. PICK x : x = Frame("child", w.types[1])  OBVIOUS
<1>6. x \in DiFrames /\ x.n = "child" /\ ~ Owner(x) /\ FrameKnown(x) /\ FrameRight(x)
  <2>1. "child" \in Injectors  BY DEF Injectors
  <2> QED BY <1>5, <1>x, <2>1, NewFrame
<1>u. PICK u : u = <<x>>  OBVIOUS
<1>7. u \in Seq(DiFrames) /\ Len(u) = 1 /\ u[1] = x /\ \A i \in 1..Len(u) : u[i] = x
  <2>1. u \in Seq(DiFrames) /\ Len(u) = 1 /\ u[1] = x  BY <1>6, <1>u
  <2> QED BY <2>1
<1>8. Stack(u) /\ \A y \in Of(u) : y = x  BY <1>6, <1>7 DEF Stack, Of
<1>9. Reshapes(frames[a], u, 0)
  <2>1. Len(frames[a]) = 0 /\ frames[a] \in Seq(DiFrames)  BY <1>1, <1>4 DEF DiTyped
  <2> QED BY <1>6, <1>7, <2>1 DEF Reshapes
<1>10. frames' = [frames EXCEPT ![a] = u]  BY <1>2, <1>x, <1>u
<1>11. /\ frames'[a] = u /\ \A b \in Askers : b # a => frames'[b] = frames[b]
       /\ asked'[a] = w /\ \A b \in Askers : b # a => asked'[b] = asked[b]
       /\ asked' \in [Askers -> Wishes \cup {Nothing}]
  BY <1>1, <1>2, <1>10 DEF DiTyped
<1>12. UNCHANGED <<layout, values, providers, flights, answers, made, news>>  BY DEF Ask
<1>13. Asking'
  <2>1. w # Nothing  BY InjectorAssumption DEF Nothing
  <2>2. Len(answers[a]) < Len(w.types)
    <3>1. Len(answers[a]) = 0  BY <1>4
    <3> QED BY <1>5, <3>1
  <2>3. \A b \in Askers : b # a =>
           /\ asked'[b] = Nothing => frames'[b] = <<>> /\ answers'[b] = <<>>
           /\ frames'[b] # <<>> => asked'[b] \in Wishes /\ Len(answers'[b]) < Len(asked'[b].types)
    BY <1>1, <1>11, <1>12 DEF Asking
  <2> QED BY <1>11, <1>12, <2>1, <2>2, <2>3 DEF Asking
<1>14. news = 0 => AnswersRight'
  <2>1. \A n, t : First(n, t)' = First(n, t) /\ Worth(n, t)' = Worth(n, t)  BY <1>12 DEF First, Worth
  <2> QED BY <1>1, <1>12, <2>1 DEF DiRight, AnswersRight, Result
<1>15. answers' \in [Askers -> Seq(DiAnswers)]  BY <1>1, <1>12 DEF DiTyped
<1> QED BY <1>4, <1>6, <1>8, <1>9, <1>10, <1>11, <1>12, <1>13, <1>14, <1>15, StackStep

LEMMA LookKeeps == ASSUME DiInv, NEW a \in Askers, Look(a) PROVE DiInv'
<1>f. PICK f : f = Top(a)  OBVIOUS
<1>1. /\ frames[a] # <<>> /\ f.pc = "look" /\ f \in DiFrames /\ FrameKnown(f) /\ DiTyped
      /\ (news = 0 => FrameRight(f) /\ Supplies) /\ f.n \in Injectors /\ f.t \in DiTypes
  <2>1. At(a, "look")  BY DEF Look
  <2> QED BY <1>f, <2>1, AtTop
<1>2. ~ Owner(f)  BY <1>1 DEF Owner
<1>3. UNCHANGED <<layout, values, providers, flights, asked, made, news>>  BY DEF Look
<1>4. values[f.n][f.t] \in DiValues /\ providers[f.n][f.t] \in Makers \cup {"none"}  BY <1>1, ValueTyped
<1>5. CASE values[f.n][f.t] # NoValue
  <2>1. Return(a, "found", values[f.n][f.t])  BY <1>5, <1>f DEF Look
  <2>2. news = 0 => Result(f.n, f.t, "found", values[f.n][f.t])  BY <1>1, <1>5 DEF Supplies, There, Result
  <2> QED BY <1>1, <1>2, <1>3, <1>4, <1>f, <2>1, <2>2, ReturnStep
<1>6. CASE values[f.n][f.t] = NoValue
  <2>g. PICK g : g = providers[f.n][f.t]  OBVIOUS
  <2>q. PICK q : q = IF g = "none" THEN "scan" ELSE "do"  OBVIOUS
  <2>x. PICK x : x = [f EXCEPT !.pc = q, !.fn = g]  OBVIOUS
  <2>1. Goes(a, x)  BY <1>6, <1>f, <2>g, <2>q, <2>x DEF Look
  <2>2. q \in DiPcs /\ q \in {"scan", "do"} /\ g \in Makers \cup {"none"}  BY <1>4, <2>g, <2>q DEF DiPcs
  <2>3. x \in DiFrames  BY <1>1, <2>2, <2>x DEF DiFrames
  <2>4. x.n = f.n /\ x.t = f.t /\ x.pc = q /\ x.fn = g  BY <1>1, <2>x DEF DiFrames
  <2>5. ~ Owner(x)  BY <2>2, <2>4 DEF Owner
  <2>6. FrameKnown(x)  BY <2>2, <2>4, <2>q DEF FrameKnown
  <2>7. ASSUME news = 0 PROVE FrameRight(x)
    <3>1. ~ There(f.n, f.t) /\ Supplies  BY <1>1, <1>6, <2>7 DEF There
    <3>2. g = First(f.n, f.t)  BY <1>1, <2>g, <3>1 DEF Supplies
    <3>3. g = "none" => q = "scan" /\ First(x.n, x.t) = "none"  BY <2>4, <2>q, <3>2
    <3>4. g # "none" => q = "do" /\ g \in Makers /\ x.fn = First(x.n, x.t)  BY <2>2, <2>4, <2>q, <3>2
    <3> QED BY <2>4, <3>3, <3>4 DEF FrameRight
  <2> QED BY <1>1, <1>2, <1>3, <1>f, <2>1, <2>3, <2>4, <2>5, <2>6, <2>7, GoesStep
<1> QED BY <1>5, <1>6

LEMMA JoinKeeps == ASSUME DiInv, NEW a \in Askers, Do(a), Top(a).fn \in flights[Top(a).n] PROVE DiInv'
<1>f. PICK f : f = Top(a)  OBVIOUS
<1>1. /\ frames[a] # <<>> /\ f.pc = "do" /\ f \in DiFrames /\ FrameKnown(f) /\ DiTyped
      /\ (news = 0 => FrameRight(f))
  <2>1. At(a, "do")  BY DEF Do
  <2> QED BY <1>f, <2>1, AtTop
<1>2. ~ Owner(f)  BY <1>1 DEF Owner
<1>x. PICK x : x = [f EXCEPT !.pc = "join"]  OBVIOUS
<1>3. UNCHANGED <<layout, values, providers, flights, asked, made, news>> /\ Goes(a, x)  BY <1>f, <1>x DEF Do
<1>4. x \in DiFrames  BY <1>1, <1>x DEF DiFrames, DiPcs
<1>5. x.n = f.n /\ x.t = f.t /\ x.pc = "join" /\ x.fn = f.fn  BY <1>1, <1>x DEF DiFrames
<1>6. ~ Owner(x) /\ FrameKnown(x) /\ (FrameRight(f) => FrameRight(x))  BY <1>1, <1>5 DEF Owner, FrameKnown, FrameRight
<1> QED BY <1>1, <1>2, <1>3, <1>4, <1>5, <1>6, <1>f, GoesStep

\* Who may run a provider finds that it has not run.
LEMMA NotYetMade ==
    ASSUME DiInv, NEW a \in Askers, frames[a] # <<>>, Owner(Top(a)), Top(a).pc # "store", MadeOnce,
           NEW n \in Injectors, NEW t \in DiTypes, n = Top(a).n, Top(a).fn \in Makers, First(n, t) = Top(a).fn, ~ There(n, t)
    PROVE  made[Top(a).fn] = 0
<1>0. DiTyped /\ OwnersOnce  BY DEF DiInv
<1>1. ~ Storing(n, Top(a).fn)
  <2> SUFFICES ASSUME NEW b \in Askers, At(b, "store"), Top(b).n = n, Top(b).fn = Top(a).fn PROVE FALSE  BY DEF Storing
  <2>1. frames[b] # <<>> /\ Top(b).pc = "store"  BY DEF At
  <2>2. Top(a) = frames[a][1] /\ 1 \in DOMAIN frames[a] /\ Top(b) = frames[b][1] /\ 1 \in DOMAIN frames[b]
    BY <1>0, <2>1, FrameTops
  <2>3. Owner(Top(b))  BY <2>1 DEF Owner
  <2>4. a = b  BY <1>0, <2>2, <2>3 DEF OwnersOnce
  <2> QED BY <2>1, <2>4
<1> QED BY <1>1 DEF MadeOnce

LEMMA CheckKeeps == ASSUME DiInv, NEW a \in Askers, Check(a) PROVE DiInv'
<1>f. PICK f : f = Top(a)  OBVIOUS
<1>1. /\ frames[a] # <<>> /\ f.pc = "check" /\ f \in DiFrames /\ FrameKnown(f) /\ DiTyped
      /\ (news = 0 => FrameRight(f) /\ Supplies /\ MadeOnce) /\ f.n \in Injectors /\ f.t \in DiTypes
  <2>1. At(a, "check")  BY DEF Check
  <2> QED BY <1>f, <2>1, AtTop
<1>2. Owner(f)  BY <1>1 DEF Owner
<1>m. PICK m : m = Maker(f.n, f.t, f.fn)  OBVIOUS
<1>v. PICK v : v = [f.val EXCEPT !.by = m]  OBVIOUS
<1>q. PICK q : q = IF m = "none" THEN "land" ELSE "args"  OBVIOUS
<1>x. PICK x : x = [f EXCEPT !.pc = q, !.val = v]  OBVIOUS
<1>3. UNCHANGED <<layout, values, providers, flights, asked, made, news>> /\ Goes(a, x)
  <2>1. Goes(a, [f EXCEPT !.pc = IF m = "none" THEN "land" ELSE "args", !.val.by = m])  BY <1>f, <1>m DEF Check
  <2>2. [f EXCEPT !.pc = IF m = "none" THEN "land" ELSE "args", !.val.by = m] = x  BY <1>1, <1>v, <1>q, <1>x DEF DiFrames
  <2> QED BY <2>1, <2>2 DEF Check
<1>4. m \in Makers \cup {"none"} /\ m = IF values[f.n][f.t] = NoValue THEN providers[f.n][f.t] ELSE "none"
  <2>1. m = IF values[f.n][f.t] = NoValue THEN providers[f.n][f.t] ELSE "none"  BY <1>m DEF Maker
  <2> QED BY <1>1, <2>1, ValueTyped
<1>5. v \in DiValues /\ v.by = m
  <2>1. f.val \in DiValues  BY <1>1 DEF DiFrames
  <2> QED BY <1>4, <1>v, <2>1 DEF DiValues
<1>6. q \in DiPcs /\ q \in {"land", "args"}  BY <1>q DEF DiPcs
<1>7. x \in DiFrames  BY <1>1, <1>5, <1>6, <1>x DEF DiFrames
<1>8. x.n = f.n /\ x.t = f.t /\ x.pc = q /\ x.fn = f.fn /\ x.val = v /\ x.bad = f.bad  BY <1>1, <1>x DEF DiFrames
<1>9. Owner(x)  BY <1>6, <1>8 DEF Owner
<1>10. FrameKnown(x)
  <2>1. f.fn \in Makers  BY <1>1 DEF FrameKnown
  <2>2. q = "args" => v.by \in Makers  BY <1>4, <1>5, <1>q
  <2> QED BY <1>6, <1>8, <2>1, <2>2 DEF FrameKnown
<1>11. ASSUME news = 0 PROVE FrameRight(x)
  <2>1. f.fn \in Makers /\ f.fn = First(f.n, f.t) /\ Supplies /\ MadeOnce  BY <1>1, <1>11 DEF FrameRight
  <2>2. f.fn # "none"  BY <2>1, InjectorAssumption DEF Makers
  <2>3. CASE There(f.n, f.t)
    <3>1. m = "none"  BY <1>4, <2>3 DEF There
    <3>2. q = "land"  BY <1>q, <3>1
    <3> QED BY <1>8, <2>1, <2>3, <3>2 DEF FrameRight
  <2>4. CASE ~ There(f.n, f.t)
    <3>1. providers[f.n][f.t] = f.fn  BY <1>1, <2>1, <2>2, <2>4 DEF Supplies
    <3>2. m = f.fn /\ q = "args"  BY <1>4, <1>q, <2>2, <2>4, <3>1 DEF There
    <3>3. made[f.fn] = 0  BY <1>1, <1>2, <1>f, <2>1, <2>4, NotYetMade
    <3> QED BY <1>5, <1>8, <2>1, <2>4, <3>2, <3>3 DEF FrameRight
  <2> QED BY <2>3, <2>4
<1> QED BY <1>1, <1>2, <1>3, <1>7, <1>8, <1>9, <1>10, <1>11, <1>f, GoesStep

\* The next argument of the provider is another Get.
LEMMA PushStep ==
    ASSUME DiInv, NEW a \in Askers, frames[a] # <<>>, NEW x \in DiFrames, NEW u,
           NEW y \in DiFrames, y.n = Top(a).n, y.t = Top(a).t, Owner(y) <=> Owner(Top(a)), Owner(y) => y.fn = Top(a).fn,
           FrameKnown(y), news = 0 => FrameRight(y), Top(a).pc # "store",
           Above(x, y), ~ Owner(x), FrameKnown(x), FrameRight(x),
           u = <<x>> \o (<<y>> \o Tail(frames[a])), frames' = [frames EXCEPT ![a] = u],
           UNCHANGED <<layout, values, providers, flights, asked, answers, made, news>>
    PROVE  DiInv'
<1>1. DiTyped /\ Stacks /\ Asking /\ (news = 0 => DiRight)  BY DEF DiInv
<1>s. PICK s : s = frames[a]  OBVIOUS
<1>2. s \in Seq(DiFrames) /\ Stack(s) /\ s # <<>> /\ Top(a) = s[1]  BY <1>1, <1>s, FrameTops DEF Stacks
<1>e. PICK e : e = <<y>> \o Tail(s)  OBVIOUS
<1>3. /\ Stack(e) /\ e \in Seq(DiFrames) /\ Of(e) \subseteq Of(s) \cup {y} /\ e # <<>> /\ e[1] = y
      /\ Reshapes(s, e, 0)
  <2>1. y.n = s[1].n /\ y.t = s[1].t /\ (Owner(y) <=> Owner(s[1])) /\ (Owner(y) => y.fn = s[1].fn)  BY <1>2
  <2>2. Retops(s, y, e)  BY <1>2, <1>e, <2>1 DEF Retops
  <2>3. Retopped(s, y, e)  BY <2>2, RetopStack
  <2> QED BY <2>1, <2>3 DEF Retopped
<1>4. Stack(u) /\ Reshapes(e, u, 0 - 1) /\ Of(u) \subseteq Of(e) \cup {x}
  <2>1. u = <<x>> \o e  BY <1>s, <1>e
  <2> QED BY <1>3, <2>1, PushStack
<1>5. Reshapes(s, u, 0 + (0 - 1))  BY <1>3, <1>4, ReshapesTwice
<1>6. \A z \in Of(u) : FrameKnown(z)  BY <1>1, <1>3, <1>4, <1>s, OfFrames
<1>7. news = 0 => \A z \in Of(u) : FrameRight(z)  BY <1>1, <1>3, <1>4, <1>s, OfFrames DEF DiRight
<1>8. frames'[a] = u /\ \A b \in Askers : b # a => frames'[b] = frames[b]  BY <1>1 DEF DiTyped
<1>9. Asking'
  <2>1. \A b \in Askers : asked[b] = Nothing => frames'[b] = <<>>  BY <1>1, <1>2, <1>8, <1>s DEF Asking
  <2>2. \A b \in Askers : frames'[b] # <<>> => frames[b] # <<>>  BY <1>2, <1>8, <1>s
  <2> QED BY <1>1, <2>1, <2>2 DEF Asking
<1>10. news = 0 => AnswersRight'
  <2>1. \A n, t : First(n, t)' = First(n, t) /\ Worth(n, t)' = Worth(n, t)  BY DEF First, Worth
  <2> QED BY <1>1, <2>1 DEF DiRight, AnswersRight, Result
<1>11. asked' \in [Askers -> Wishes \cup {Nothing}] /\ answers' \in [Askers -> Seq(DiAnswers)]  BY <1>1 DEF DiTyped
<1> QED BY <1>4, <1>5, <1>6, <1>7, <1>9, <1>10, <1>11, <1>s, StackStep

LEMMA ArgKeeps ==
    ASSUME DiInv, NEW a \in Askers, At(a, "args"),
           LET f == Top(a)
               ins == Providers[f.val.by].ins
           IN  f.k <= Len(ins) /\ frames' = [frames EXCEPT ![a] = <<Frame(f.n, ins[f.k])>> \o @],
           UNCHANGED <<layout, values, providers, flights, asked, answers, made, news>>
    PROVE  DiInv'
<1>f. PICK f : f = Top(a)  OBVIOUS
<1>1. /\ frames[a] # <<>> /\ f.pc = "args" /\ f \in DiFrames /\ FrameKnown(f) /\ DiTyped
      /\ (news = 0 => FrameRight(f)) /\ f.n \in Injectors
  BY <1>f, AtTop
<1>i. PICK ins : ins = Providers[f.val.by].ins  OBVIOUS
<1>2. ins \in Seq(DiTypes)
  <2>1. f.val.by \in Makers  BY <1>1 DEF FrameKnown
  <2> QED BY <1>i, <2>1, InjectorAssumption DEF Makers
<1>3. ins[f.k] \in DiTypes
  <2>1. f.k \in Nat \ {0} /\ f.k <= Len(ins)  BY <1>1, <1>f, <1>i DEF DiFrames
  <2> QED BY <1>2, <2>1
<1>x. PICK x : x = Frame(f.n, ins[f.k])  OBVIOUS
<1>4. x \in DiFrames /\ x.n = f.n /\ ~ Owner(x) /\ FrameKnown(x) /\ FrameRight(x)  BY <1>1, <1>3, <1>x, NewFrame
<1>5. Above(x, f)  BY <1>1, <1>4 DEF Above
<1>u. PICK u : u = <<x>> \o frames[a]  OBVIOUS
<1>6. frames' = [frames EXCEPT ![a] = u]  BY <1>f, <1>i, <1>x, <1>u
<1>7. frames[a] = <<f>> \o Tail(frames[a])
  <2>s. PICK s : s = frames[a]  OBVIOUS
  <2>1. s \in Seq(DiFrames) /\ s # <<>> /\ f = s[1]  BY <1>1, <1>f, <2>s, FrameTops
  <2>w. PICK w : w = <<f>> \o Tail(s)  OBVIOUS
  <2>2. w \in Seq(DiFrames) /\ Len(w) = Len(s) /\ w[1] = f /\ \A i \in 2..Len(s) : w[i] = s[i]
    BY <1>1, <2>1, <2>w, RetopIs
  <2>3. \A i \in 1..Len(s) : i = 1 \/ i \in 2..Len(s)  BY <2>1
  <2>4. \A i \in 1..Len(s) : w[i] = s[i]  BY <2>1, <2>2, <2>3
  <2>5. w = s  BY <2>1, <2>2, <2>4, SameSeq
  <2> QED BY <2>5, <2>s, <2>w
<1>8. u = <<x>> \o (<<f>> \o Tail(frames[a]))  BY <1>7, <1>u
<1> QED BY <1>1, <1>4, <1>5, <1>6, <1>8, <1>f, PushStep

LEMMA FaultKeeps ==
    ASSUME DiInv, NEW a \in Askers, At(a, "args"), Goes(a, [Top(a) EXCEPT !.pc = "land", !.bad = TRUE]),
           UNCHANGED <<layout, values, providers, flights, asked, made, news>>
    PROVE  DiInv'
<1>f. PICK f : f = Top(a)  OBVIOUS
<1>1. /\ frames[a] # <<>> /\ f.pc = "args" /\ f \in DiFrames /\ FrameKnown(f) /\ DiTyped
      /\ (news = 0 => FrameRight(f))
  BY <1>f, AtTop
<1>x. PICK x : x = [f EXCEPT !.pc = "land", !.bad = TRUE]  OBVIOUS
<1>2. Goes(a, x)  BY <1>f, <1>x
<1>3. x \in DiFrames  BY <1>1, <1>x DEF DiFrames, DiPcs
<1>4. x.n = f.n /\ x.t = f.t /\ x.pc = "land" /\ x.fn = f.fn /\ x.bad = TRUE  BY <1>1, <1>x DEF DiFrames
<1>5. Owner(x) /\ Owner(f) /\ FrameKnown(x) /\ (FrameRight(f) => FrameRight(x))
  BY <1>1, <1>4 DEF Owner, FrameKnown, FrameRight
<1> QED BY <1>1, <1>2, <1>3, <1>4, <1>5, <1>f, GoesStep

LEMMA AgainKeeps == ASSUME DiInv, NEW a \in Askers, Again(a) PROVE DiInv'
<1>f. PICK f : f = Top(a)  OBVIOUS
<1>1. /\ frames[a] # <<>> /\ f.pc = "again" /\ f \in DiFrames /\ FrameKnown(f) /\ DiTyped
      /\ (news = 0 => FrameRight(f) /\ Supplies) /\ f.n \in Injectors /\ f.t \in DiTypes
  <2>1. At(a, "again")  BY DEF Again
  <2> QED BY <1>f, <2>1, AtTop
<1>2. ~ Owner(f)  BY <1>1 DEF Owner
<1>3. UNCHANGED <<layout, values, providers, flights, asked, made, news>>  BY DEF Again
<1>4. values[f.n][f.t] \in DiValues  BY <1>1, ValueTyped
<1>5. CASE values[f.n][f.t] # NoValue
  <2>1. Return(a, "found", values[f.n][f.t])  BY <1>5, <1>f DEF Again
  <2>2. news = 0 => Result(f.n, f.t, "found", values[f.n][f.t])  BY <1>1, <1>5 DEF Supplies, There, Result
  <2> QED BY <1>1, <1>2, <1>3, <1>4, <1>f, <2>1, <2>2, ReturnStep
<1>6. CASE values[f.n][f.t] = NoValue
  <2>x. PICK x : x = [f EXCEPT !.pc = "scan"]  OBVIOUS
  <2>1. Goes(a, x)  BY <1>6, <1>f, <2>x DEF Again
  <2>2. x \in DiFrames  BY <1>1, <2>x DEF DiFrames, DiPcs
  <2>3. x.n = f.n /\ x.t = f.t /\ x.pc = "scan"  BY <1>1, <2>x DEF DiFrames
  <2>4. ~ Owner(x) /\ FrameKnown(x)  BY <2>3 DEF Owner, FrameKnown
  <2>5. news # 0  BY <1>1, <1>6 DEF FrameRight, There
  <2> QED BY <1>1, <1>2, <1>3, <1>f, <2>1, <2>2, <2>3, <2>4, <2>5, GoesStep
<1> QED BY <1>5, <1>6

LEMMA ScanKeeps == ASSUME DiInv, NEW a \in Askers, Scan(a) PROVE DiInv'
<1>f. PICK f : f = Top(a)  OBVIOUS
<1>1. /\ frames[a] # <<>> /\ f.pc = "scan" /\ f \in DiFrames /\ FrameKnown(f) /\ DiTyped
      /\ (news = 0 => FrameRight(f)) /\ f.n \in Injectors /\ f.t \in DiTypes
  <2>1. At(a, "scan")  BY DEF Scan
  <2> QED BY <1>f, <2>1, AtTop
<1>2. ~ Owner(f)  BY <1>1 DEF Owner
<1>3. UNCHANGED <<layout, values, providers, flights, asked, made, news>>  BY DEF Scan
<1>4. CASE \E u \in Implements[f.t] : Return(a, "found", values[f.n][u])
  <2> PICK u \in Implements[f.t] : Return(a, "found", values[f.n][u])  BY <1>4
  <2>1. u \in DiTypes  BY <1>1, InjectorAssumption
  <2>2. values[f.n][u] \in DiValues  BY <1>1, <2>1, ValueTyped
  <2>3. Result(f.n, f.t, "found", values[f.n][u])  BY DEF Result
  <2> QED BY <1>1, <1>2, <1>3, <1>f, <2>2, <2>3, ReturnStep
<1>5. CASE /\ f.n = "child" /\ layout.nested /\ answers' = answers
           /\ frames' = [frames EXCEPT ![a] = <<Frame("parent", f.t), [f EXCEPT !.pc = "up"]>> \o Tail(@)]
  <2>y. PICK y : y = [f EXCEPT !.pc = "up"]  OBVIOUS
  <2>1. y \in DiFrames  BY <1>1, <2>y DEF DiFrames, DiPcs
  <2>2. y.n = f.n /\ y.t = f.t /\ y.pc = "up"  BY <1>1, <2>y DEF DiFrames
  <2>3. ~ Owner(y) /\ FrameKnown(y) /\ (FrameRight(f) => FrameRight(y))
    BY <1>1, <1>5, <2>2 DEF Owner, FrameKnown, FrameRight
  <2>x. PICK x : x = Frame("parent", f.t)  OBVIOUS
  <2>4. "parent" \in Injectors  BY DEF Injectors
  <2>5. x \in DiFrames /\ x.n = "parent" /\ x.t = f.t /\ ~ Owner(x) /\ FrameKnown(x) /\ FrameRight(x)
    BY <1>1, <2>4, <2>x, NewFrame
  <2>6. Above(x, y)  BY <2>2, <2>5 DEF Above
  <2>u. PICK u : u = <<x>> \o (<<y>> \o Tail(frames[a]))  OBVIOUS
  <2>7. frames' = [frames EXCEPT ![a] = u]
    <3>1. frames[a] \in Seq(DiFrames)  BY <1>1 DEF DiTyped
    <3>2. Tail(frames[a]) \in Seq(DiFrames)  BY <1>1, <3>1
    <3>3. u = <<x, y>> \o Tail(frames[a])  BY <2>1, <2>5, <2>u, <3>2, PairIs
    <3> QED BY <1>5, <2>x, <2>y, <3>3
  <2> QED BY <1>1, <1>2, <1>3, <1>5, <1>f, <2>1, <2>2, <2>3, <2>5, <2>6, <2>7, <2>u, PushStep
<1>6. CASE ~ (f.n = "child" /\ layout.nested) /\ Return(a, "missing", NoValue)
  <2>1. NoValue \in DiValues  BY DEF NoValue, DiValues
  <2>2. news = 0 => Result(f.n, f.t, "missing", NoValue)  BY <1>1, <1>6 DEF FrameRight, Result
  <2> QED BY <1>1, <1>2, <1>3, <1>6, <1>f, <2>1, <2>2, ReturnStep
<1> QED BY <1>4, <1>5, <1>6, <1>f DEF Scan

LEMMA BackKeeps == ASSUME DiInv, NEW a \in Askers, Back(a) PROVE DiInv'
<1>f. PICK f : f = Top(a)  OBVIOUS
<1>0. PICK r \in {"found", "missing"} : At(a, r) /\ Return(a, r, f.val)  BY <1>f DEF Back
<1>1. /\ frames[a] # <<>> /\ f.pc = r /\ f \in DiFrames /\ FrameKnown(f) /\ DiTyped
      /\ (news = 0 => FrameRight(f))
  BY <1>0, <1>f, AtTop
<1>2. ~ Owner(f) /\ f.n = "child"  BY <1>1 DEF Owner, FrameKnown
<1>3. UNCHANGED <<layout, values, providers, flights, asked, made, news>>  BY DEF Back
<1>4. f.val \in DiValues  BY <1>1 DEF DiFrames
<1>5. ASSUME news = 0 PROVE Result(f.n, f.t, r, f.val)
  <2>1. FrameRight(f)  BY <1>1, <1>5
  <2>2. First(f.n, f.t) = "none"  BY <1>1, <2>1 DEF FrameRight
  <2>3. r = "found" /\ Implements[f.t] = {} => f.val = Worth("parent", f.t)  BY <1>1, <2>1 DEF FrameRight
  <2>4. r = "missing" => (layout.nested => First("parent", f.t) = "none")  BY <1>1, <2>1 DEF FrameRight
  <2> QED BY <2>2, <2>3, <2>4 DEF Result
<1> QED BY <1>0, <1>1, <1>2, <1>3, <1>4, <1>5, <1>f, ReturnStep

LEMMA PanicKeeps == ASSUME DiInv, NEW a \in Askers, Panic(a) PROVE DiInv'
<1>1. At(a, "panic") /\ Return(a, "panic", NoValue) /\ UNCHANGED <<layout, values, providers, flights, asked, made, news>>
  BY DEF Panic
<1>2. frames[a] # <<>> /\ ~ Owner(Top(a))  BY <1>1 DEF At, Owner
<1>3. NoValue \in DiValues  BY DEF NoValue, DiValues
<1>4. Result(Top(a).n, Top(a).t, "panic", NoValue)  BY DEF Result
<1> QED BY <1>1, <1>2, <1>3, <1>4, ReturnStep


-----------------------------------------------------------------------------
(* Who provides what.                                                      *)

\* Under OneProvider the provider of a type is the one that lists it.
LEMMA GivenIs ==
    ASSUME layout \in Layouts, NEW n \in Injectors, NEW t \in DiTypes
    PROVE  /\ \A i \in DOMAIN layout[n] : t \in Providers[layout[n][i]].outs => First(n, t) = layout[n][i]
           /\ First(n, t) = "none" => \A i \in DOMAIN layout[n] : t \notin Providers[layout[n][i]].outs
           /\ First(n, t) # "none" => /\ First(n, t) \in Makers /\ t \in Providers[First(n, t)].outs
                                      /\ \E i \in DOMAIN layout[n] : layout[n][i] = First(n, t)
<1>l. PICK l : l = layout[n]  OBVIOUS
<1>1. l \in Seq(Makers)
  <2>1. n = "child" \/ n = "parent"  BY DEF Injectors
  <2> QED BY <1>l, <2>1, InjectorAssumption DEF Makers
<1>2. DOMAIN l \subseteq Nat /\ \A i \in DOMAIN l : l[i] \in Makers  BY <1>1
<1>3. "none" \notin Makers  BY InjectorAssumption DEF Makers
<1>m. PICK makes : makes = {i \in DOMAIN l : t \in Providers[l[i]].outs}  OBVIOUS
<1>4. First(n, t) = IF makes = {} THEN "none" ELSE l[CHOOSE i \in makes : \A j \in makes : j <= i]
  BY <1>l, <1>m DEF First, Given
<1>5. ASSUME NEW i \in makes PROVE First(n, t) = l[i]
  <2>1. \A j \in makes : j = i
    <3> SUFFICES ASSUME NEW j \in makes PROVE j = i  OBVIOUS
    <3>1. i \in DOMAIN layout[n] /\ j \in DOMAIN layout[n]
          /\ t \in Providers[layout[n][i]].outs \cap Providers[layout[n][j]].outs
      BY <1>l, <1>m
    <3> QED BY <3>1, OneProvider
  <2>2. i \in Nat /\ \A j \in makes : j <= i  BY <1>2, <1>m, <2>1
  <2>3. (CHOOSE k \in makes : \A j \in makes : j <= k) = i  BY <2>1, <2>2
  <2> QED BY <1>4, <2>3
<1>6. CASE makes = {}  BY <1>3, <1>4, <1>6, <1>l, <1>m
<1>7. CASE makes # {}
  <2> PICK i \in makes : TRUE  BY <1>7
  <2>1. First(n, t) = l[i] /\ i \in DOMAIN l /\ t \in Providers[l[i]].outs  BY <1>5, <1>m
  <2>2. First(n, t) \in Makers /\ First(n, t) # "none"  BY <1>2, <1>3, <2>1
  <2>3. \A j \in DOMAIN l : t \in Providers[l[j]].outs => First(n, t) = l[j]  BY <1>5, <1>m
  <2> QED BY <1>l, <2>1, <2>2, <2>3
<1> QED BY <1>6, <1>7

\* A provider belongs to one injector, and makes the types whose provider it is.
LEMMA OwnInjector ==
    ASSUME layout \in Layouts, NEW n \in Injectors, NEW t \in DiTypes, NEW f, f # "none", First(n, t) = f
    PROVE  \A m \in Injectors, u \in DiTypes : (First(m, u) = f => m = n) /\ (u \in Providers[f].outs <=> First(n, u) = f)
<1>1. ASSUME NEW m \in Injectors, NEW u \in DiTypes, First(m, u) = f PROVE m = n
  <2> PICK i \in DOMAIN layout[n] : layout[n][i] = f  BY GivenIs
  <2> PICK j \in DOMAIN layout[m] : layout[m][j] = f  BY <1>1, GivenIs
  <2>1. n = "child" \/ n = "parent"  BY DEF Injectors
  <2>2. m = "child" \/ m = "parent"  BY DEF Injectors
  <2> QED BY <2>1, <2>2, OneProvider
<1>2. ASSUME NEW u \in DiTypes PROVE u \in Providers[f].outs <=> First(n, u) = f
  <2>1. First(n, u) = f => u \in Providers[f].outs  BY GivenIs
  <2>2. ASSUME u \in Providers[f].outs PROVE First(n, u) = f
    <3> PICK i \in DOMAIN layout[n] : layout[n][i] = f  BY GivenIs
    <3> QED BY <2>2, GivenIs
  <2> QED BY <2>1, <2>2
<1> QED BY <1>1, <1>2

-----------------------------------------------------------------------------
(* The steps of who runs a provider.                                       *)

\* The Gets that the goroutines of B are in become y, and the others stay.
Moved(B, y) ==
    /\ frames' \in [Askers -> Seq(DiFrames)] /\ Stacks' /\ Asking'
    /\ \A b \in Askers : DOMAIN frames'[b] = DOMAIN frames[b]
    /\ \A b \in Askers \ B : frames'[b] = frames[b]
    /\ \A b \in B : /\ frames[b] # <<>> /\ frames'[b] # <<>> /\ 1 \in DOMAIN frames[b] /\ Top(b) = frames[b][1]
                    /\ frames'[b][1] = y[b] /\ Top(b)' = y[b]
                    /\ \A i \in DOMAIN frames[b] : i # 1 => frames'[b][i] = frames[b][i]
Moving(B, y) ==
    /\ B \subseteq Askers /\ y \in [B -> DiFrames]
    /\ \A b \in B : frames[b] # <<>> /\ y[b].n = Top(b).n /\ y[b].t = Top(b).t /\ FrameKnown(y[b])
    /\ frames' = [b \in Askers |-> IF b \in B THEN Below(b, y[b]) ELSE frames[b]]
    /\ asked' = asked /\ answers' = answers

LEMMA Moves == ASSUME DiInv, NEW B, NEW y, Moving(B, y) PROVE Moved(B, y)
<1>1. DiTyped /\ Stacks /\ Asking  BY DEF DiInv
<1>2. B \subseteq Askers /\ frames' = [b \in Askers |-> IF b \in B THEN Below(b, y[b]) ELSE frames[b]]  BY DEF Moving
<1>3. frames \in [Askers -> Seq(DiFrames)]  BY <1>1 DEF DiTyped
<1>4. ASSUME NEW b \in B
      PROVE  /\ frames[b] # <<>> /\ frames'[b] # <<>> /\ 1 \in DOMAIN frames[b] /\ Top(b) = frames[b][1]
             /\ frames'[b][1] = y[b] /\ Top(b)' = y[b] /\ DOMAIN frames'[b] = DOMAIN frames[b]
             /\ \A i \in DOMAIN frames[b] : i # 1 => frames'[b][i] = frames[b][i]
             /\ frames'[b] \in Seq(DiFrames) /\ Stack(frames'[b]) /\ \A x \in Of(frames'[b]) : FrameKnown(x)
  <2>x. PICK x : x = y[b]  OBVIOUS
  <2>s. PICK s : s = frames[b]  OBVIOUS
  <2>u. PICK u : u = <<x>> \o Tail(s)  OBVIOUS
  <2>0. b \in Askers  BY <1>2
  <2>1. x \in DiFrames /\ x.n = Top(b).n /\ x.t = Top(b).t /\ FrameKnown(x) /\ s # <<>>
    BY <2>x, <2>s DEF Moving
  <2>2. s \in Seq(DiFrames) /\ Stack(s) /\ Top(b) = s[1] /\ 1 \in DOMAIN s
    BY <1>1, <2>0, <2>1, <2>s, FrameTops DEF Stacks
  <2>3. u \in Seq(DiFrames) /\ Len(u) = Len(s) /\ u[1] = x /\ \A i \in 2..Len(s) : u[i] = s[i]
    BY <2>1, <2>2, <2>u, RetopIs
  <2>4. Stack(u) /\ Of(u) \subseteq Of(s) \cup {x} /\ u # <<>>
    <3>1. x.n = s[1].n /\ x.t = s[1].t  BY <2>1, <2>2
    <3>2. s \in Seq(DiFrames) /\ Stack(s) /\ s # <<>> /\ x \in DiFrames  BY <2>1, <2>2
    <3>3. Retops(s, x, u)  BY <2>u, <3>1, <3>2 DEF Retops
    <3>4. Retopped(s, x, u)  BY <3>3, RetopStack
    <3> QED BY <3>4 DEF Retopped
  <2>5. frames'[b] = u  BY <1>2, <2>0, <2>s, <2>u, <2>x DEF Below
  <2>6. DOMAIN s = 1..Len(s) /\ DOMAIN u = 1..Len(u) /\ Len(s) \in Nat  BY <2>2, <2>3
  <2>7. \A i \in DOMAIN s : i # 1 => i \in 2..Len(s)  BY <2>6
  <2>8. Top(b)' = x
    <3>1. Head(u) = u[1]  BY <2>3, <2>4
    <3> QED BY <2>3, <2>5, <3>1 DEF Top
  <2>9. \A z \in Of(u) : FrameKnown(z)  BY <1>1, <2>0, <2>1, <2>4, <2>s, OfFrames
  <2> QED BY <2>1, <2>2, <2>3, <2>4, <2>5, <2>6, <2>7, <2>8, <2>9, <2>s, <2>x
<1>5. \A b \in Askers \ B : frames'[b] = frames[b]  BY <1>2
<1>6. frames' \in [Askers -> Seq(DiFrames)]
  <2>1. \A b \in Askers : frames'[b] \in Seq(DiFrames)  BY <1>3, <1>4, <1>5
  <2>2. frames' = [b \in Askers |-> frames'[b]]  BY <1>2
  <2> QED BY <2>1, <2>2
<1>7. Stacks'
  <2>1. \A b \in Askers : Stack(frames'[b]) /\ \A i \in DOMAIN frames'[b] : FrameKnown(frames'[b][i])
    <3> SUFFICES ASSUME NEW b \in Askers
                 PROVE  Stack(frames'[b]) /\ \A i \in DOMAIN frames'[b] : FrameKnown(frames'[b][i])
      OBVIOUS
    <3>1. CASE b \in B
      <4>1. DOMAIN frames'[b] = 1..Len(frames'[b])  BY <1>6
      <4> QED BY <1>4, <3>1, <4>1 DEF Of
    <3>2. CASE b \notin B  BY <1>1, <1>5, <3>2 DEF Stacks
    <3> QED BY <3>1, <3>2
  <2> QED BY <2>1 DEF Stacks, Stack, FrameKnown, Above
<1>8. Asking'
  <2>1. \A b \in Askers : frames'[b] # <<>> <=> frames[b] # <<>>  BY <1>4, <1>5
  <2>2. asked' = asked /\ answers' = answers  BY DEF Moving
  <2> QED BY <1>1, <2>1, <2>2 DEF Asking
<1>9. \A b \in Askers : DOMAIN frames'[b] = DOMAIN frames[b]  BY <1>4, <1>5
<1> QED BY <1>4, <1>5, <1>6, <1>7, <1>8, <1>9 DEF Moved

\* A Get after such a step was there before, or is one of y.
LEMMA WasThere ==
    ASSUME NEW B, NEW y, Moved(B, y), NEW b \in Askers, NEW i \in DOMAIN frames'[b]
    PROVE  /\ i \in DOMAIN frames[b]
           /\ b \in B /\ i = 1 => frames'[b][i] = y[b] /\ frames[b][i] = Top(b)
           /\ ~ (b \in B /\ i = 1) => frames'[b][i] = frames[b][i]
BY DEF Moved

\* The goroutine goes on in the same Get, as above, for any change of the rest.
LEMMA MovesOne ==
    ASSUME DiInv, NEW a \in Askers, frames[a] # <<>>, NEW x \in DiFrames, Goes(a, x),
           x.n = Top(a).n, x.t = Top(a).t, FrameKnown(x), asked' = asked
    PROVE  Moved({a}, [b \in {a} |-> x]) /\ answers' = answers
<1>y. PICK y : y = [b \in {a} |-> x]  OBVIOUS
<1>1. DiTyped  BY DEF DiInv
<1>2. frames' = [frames EXCEPT ![a] = Below(a, x)] /\ answers' = answers  BY DEF Goes
<1>3. frames' = [b \in Askers |-> IF b \in {a} THEN Below(b, y[b]) ELSE frames[b]]
  <2>1. frames \in [Askers -> Seq(DiFrames)]  BY <1>1 DEF DiTyped
  <2> QED BY <1>2, <1>y, <2>1
<1>4. y \in [{a} -> DiFrames] /\ y[a] = x  BY <1>y
<1>5. Moving({a}, y)  BY <1>2, <1>3, <1>4 DEF Moving
<1> QED BY <1>2, <1>5, <1>y, Moves

\* What was right stays so if no value is set and no provider is run.
LEMMA RightMoved ==
    ASSUME DiTyped, DiRight, NEW B, NEW y, Moved(B, y), B \subseteq Askers,
           \A b \in B : Top(b).pc # "store" /\ FrameRight(y[b]),
           UNCHANGED <<layout, values, providers, made, answers>>
    PROVE  DiRight'
<1>1. \A n, t : First(n, t)' = First(n, t) /\ (There(n, t)' <=> There(n, t)) /\ Worth(n, t)' = Worth(n, t)
  BY DEF First, There, Worth
<1>2. Supplies'  BY <1>1 DEF DiRight, Supplies
<1>3. \A n, f : Storing(n, f) => Storing(n, f)'
  <2> SUFFICES ASSUME NEW n, NEW f, Storing(n, f) PROVE Storing(n, f)'  OBVIOUS
  <2> PICK b \in Askers : At(b, "store") /\ Top(b).n = n /\ Top(b).fn = f  BY DEF Storing
  <2>1. b \notin B  BY DEF At
  <2>2. frames'[b] = frames[b]  BY <2>1 DEF Moved
  <2> QED BY <2>2 DEF Storing, At, Top
<1>4. MadeOnce'  BY <1>1, <1>3 DEF DiRight, MadeOnce
<1>5. \A x : FrameRight(x)' <=> FrameRight(x)  BY RightNow
<1>6. FramesRight'
  <2>1. \A b \in Askers : \A i \in DOMAIN frames'[b] : FrameRight(frames'[b][i])
    <3> SUFFICES ASSUME NEW b \in Askers, NEW i \in DOMAIN frames'[b] PROVE FrameRight(frames'[b][i])  OBVIOUS
    <3>1. /\ i \in DOMAIN frames[b]
          /\ b \in B /\ i = 1 => frames'[b][i] = y[b]
          /\ ~ (b \in B /\ i = 1) => frames'[b][i] = frames[b][i]
      BY WasThere
    <3>2. FrameRight(frames[b][i])  BY <3>1 DEF DiRight, FramesRight
    <3> QED BY <3>1, <3>2
  <2> QED BY <1>5, <2>1 DEF FramesRight
<1>7. AnswersRight'  BY <1>1 DEF DiRight, AnswersRight, Result
<1> QED BY <1>2, <1>4, <1>6, <1>7 DEF DiRight

\* The first who asks runs the provider.
LEMMA BeginKeeps == ASSUME DiInv, NEW a \in Askers, Do(a), Top(a).fn \notin flights[Top(a).n] PROVE DiInv'
<1>f. PICK f : f = Top(a)  OBVIOUS
<1>1. /\ frames[a] # <<>> /\ f.pc = "do" /\ f \in DiFrames /\ FrameKnown(f) /\ DiTyped
      /\ (news = 0 => FrameRight(f)) /\ f.n \in Injectors
  <2>1. At(a, "do")  BY DEF Do
  <2> QED BY <1>f, <2>1, AtTop
<1>x. PICK x : x = [f EXCEPT !.pc = "check"]  OBVIOUS
<1>2. /\ UNCHANGED <<layout, values, providers, asked, made, news>> /\ Goes(a, x)
      /\ flights' = [flights EXCEPT ![f.n] = @ \cup {f.fn}]
  BY <1>f, <1>x DEF Do
<1>3. x \in DiFrames  BY <1>1, <1>x DEF DiFrames, DiPcs
<1>4. x.n = f.n /\ x.t = f.t /\ x.pc = "check" /\ x.fn = f.fn  BY <1>1, <1>x DEF DiFrames
<1>5. ~ Owner(f) /\ Owner(x) /\ FrameKnown(x) /\ (FrameRight(f) => FrameRight(x))
  BY <1>1, <1>4 DEF Owner, FrameKnown, FrameRight
<1>B. PICK B : B = {a}  OBVIOUS
<1>y. PICK y : y = [b \in {a} |-> x]  OBVIOUS
<1>6. Moved(B, y) /\ answers' = answers  BY <1>1, <1>2, <1>3, <1>4, <1>5, <1>f, <1>B, <1>y, MovesOne
<1>7. y[a] = x /\ B \subseteq Askers  BY <1>y, <1>B
<1>8. /\ flights \in [Injectors -> SUBSET Makers] /\ f.fn \in Makers
      /\ flights' \in [Injectors -> SUBSET Makers]
      /\ \A n \in Injectors : flights[n] \subseteq flights'[n]
      /\ f.fn \in flights'[f.n] /\ f.fn \notin flights[f.n]
      /\ \A n \in Injectors : \A g \in flights'[n] : g \in flights[n] \/ (n = f.n /\ g = f.fn)
  BY <1>1, <1>2, <1>f DEF DiTyped, FrameKnown
<1>9. OwnersOnce /\ OwnersFly /\ FlightsOwned /\ (news = 0 => DiRight)  BY DEF DiInv
\* Whoever is an owner now is the new one, or was one for another provider.
<1>10. ASSUME NEW b \in Askers, NEW i \in DOMAIN frames'[b], Owner(frames'[b][i])
       PROVE  \/ b = a /\ i = 1 /\ frames'[b][i] = x
              \/ /\ ~ (b = a /\ i = 1) /\ i \in DOMAIN frames[b] /\ frames'[b][i] = frames[b][i]
                 /\ frames[b][i].fn \in flights[frames[b][i].n]
                 /\ ~ (frames[b][i].n = x.n /\ frames[b][i].fn = x.fn)
  <2>1. /\ i \in DOMAIN frames[b]
        /\ b = a /\ i = 1 => frames'[b][i] = x
        /\ ~ (b = a /\ i = 1) => frames'[b][i] = frames[b][i]
    BY <1>6, <1>7, <1>B, WasThere
  <2>2. CASE b = a /\ i = 1  BY <2>1, <2>2
  <2>3. CASE ~ (b = a /\ i = 1)
    <3>1. frames[b][i].fn \in flights[frames[b][i].n]  BY <1>9, <1>10, <2>1, <2>3 DEF OwnersFly
    <3> QED BY <1>4, <1>8, <2>1, <2>3, <3>1
  <2> QED BY <2>2, <2>3
<1>11. OwnersOnce'
  <2> SUFFICES ASSUME NEW b \in Askers, NEW c \in Askers, NEW i \in DOMAIN frames'[b], NEW j \in DOMAIN frames'[c],
                      Owner(frames'[b][i]), Owner(frames'[c][j]), frames'[b][i].n = frames'[c][j].n,
                      frames'[b][i].fn = frames'[c][j].fn
               PROVE  b = c /\ i = j
    BY DEF OwnersOnce, Owner
  <2>1. CASE (b = a /\ i = 1) \/ (c = a /\ j = 1)  BY <1>10, <2>1
  <2>2. CASE ~ (b = a /\ i = 1) /\ ~ (c = a /\ j = 1)
    <3>1. i \in DOMAIN frames[b] /\ frames'[b][i] = frames[b][i]  BY <1>10, <2>2
    <3>2. j \in DOMAIN frames[c] /\ frames'[c][j] = frames[c][j]  BY <1>10, <2>2
    <3> QED BY <1>9, <3>1, <3>2 DEF OwnersOnce
  <2> QED BY <2>1, <2>2
<1>12. OwnersFly'
  <2> SUFFICES ASSUME NEW b \in Askers, NEW i \in DOMAIN frames'[b], Owner(frames'[b][i])
               PROVE  frames'[b][i].fn \in flights'[frames'[b][i].n]
    BY DEF OwnersFly, Owner
  <2>1. CASE b = a /\ i = 1  BY <1>4, <1>8, <1>10, <2>1
  <2>2. CASE ~ (b = a /\ i = 1)
    <3>1. /\ i \in DOMAIN frames[b] /\ frames'[b][i] = frames[b][i]
          /\ frames[b][i].fn \in flights[frames[b][i].n]
      BY <1>10, <2>2
    <3>2. frames[b][i].n \in Injectors
      <4>1. frames[b] \in Seq(DiFrames)  BY <1>1 DEF DiTyped
      <4>2. frames[b][i] \in DiFrames  BY <3>1, <4>1
      <4> QED BY <4>2 DEF DiFrames
    <3> QED BY <1>8, <3>1, <3>2
  <2> QED BY <2>1, <2>2
<1>13. FlightsOwned'
  <2> SUFFICES ASSUME NEW n \in Injectors, NEW g \in flights'[n]
               PROVE  \E b \in Askers : \E i \in DOMAIN frames'[b] :
                          frames'[b][i].n = n /\ frames'[b][i].fn = g /\ Owner(frames'[b][i])
    BY DEF FlightsOwned, Owner
  <2>1. CASE n = f.n /\ g = f.fn
    <3>1. 1 \in DOMAIN frames'[a] /\ frames'[a][1] = x  BY <1>6, <1>7, <1>B DEF Moved
    <3> QED BY <1>4, <1>5, <2>1, <3>1
  <2>2. CASE g \in flights[n]
    <3> PICK b \in Askers : \E i \in DOMAIN frames[b] :
              frames[b][i].n = n /\ frames[b][i].fn = g /\ Owner(frames[b][i])
      BY <1>9, <2>2 DEF FlightsOwned
    <3> PICK i \in DOMAIN frames[b] : frames[b][i].n = n /\ frames[b][i].fn = g /\ Owner(frames[b][i])
      OBVIOUS
    <3>1. ~ (b = a /\ i = 1)
      <4>1. Top(a) = frames[a][1]  BY <1>6, <1>B DEF Moved
      <4> QED BY <1>5, <1>f, <4>1
    <3>2. i \in DOMAIN frames'[b] /\ frames'[b][i] = frames[b][i]
      <4>1. DOMAIN frames'[b] = DOMAIN frames[b]  BY <1>6 DEF Moved
      <4>2. i \in DOMAIN frames'[b]  BY <4>1
      <4> QED BY <1>6, <1>B, <3>1, <4>2, WasThere
    <3> QED BY <3>2
  <2> QED BY <1>8, <2>1, <2>2
<1>14. news' = 0 => DiRight'
  <2> SUFFICES ASSUME news = 0 PROVE DiRight'  BY <1>2
  <2>1. \A b \in B : Top(b).pc # "store" /\ FrameRight(y[b])  BY <1>1, <1>5, <1>7, <1>B, <1>f
  <2> QED BY <1>1, <1>2, <1>6, <1>7, <1>9, <2>1, RightMoved
<1>15. Stacks' /\ Asking' /\ frames' \in [Askers -> Seq(DiFrames)]  BY <1>6 DEF Moved
<1>16. DiTyped'  BY <1>1, <1>2, <1>6, <1>8, <1>15 DEF DiTyped
<1> QED BY <1>11, <1>12, <1>13, <1>14, <1>15, <1>16 DEF DiInv

\* The owners are the same if the Get that goes on stays one for its provider.
LEMMA OwnersGo ==
    ASSUME DiInv, NEW a \in Askers, frames[a] # <<>>, NEW x \in DiFrames, Goes(a, x), x.n = Top(a).n, x.t = Top(a).t,
           Owner(x), Owner(Top(a)), x.fn = Top(a).fn, flights' = flights
    PROVE  OwnersOnce' /\ OwnersFly' /\ FlightsOwned'
<1>1. DiTyped /\ Stacks /\ OwnersOnce /\ OwnersFly /\ FlightsOwned  BY DEF DiInv
<1>s. PICK s : s = frames[a]  OBVIOUS
<1>2. s \in Seq(DiFrames) /\ Stack(s) /\ s # <<>> /\ Top(a) = s[1]  BY <1>1, <1>s, FrameTops DEF Stacks
<1>u. PICK u : u = <<x>> \o Tail(s)  OBVIOUS
<1>3. Reshapes(s, u, 0)
  <2>1. x.n = s[1].n /\ x.t = s[1].t /\ (Owner(x) <=> Owner(s[1])) /\ (Owner(x) => x.fn = s[1].fn)  BY <1>2
  <2>2. s \in Seq(DiFrames) /\ Stack(s) /\ s # <<>>  BY <1>2
  <2> HIDE <1>2
  <2>3. Retops(s, x, u)  BY <1>u, <2>1, <2>2 DEF Retops
  <2>4. Retopped(s, x, u)  BY <2>3, RetopStack
  <2> QED BY <2>1, <2>4 DEF Retopped
<1>4. frames' = [frames EXCEPT ![a] = u]  BY <1>s, <1>u DEF Goes, Below
<1> QED BY <1>1, <1>3, <1>4, <1>s, OwnersKept

\* Another who runs a provider runs another one.
LEMMA OtherOwner ==
    ASSUME DiInv, NEW a \in Askers, frames[a] # <<>>, Owner(Top(a)), NEW b \in Askers, NEW i \in DOMAIN frames[b],
           Owner(frames[b][i]), frames[b][i].n = Top(a).n, frames[b][i].fn = Top(a).fn
    PROVE  b = a /\ i = 1
<1>1. DiTyped /\ OwnersOnce  BY DEF DiInv
<1>2. Top(a) = frames[a][1] /\ 1 \in DOMAIN frames[a]  BY <1>1, FrameTops
<1> QED BY <1>1, <1>2 DEF OwnersOnce

LEMMA RunKeeps ==
    ASSUME DiInv, NEW a \in Askers, At(a, "args"), made' = [made EXCEPT ![Top(a).val.by] = @ + 1],
           Goes(a, [Top(a) EXCEPT !.pc = "store", !.val.run = made'[Top(a).val.by]]),
           UNCHANGED <<layout, values, providers, flights, asked, news>>
    PROVE  DiInv'
<1>f. PICK f : f = Top(a)  OBVIOUS
<1>1. /\ frames[a] # <<>> /\ f.pc = "args" /\ f \in DiFrames /\ FrameKnown(f) /\ DiTyped
      /\ (news = 0 => FrameRight(f) /\ Supplies /\ MadeOnce) /\ f.n \in Injectors /\ f.t \in DiTypes
  BY <1>f, AtTop
<1>g. PICK g : g = f.val.by  OBVIOUS
<1>2. g \in Makers /\ f.fn \in Makers  BY <1>1, <1>g DEF FrameKnown
<1>3. /\ made \in [Makers -> Nat] /\ made' \in [Makers -> Nat] /\ made'[g] = made[g] + 1
      /\ \A h \in Makers : h # g => made'[h] = made[h]
  <2>1. made \in [Makers -> Nat]  BY <1>1 DEF DiTyped
  <2>2. made' = [made EXCEPT ![g] = made[g] + 1]  BY <1>f, <1>g
  <2> QED BY <1>2, <2>1, <2>2
<1>v. PICK v : v = [f.val EXCEPT !.run = made'[g]]  OBVIOUS
<1>x. PICK x : x = [f EXCEPT !.pc = "store", !.val = v]  OBVIOUS
<1>4. Goes(a, x)
  <2>1. [f EXCEPT !.pc = "store", !.val.run = made'[g]] = x  BY <1>1, <1>v, <1>x DEF DiFrames
  <2> QED BY <1>f, <1>g, <2>1
<1>5. v \in DiValues /\ v.by = g /\ v.run = made'[g]
  <2>1. f.val \in DiValues  BY <1>1 DEF DiFrames
  <2>2. made'[g] \in Nat  BY <1>2, <1>3
  <2> QED BY <1>g, <1>v, <2>1, <2>2 DEF DiValues
<1>6. x \in DiFrames  BY <1>1, <1>5, <1>x DEF DiFrames, DiPcs
<1>7. x.n = f.n /\ x.t = f.t /\ x.pc = "store" /\ x.fn = f.fn /\ x.val = v  BY <1>1, <1>x DEF DiFrames
<1>8. Owner(x) /\ Owner(f) /\ FrameKnown(x)  BY <1>1, <1>2, <1>5, <1>7 DEF Owner, FrameKnown
<1>B. PICK B : B = {a}  OBVIOUS
<1>y. PICK y : y = [b \in {a} |-> x]  OBVIOUS
<1>9. Moved(B, y) /\ answers' = answers  BY <1>1, <1>4, <1>6, <1>7, <1>8, <1>f, <1>B, <1>y, MovesOne
<1>10. y[a] = x /\ B \subseteq Askers  BY <1>y, <1>B
<1>11. OwnersOnce' /\ OwnersFly' /\ FlightsOwned'  BY <1>1, <1>4, <1>6, <1>7, <1>8, <1>f, OwnersGo
<1>12. ASSUME news = 0 PROVE DiRight'
  <2>0. DiRight /\ layout \in Layouts  BY <1>1, <1>12 DEF DiInv, DiTyped
  <2>1. FrameRight(f) /\ Supplies /\ MadeOnce  BY <1>1, <1>12
  <2>2. f.fn = g /\ First(f.n, f.t) = g /\ ~ There(f.n, f.t) /\ made[g] = 0 /\ g # "none"
    <3>1. g # "none"  BY <1>2, InjectorAssumption DEF Makers
    <3> QED BY <1>1, <1>g, <2>1, <3>1 DEF FrameRight
  <2>3. \A n, t : First(n, t)' = First(n, t) /\ (There(n, t)' <=> There(n, t)) /\ Worth(n, t)' = Worth(n, t)
    BY DEF First, There, Worth
  <2>4. Supplies'  BY <2>1, <2>3 DEF Supplies
  <2>5. Top(a)' = x /\ frames'[a] # <<>>  BY <1>9, <1>10, <1>B DEF Moved
  <2>6. Storing(f.n, g)'
    <3>1. At(a, "store")'  BY <1>7, <2>5 DEF At
    <3> QED BY <1>7, <2>2, <2>5, <3>1 DEF Storing
  <2>7. \A n, h : Storing(n, h) => Storing(n, h)'
    <3> SUFFICES ASSUME NEW n, NEW h, Storing(n, h) PROVE Storing(n, h)'  OBVIOUS
    <3> PICK b \in Askers : At(b, "store") /\ Top(b).n = n /\ Top(b).fn = h  BY DEF Storing
    <3>1. b \notin B  BY <1>1, <1>f, <1>B DEF At
    <3>2. frames'[b] = frames[b]  BY <1>9, <3>1 DEF Moved
    <3> QED BY <3>2 DEF Storing, At, Top
  <2>8. \A m \in Injectors, u \in DiTypes : First(m, u) = g => m = f.n
    BY <1>1, <2>0, <2>2, OwnInjector
  <2>9. MadeOnce'
    <3>1. ASSUME NEW h \in Makers
          PROVE  /\ made'[h] \in {0, 1}
                 /\ made'[h] = 1 => \A n \in Injectors, t \in DiTypes :
                                        First(n, t) = h => There(n, t) \/ Storing(n, h)'
      <4>1. CASE h = g  BY <1>3, <2>2, <2>6, <2>8, <4>1
      <4>2. CASE h # g  BY <1>3, <2>1, <2>7, <4>2 DEF MadeOnce
      <4> QED BY <4>1, <4>2
    <3> QED BY <2>3, <3>1 DEF MadeOnce
  <2>10. FramesRight'
    <3>1. \A z : FrameRight(z) /\ (z.pc = "args" => made'[z.fn] = made[z.fn]) => FrameRight(z)'
      BY <2>3 DEF FrameRight
    <3>2. FrameRight(x)'
      <4>1. x.val.by = g /\ x.val.run = 1  BY <1>3, <1>5, <1>7, <2>2
      <4>2. x.fn \in Makers /\ x.fn = First(x.n, x.t) /\ ~ There(x.n, x.t) /\ x.val.by = x.fn
        BY <1>2, <1>7, <2>2, <4>1
      <4> QED BY <1>7, <2>3, <4>1, <4>2 DEF FrameRight
    <3>3. \A b \in Askers : \A i \in DOMAIN frames'[b] : \E z : z = frames'[b][i] /\ FrameRight(z)'
      <4> SUFFICES ASSUME NEW b \in Askers, NEW i \in DOMAIN frames'[b] PROVE \E z : z = frames'[b][i] /\ FrameRight(z)'
        OBVIOUS
      <4>1. /\ i \in DOMAIN frames[b]
            /\ b = a /\ i = 1 => frames'[b][i] = x
            /\ ~ (b = a /\ i = 1) => frames'[b][i] = frames[b][i]
        BY <1>9, <1>10, <1>B, WasThere
      <4>2. CASE b = a /\ i = 1  BY <3>2, <4>1, <4>2
      <4>3. CASE ~ (b = a /\ i = 1)
        <5>z. PICK z : z = frames[b][i]  OBVIOUS
        <5>1. FrameRight(z) /\ z \in DiFrames
          <6>1. frames[b] \in Seq(DiFrames)  BY <1>1 DEF DiTyped
          <6>2. frames[b][i] \in DiFrames  BY <4>1, <6>1
          <6> QED BY <2>0, <4>1, <5>z, <6>2 DEF DiRight, FramesRight
        <5>2. z.pc = "args" => made'[z.fn] = made[z.fn]
          <6> SUFFICES ASSUME z.pc = "args" PROVE made'[z.fn] = made[z.fn]  OBVIOUS
          <6>1. z.fn \in Makers /\ z.fn = First(z.n, z.t) /\ z.n \in Injectors /\ z.t \in DiTypes
            BY <5>1 DEF FrameRight, DiFrames
          <6>2. z.fn # g
            <7> SUFFICES ASSUME z.fn = g PROVE FALSE  OBVIOUS
            <7>1. z.n = f.n  BY <2>8, <6>1
            <7>2. Owner(z)  BY DEF Owner
            <7>3. b = a /\ i = 1  BY <1>1, <1>8, <1>f, <2>2, <4>1, <5>z, <7>1, <7>2, OtherOwner
            <7> QED BY <4>3, <7>3
          <6> QED BY <1>3, <6>1, <6>2
        <5>3. FrameRight(z)'  BY <3>1, <5>1, <5>2
        <5> QED BY <4>1, <4>3, <5>3, <5>z
      <4> QED BY <4>2, <4>3
    <3> QED BY <3>3 DEF FramesRight
  <2>11. AnswersRight'  BY <1>9, <2>0, <2>3 DEF DiRight, AnswersRight, Result
  <2> QED BY <2>4, <2>9, <2>10, <2>11 DEF DiRight
<1>13. Stacks' /\ Asking' /\ frames' \in [Askers -> Seq(DiFrames)]  BY <1>9 DEF Moved
<1>14. DiTyped'  BY <1>1, <1>3, <1>9, <1>13 DEF DiTyped
<1> QED BY <1>11, <1>12, <1>13, <1>14 DEF DiInv

\* What a provider made is there for all its types, and in no other place.
LEMMA StoreKeeps == ASSUME DiInv, NEW a \in Askers, Store(a) PROVE DiInv'
<1>f. PICK f : f = Top(a)  OBVIOUS
<1>1. /\ frames[a] # <<>> /\ f.pc = "store" /\ f \in DiFrames /\ FrameKnown(f) /\ DiTyped
      /\ (news = 0 => FrameRight(f) /\ Supplies /\ MadeOnce) /\ f.n \in Injectors /\ f.t \in DiTypes
  <2>1. At(a, "store")  BY DEF Store
  <2> QED BY <1>f, <2>1, AtTop
<1>g. PICK g : g = f.val.by  OBVIOUS
<1>v. PICK v : v = f.val  OBVIOUS
<1>o. PICK outs : outs = Providers[g].outs  OBVIOUS
<1>2. g \in Makers /\ f.fn \in Makers /\ v \in DiValues  BY <1>1, <1>g, <1>v DEF FrameKnown, DiFrames
<1>x. PICK x : x = [f EXCEPT !.pc = "land"]  OBVIOUS
<1>3. /\ values' = [values EXCEPT ![f.n] = [t \in DiTypes |-> IF t \in outs THEN v ELSE values[f.n][t]]]
      /\ providers' = [providers EXCEPT ![f.n] = [t \in DiTypes |-> IF t \in outs THEN "none" ELSE providers[f.n][t]]]
      /\ Goes(a, x) /\ UNCHANGED <<layout, flights, asked, made, news>>
  BY <1>f, <1>g, <1>v, <1>o, <1>x DEF Store
<1>4. /\ values \in [Injectors -> [DiTypes -> DiValues]]
      /\ providers \in [Injectors -> [DiTypes -> Makers \cup {"none"}]]
  BY <1>1 DEF DiTyped
<1>5. /\ values' \in [Injectors -> [DiTypes -> DiValues]]
      /\ \A m \in Injectors, u \in DiTypes :
            values'[m][u] = IF m = f.n /\ u \in outs THEN v ELSE values[m][u]
  BY <1>1, <1>2, <1>3, <1>4
<1>6. /\ providers' \in [Injectors -> [DiTypes -> Makers \cup {"none"}]]
      /\ \A m \in Injectors, u \in DiTypes :
            providers'[m][u] = IF m = f.n /\ u \in outs THEN "none" ELSE providers[m][u]
  BY <1>1, <1>3, <1>4
<1>7. x \in DiFrames  BY <1>1, <1>x DEF DiFrames, DiPcs
<1>8. x.n = f.n /\ x.t = f.t /\ x.pc = "land" /\ x.fn = f.fn  BY <1>1, <1>x DEF DiFrames
<1>9. Owner(x) /\ Owner(f) /\ FrameKnown(x)  BY <1>1, <1>2, <1>8 DEF Owner, FrameKnown
<1>B. PICK B : B = {a}  OBVIOUS
<1>y. PICK y : y = [b \in {a} |-> x]  OBVIOUS
<1>10. Moved(B, y) /\ answers' = answers  BY <1>1, <1>3, <1>7, <1>8, <1>9, <1>f, <1>B, <1>y, MovesOne
<1>11. y[a] = x /\ B \subseteq Askers  BY <1>y, <1>B
<1>12. OwnersOnce' /\ OwnersFly' /\ FlightsOwned'  BY <1>1, <1>3, <1>7, <1>8, <1>9, <1>f, OwnersGo
<1>13. ASSUME news = 0 PROVE DiRight'
  <2>0. DiRight /\ layout \in Layouts  BY <1>1, <1>13 DEF DiInv, DiTyped
  <2>1. FrameRight(f) /\ Supplies /\ MadeOnce  BY <1>1, <1>13
  <2>2. f.fn = g /\ First(f.n, f.t) = g /\ v.by = g /\ v.run = 1 /\ g # "none" /\ v # NoValue
    <3>1. g # "none"  BY <1>2, InjectorAssumption DEF Makers
    <3>2. f.fn = g /\ First(f.n, f.t) = g /\ v.by = g /\ v.run = 1  BY <1>1, <1>g, <1>v, <2>1 DEF FrameRight
    <3> QED BY <3>1, <3>2 DEF NoValue
  <2>3. \A m \in Injectors, u \in DiTypes : (First(m, u) = g => m = f.n) /\ (u \in outs <=> First(f.n, u) = g)
    BY <1>1, <1>o, <2>0, <2>2, OwnInjector
  <2>4. \A n, t : First(n, t)' = First(n, t) /\ Worth(n, t)' = Worth(n, t)
    BY <1>3 DEF First, Worth
  <2>5. ASSUME NEW m \in Injectors, NEW u \in DiTypes, First(m, u) = g
        PROVE  values'[m][u] = Worth(m, u) /\ providers'[m][u] = "none" /\ There(m, u)'
    <3>1. m = f.n /\ u \in outs  BY <2>3, <2>5
    <3>2. values'[m][u] = v /\ providers'[m][u] = "none"  BY <1>5, <1>6, <3>1
    <3>3. v = [by |-> g, run |-> 1]  BY <1>2, <2>2 DEF DiValues
    <3> QED BY <2>2, <2>5, <3>2, <3>3 DEF Worth, There, NoValue
  <2>6. ASSUME NEW m \in Injectors, NEW u \in DiTypes, First(m, u) # g
        PROVE  values'[m][u] = values[m][u] /\ providers'[m][u] = providers[m][u] /\ (There(m, u)' <=> There(m, u))
    <3>1. ~ (m = f.n /\ u \in outs)  BY <2>3, <2>6
    <3>2. values'[m][u] = values[m][u] /\ providers'[m][u] = providers[m][u]  BY <1>5, <1>6, <3>1
    <3> QED BY <3>2 DEF There, NoValue
  <2>7. Supplies'
    <3>1. ASSUME NEW m \in Injectors, NEW u \in DiTypes
          PROVE  IF First(m, u) = "none" THEN ~ There(m, u)' /\ providers'[m][u] = "none"
                 ELSE IF There(m, u)' THEN values'[m][u] = Worth(m, u) /\ providers'[m][u] = "none"
                 ELSE providers'[m][u] = First(m, u)
      <4>1. CASE First(m, u) = g  BY <2>2, <2>5, <4>1
      <4>2. CASE First(m, u) # g  BY <2>1, <2>6, <4>2 DEF Supplies
      <4> QED BY <4>1, <4>2
    <3>2. ASSUME NEW m \in Injectors, NEW t \in DiTypes, NEW u \in DiTypes,
                 First(m, t) # "none", First(m, t) = First(m, u)
          PROVE  There(m, t)' <=> There(m, u)'
      <4>1. CASE First(m, t) = g
        <5>1. There(m, t)'  BY <2>5, <4>1
        <5>2. There(m, u)'  BY <2>5, <3>2, <4>1
        <5> QED BY <5>1, <5>2
      <4>2. CASE First(m, t) # g
        <5>1. There(m, t)' <=> There(m, t)  BY <2>6, <4>2
        <5>2. There(m, u)' <=> There(m, u)  BY <2>6, <3>2, <4>2
        <5>3. There(m, t) <=> There(m, u)  BY <2>1, <3>2 DEF Supplies
        <5> QED BY <5>1, <5>2, <5>3
      <4> QED BY <4>1, <4>2
    <3> QED BY <2>4, <3>1, <3>2 DEF Supplies
  <2>8. \A n, h : Storing(n, h) => Storing(n, h)' \/ (n = f.n /\ h = g)
    <3> SUFFICES ASSUME NEW n, NEW h, Storing(n, h), ~ (n = f.n /\ h = g) PROVE Storing(n, h)'  OBVIOUS
    <3> PICK b \in Askers : At(b, "store") /\ Top(b).n = n /\ Top(b).fn = h  BY DEF Storing
    <3>1. b \notin B  BY <1>f, <1>B, <2>2
    <3>2. frames'[b] = frames[b]  BY <1>10, <3>1 DEF Moved
    <3> QED BY <3>2 DEF Storing, At, Top
  <2>9. MadeOnce'
    <3>1. ASSUME NEW h \in Makers, made[h] = 1, NEW n \in Injectors, NEW t \in DiTypes, First(n, t) = h
          PROVE  There(n, t)' \/ Storing(n, h)'
      <4>1. CASE h = g  BY <2>5, <3>1, <4>1
      <4>2. CASE h # g
        <5>1. There(n, t) \/ Storing(n, h)  BY <2>1, <3>1 DEF MadeOnce
        <5> QED BY <2>6, <2>8, <3>1, <4>2, <5>1
      <4> QED BY <4>1, <4>2
    <3>2. \A h \in Makers : made[h] \in {0, 1}  BY <2>1 DEF MadeOnce
    <3> QED BY <1>3, <2>4, <3>1, <3>2 DEF MadeOnce
  <2>10. FramesRight'
    <3>1. ASSUME NEW z, FrameRight(z), There(z.n, z.t) => There(z.n, z.t)',
                 z.pc \in {"args", "store"} => (There(z.n, z.t)' <=> There(z.n, z.t))
          PROVE  FrameRight(z)'
      <4>1. made' = made /\ layout' = layout  BY <1>3
      <4> QED BY <2>4, <3>1, <4>1 DEF FrameRight
    <3>2. FrameRight(x)'
      <4>1. There(x.n, x.t)'  BY <1>1, <1>8, <2>2, <2>5
      <4> QED BY <1>2, <1>8, <2>2, <2>4, <4>1 DEF FrameRight
    <3>3. \A b \in Askers : \A i \in DOMAIN frames'[b] : \E z : z = frames'[b][i] /\ FrameRight(z)'
      <4> SUFFICES ASSUME NEW b \in Askers, NEW i \in DOMAIN frames'[b] PROVE \E z : z = frames'[b][i] /\ FrameRight(z)'
        OBVIOUS
      <4>1. /\ i \in DOMAIN frames[b]
            /\ b = a /\ i = 1 => frames'[b][i] = x
            /\ ~ (b = a /\ i = 1) => frames'[b][i] = frames[b][i]
        BY <1>10, <1>11, <1>B, WasThere
      <4>2. CASE b = a /\ i = 1  BY <3>2, <4>1, <4>2
      <4>3. CASE ~ (b = a /\ i = 1)
        <5>z. PICK z : z = frames[b][i]  OBVIOUS
        <5>1. FrameRight(z) /\ z \in DiFrames
          <6>1. frames[b] \in Seq(DiFrames)  BY <1>1 DEF DiTyped
          <6>2. frames[b][i] \in DiFrames  BY <4>1, <6>1
          <6> QED BY <2>0, <4>1, <5>z, <6>2 DEF DiRight, FramesRight
        <5>2. z.n \in Injectors /\ z.t \in DiTypes  BY <5>1 DEF DiFrames
        <5>3. There(z.n, z.t) => There(z.n, z.t)'
          <6>1. CASE First(z.n, z.t) = g  BY <2>5, <5>2, <6>1
          <6>2. CASE First(z.n, z.t) # g  BY <2>6, <5>2, <6>2
          <6> QED BY <6>1, <6>2
        <5>4. z.pc \in {"args", "store"} => (There(z.n, z.t)' <=> There(z.n, z.t))
          <6> SUFFICES ASSUME z.pc \in {"args", "store"} PROVE There(z.n, z.t)' <=> There(z.n, z.t)  OBVIOUS
          <6>1. z.fn = First(z.n, z.t)  BY <5>1 DEF FrameRight
          <6>2. First(z.n, z.t) # g
            <7> SUFFICES ASSUME First(z.n, z.t) = g PROVE FALSE  OBVIOUS
            <7>1. z.n = f.n  BY <2>3, <5>2
            <7>2. Owner(z)  BY DEF Owner
            <7>3. b = a /\ i = 1  BY <1>1, <1>9, <1>f, <2>2, <4>1, <5>z, <6>1, <7>1, <7>2, OtherOwner
            <7> QED BY <4>3, <7>3
          <6> QED BY <2>6, <5>2, <6>2
        <5>5. FrameRight(z)'  BY <3>1, <5>1, <5>3, <5>4
        <5> QED BY <4>1, <4>3, <5>5, <5>z
      <4> QED BY <4>2, <4>3
    <3> QED BY <3>3 DEF FramesRight
  <2>11. AnswersRight'
    <3>1. layout' = layout  BY <1>3
    <3> QED BY <1>10, <2>0, <2>4, <3>1 DEF DiRight, AnswersRight, Result
  <2> QED BY <2>7, <2>9, <2>10, <2>11 DEF DiRight
<1>14. Stacks' /\ Asking' /\ frames' \in [Askers -> Seq(DiFrames)]  BY <1>10 DEF Moved
<1>15. DiTyped'  BY <1>1, <1>3, <1>5, <1>6, <1>10, <1>14 DEF DiTyped
<1>16. news' = 0 => DiRight'  BY <1>3, <1>13
<1> QED BY <1>12, <1>14, <1>15, <1>16 DEF DiInv

\* The call is over for all who wait, and they find what it made.
LEMMA LandKeeps == ASSUME DiInv, NEW a \in Askers, Land(a) PROVE DiInv'
<1>f. PICK f : f = Top(a)  OBVIOUS
<1>1. /\ frames[a] # <<>> /\ f.pc = "land" /\ f \in DiFrames /\ FrameKnown(f) /\ DiTyped
      /\ (news = 0 => FrameRight(f) /\ Supplies) /\ f.n \in Injectors /\ f.t \in DiTypes
  <2>1. At(a, "land")  BY DEF Land
  <2> QED BY <1>f, <2>1, AtTop
<1>B. PICK B : B = {b \in Askers : b = a \/ (At(b, "join") /\ Top(b).n = f.n /\ Top(b).fn = f.fn)}  OBVIOUS
<1>q. PICK q : q = IF f.bad THEN "panic" ELSE "again"  OBVIOUS
<1>y. PICK y : y = [b \in B |-> [Top(b) EXCEPT !.pc = q]]  OBVIOUS
<1>2. /\ flights' = [flights EXCEPT ![f.n] = @ \ {f.fn}]
      /\ UNCHANGED <<layout, values, providers, asked, answers, made, news>>
      /\ frames' = [b \in Askers |-> IF b \in B THEN Below(b, y[b]) ELSE frames[b]]
  <2>1. \A b \in Askers : b \in B <=> b = a \/ (At(b, "join") /\ Top(b).n = f.n /\ Top(b).fn = f.fn)  BY <1>B
  <2>2. \A b \in B : y[b] = [Top(b) EXCEPT !.pc = IF f.bad THEN "panic" ELSE "again"]  BY <1>q, <1>y
  <2> QED BY <1>f, <2>1, <2>2 DEF Land
<1>3. B \subseteq Askers /\ a \in B  BY <1>B
<1>4. q \in {"panic", "again"} /\ q \in DiPcs  BY <1>q DEF DiPcs
<1>5. ASSUME NEW b \in B
      PROVE  /\ frames[b] # <<>> /\ Top(b) \in DiFrames /\ y[b] \in DiFrames
             /\ y[b].n = Top(b).n /\ y[b].t = Top(b).t /\ y[b].pc = q /\ y[b].fn = Top(b).fn
             /\ FrameKnown(y[b]) /\ ~ Owner(y[b]) /\ (b # a => Top(b).pc = "join") /\ Top(b).pc # "store"
             /\ Top(b).n = f.n /\ Top(b).fn = f.fn
  <2>1. b \in Askers /\ (b = a \/ (At(b, "join") /\ Top(b).n = f.n /\ Top(b).fn = f.fn))  BY <1>B
  <2>2. frames[b] # <<>> /\ (b # a => Top(b).pc = "join") /\ Top(b).pc # "store" /\ Top(b).n = f.n /\ Top(b).fn = f.fn
    BY <1>1, <1>f, <2>1 DEF At
  <2>t. PICK t : t = Top(b)  OBVIOUS
  <2>x. PICK x : x = y[b]  OBVIOUS
  <2>3. t \in DiFrames  BY <1>1, <2>1, <2>2, <2>t, FrameTops
  <2>4. x = [t EXCEPT !.pc = q]  BY <1>y, <2>t, <2>x
  <2>5. x \in DiFrames  BY <1>4, <2>3, <2>4 DEF DiFrames
  <2>6. x.n = t.n /\ x.t = t.t /\ x.pc = q /\ x.fn = t.fn  BY <2>3, <2>4 DEF DiFrames
  <2>7. FrameKnown(x) /\ ~ Owner(x)
    <3>1. x.pc = "panic" \/ x.pc = "again"  BY <1>4, <2>6
    <3> QED BY <3>1 DEF FrameKnown, Owner
  <2> QED BY <2>2, <2>3, <2>5, <2>6, <2>7, <2>t, <2>x
<1>6. Moved(B, y)
  <2>1. y \in [B -> DiFrames]
    <3>1. y = [b \in B |-> y[b]]  BY <1>y
    <3> QED BY <1>5, <3>1
  <2>2. Moving(B, y)  BY <1>2, <1>3, <1>5, <2>1 DEF Moving
  <2> QED BY <2>2, Moves
<1>7. OwnersOnce /\ OwnersFly /\ FlightsOwned /\ (news = 0 => DiRight)  BY DEF DiInv
<1>8. /\ flights \in [Injectors -> SUBSET Makers] /\ flights' \in [Injectors -> SUBSET Makers]
      /\ \A n \in Injectors : \A g : g \in flights'[n] <=> g \in flights[n] /\ ~ (n = f.n /\ g = f.fn)
  BY <1>1, <1>2 DEF DiTyped
<1>9. Owner(f)  BY <1>1 DEF Owner
\* Whoever is an owner now was one, for another provider.
<1>10. ASSUME NEW b \in Askers, NEW i \in DOMAIN frames'[b], Owner(frames'[b][i])
       PROVE  /\ i \in DOMAIN frames[b] /\ frames'[b][i] = frames[b][i]
              /\ ~ (frames[b][i].n = f.n /\ frames[b][i].fn = f.fn)
  <2>1. /\ i \in DOMAIN frames[b]
        /\ b \in B /\ i = 1 => frames'[b][i] = y[b]
        /\ ~ (b \in B /\ i = 1) => frames'[b][i] = frames[b][i]
    BY <1>6, WasThere
  <2>2. ~ (b \in B /\ i = 1)  BY <1>5, <1>10, <2>1
  <2>3. ASSUME frames[b][i].n = f.n, frames[b][i].fn = f.fn PROVE FALSE
    <3>1. b = a /\ i = 1  BY <1>1, <1>9, <1>10, <1>f, <2>1, <2>2, <2>3, OtherOwner
    <3> QED BY <1>3, <2>2, <3>1
  <2> QED BY <2>1, <2>2, <2>3
<1>11. OwnersOnce'
  <2> SUFFICES ASSUME NEW b \in Askers, NEW c \in Askers, NEW i \in DOMAIN frames'[b], NEW j \in DOMAIN frames'[c],
                      Owner(frames'[b][i]), Owner(frames'[c][j]), frames'[b][i].n = frames'[c][j].n,
                      frames'[b][i].fn = frames'[c][j].fn
               PROVE  b = c /\ i = j
    BY DEF OwnersOnce, Owner
  <2>1. i \in DOMAIN frames[b] /\ frames'[b][i] = frames[b][i]  BY <1>10
  <2>2. j \in DOMAIN frames[c] /\ frames'[c][j] = frames[c][j]  BY <1>10
  <2> QED BY <1>7, <2>1, <2>2 DEF OwnersOnce
<1>12. OwnersFly'
  <2> SUFFICES ASSUME NEW b \in Askers, NEW i \in DOMAIN frames'[b], Owner(frames'[b][i])
               PROVE  frames'[b][i].fn \in flights'[frames'[b][i].n]
    BY DEF OwnersFly, Owner
  <2>1. /\ i \in DOMAIN frames[b] /\ frames'[b][i] = frames[b][i]
        /\ ~ (frames[b][i].n = f.n /\ frames[b][i].fn = f.fn)
    BY <1>10
  <2>2. frames[b][i].fn \in flights[frames[b][i].n]  BY <1>7, <2>1 DEF OwnersFly
  <2>3. frames[b][i].n \in Injectors
    <3>1. frames[b] \in Seq(DiFrames)  BY <1>1 DEF DiTyped
    <3>2. frames[b][i] \in DiFrames  BY <2>1, <3>1
    <3> QED BY <3>2 DEF DiFrames
  <2> QED BY <1>8, <2>1, <2>2, <2>3
<1>13. FlightsOwned'
  <2> SUFFICES ASSUME NEW n \in Injectors, NEW g \in flights'[n]
               PROVE  \E b \in Askers : \E i \in DOMAIN frames'[b] :
                          frames'[b][i].n = n /\ frames'[b][i].fn = g /\ Owner(frames'[b][i])
    BY DEF FlightsOwned, Owner
  <2>1. g \in flights[n] /\ ~ (n = f.n /\ g = f.fn)  BY <1>8
  <2> PICK b \in Askers : \E i \in DOMAIN frames[b] :
            frames[b][i].n = n /\ frames[b][i].fn = g /\ Owner(frames[b][i])
    BY <1>7, <2>1 DEF FlightsOwned
  <2> PICK i \in DOMAIN frames[b] : frames[b][i].n = n /\ frames[b][i].fn = g /\ Owner(frames[b][i])
    OBVIOUS
  <2>2. ~ (b \in B /\ i = 1)
    <3> SUFFICES ASSUME b \in B, i = 1 PROVE FALSE  OBVIOUS
    <3>1. Top(b) = frames[b][1]  BY <1>6 DEF Moved
    <3>2. b # a  BY <1>f, <2>1, <3>1
    <3>3. frames[b][i].pc = "join"  BY <1>5, <3>1, <3>2
    <3> QED BY <3>3 DEF Owner
  <2>3. i \in DOMAIN frames'[b] /\ frames'[b][i] = frames[b][i]
    <3>1. DOMAIN frames'[b] = DOMAIN frames[b]  BY <1>6 DEF Moved
    <3>2. i \in DOMAIN frames'[b]  BY <3>1
    <3> QED BY <1>6, <2>2, <3>2, WasThere
  <2> QED BY <2>3
<1>14. news' = 0 => DiRight'
  <2> SUFFICES ASSUME news = 0 PROVE DiRight'  BY <1>2
  <2>0. DiRight  BY <1>7
  <2>1. ASSUME NEW b \in B PROVE Top(b).pc # "store" /\ FrameRight(y[b])
    <3>t. PICK t : t = Top(b)  OBVIOUS
    <3>x. PICK x : x = y[b]  OBVIOUS
    <3>1. /\ t \in DiFrames /\ t.n = f.n /\ t.fn = f.fn /\ (b # a => t.pc = "join") /\ t.pc # "store"
          /\ x.n = t.n /\ x.t = t.t /\ x.pc = q /\ x.fn = t.fn
      BY <1>5, <3>t, <3>x
    <3>2. CASE f.bad
      <4>1. x.pc = "panic"  BY <1>q, <3>1, <3>2
      <4>2. FrameRight(x)  BY <4>1 DEF FrameRight
      <4> QED BY <3>1, <3>t, <3>x, <4>2
    <3>3. CASE ~ f.bad
      <4>1. There(f.n, f.t) /\ f.fn = First(f.n, f.t) /\ f.fn \in Makers /\ f.fn # "none" /\ Supplies
        <5>1. There(f.n, f.t) /\ f.fn = First(f.n, f.t) /\ f.fn \in Makers  BY <1>1, <3>3 DEF FrameRight
        <5>2. f.fn # "none"  BY <5>1, InjectorAssumption DEF Makers
        <5> QED BY <1>1, <5>1, <5>2
      <4>2. FrameRight(t)
        <5>1. b \in Askers /\ frames[b] # <<>>  BY <1>3, <1>5
        <5>2. t \in Of(frames[b])  BY <1>1, <3>t, <5>1, FrameTops
        <5> QED BY <1>1, <2>0, <5>1, <5>2, OfFrames DEF DiRight
      <4>3. t.fn = First(t.n, t.t)
        <5>1. t.pc \in {"join", "land"}  BY <1>1, <1>f, <3>1, <3>t
        <5> QED BY <4>2, <5>1 DEF FrameRight
      <4>4. t.t \in DiTypes  BY <3>1 DEF DiFrames
      <4>5. First(f.n, t.t) = First(f.n, f.t)  BY <3>1, <4>1, <4>3
      <4>6. There(f.n, t.t)  BY <1>1, <4>1, <4>4, <4>5 DEF Supplies
      <4>7. x.pc = "again"  BY <1>q, <3>1, <3>3
      <4>8. FrameRight(x)  BY <3>1, <4>1, <4>3, <4>6, <4>7 DEF FrameRight
      <4> QED BY <3>1, <3>t, <3>x, <4>8
    <3> QED BY <3>2, <3>3
  <2> QED BY <1>1, <1>2, <1>3, <1>6, <2>0, <2>1, RightMoved
<1>15. Stacks' /\ Asking' /\ frames' \in [Askers -> Seq(DiFrames)]  BY <1>6 DEF Moved
<1>16. DiTyped'  BY <1>1, <1>2, <1>8, <1>15 DEF DiTyped
<1> QED BY <1>11, <1>12, <1>13, <1>14, <1>15, <1>16 DEF DiInv

-----------------------------------------------------------------------------
(* The injector as a whole.                                                *)

\* Later calls of Map and Provide leave the goroutines where they are.
LEMMA OthersKeep ==
    ASSUME DiInv, UNCHANGED <<layout, flights, asked, frames, answers, made>>, news' # 0, news' \in Nat,
           values' \in [Injectors -> [DiTypes -> DiValues]],
           providers' \in [Injectors -> [DiTypes -> Makers \cup {"none"}]]
    PROVE  DiInv'
<1>1. DiTyped /\ Stacks /\ Asking /\ OwnersOnce /\ OwnersFly /\ FlightsOwned  BY DEF DiInv
<1>2. DiTyped'  BY <1>1 DEF DiTyped
<1>3. Stacks'  BY <1>1 DEF Stacks, Stack, FrameKnown, Above
<1>4. Asking'  BY <1>1 DEF Asking
<1>5. OwnersOnce'  BY <1>1 DEF OwnersOnce, Owner
<1>6. OwnersFly'  BY <1>1 DEF OwnersFly, Owner
<1>7. FlightsOwned'  BY <1>1 DEF FlightsOwned, Owner
<1> QED BY <1>2, <1>3, <1>4, <1>5, <1>6, <1>7 DEF DiInv

LEMMA MapNewKeeps == ASSUME DiInv, NEW t \in DiTypes, MapNew(t) PROVE DiInv'
<1>1. DiTyped /\ news \in Nat  BY DEF DiInv, DiTyped
<1>2. news' = news + 1 /\ UNCHANGED <<layout, providers, flights, asked, frames, answers, made>>  BY DEF MapNew
<1>3. news' \in Nat /\ news' # 0  BY <1>1, <1>2
<1>v. PICK v : v = [by |-> "map", run |-> news']  OBVIOUS
<1>4. v \in DiValues  BY <1>3, <1>v DEF DiValues
<1>5. values' = [values EXCEPT !["child"] = [values["child"] EXCEPT ![t] = v]]  BY <1>v DEF MapNew
<1>6. values \in [Injectors -> [DiTypes -> DiValues]] /\ "child" \in Injectors  BY <1>1 DEF DiTyped, Injectors
<1>7. [values["child"] EXCEPT ![t] = v] \in [DiTypes -> DiValues]  BY <1>4, <1>6
<1>8. values' \in [Injectors -> [DiTypes -> DiValues]]  BY <1>5, <1>6, <1>7
<1>9. providers' \in [Injectors -> [DiTypes -> Makers \cup {"none"}]]  BY <1>1, <1>2 DEF DiTyped
<1> QED BY <1>2, <1>3, <1>8, <1>9, OthersKeep

LEMMA ProvideNewKeeps == ASSUME DiInv, NEW f \in Makers, ProvideNew(f) PROVE DiInv'
<1>1. DiTyped /\ news \in Nat  BY DEF DiInv, DiTyped
<1>2. news' = news + 1 /\ UNCHANGED <<layout, values, flights, asked, frames, answers, made>>  BY DEF ProvideNew
<1>3. news' \in Nat /\ news' # 0  BY <1>1, <1>2
<1>p. PICK p : p = Provided(providers["child"], f)  OBVIOUS
<1>4. providers' = [providers EXCEPT !["child"] = p]  BY <1>p DEF ProvideNew
<1>5. providers \in [Injectors -> [DiTypes -> Makers \cup {"none"}]] /\ "child" \in Injectors
  BY <1>1 DEF DiTyped, Injectors
<1>6. p \in [DiTypes -> Makers \cup {"none"}]  BY <1>5, <1>p DEF Provided
<1>7. providers' \in [Injectors -> [DiTypes -> Makers \cup {"none"}]]  BY <1>4, <1>5, <1>6
<1>8. values' \in [Injectors -> [DiTypes -> DiValues]]  BY <1>1, <1>2 DEF DiTyped
<1> QED BY <1>2, <1>3, <1>7, <1>8, OthersKeep

LEMMA DiStays == ASSUME DiInv, UNCHANGED diVars PROVE DiInv'
<1>1. DiTyped /\ Stacks /\ Asking /\ OwnersOnce /\ OwnersFly /\ FlightsOwned /\ (news = 0 => DiRight)  BY DEF DiInv
<1>0. UNCHANGED <<layout, values, providers, flights, asked, frames, answers, made, news>>  BY DEF diVars
<1>2. DiTyped'  BY <1>0, <1>1 DEF DiTyped
<1>3. Stacks'  BY <1>0, <1>1 DEF Stacks, Stack, FrameKnown, Above
<1>4. Asking'  BY <1>0, <1>1 DEF Asking
<1>5. OwnersOnce'  BY <1>0, <1>1 DEF OwnersOnce, Owner
<1>6. OwnersFly'  BY <1>0, <1>1 DEF OwnersFly, Owner
<1>7. FlightsOwned'  BY <1>0, <1>1 DEF FlightsOwned, Owner
<1>8. news' = 0 => DiRight'
  <2>1. \A n, t : First(n, t)' = First(n, t) /\ (There(n, t)' <=> There(n, t)) /\ Worth(n, t)' = Worth(n, t)
    BY <1>0 DEF First, There, Worth
  <2>2. \A n, f : Storing(n, f)' <=> Storing(n, f)  BY <1>0 DEF Storing, At, Top
  <2>3. \A x : FrameRight(x)' <=> FrameRight(x)  BY <1>0, RightNow
  <2> SUFFICES ASSUME news = 0 PROVE DiRight'  BY <1>0
  <2>4. Supplies'  BY <1>0, <1>1, <2>1 DEF DiRight, Supplies
  <2>5. MadeOnce'  BY <1>0, <1>1, <2>1, <2>2 DEF DiRight, MadeOnce
  <2>6. FramesRight'  BY <1>0, <1>1, <2>3 DEF DiRight, FramesRight
  <2>7. AnswersRight'  BY <1>0, <1>1, <2>1 DEF DiRight, AnswersRight, Result
  <2> QED BY <2>4, <2>5, <2>6, <2>7 DEF DiRight
<1> QED BY <1>2, <1>3, <1>4, <1>5, <1>6, <1>7, <1>8 DEF DiInv

LEMMA DiStarts == DiInit => DiInv
<1> SUFFICES ASSUME DiInit PROVE DiInv  OBVIOUS
<1>1. /\ layout \in Layouts /\ values = [n \in Injectors |-> [t \in DiTypes |-> NoValue]]
      /\ providers = [n \in Injectors |-> [t \in DiTypes |-> First(n, t)]]
      /\ flights = [n \in Injectors |-> {}] /\ asked = [a \in Askers |-> Nothing]
      /\ frames = [a \in Askers |-> <<>>] /\ answers = [a \in Askers |-> <<>>]
      /\ made = [f \in Makers |-> 0] /\ news = 0
  BY DEF DiInit, First, Makers, Nothing
<1>2. \A n \in Injectors, t \in DiTypes : First(n, t) \in Makers \cup {"none"}
  BY <1>1, GivenIs
<1>3. NoValue \in DiValues  BY DEF NoValue, DiValues
<1>4. DiTyped
  <2>1. values \in [Injectors -> [DiTypes -> DiValues]]  BY <1>1, <1>3
  <2>2. providers \in [Injectors -> [DiTypes -> Makers \cup {"none"}]]  BY <1>1, <1>2
  <2>3. <<>> \in Seq(DiFrames) /\ <<>> \in Seq(DiAnswers)  OBVIOUS
  <2> QED BY <1>1, <2>1, <2>2, <2>3 DEF DiTyped
<1>5. \A a \in Askers : frames[a] = <<>> /\ answers[a] = <<>> /\ DOMAIN frames[a] = {} /\ DOMAIN answers[a] = {}
      /\ Len(frames[a]) = 0
  BY <1>1
<1>6. Stacks /\ Asking /\ OwnersOnce /\ OwnersFly /\ FlightsOwned
  <2>1. \A a \in Askers : Stack(frames[a])  BY <1>5 DEF Stack
  <2> QED BY <1>1, <1>5, <2>1 DEF Stacks, Asking, OwnersOnce, OwnersFly, FlightsOwned
<1>7. DiRight
  <2>1. \A n \in Injectors, t \in DiTypes : ~ There(n, t) /\ providers[n][t] = First(n, t)  BY <1>1 DEF There
  <2>2. Supplies  BY <2>1 DEF Supplies
  <2>3. MadeOnce  BY <1>1 DEF MadeOnce
  <2> QED BY <1>5, <2>2, <2>3 DEF DiRight, FramesRight, AnswersRight
<1> QED BY <1>4, <1>6, <1>7 DEF DiInv

LEMMA DiKeeps == ASSUME DiInv, [DiNext]_diVars PROVE DiInv'
<1>1. ASSUME NEW a \in Askers, Ask(a) PROVE DiInv'  BY <1>1, AskKeeps
<1>2. ASSUME NEW a \in Askers, Look(a) PROVE DiInv'  BY <1>2, LookKeeps
<1>3. ASSUME NEW a \in Askers, Do(a) PROVE DiInv'  BY <1>3, JoinKeeps, BeginKeeps
<1>4. ASSUME NEW a \in Askers, Check(a) PROVE DiInv'  BY <1>4, CheckKeeps
<1>5. ASSUME NEW a \in Askers, Args(a) PROVE DiInv'
  <2>1. At(a, "args") /\ UNCHANGED <<layout, values, providers, flights, asked, news>>  BY <1>5 DEF Args
  <2>2. CASE /\ Top(a).k <= Len(Providers[Top(a).val.by].ins)
             /\ frames' = [frames EXCEPT ![a] = <<Frame(Top(a).n, Providers[Top(a).val.by].ins[Top(a).k])>> \o @]
             /\ answers' = answers /\ made' = made
    BY <2>1, <2>2, ArgKeeps
  <2>3. CASE /\ made' = [made EXCEPT ![Top(a).val.by] = @ + 1]
             /\ Goes(a, [Top(a) EXCEPT !.pc = "store", !.val.run = made'[Top(a).val.by]])
    BY <2>1, <2>3, RunKeeps
  <2>4. CASE Goes(a, [Top(a) EXCEPT !.pc = "land", !.bad = TRUE]) /\ made' = made
    BY <2>1, <2>4, FaultKeeps
  <2> QED BY <1>5, <2>2, <2>3, <2>4 DEF Args
<1>6. ASSUME NEW a \in Askers, Store(a) PROVE DiInv'  BY <1>6, StoreKeeps
<1>7. ASSUME NEW a \in Askers, Land(a) PROVE DiInv'  BY <1>7, LandKeeps
<1>8. ASSUME NEW a \in Askers, Again(a) PROVE DiInv'  BY <1>8, AgainKeeps
<1>9. ASSUME NEW a \in Askers, Scan(a) PROVE DiInv'  BY <1>9, ScanKeeps
<1>10. ASSUME NEW a \in Askers, Back(a) PROVE DiInv'  BY <1>10, BackKeeps
<1>11. ASSUME NEW a \in Askers, Panic(a) PROVE DiInv'  BY <1>11, PanicKeeps
<1>12. ASSUME NEW t \in DiTypes, MapNew(t) PROVE DiInv'  BY <1>12, MapNewKeeps
<1>13. ASSUME NEW f \in DOMAIN Providers, ProvideNew(f) PROVE DiInv'  BY <1>13, ProvideNewKeeps DEF Makers
<1>14. CASE UNCHANGED diVars  BY <1>14, DiStays
<1> QED
  BY <1>1, <1>2, <1>3, <1>4, <1>5, <1>6, <1>7, <1>8, <1>9, <1>10, <1>11, <1>12, <1>13, <1>14 DEF DiNext, DiAskerStep

LEMMA DiHolds == DiInv => InjectorSound
<1> SUFFICES ASSUME DiInv PROVE InjectorSound  OBVIOUS
<1>1. DiTyped /\ FlightsOwned /\ (news = 0 => DiRight)  BY DEF DiInv
<1>2. \A n \in Injectors : \A f \in flights[n] : \E a \in Askers : \E i \in DOMAIN frames[a] :
          frames[a][i].n = n /\ frames[a][i].fn = f /\ frames[a][i].pc \in {"check", "args", "store", "land"}
  BY <1>1 DEF FlightsOwned, Owner
<1>3. ASSUME news = 0
      PROVE  /\ \A f \in DOMAIN Providers : made[f] <= 1
             /\ \A a \in Askers, x, y \in UNION {Range(answers[b]) : b \in Askers} :
                    x.r = "found" /\ y.r = "found" /\ x.t = y.t /\ Implements[x.t] = {} => x.val = y.val
             /\ \A a \in Askers : \A x \in Range(answers[a]) : x.t \in Offered => x.r # "missing"
  <2>1. DiRight /\ layout \in Layouts  BY <1>1, <1>3 DEF DiTyped
  <2>2. \A f \in DOMAIN Providers : made[f] <= 1
    <3>1. \A f \in Makers : made[f] = 0 \/ made[f] = 1  BY <2>1 DEF DiRight, MadeOnce
    <3> QED BY <3>1 DEF Makers
  <2>3. ASSUME NEW a \in Askers, NEW x \in Range(answers[a])
        PROVE  Result("child", x.t, x.r, x.val) /\ x.t \in DiTypes
    <3> PICK i \in DOMAIN answers[a] : x = answers[a][i]  BY DEF Range
    <3>1. answers[a] \in Seq(DiAnswers)  BY <1>1 DEF DiTyped
    <3>2. x \in DiAnswers  BY <3>1
    <3> QED BY <2>1, <3>2 DEF DiRight, AnswersRight, DiAnswers
  <2>4. \A a \in Askers, x, y \in UNION {Range(answers[b]) : b \in Askers} :
            x.r = "found" /\ y.r = "found" /\ x.t = y.t /\ Implements[x.t] = {} => x.val = y.val
    <3> SUFFICES ASSUME NEW b \in Askers, NEW c \in Askers, NEW x \in Range(answers[b]), NEW y \in Range(answers[c]),
                        x.r = "found", y.r = "found", x.t = y.t, Implements[x.t] = {}
                 PROVE  x.val = y.val
      OBVIOUS
    <3>1. Result("child", x.t, x.r, x.val) /\ Result("child", y.t, y.r, y.val)  BY <2>3
    <3> QED BY <3>1 DEF Result
  <2>5. \A a \in Askers : \A x \in Range(answers[a]) : x.t \in Offered => x.r # "missing"
    <3> SUFFICES ASSUME NEW a \in Askers, NEW x \in Range(answers[a]), x.t \in Offered, x.r = "missing" PROVE FALSE
      OBVIOUS
    <3>1. /\ x.t \in DiTypes /\ First("child", x.t) = "none"
          /\ layout.nested => First("parent", x.t) = "none"
      BY <2>3 DEF Result
    <3>2. ASSUME NEW n \in Injectors, First(n, x.t) = "none" PROVE x.t \notin Known(n)
      <4> SUFFICES ASSUME NEW f \in Range(layout[n]), x.t \in Providers[f].outs PROVE FALSE  BY DEF Known
      <4> PICK i \in DOMAIN layout[n] : f = layout[n][i]  BY DEF Range
      <4> QED BY <2>1, <3>1, <3>2, GivenIs
    <3>3. "child" \in Injectors /\ "parent" \in Injectors  BY DEF Injectors
    <3> QED BY <3>1, <3>2, <3>3 DEF Offered
  <2> QED BY <2>2, <2>4, <2>5
<1> QED BY <1>2, <1>3 DEF InjectorSound

\* inject.go, Get, with its shared runs and its parent: while nobody registers anything anew a
\* provider makes its values once, all who ask get the same, and what somebody provides is
\* never missing; and a run in flight always has a goroutine that will end it.  For any
\* askers, types and requests, and any providers that meet OneProvider.
THEOREM EachValueOnce == DiSpec => []InjectorSound
<1>1. DiInit => DiInv  BY DiStarts
<1>2. DiInv /\ [DiNext]_diVars => DiInv'  BY DiKeeps
<1>3. DiInv => InjectorSound  BY DiHolds
<1> QED BY <1>1, <1>2, <1>3, PTL DEF DiSpec

-----------------------------------------------------------------------------
(* The services side by side, as in MCServices.                            *)

\* The component that runs keeps its invariant.
ServicesInv ==
    /\ part \in {"injector", "locale", "cleaner", "limiter", "servers"}
    /\ part = "injector" => DiInv
    /\ part = "locale" => LoInv
    /\ part = "cleaner" => ClInv
    /\ part = "limiter" => MeInv
    /\ part = "servers" => WsInv

LEMMA ServicesStart == ServicesInit => ServicesInv
<1> SUFFICES ASSUME ServicesInit PROVE ServicesInv  OBVIOUS
<1>1. DiInv  BY DiStarts DEF ServicesInit, ServicesBegin
<1>2. LoInv  BY LoInvBegins DEF ServicesInit, ServicesBegin
<1>3. ClInv  BY ClStarts DEF ServicesInit, ServicesBegin
<1>4. MeInv  BY MeStarts DEF ServicesInit, ServicesBegin
<1>5. WsInv  BY WsInitGood DEF ServicesInit, ServicesBegin, WsInv
<1>6. part \in {"injector", "locale", "cleaner", "limiter", "servers"}  BY DEF ServicesInit, ServicesBegin
<1> QED BY <1>1, <1>2, <1>3, <1>4, <1>5, <1>6 DEF ServicesInv

LEMMA ServicesKeep == ServicesInv /\ [ServicesNext]_servicesVars => ServicesInv'
<1> SUFFICES ASSUME ServicesInv, [ServicesNext]_servicesVars PROVE ServicesInv'  OBVIOUS
<1>1. /\ part' = part /\ part \in {"injector", "locale", "cleaner", "limiter", "servers"}
      /\ part = "injector" => [DiNext]_diVars
      /\ part = "locale" => [LoNext]_loVars
      /\ part = "cleaner" => [ClNext]_clVars
      /\ part = "limiter" => [MeNext]_meVars
      /\ part = "servers" => [WsNext]_wsVars
  BY DEF ServicesInv, ServicesNext, servicesVars
<1>2. part = "injector" => DiInv'  BY <1>1, DiKeeps DEF ServicesInv
<1>3. part = "locale" => LoInv'  BY <1>1, LoStep DEF ServicesInv
<1>4. part = "cleaner" => ClInv'  BY <1>1, ClStep DEF ServicesInv
<1>5. part = "limiter" => MeInv'  BY <1>1, MeStep DEF ServicesInv
<1>6. part = "servers" => WsInv'  BY <1>1, WsStep DEF ServicesInv
<1> QED BY <1>1, <1>2, <1>3, <1>4, <1>5, <1>6 DEF ServicesInv

LEMMA ServicesHold == ServicesInv => ServicesSound
<1> SUFFICES ASSUME ServicesInv PROVE ServicesSound  OBVIOUS
<1>1. part \in {"injector", "locale", "cleaner", "limiter", "servers"}  BY DEF ServicesInv
<1>2. CASE part = "injector"
  <2>1. InjectorSound  BY <1>2, DiHolds DEF ServicesInv
  <2> QED BY <1>2, <2>1 DEF ServicesSound
<1>3. CASE part = "locale"
  <2>1. LocaleSound  BY <1>3, LoInvSound DEF ServicesInv
  <2> QED BY <1>3, <2>1 DEF ServicesSound
<1>4. CASE part = "cleaner"
  <2>1. CleanerSound  BY <1>4, ClHolds DEF ServicesInv
  <2> QED BY <1>4, <2>1 DEF ServicesSound
<1>5. CASE part = "limiter"
  <2>1. LimiterSound  BY <1>5, MeHolds DEF ServicesInv
  <2> QED BY <1>5, <2>1 DEF ServicesSound
<1>6. CASE part = "servers"
  <2>1. ServersStop  BY <1>6, GoodStops DEF ServicesInv
  <2> QED BY <1>6, <2>1 DEF ServicesSound
<1> QED BY <1>1, <1>2, <1>3, <1>4, <1>5, <1>6

\* zdi, zlocale, zcache/fast, zutil's limiter and znet's start and shutdown, whichever runs:
\* what is promised of each, with the exceptions that the five statements name, holds in every
\* reachable state, for any values of the constants.
THEOREM ServicesAreSound == ServicesSpec => []ServicesSound
BY ServicesStart, ServicesKeep, ServicesHold, PTL DEF ServicesSpec
=============================================================================
