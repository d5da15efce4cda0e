----------------------------- MODULE Sessions -----------------------------
(***************************************************************************)
(* The session store of znet/session/memory.go and the middleware of       *)
(* znet/session/session.go that uses it: objects of a pool are stored      *)
(* under identifiers, expire, are renewed, and go back to the pool.  A     *)
(* call is cut where it leaves a lock or the map.  The data of a session   *)
(* is the identifier of whoever wrote it last.                             *)
(***************************************************************************)
EXTENDS Integers, FiniteSets

CONSTANTS
    Visitors,   \* requests that are served at the same time
    Deleters,   \* goroutines that run Delete
    Ids,        \* session identifiers
    Objects,    \* bound on the objects that the pool ever makes
    SeMaxTime,  \* bound on the clock
    Life,       \* Config.ExpiresAt
    Situations  \* of "requests" (no Collect), "collect" (no Delete) and "all"

NoExpiry == 0      \* the zero time: a session that does not expire
Nobody == "nobody"

ASSUME SessionsAssumption ==
    /\ IsFiniteSet(Objects) /\ SeMaxTime \in Nat /\ Life \in Nat \ {0}
    /\ Nobody \notin Ids \cup Objects
    /\ Situations \subseteq {"requests", "collect", "all"}

VARIABLES
    situation, seNow,
    sessions,    \* sessions[id]: the object stored, or Nobody
    idOf, expiresAt, owner,      \* of the objects: id, expiresAt, and who wrote its data
    sessionPool, \* how often an object lies in the pool
    spawned,     \* deletes of an identifier that Get has started
    visit,       \* visit[v]: the request: where it is, its identifier, its session,
                 \* and until when it was good
    del,         \* del[d]: the Delete: where it is, and its object
    gc           \* Collect: where it is, the keys to visit, what it found, its clock

objectVars == <<idOf, expiresAt, owner>>
seVars == <<situation, seNow, sessions, objectVars, sessionPool, spawned, visit, del, gc>>

Away == [at |-> "away", id |-> Nobody, s |-> Nobody, till |-> 0]
Resting == [at |-> "idle", todo |-> {}, found |-> {}, now |-> 0]

SeInit ==
    /\ situation \in Situations /\ seNow = 1
    /\ sessions = [i \in Ids |-> Nobody]
    /\ idOf = [o \in Objects |-> Nobody] /\ expiresAt = [o \in Objects |-> NoExpiry]
    /\ owner = [o \in Objects |-> Nobody]
    /\ sessionPool = [o \in Objects |-> 1] \* those not made yet, too: Get makes them
    /\ spawned = [i \in Ids |-> 0]
    /\ visit = [v \in Visitors |-> Away]
    /\ del = [d \in Deleters |-> [at |-> "idle", s |-> Nobody]]
    /\ gc = Resting

SeExpired(o, t) == expiresAt[o] # NoExpiry /\ t > expiresAt[o]

VGo(v, from, to) == visit[v].at = from /\ visit' = [visit EXCEPT ![v].at = to]

-----------------------------------------------------------------------------
(* A request: Get, or New, the handler, and Renew.                         *)

\* With no session in sight Get fails and New follows.  Where Collect runs
\* without Deletes, requests call New at once, since Get may start a Delete.
Arrive(v, i) ==
    /\ visit[v].at = "away"
    /\ LET load == IF situation = "collect" THEN Nobody ELSE sessions[i] IN
       visit' = [visit EXCEPT ![v] =
           [at |-> IF load = Nobody THEN "pool" ELSE "check", id |-> i, s |-> load, till |-> 0]]
    /\ UNCHANGED <<situation, seNow, sessions, objectVars, sessionPool, spawned, del, gc>>

\* Get looks at the expiry of what it loaded; go store.Delete(sessionID).
Check(v) ==
    /\ visit[v].at = "check"
    /\ LET o == visit[v].s IN
       IF SeExpired(o, seNow)
       THEN /\ visit' = [visit EXCEPT ![v].at = "pool", ![v].s = Nobody]
            /\ spawned' = [spawned EXCEPT ![visit[v].id] = @ + 1]
       ELSE /\ visit' = [visit EXCEPT ![v].at = "serve", ![v].till = expiresAt[o]]
            /\ UNCHANGED spawned
    /\ UNCHANGED <<situation, seNow, sessions, objectVars, sessionPool, del, gc>>

PoolGet(v, o) ==
    /\ visit[v].at = "pool" /\ sessionPool[o] > 0
    /\ sessionPool' = [sessionPool EXCEPT ![o] = @ - 1]
    /\ visit' = [visit EXCEPT ![v].at = "fill", ![v].s = o]
    /\ UNCHANGED <<situation, seNow, sessions, objectVars, spawned, del, gc>>

Fill(v) ==
    /\ visit[v].at = "fill"
    /\ visit' = [visit EXCEPT ![v].at = "store", ![v].till = seNow + Life]
    /\ idOf' = [idOf EXCEPT ![visit[v].s] = visit[v].id]
    /\ expiresAt' = [expiresAt EXCEPT ![visit[v].s] = seNow + Life]
    /\ UNCHANGED <<situation, seNow, sessions, owner, sessionPool, spawned, del, gc>>

StoreNew(v) ==
    /\ VGo(v, "store", "serve")
    /\ sessions' = [sessions EXCEPT ![visit[v].id] = visit[v].s]
    /\ UNCHANGED <<situation, seNow, objectVars, sessionPool, spawned, del, gc>>

\* The handler writes to its session.
Serve(v) ==
    /\ VGo(v, "serve", "served")
    /\ owner' = [owner EXCEPT ![visit[v].s] = visit[v].id]
    /\ UNCHANGED <<situation, seNow, sessions, idOf, expiresAt, sessionPool, spawned, del, gc>>

\* AutoRenew, when less than half of the life is left: Renew loads the session
\* of the identifier, and sets its expiry under its lock.
Renewable(v) == 2 * (expiresAt[visit[v].s] - seNow) < Life /\ sessions[visit[v].id] # Nobody

RenewLoad(v) ==
    /\ visit[v].at = "served" /\ Renewable(v)
    /\ visit' = [visit EXCEPT ![v].at = "renew", ![v].s = sessions[visit[v].id]]
    /\ UNCHANGED <<situation, seNow, sessions, objectVars, sessionPool, spawned, del, gc>>

RenewSet(v) ==
    /\ visit[v].at = "renew"
    /\ expiresAt' = [expiresAt EXCEPT ![visit[v].s] = seNow + Life]
    /\ visit' = [visit EXCEPT ![v] = Away]
    /\ UNCHANGED <<situation, seNow, sessions, idOf, owner, sessionPool, spawned, del, gc>>

Leave(v) ==
    /\ visit[v].at = "served" /\ ~Renewable(v)
    /\ visit' = [visit EXCEPT ![v] = Away]
    /\ UNCHANGED <<situation, seNow, sessions, objectVars, sessionPool, spawned, del, gc>>

-----------------------------------------------------------------------------
(* Delete: LoadAndDelete, reset of the fields and then of the data, Put.   *)

LoadKeeps(i) == sessions                                  \* mutant: Load, and no delete
LoadAndDelete(i) == [sessions EXCEPT ![i] = Nobody]

\* One that Get has started, or a call of Delete or Destroy.
DeleteBegins(d, i, own) ==
    /\ del[d].at = "idle" /\ situation # "collect"
    /\ own \/ spawned[i] > 0
    /\ spawned' = IF own THEN spawned ELSE [spawned EXCEPT ![i] = @ - 1]
    /\ sessions' = LoadAndDelete(i)
    /\ del' = IF sessions[i] = Nobody THEN del
              ELSE [del EXCEPT ![d] = [at |-> "reset", s |-> sessions[i]]]
    /\ UNCHANGED <<situation, seNow, objectVars, sessionPool, visit, gc>>

Reset(o) == idOf' = [idOf EXCEPT ![o] = Nobody] /\ expiresAt' = [expiresAt EXCEPT ![o] = NoExpiry]

DeleteResets(d) ==
    /\ del[d].at = "reset" /\ Reset(del[d].s)
    /\ del' = [del EXCEPT ![d].at = "put"]
    /\ UNCHANGED <<situation, seNow, sessions, owner, sessionPool, spawned, visit, gc>>

DeletePuts(d) ==
    /\ del[d].at = "put"
    /\ owner' = [owner EXCEPT ![del[d].s] = Nobody]
    /\ sessionPool' = [sessionPool EXCEPT ![del[d].s] = @ + 1]
    /\ del' = [del EXCEPT ![d] = [at |-> "idle", s |-> Nobody]]
    /\ UNCHANGED <<situation, seNow, sessions, idOf, expiresAt, spawned, visit, gc>>

-----------------------------------------------------------------------------
(* Collect: a walk over the map, the deletes by identifier, the resets.    *)

CollectBegins ==
    /\ situation # "requests" /\ gc.at = "idle"
    /\ gc' = [at |-> "walk", todo |-> Ids, found |-> {}, now |-> seNow]
    /\ UNCHANGED <<situation, seNow, sessions, objectVars, sessionPool, spawned, visit, del>>

CollectVisits(i) ==
    /\ gc.at = "walk" /\ i \in gc.todo
    /\ LET o == sessions[i]
           hit == IF o # Nobody /\ SeExpired(o, gc.now) THEN {<<i, o>>} ELSE {}
       IN  gc' = [gc EXCEPT !.todo = @ \ {i}, !.found = @ \cup hit,
                            !.at = IF gc.todo = {i} THEN "delete" ELSE "walk"]
    /\ UNCHANGED <<situation, seNow, sessions, objectVars, sessionPool, spawned, visit, del>>

\* The order of the lists is of no account, since all are deleted before any
\* is reset; gc.todo holds the identifiers that are deleted already.
CollectDeletes(i) ==
    /\ gc.at = "delete" /\ i \notin gc.todo /\ \E f \in gc.found : f[1] = i
    /\ sessions' = [sessions EXCEPT ![i] = Nobody]
    /\ gc' = [gc EXCEPT !.todo = @ \cup {i}]
    /\ UNCHANGED <<situation, seNow, objectVars, sessionPool, spawned, visit, del>>

CollectDeleted ==
    /\ gc.at = "delete" /\ gc.todo = {f[1] : f \in gc.found}
    /\ gc' = [gc EXCEPT !.at = "reset", !.todo = {}]
    /\ UNCHANGED <<situation, seNow, sessions, objectVars, sessionPool, spawned, visit, del>>

\* reset empties the data in a step of its own, before the Put.
CollectResets(f) ==
    /\ gc.at = "reset" /\ f \in gc.found /\ Reset(f[2])
    /\ gc' = [gc EXCEPT !.at = "put", !.todo = {f}]
    /\ UNCHANGED <<situation, seNow, sessions, owner, sessionPool, spawned, visit, del>>

CollectPuts(f) ==
    /\ gc.at = "put" /\ f \in gc.todo
    /\ owner' = [owner EXCEPT ![f[2]] = Nobody]
    /\ sessionPool' = [sessionPool EXCEPT ![f[2]] = @ + 1]
    /\ gc' = [gc EXCEPT !.at = "reset", !.todo = {}, !.found = @ \ {f}]
    /\ UNCHANGED <<situation, seNow, sessions, idOf, expiresAt, spawned, visit, del>>

CollectOver ==
    /\ gc.at = "reset" /\ gc.found = {}
    /\ gc' = Resting
    /\ UNCHANGED <<situation, seNow, sessions, objectVars, sessionPool, spawned, visit, del>>

SeTick ==
    /\ seNow < SeMaxTime /\ seNow' = seNow + 1
    /\ UNCHANGED <<situation, sessions, objectVars, sessionPool, spawned, visit, del, gc>>

Visiting(v) ==
    \/ \E i \in Ids : Arrive(v, i)
    \/ \E o \in Objects : PoolGet(v, o)
    \/ Check(v) \/ Fill(v) \/ StoreNew(v) \/ Serve(v) \/ RenewLoad(v) \/ RenewSet(v) \/ Leave(v)
Deleting(d) ==
    \/ \E i \in Ids, own \in BOOLEAN : DeleteBegins(d, i, own)
    \/ DeleteResets(d) \/ DeletePuts(d)
Collecting ==
    \/ CollectBegins \/ CollectDeleted \/ CollectOver
    \/ \E i \in Ids : CollectVisits(i) \/ CollectDeletes(i)
    \/ \E f \in gc.found : CollectResets(f) \/ CollectPuts(f)

SeNext ==
    \/ \E v \in Visitors : Visiting(v)
    \/ \E d \in Deleters : Deleting(d)
    \/ Collecting \/ SeTick

SeSpec == SeInit /\ [][SeNext]_seVars

-----------------------------------------------------------------------------
\* Those who may hand an object on: the map, the pool, a New, a Delete.
HoldersOf(o) ==
    Cardinality({i \in Ids : sessions[i] = o}) + sessionPool[o]
    + Cardinality({v \in Visitors : visit[v].at \in {"fill", "store"} /\ visit[v].s = o})
    + Cardinality({d \in Deleters : del[d].s = o})

\* Unless Collect overlaps a Delete, an object is never in two places: not in
\* the pool while the map still leads to it, nor twice in the pool, so that no
\* two calls of New get the same one; and what the map leads to under an
\* identifier bears that identifier.
OneHolder ==
    situation # "all" =>
        /\ \A o \in Objects : HoldersOf(o) <= 1
        /\ \A i \in Ids : sessions[i] # Nobody => idOf[sessions[i]] = i
=============================================================================
