---------------------------- MODULE EventStream ----------------------------
(***************************************************************************)
(* Server-sent events from end to end: the SSE of znet (sse.go), a network *)
(* that may break between two lines, and the SSEEngine of zhttp (sse.go)   *)
(* with its reconnections and OnMessage.  Events are numbers, sent in      *)
(* order by a function of the application, which goes on after the         *)
(* Last-Event-ID of a request and has nothing to add after the last.       *)
(***************************************************************************)
EXTENDS Integers, Sequences

CONSTANTS
    LastEvent,      \* the last event
    MaxCuts,        \* bound on the broken connections
    MaxPings,       \* bound on the heartbeats
    MaxDials,       \* bound on the requests
    RetryNums       \* values of SSEOption.RetryNum, besides -1

ASSUME EventStreamAssumption == {LastEvent, MaxCuts, MaxPings, MaxDials} \subseteq Nat /\ RetryNums \subseteq Nat

VARIABLES
    server,     \* the SSE of the present request: events, stopping, canceled, gone (the
                \* request's context), and where the sender and Push are
    wire,       \* the lines on their way
    wireEnd,    \* what comes after them: "open", "eof" or "cut"
    engine,     \* the goroutine of SSEEngine: where it is, the answer it reads, its
                \* currEvent, isPing, lastID, and RetryNum
    emits,      \* the event that it is sending, and what it does then
    streamDone, \* sse.ctx is done
    listener,   \* OnMessage: where it is
    heard,      \* the events that fn was called with
    asked, calm \* history: numbers of requests, cuts and heartbeats; none of the last two

ssVars == <<server, wire, wireEnd, engine, emits, streamDone, listener, heard, asked, calm>>

EmptyEvent == [id |-> 0, data |-> 0]
NilEvent == [id |-> 0, data |-> -1]      \* what a closed channel gives
Line(is, of) == [is |-> is, of |-> of]
NoServer ==
    [events |-> <<>>, stopping |-> FALSE, canceled |-> FALSE, gone |-> FALSE, next |-> 1,
     sender |-> "none", push |-> "none"]
\* NewSSE, and the application that sends what follows the event named.
ServesAfter(lastID) == [NoServer EXCEPT !.next = lastID + 1, !.sender = "send", !.push = "loop"]

SsInit ==
    /\ server = ServesAfter(0)
    /\ wire = <<>> /\ wireEnd = "open"
    /\ \E n \in {-1} \cup RetryNums :
        engine = [at |-> "answered", answer |-> "stream", cur |-> EmptyEvent, isPing |-> FALSE,
                  lastID |-> 0, retryNum |-> n]
    /\ emits = [ev |-> EmptyEvent, then |-> "none", data |-> 0]
    /\ streamDone = FALSE
    /\ listener = "first"
    /\ heard = <<>>
    /\ asked = [dials |-> 1, cuts |-> 0, pings |-> 0]
    /\ calm = TRUE

-----------------------------------------------------------------------------
\* SendByte looks at the context and at stopping, and waits for room or the context.
SendLooks ==
    /\ server.sender = "send" /\ server.next <= LastEvent
    /\ server' = [server EXCEPT !.sender = IF server.canceled \/ server.stopping THEN "refused" ELSE "select"]
    /\ UNCHANGED <<wire, wireEnd, engine, emits, streamDone, listener, heard, asked, calm>>
SendPuts ==
    /\ server.sender = "select" /\ server.events = <<>>
    /\ server' = [server EXCEPT !.sender = "send", !.events = <<server.next>>, !.next = @ + 1]
    /\ UNCHANGED <<wire, wireEnd, engine, emits, streamDone, listener, heard, asked, calm>>
SendRefused ==
    /\ server.sender = "select" /\ server.canceled
    /\ server' = [server EXCEPT !.sender = "refused"]
    /\ UNCHANGED <<wire, wireEnd, engine, emits, streamDone, listener, heard, asked, calm>>

\* Stop, after the last event or by the shutdown of the server, in its two steps.
StopFlag ==
    /\ ~ server.stopping
    /\ server' = [server EXCEPT !.stopping = TRUE]
    /\ UNCHANGED <<wire, wireEnd, engine, emits, streamDone, listener, heard, asked, calm>>
StopCancel ==
    /\ server.stopping /\ ~ server.canceled
    /\ server' = [server EXCEPT !.canceled = TRUE]
    /\ UNCHANGED <<wire, wireEnd, engine, emits, streamDone, listener, heard, asked, calm>>

\* A heartbeat is dropped when an event waits.
SendComment ==
    /\ server.push = "loop" /\ ~ server.canceled /\ ~ server.stopping
    /\ server.events = <<>> /\ asked.pings < MaxPings
    /\ server' = [server EXCEPT !.events = <<0>>]
    /\ asked' = [asked EXCEPT !.pings = @ + 1]
    /\ calm' = FALSE
    /\ UNCHANGED <<wire, wireEnd, engine, emits, streamDone, listener, heard>>

\* Push writes what it takes from the channel in one piece.
Block(e) == IF e = 0 THEN <<Line("ping", 0), Line("blank", 0)>>
            ELSE <<Line("id", e), Line("data", e), Line("blank", 0)>>
PushWrites ==
    /\ server.push = "loop" /\ server.events # <<>>
    /\ wire' = IF wireEnd = "open" THEN wire \o Block(Head(server.events)) ELSE wire
    /\ server' = [server EXCEPT !.events = <<>>]
    /\ UNCHANGED <<wireEnd, engine, emits, streamDone, listener, heard, asked, calm>>
PushEnds ==
    /\ server.push = "loop" /\ (server.gone \/ server.canceled)
    /\ server' = [server EXCEPT !.push = "over", !.canceled = TRUE]
    /\ wireEnd' = IF wireEnd = "open" THEN "eof" ELSE wireEnd
    /\ UNCHANGED <<wire, engine, emits, streamDone, listener, heard, asked, calm>>

\* The connection breaks: what is on its way is lost, or its end.
CutOff ==
    /\ wireEnd = "open" /\ asked.cuts < MaxCuts /\ engine.at = "stream"
    /\ \E n \in 0..Len(wire) : wire' = SubSeq(wire, 1, n)
    /\ wireEnd' = "cut"
    /\ server' = [server EXCEPT !.gone = TRUE]
    /\ asked' = [asked EXCEPT !.cuts = @ + 1]
    /\ calm' = FALSE
    /\ UNCHANGED <<engine, emits, streamDone, listener, heard>>

-----------------------------------------------------------------------------
EngineGoes(at) == engine' = [engine EXCEPT !.at = at]
Shut == EngineGoes("over") /\ streamDone' = TRUE

(* The goroutine with an answer in hand: a stream, another type of content, *)
(* none at all (204), or an error.                                         *)
Answered ==
    /\ engine.at = "answered"
    /\ IF streamDone THEN EngineGoes("over") /\ UNCHANGED <<emits, streamDone>>
       ELSE \/ engine.answer = "stream" /\ EngineGoes("stream") /\ UNCHANGED <<emits, streamDone>>
            \/ /\ engine.answer = "other"
               /\ emits' = [ev |-> EmptyEvent, then |-> "shut", data |-> 0]
               /\ EngineGoes("emit") /\ UNCHANGED streamDone
            \/ engine.answer = "nothing" /\ Shut /\ UNCHANGED emits
            \/ engine.answer = "error" /\ EngineGoes("retry") /\ UNCHANGED <<emits, streamDone>>
    /\ UNCHANGED <<server, wire, wireEnd, listener, heard, asked, calm>>

\* The next line of the stream.
Emit(ev, then, data) == emits' = [ev |-> ev, then |-> then, data |-> data] /\ EngineGoes("emit")
ReadLine ==
    LET line == Head(wire)
        cur == engine.cur
    IN  /\ engine.at = "stream" /\ wire # <<>> /\ ~ streamDone
        /\ wire' = Tail(wire)
        /\ \/ /\ line.is = "blank" /\ ~ engine.isPing
              /\ Emit(cur, "reset", 0)
           \/ /\ line.is = "blank" /\ engine.isPing
              /\ engine' = [engine EXCEPT !.cur = EmptyEvent]
              /\ UNCHANGED emits
           \/ /\ line.is = "ping"
              /\ engine' = [engine EXCEPT !.isPing = TRUE]
              /\ UNCHANGED emits
           \/ /\ line.is = "id"
              /\ engine' = [engine EXCEPT !.lastID = line.of, !.cur.id = line.of]
              /\ UNCHANGED emits
           \/ /\ line.is = "data" /\ cur.data # 0
              /\ Emit(cur, "append", line.of)
           \/ /\ line.is = "data" /\ cur.data = 0
              /\ engine' = [engine EXCEPT !.cur.data = line.of]
              /\ UNCHANGED emits
        /\ UNCHANGED <<server, wireEnd, streamDone, listener, heard, asked, calm>>

\* fn of OnMessage takes the event, or the context ends the sending.
Receives == listener \in {"first", "loop"}
Emitted ==
    /\ engine.at = "emit" /\ Receives
    /\ heard' = Append(heard, emits.ev)
    /\ listener' = "fn"
    /\ CASE emits.then = "shut" -> Shut
         [] emits.then = "reset" ->
                engine' = [engine EXCEPT !.at = "stream", !.cur = EmptyEvent, !.isPing = FALSE]
                /\ UNCHANGED streamDone
         [] emits.then = "append" ->
                engine' = [engine EXCEPT !.at = "stream", !.isPing = FALSE,
                                         !.cur = [EmptyEvent EXCEPT !.data = emits.data]]
                /\ UNCHANGED streamDone
    /\ UNCHANGED <<server, wire, wireEnd, emits, asked, calm>>
EmitCanceled ==
    /\ engine.at = "emit" /\ streamDone
    /\ IF emits.then = "shut" THEN EngineGoes("over") ELSE EngineGoes("retry")
    /\ UNCHANGED <<server, wire, wireEnd, emits, streamDone, listener, heard, asked, calm>>

\* The stream is over, or broken, or the context is done at the next line.
StreamEnds ==
    /\ engine.at = "stream" /\ ((wire = <<>> /\ wireEnd # "open") \/ streamDone)
    /\ engine' = [engine EXCEPT !.at = "retry", !.isPing = FALSE]
    /\ server' = [server EXCEPT !.gone = TRUE]
    /\ UNCHANGED <<wire, wireEnd, emits, streamDone, listener, heard, asked, calm>>

Retry ==
    /\ engine.at = "retry"
    /\ IF engine.retryNum = 0 THEN Shut
       ELSE /\ engine' = [engine EXCEPT !.at = "wait", !.retryNum = IF @ > 0 THEN @ - 1 ELSE @]
            /\ UNCHANGED streamDone
    /\ UNCHANGED <<server, wire, wireEnd, emits, listener, heard, asked, calm>>
WaitCanceled ==
    /\ engine.at = "wait" /\ streamDone
    /\ EngineGoes("over")
    /\ UNCHANGED <<server, wire, wireEnd, emits, streamDone, listener, heard, asked, calm>>

\* The request that asks for what follows lastID; errors are those of the network.
FromStart(lastID) == 0      \* mutant: no Last-Event-ID is sent
LastEventID(lastID) == lastID
Dials ==
    LET from == LastEventID(engine.lastID) IN
    /\ engine.at = "wait" /\ asked.dials < MaxDials
    /\ asked' = [asked EXCEPT !.dials = @ + 1]
    /\ \/ /\ from < LastEvent
          /\ server' = ServesAfter(from) /\ wire' = <<>> /\ wireEnd' = "open"
          /\ engine' = [engine EXCEPT !.at = "answered", !.answer = "stream"]
       \/ /\ \E a \in (IF from = LastEvent THEN {"nothing"} ELSE {"error", "other"}) :
                engine' = [engine EXCEPT !.at = "answered", !.answer = a]
          /\ UNCHANGED <<server, wire, wireEnd>>
    /\ UNCHANGED <<emits, streamDone, listener, heard, calm>>

\* SSEEngine.Close, by anybody.
SsClose ==
    /\ ~ streamDone
    /\ streamDone' = TRUE
    /\ UNCHANGED <<server, wire, wireEnd, engine, emits, listener, heard, asked, calm>>

\* OnMessage when nothing is sent: the context is done, or the channel closed.
FnReturns ==
    /\ listener = "fn"
    /\ listener' = "loop"
    /\ UNCHANGED <<server, wire, wireEnd, engine, emits, streamDone, heard, asked, calm>>
ListenerEnds ==
    /\ Receives /\ streamDone
    /\ listener' = "over"
    /\ UNCHANGED <<server, wire, wireEnd, engine, emits, streamDone, heard, asked, calm>>
HearsNil ==
    /\ Receives /\ engine.at = "over" /\ (\A i \in DOMAIN heard : heard[i] # NilEvent)
    /\ heard' = Append(heard, NilEvent)
    /\ listener' = "fn"
    /\ UNCHANGED <<server, wire, wireEnd, engine, emits, streamDone, asked, calm>>

ServerSends ==
    \/ SendLooks \/ SendPuts \/ SendRefused \/ StopCancel
    \/ server.next > LastEvent /\ StopFlag
ServerPushes == SendComment \/ PushWrites \/ PushEnds
EngineStep ==
    \/ Answered \/ ReadLine \/ Emitted \/ EmitCanceled \/ StreamEnds \/ Retry \/ WaitCanceled \/ Dials
ListenerStep == FnReturns \/ ListenerEnds \/ HearsNil
SsNext == ServerSends \/ StopFlag \/ ServerPushes \/ CutOff \/ EngineStep \/ SsClose \/ ListenerStep
SsSpec == SsInit /\ [][SsNext]_ssVars

-----------------------------------------------------------------------------
\* However often the connection breaks and is made again: fn gets the data of
\* the events in order and none twice (an empty event for another type of content,
\* and the nil of a closed channel, have none); and as long as no connection broke
\* and no heartbeat was sent, its i-th call is for the i-th event, under its own
\* identifier (zhttp/sse.go:168-281, znet/sse.go).
StreamSound ==
    /\ \A i, j \in DOMAIN heard :
          i < j /\ heard[i].data > 0 /\ heard[j].data > 0 => heard[i].data < heard[j].data
    /\ calm => \A i \in DOMAIN heard : heard[i].data > 0 => heard[i] = [id |-> i, data |-> i]
=============================================================================
