-------------------------------- MODULE Chan --------------------------------
(***************************************************************************)
(* The unbounded channel of zutil/chan.go: a goroutine moves what arrives  *)
(* on the channel in through the queue q to the channel out.  The other    *)
(* two kinds of Chan are one Go channel each.  Values are numbered in the  *)
(* order in which in accepts them; a send on the closed in panics in the   *)
(* sender and leaves nothing behind.                                       *)
(***************************************************************************)
EXTENDS Integers, Sequences

CONSTANTS
    Buf,        \* capacity of in and of out (16 in the code)
    MaxSends    \* bound on the values sent

ASSUME ChanAssumption == Buf \in Nat /\ MaxSends \in Nat

VARIABLES
    in, q, out,     \* the buffers of the two channels and the queue
    closing,        \* Close: "open", "flag", "in" or "done"
    outClosed,
    pump,           \* the goroutine: "recv", "both", "drain", "flush", "end"
    qlen,           \* conf.len
    received        \* history: how many values have been received

chVars == <<in, q, out, closing, outClosed, pump, qlen, received>>

ChInit ==
    /\ in = <<>> /\ q = <<>> /\ out = <<>>
    /\ closing = "open" /\ outClosed = FALSE
    /\ pump = "recv" /\ qlen = 0 /\ received = 0

InClosed == closing \in {"in", "done"}

\* Values on their way, the next one to be received first.
OnTheWay == out \o q \o in

Send ==
    /\ ~InClosed /\ Len(in) < Buf
    /\ received + Len(OnTheWay) < MaxSends
    /\ in' = Append(in, received + Len(OnTheWay) + 1)
    /\ UNCHANGED <<q, out, closing, outClosed, pump, qlen, received>>

Recv ==
    /\ out # <<>>
    /\ out' = Tail(out) /\ received' = received + 1
    /\ UNCHANGED <<in, q, closing, outClosed, pump, qlen>>

\* The first Close; every other one finds the flag set and returns.
CloseFlag ==
    /\ closing = "open" /\ closing' = "flag"
    /\ UNCHANGED <<in, q, out, outClosed, pump, qlen, received>>

CloseIn ==
    /\ closing = "flag" /\ closing' = "in"
    /\ UNCHANGED <<in, q, out, outClosed, pump, qlen, received>>

CloseSignal ==
    /\ closing = "in" /\ closing' = "done"
    /\ UNCHANGED <<in, q, out, outClosed, pump, qlen, received>>

\* Either select of the pump takes a value.
PumpTakes ==
    /\ pump \in {"recv", "both"} /\ in # <<>>
    /\ in' = Tail(in) /\ q' = Append(q, Head(in))
    /\ qlen' = qlen + 1 /\ pump' = "both"
    /\ UNCHANGED <<out, closing, outClosed, received>>

QueueNext == IF Len(q) = 1 THEN "recv" ELSE "both"

PumpGives ==
    /\ pump = "both" /\ Len(out) < Buf
    /\ out' = Append(out, Head(q)) /\ q' = Tail(q)
    /\ qlen' = qlen - 1 /\ pump' = QueueNext
    /\ UNCHANGED <<in, closing, outClosed, received>>

\* The closed and empty in, or the signal, ends either select.
PumpShuts ==
    /\ pump \in {"recv", "both"}
    /\ (InClosed /\ in = <<>>) \/ closing = "done"
    /\ pump' = "drain"
    /\ UNCHANGED <<in, q, out, closing, outClosed, qlen, received>>

AnyInput == TRUE   \* mutant: what in still holds is left there
InputGone == in = <<>>

Drain ==
    /\ pump = "drain" /\ in # <<>>
    /\ in' = Tail(in) /\ q' = Append(q, Head(in))
    /\ UNCHANGED <<out, closing, outClosed, pump, qlen, received>>

Drained ==
    /\ pump = "drain" /\ InputGone
    /\ pump' = "flush"
    /\ UNCHANGED <<in, q, out, closing, outClosed, qlen, received>>

Flush ==
    /\ pump = "flush" /\ q # <<>> /\ Len(out) < Buf
    /\ out' = Append(out, Head(q)) /\ q' = Tail(q)
    /\ UNCHANGED <<in, closing, outClosed, pump, qlen, received>>

Flushed ==
    /\ pump = "flush" /\ q = <<>>
    /\ pump' = "end" /\ outClosed' = TRUE
    /\ UNCHANGED <<in, q, out, closing, qlen, received>>

ChPump ==
    \/ PumpTakes \/ PumpGives \/ PumpShuts
    \/ Drain \/ Drained \/ Flush \/ Flushed

ChClose == CloseIn \/ CloseSignal

ChNext == Send \/ Recv \/ CloseFlag \/ ChClose \/ ChPump

ChSpec == ChInit /\ [][ChNext]_chVars

\* The pump and a Close that has begun go on; somebody receives.
ChFairSpec ==
    ChSpec /\ WF_chVars(ChPump) /\ WF_chVars(ChClose) /\ WF_chVars(Recv)

-----------------------------------------------------------------------------
ChTypeOK ==
    /\ in \in Seq(Nat) /\ q \in Seq(Nat) /\ out \in Seq(Nat)
    /\ Len(in) <= Buf /\ Len(out) <= Buf
    /\ closing \in {"open", "flag", "in", "done"} /\ outClosed \in BOOLEAN
    /\ pump \in {"recv", "both", "drain", "flush", "end"}
    /\ qlen \in Nat /\ received \in 0..MaxSends

\* Nothing that in accepted is lost, doubled or overtaken, also across Close,
\* and out is closed only when all of it is there to be received.
ChanInOrder ==
    /\ \A i \in 1..Len(OnTheWay) : OnTheWay[i] = received + i
    /\ pump = "recv" => q = <<>>
    /\ pump \in {"drain", "flush", "end"} => InClosed
    /\ pump \in {"flush", "end"} => in = <<>>
    /\ outClosed <=> pump = "end"
    /\ outClosed => q = <<>>
    \* What Len counts while the pump runs.
    /\ pump \in {"recv", "both"} => qlen = Len(q)
=============================================================================
