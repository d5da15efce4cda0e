------------------------------- MODULE RWLock -------------------------------
(* What a read-write lock promises: a writer is alone.                      *)
EXTENDS Naturals

CONSTANTS Readers, Writers

VARIABLES reading, writing

Init == reading = {} /\ writing = {}

StartRead(r) == writing = {} /\ reading' = reading \cup {r} /\ UNCHANGED writing
StopRead(r) == r \in reading /\ reading' = reading \ {r} /\ UNCHANGED writing
StartWrite(w) == reading = {} /\ writing = {} /\ writing' = {w} /\ UNCHANGED reading
StopWrite(w) == w \in writing /\ writing' = {} /\ UNCHANGED reading

Next ==
    \/ \E r \in Readers : StartRead(r) \/ StopRead(r)
    \/ \E w \in Writers : StartWrite(w) \/ StopWrite(w)

Spec == Init /\ [][Next]_<<reading, writing>>
=============================================================================
