----------------------------- MODULE MCHashMap -----------------------------
(* An instance of HashMap for TLC.                                          *)
EXTENDS HashMap

\* Two keys that collide, and one on the other side of the list.
MCHash == [k \in {"a", "b", "c"} |-> IF k = "c" THEN 6 ELSE 2]
=============================================================================
