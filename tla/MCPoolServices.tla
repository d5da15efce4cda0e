--------------------------- MODULE MCPoolServices ---------------------------
(***************************************************************************)
(* The work pool beside the services of MCServices, for TLC: one of them   *)
(* runs in a behaviour, and the others rest.                               *)
(***************************************************************************)
EXTENDS MCServices, MCWorkPool

PoolServicesInit == (part = "pool" \/ ServicesInit) /\ ServicesBegin /\ Init

\* What CleanerSound is not about: only Close is followed to its end.
OnlyCloseEnds == shared => closer' # closer

PoolServicesNext ==
    \/ part = "pool" /\ Next /\ NamesInOrder /\ UNCHANGED servicesVars
    \/ ServicesNext /\ OnlyCloseEnds /\ UNCHANGED vars

PoolServicesSpec == PoolServicesInit /\ [][PoolServicesNext]_<<servicesVars, vars>>
=============================================================================
