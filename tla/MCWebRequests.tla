--------------------------- MODULE MCWebRequests ---------------------------
(* Sites for WebRequests. *)
EXTENDS WebRequests

(* Sites of WebRequests: parameters, the cache with a handler that renders *)
(* or panics inside or outside of Recovery, timeouts beside and below it,  *)
(* and requests for three routes at once.                                  *)
To(name, wares, pattern, handler) ==
    [name |-> name, wares |-> wares, pattern |-> pattern, handler |-> handler]
All(route) == [r \in Visits |-> route]
MCSites ==
    {All(To("p", <<"plain", "timeout">>, TRUE, "renders")),
     All(To("c", <<"recovery", "cache">>, FALSE, "renders")),
     All(To("c", <<"recovery", "cache">>, FALSE, "panics")),
     All(To("c", <<"cache", "recovery">>, FALSE, "panics")),
     All(To("c", <<"cache", "timeout">>, FALSE, "renders")),
     All(To("t", <<"recovery", "timeout">>, FALSE, "panics")),
     [r \in Visits |-> IF r = "v1" THEN To("a", <<"recovery", "panics">>, TRUE, "renders")
                       ELSE To("b", <<"aborts">>, FALSE, "renders")],
     [r \in Visits |-> IF r = "v1" THEN To("a", <<"timeout">>, FALSE, "errs")
                       ELSE To("n", <<"timeout">>, FALSE, "notFound")],
     [r \in Visits |-> IF r = "v1" THEN To("a", <<"timeout">>, FALSE, "writes")
                       ELSE To("w", <<>>, FALSE, "panics")]}
\* Five handlers before that of a pattern.
MCSpareSlot == {All(To("p", <<"plain", "plain", "plain", "plain", "plain">>, TRUE, "renders"))}
=============================================================================
