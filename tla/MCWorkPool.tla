---------------------------- MODULE MCWorkPool ----------------------------
(* Instances of WorkPool for TLC.                                          *)
EXTENDS WorkPool

MCSizes == {-1, 0, 2}

\* Workers that are not there are alike, and so are submitters without a deadline that have
\* not begun: a step takes the first of them.
NamesInOrder ==
    /\ \A w \in Workers :
          wpc[w] = "none" /\ wpc'[w] # "none" => w = CHOOSE v \in Workers : wpc[v] = "none"
    /\ LET rest == {c \in Clients \ Timed : pc[c] = "do"} IN
       \A c \in rest : pc'[c] # "do" => c = CHOOSE d \in rest : TRUE
=============================================================================
