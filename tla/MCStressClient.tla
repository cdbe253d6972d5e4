---------------------------- MODULE MCStressClient --------------------------
(***************************************************************************)
(* Values for the constants of StressClient when TLC checks it: two        *)
(* threads with accounts of their own, one of them with a second flow.     *)
(***************************************************************************)
EXTENDS StressClient, TLC

CONSTANTS t1, t2, u1, u2

MCAccountOf == (t1 :> u1) @@ (t2 :> u2)
MCFlows     == (t1 :> 2) @@ (t2 :> 1)
MCSends     == [c \in Clients |-> 4 * MCFlows[c]]
MCOpenings  == {2}
MCAmounts   == {3}
=============================================================================
