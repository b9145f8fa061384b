--------------------------- MODULE MCPayoutEngine ---------------------------
(***************************************************************************)
(* Instances of PayoutEngine for TLC.  Two jobs: one with two legs that    *)
(* are the same to the cent and the memo plus a third, so occurrence       *)
(* numbers and rearrangements matter; one with a single leg, so two jobs   *)
(* share a leg identity.  The liveness runs take one job of two legs.      *)
(***************************************************************************)
EXTENDS PayoutEngine

CONSTANTS p1, p2, j1, j2, node, fee

TwoJobs == [j \in {j1, j2} |-> IF j = j1 THEN <<node, node, fee>> ELSE <<node>>]
TwinLegs == [j \in {j1} |-> <<node, node>>]
OneJob == [j \in {j1} |-> <<node, fee>>]
Cents == [l \in {node, fee} |-> IF l = node THEN 5 ELSE 2]
=============================================================================
