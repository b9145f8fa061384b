------------------------------- MODULE Coins -------------------------------
(***************************************************************************)
(* What the registry of v3/provenance/coin.py promises of its coins, with  *)
(* nothing said of files, anchors or restarts: each is redeemed by one     *)
(* account, for good ("blocks every replay").                              *)
(***************************************************************************)
CONSTANTS Serials,
          Accounts,
          Nobody

VARIABLE owner \* the account that redeemed each coin, or Nobody

Init == owner = [c \in Serials |-> Nobody]

\* Some valid coins become redeemed.  One anchored head may cover several.
Redeem(S) ==
    /\ S # {}
    /\ \A c \in S : owner[c] = Nobody
    /\ \E to \in [S -> Accounts] :
          owner' = [c \in Serials |-> IF c \in S THEN to[c] ELSE owner[c]]

Next == \E S \in SUBSET Serials : Redeem(S)

Spec == Init /\ [][Next]_owner
=============================================================================
