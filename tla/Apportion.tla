------------------------------ MODULE Apportion ------------------------------
(***************************************************************************)
(* Money and shares in whole numbers, as every split of v3 handles them:   *)
(* Split.validate (v3/bingo/models.py) wants bps that add up to the whole, *)
(* each payee's part is floored, and what the floors leave over is a       *)
(* residue that each place gives to somebody of its own choice.            *)
(***************************************************************************)
EXTENDS Sums, FiniteSets, Sequences, SequencesExt

CONSTANT Whole   \* 10 000 basis points

ASSUME WholeAssumption == Whole \in Nat \ {0}

\* A floored share of an amount.
Part(amount, bps) == (amount * bps) \div Whole

BpsOf(split) == SumOver([i \in DOMAIN split |-> split[i].bps])
CentsOf(legs) == SumOver([i \in DOMAIN legs |-> legs[i].cents])
LegsTo(legs, account) == {i \in DOMAIN legs : legs[i].account = account}
CentsTo(legs, account) == SumOver([i \in LegsTo(legs, account) |-> legs[i].cents])

Leg(account, cents) == [account |-> account, cents |-> cents]

\* The accounts of a set, in the order of their names.
InOrder(accounts) == CHOOSE s \in [1 .. Cardinality(accounts) -> accounts] :
    \A i, h \in DOMAIN s : i < h => s[i] < s[h]

\* The first of the largest.
Largest(s) == CHOOSE i \in DOMAIN s :
    /\ \A h \in DOMAIN s : s[h] <= s[i]
    /\ \A h \in 1 .. (i - 1) : s[h] < s[i]
=============================================================================
