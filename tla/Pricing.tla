------------------------------ MODULE Pricing ------------------------------
(***************************************************************************)
(* How an order is cut into jobs and priced: allocate shares its units out *)
(* among the best nodes (v3/bingo/match.py), and apply_network_fee adds    *)
(* the network's fee to the quote of each job (v3/bingo/quote.py), so that *)
(* place_order can fund the escrow with their sum.                         *)
(*                                                                         *)
(* A node's score is a number of points, compared and divided exactly; the *)
(* code's scores are floats.  What a job costs before the fee is any       *)
(* amount: the geometry, distances and rates behind it are not modelled.   *)
(*                                                                         *)
(* An operator named Bug... is a plausible mistake in the definition after *)
(* it.  PricingNext never uses one: they show which property catches it.  *)
(***************************************************************************)
EXTENDS Apportion

CONSTANTS MaxNodes, \* at most so many nodes share an order: 3
          Bps,      \* the network fee, in ten-thousandths: 300
          Scores,   \* the scores of nodes
          Quantities,
          Subtotals \* what a job costs before the fee

ASSUME PricingAssumption ==
    /\ MaxNodes \in Nat \ {0}
    /\ Bps \in 0 .. 10000
    /\ Scores \subseteq Nat
    /\ Quantities \subseteq Nat \ {0}
    /\ Subtotals \subseteq Nat

VARIABLES qty,    \* the units ordered
          scores, \* the scores of the capable nodes, best first
          alloc,  \* the units each chosen node makes
          quotes, \* the subtotal and the fee of each job
          stage   \* "none", "intake", "allocated", "priced"

pricingVars == <<qty, scores, alloc, quotes, stage>>

-----------------------------------------------------------------------------
\* One unit at least, or the floored share of the node's score.
FirstShare(q, chosen, i) ==
    IF SumOver(chosen) = 0 THEN 1 ELSE Max({1, (q * chosen[i]) \div SumOver(chosen)})

\* While there are too many, the node with the most makes one less; no more
\* rounds than units are needed.
Trim(a) == [a EXCEPT ![Largest(a)] = @ - 1]
Trimmed(a, q) ==
    LET after[k \in 0 .. SumOver(a)] ==
            IF k = 0 THEN a
            ELSE LET shares == after[k - 1]
                 IN  IF SumOver(shares) > q THEN Trim(shares) ELSE shares
    IN  after[SumOver(a)]

\* Shares that leave the residue out.
BugAllocateNoResidue(q, ranked) ==
    LET chosen == SubSeq(ranked, 1, Min({MaxNodes, Len(ranked)}))
    IN  Trimmed([i \in DOMAIN chosen |-> FirstShare(q, chosen, i)], q)

\* allocate: what is missing after the trimming goes to the best node.
Allocate(q, ranked) ==
    LET chosen == SubSeq(ranked, 1, Min({MaxNodes, Len(ranked)}))
        shares == Trimmed([i \in DOMAIN chosen |-> FirstShare(q, chosen, i)], q)
    IN  IF q <= Len(chosen) THEN [i \in 1 .. q |-> 1]
        ELSE [shares EXCEPT ![1] = @ + q - SumOver(shares)]

-----------------------------------------------------------------------------
\* round(n / 10000): to the nearest, halves to the even.
Rounded(n) ==
    LET q == n \div 10000
        r == n % 10000
    IN  IF r > 5000 \/ (r = 5000 /\ q % 2 = 1) THEN q + 1 ELSE q

FlooredFees(subs) == [i \in DOMAIN subs |-> (subs[i] * Bps) \div 10000]

\* apply_network_fee: floored fees, and the order's residue on the largest job.
Fees(subs) ==
    LET fees == FlooredFees(subs)
    IN  [fees EXCEPT ![Largest(subs)] =
            @ + Rounded(SumOver(subs) * Bps) - SumOver(fees)]

-----------------------------------------------------------------------------
PricingInit ==
    /\ qty = 0 /\ scores = <<>> /\ alloc = <<>> /\ quotes = <<>>
    /\ stage = "none"

\* An order arrives, and match ranks the nodes that can make it.
TakeOrder ==
    /\ stage = "none"
    /\ qty' \in Quantities
    /\ scores' \in {s \in SeqOf(Scores, MaxNodes + 1) :
                       s # <<>> /\ \A i \in 2 .. Len(s) : s[i - 1] >= s[i]}
    /\ stage' = "intake"
    /\ UNCHANGED <<alloc, quotes>>

AllocateUnits ==
    /\ stage = "intake"
    /\ alloc' = Allocate(qty, scores)
    /\ stage' = "allocated"
    /\ UNCHANGED <<qty, scores, quotes>>

\* quote_job for each allocation, then apply_network_fee over all of them.
Price ==
    /\ stage = "allocated"
    /\ \E subs \in [DOMAIN alloc -> Subtotals] :
           quotes' = [i \in DOMAIN subs |-> [subtotal |-> subs[i],
                                             fee |-> Fees(subs)[i]]]
    /\ stage' = "priced"
    /\ UNCHANGED <<qty, scores, alloc>>

PricingNext == TakeOrder \/ AllocateUnits \/ Price

PricingSpec == PricingInit /\ [][PricingNext]_pricingVars

-----------------------------------------------------------------------------
(***************************************************************************)
(* Properties.                                                             *)
(***************************************************************************)

\* Every unit ordered is made, by no more nodes than may share an order, and no
\* node is offered a job of nothing; a better node never makes fewer than one
\* that is worse, but for the one unit that trimming may take (match.py:58-71).
UnitsAreShared == stage \in {"allocated", "priced"} =>
    /\ SumOver(alloc) = qty
    /\ Len(alloc) <= MaxNodes
    /\ \A i \in DOMAIN alloc : alloc[i] > 0
    /\ \A i, h \in DOMAIN alloc : i < h => alloc[i] >= alloc[h] - 1

\* The fees of the jobs add up to the published rate on the whole order, to the
\* nearest cent, although each job's is floored; none is negative, and only the
\* job that costs most pays above its rate, by a cent for each job at most
\* (quote.py:79-91).
FeesAreFair == stage = "priced" =>
    /\ SumOver([i \in DOMAIN quotes |-> quotes[i].fee])
          = Rounded(SumOver([i \in DOMAIN quotes |-> quotes[i].subtotal]) * Bps)
    /\ \A i \in DOMAIN quotes :
          LET own == (quotes[i].subtotal * Bps) \div 10000
          IN  /\ quotes[i].fee \in own .. (own + Len(quotes))
              /\ quotes[i].fee > own =>
                     \A h \in DOMAIN quotes : quotes[h].subtotal <= quotes[i].subtotal

QuotesAreFair == UnitsAreShared /\ FeesAreFair
=============================================================================
