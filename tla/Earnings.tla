------------------------------- MODULE Earnings -------------------------------
(***************************************************************************)
(* Who got paid, as it is shown: the statement of a creator                *)
(* (v3/bingo/earnings.py) and the earnings of everybody over all four      *)
(* sources (v3/provenance/earnings_rollup.py), both derived from what was  *)
(* settled whenever somebody looks.                                        *)
(***************************************************************************)
EXTENDS RoyaltyRouting, Training, AssetToken

\* The journal's royalty legs.  Their memo has eight digits of the asset's id, by
\* which the code finds it among the job's; no two assets share them here.
RoyaltyLegs ==
    IF job = Nothing THEN <<>>
    ELSE FlattenSeq([i \in DOMAIN job.lines |->
            LET made == LineLegs(job.lines[i])
            IN  [k \in DOMAIN made |-> [account |-> made[k].account, cents |-> made[k].cents,
                                        asset |-> job.lines[i].asset]]])

\* creator_earnings: the legs to an account, by design.
CreatorEarnings(paid, account) ==
    LET mine == LegsTo(paid, account)
    IN  [asset \in {paid[n].asset : n \in mine} |->
            SumOver([n \in {m \in mine : paid[m].asset = asset} |-> paid[n].cents])]

Sold(es) == {n \in DOMAIN es : es[n].type = "SALE"}

\* token_settlement, which leaves the sellers out.
BugTokenLegs ==
    LET sales == InOrder(Sold(ledger))
    IN  FlattenSeq([i \in DOMAIN sales |->
            SelectSeq(ledger[sales[i]].data.legs,
                      LAMBDA leg : leg.account # ledger[sales[i]].signer)])

\* token_settlement
TokenLegs ==
    LET sales == InOrder(Sold(ledger))
    IN  FlattenSeq([i \in DOMAIN sales |-> ledger[sales[i]].data.legs])

\* Each of the four sources moves on its own.
EarningsInit == RoutingInit /\ TrainingInit /\ PassportInit /\ Unissued
EarningsNext ==
    \/ RoutingNext /\ UNCHANGED <<trainingVars, passportVars, tokenVars>>
    \/ TrainingNext /\ UNCHANGED <<routingVars, passportVars, tokenVars>>
    \/ PassportNext /\ UNCHANGED <<routingVars, trainingVars, tokenVars>>
    \/ TokenNext /\ UNCHANGED <<routingVars, trainingVars>>

EarningsSpec ==
    EarningsInit /\ [][EarningsNext]_<<routingVars, trainingVars, passportVars, tokenVars>>

-----------------------------------------------------------------------------
\* What is shown was paid, and what was paid is shown, under its source and once:
\* a creator's designs add up to what the legs of jobs brought it, royalty lines,
\* the prices of all sales of shares and what models disbursed are shown to the
\* cent, and of a passport sold more than once the last sale
\* (earnings.py:60-62, earnings_rollup.py:15-19).
EarningsArePaid ==
    LET byAccount == ByAccount(RoyaltyLegs)
        lines == IF job = Nothing THEN <<>> ELSE job.lines
        priceOf(es, n) == es[n].data.price
    IN  /\ SumOver(byAccount) = SumOver([i \in DOMAIN lines |-> lines[i].cents])
        /\ \A a \in DOMAIN byAccount :
              /\ byAccount[a] = CentsTo(legs, a)
              /\ SumOver(CreatorEarnings(RoyaltyLegs, a)) = byAccount[a]
        /\ SumOver(ByAccount(settlement)) =
              IF Sold(links) = {} THEN 0 ELSE priceOf(links, Max(Sold(links)))
        /\ SumOver(ByAccount(TokenLegs)) = SumOver([n \in Sold(ledger) |-> priceOf(ledger, n)])
        /\ SumOver(credited) = SumOver(disbursed)
=============================================================================
