------------------------------ MODULE MCMarket ------------------------------
(***************************************************************************)
(* The deterministic parts of the marketplace side by side: pricing,       *)
(* royalty routing, training royalties, shares of machines, passports,     *)
(* tokens, hauls, reputations and evidence.  They are independent, so a    *)
(* behaviour runs one of them, chosen at the start, and the others keep    *)
(* their initial state; the earnings shown are derived from all of them.   *)
(*                                                                         *)
(* The whole is 12 basis points and amounts are a few cents, so that most  *)
(* shares are floored and some vanish.                                     *)
(***************************************************************************)
EXTENDS Earnings, Pricing, Transport, MachineShare, Reputation, Evidence

CONSTANTS k1, k2, k3, k4, k5  \* keys

\* One creator lists an account twice, one lists a later account first.
Payee(account, bps) == [account |-> account, bps |-> bps]
OneJob == {[make |-> 1, logistics |-> 5, fee |-> 1]}
Creators == {<<Payee(1, 12)>>, <<Payee(2, 7), Payee(1, 5)>>,
             <<Payee(3, 5), Payee(2, 6), Payee(3, 1)>>}

\* A corpus of its own, one tuned on it, one tuned on that, one with payees that
\* add up to less than the whole.
Gift(units, payees) == [units |-> units, payees |-> payees]
Corpus(model, gifts, base, share) ==
    [model |-> model, contributions |-> gifts, base |-> base, share |-> share, sound |-> TRUE]
Halves == <<Payee(1, 6), Payee(2, 6)>>
SomeCorpora ==
    [c \in {"base", "tuned", "twice", "short"} |->
        CASE c = "base"  -> Corpus("m1", <<Gift(2, <<Payee(1, 12)>>), Gift(3, Halves)>>, "none", 0)
          [] c = "tuned" -> Corpus("m2", <<Gift(1, <<Payee(3, 12)>>), Gift(1, Halves)>>, "base", 5)
          [] c = "twice" -> Corpus("m1", <<Gift(1, <<Payee(4, 12)>>)>>, "tuned", 5)
          [] c = "short" -> Corpus("m1", <<Gift(1, <<Payee(4, 11)>>)>>, "none", 0)]

\* Two actors with one identity: one of them was made anew, with another key.
Actor(id, key) == [id |-> id, key |-> key]
co == Actor("co", k1)
grocer == Actor("grocer", k2)
Traders == {co, Actor("ann", k3), Actor("ann", k4), Actor("bob", k5)}
Farm == <<[account |-> "farm", bps |-> 5], [account |-> "grocer", bps |-> 7]>>
Divisions == {Farm, <<[account |-> "farm", bps |-> 5], [account |-> "grocer", bps |-> 6]>>}

Haulers == {Actor("x", k1), Actor("x", k2), Actor("y", k3)}
Shippers == {Actor("c", k4), Actor("d", k5)}
Loads == {[price |-> 5, carrier |-> 3], [price |-> 5, carrier |-> 6], [price |-> 5, carrier |-> -1]}
Damages == {{}, {"dent"}}

operator == Actor("op", k1)
SomeOperators == {operator, Actor("op", k2)}
Backer(id, key, account) == [id |-> id, key |-> key, account |-> account]
SomeBackers == {Backer("b1", k3, 1), Backer("b2", k4, 2), Backer("b2", k5, 2)}

\* Two jobs of one node, and one of another.
Work(who, n) == [node |-> who, qty |-> n]
SomeWorks == [w \in {"one", "two", "other"} |->
    CASE w = "one" -> Work("n1", 1) [] w = "two" -> Work("n1", 2) [] w = "other" -> Work("n2", 1)]
NodeKeys == [who \in {"n1", "n2"} |-> IF who = "n1" THEN k1 ELSE k2]

VARIABLE part

Parts == {"pricing", "routing", "training", "passport", "token", "haul", "machine", "reputation", "evidence"}

MarketInit ==
    /\ part \in Parts
    /\ PricingInit /\ RoutingInit /\ TrainingInit /\ PassportInit /\ Unissued
    /\ HaulInit /\ MachineInit /\ ReputationInit /\ EvidenceInit

Jobs == <<pricingVars, routingVars, trainingVars>>
Claims == <<passportVars, tokenVars>>
Rest == <<haulVars, machineVars, reputationVars, proof>>

MarketNext ==
    /\ UNCHANGED part
    /\ \/ /\ part = "pricing" /\ PricingNext
          /\ UNCHANGED <<routingVars, trainingVars, Claims, Rest>>
       \/ /\ part = "routing" /\ RoutingNext
          /\ UNCHANGED <<pricingVars, trainingVars, Claims, Rest>>
       \/ /\ part = "training" /\ TrainingNext
          /\ UNCHANGED <<pricingVars, routingVars, Claims, Rest>>
       \/ /\ part = "passport" /\ PassportNext
          /\ UNCHANGED <<Jobs, tokenVars, Rest>>
       \/ /\ part = "token" /\ TokenNext
          /\ UNCHANGED <<Jobs, Rest>>
       \/ /\ part = "haul" /\ HaulNext
          /\ UNCHANGED <<Jobs, Claims, machineVars, reputationVars, proof>>
       \/ /\ part = "machine" /\ MachineNext
          /\ UNCHANGED <<Jobs, Claims, haulVars, reputationVars, proof>>
       \/ /\ part = "reputation" /\ ReputationNext
          /\ UNCHANGED <<Jobs, Claims, haulVars, machineVars, proof>>
       \/ /\ part = "evidence" /\ EvidenceNext
          /\ UNCHANGED <<Jobs, Claims, haulVars, machineVars, reputationVars>>

MarketSpec == MarketInit /\ [][MarketNext]_<<part, Jobs, Claims, Rest>>

-----------------------------------------------------------------------------
\* The verifiers accept what honest writers wrote, and that only; each is asked
\* where its document changes.
DocumentsVerify ==
    /\ part = "passport" => PassportVerifies
    /\ part = "token" => TokenVerifies /\ TokenIsPinned
    /\ part = "machine" => OfferingVerifies
    /\ part = "evidence" => EvidenceVerifies
=============================================================================
