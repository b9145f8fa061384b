---------------------------- MODULE MachineShare ----------------------------
(***************************************************************************)
(* Shares in the revenue of a machine, v3/provenance/machine_rwa.py:       *)
(* backers buy shares of an offering, the operator records what the        *)
(* machine earns, each earning streams the backers' cut of it to them      *)
(* until they are repaid, and verify_machine_share recomputes all of it    *)
(* from the document.  Accounts are numbers, in the order of their names.  *)
(***************************************************************************)
EXTENDS SignedChain

CONSTANTS Operators,       \* actors of the operator's identity
          Operator,        \* the one that opened the offering
          Backers,         \* actors, each with an account of its own
          TotalShares, PriceCents, InvestorShare, RepaymentCap,
          Revenues, Refs,  \* what an earning may be, and its reference
          MaxOffering      \* bound: events of an offering

ASSUME MachineAssumption ==
    /\ Operator \in Operators /\ \A o \in Operators : o.id = Operator.id
    /\ \A b \in Backers : b.account \in Nat
    /\ TotalShares \in Nat \ {0} /\ PriceCents \in Nat \ {0}
    /\ InvestorShare \in 1 .. Whole
    /\ RepaymentCap \in Nat \ {0}
    /\ Revenues \subseteq Nat \ {0}

VARIABLES offering,  \* the events
          parties    \* the registry

machineVars == <<offering, parties>>

MachineInit == offering = <<>> /\ parties = Nobody

Write(actor, type, data) ==
    /\ Len(offering) < MaxOffering
    /\ offering' = Append(offering, Link(offering, actor, type, data))
    /\ parties' = Registered(parties, actor)

Open ==
    /\ offering = <<>>
    /\ Write(Operator, "OPEN", [shares |-> TotalShares, price |-> PriceCents,
                                bps |-> InvestorShare, cap |-> RepaymentCap])

-----------------------------------------------------------------------------
\* What is derived from the events.
Bought(es) == {n \in DOMAIN es : es[n].type = "BUY"}
Earned(es) == {n \in DOMAIN es : es[n].type = "EARN"}

Buyers(es) == {es[n].data.buyer : n \in Bought(es)}
Holdings(es) == [a \in Buyers(es) |->
    SumOver([n \in {m \in Bought(es) : es[m].data.buyer = a} |-> es[n].data.shares])]
SoldShares(es) == SumOver(Holdings(es))
CumulativePaid(es) == SumOver([n \in Earned(es) |-> es[n].data.investors])

\* _creditable_revenue: what came in once there was a shareholder.
Credited(es) == {n \in Earned(es) : \E m \in Bought(es) : m < n}
CreditableRevenue(es) == SumOver([n \in Credited(es) |-> es[n].data.revenue])

\* _distribute: the cut that the backers are still owed of all revenue so far,
\* up to the cap and to what just came in, shared out by what they hold.  (The
\* mistake would be to floor each earning's cut on its own.)
BugPool(es, revenue) == Min({Part(revenue, InvestorShare), RepaymentCap - CumulativePaid(es)})

InvestorPool(es, revenue) ==
    LET entitlement == Min({Part(CreditableRevenue(es) + revenue, InvestorShare), RepaymentCap})
    IN  Min({Max({0, entitlement - CumulativePaid(es)}), revenue})

LargestHolder(legs, held) == Largest([i \in DOMAIN legs |-> held[legs[i].account]])

InvestorLegs(es, pool) ==
    LET held == Holdings(es)
        sold == SumOver(held)
        cut(a) == (pool * held[a]) \div sold
        paid == InOrder({a \in DOMAIN held : cut(a) > 0})
        legs == [i \in DOMAIN paid |-> Leg(paid[i], cut(paid[i]))]
        residue == pool - CentsOf(legs)
    IN  IF sold = 0 \/ pool = 0 THEN <<>>
        ELSE IF residue = 0 THEN legs
        ELSE IF legs # <<>> THEN [legs EXCEPT ![LargestHolder(legs, held)].cents = @ + residue]
        ELSE LET holders == InOrder(DOMAIN held)
             IN  <<Leg(holders[Largest([i \in DOMAIN holders |-> held[holders[i]]])], residue)>>

Distribution(es, revenue, ref) ==
    LET legs == InvestorLegs(es, InvestorPool(es, revenue))
    IN  [revenue |-> revenue, ref |-> ref, legs |-> legs,
         investors |-> CentsOf(legs), operator |-> revenue - CentsOf(legs),
         after |-> CumulativePaid(es) + CentsOf(legs)]

-----------------------------------------------------------------------------

Buy(backer, n) ==
    /\ offering # <<>>
    /\ SoldShares(offering) + n <= TotalShares
    /\ Write(backer, "BUY", [buyer |-> backer.account, shares |-> n, capital |-> n * PriceCents])

Earn(operator, revenue, ref) ==
    /\ offering # <<>>
    /\ \A n \in DOMAIN offering : offering[n].type = "EARN" => offering[n].data.ref # ref
    /\ Write(operator, "EARN", Distribution(offering, revenue, ref))

MachineNext ==
    \/ Open
    \/ \E backer \in Backers, n \in 1 .. TotalShares : Buy(backer, n)
    \/ \E operator \in Operators, revenue \in Revenues, ref \in Refs :
          Earn(operator, revenue, ref)

MachineSpec == MachineInit /\ [][MachineNext]_machineVars

-----------------------------------------------------------------------------
\* verify_machine_share: a replay in which each event sees those before it.
EventHolds(es, n) ==
    LET before == SubSeq(es, 1, n - 1)
        e == es[n]
    IN  CASE e.type = "OPEN" -> n = 1 /\ e.signer = Operator.id
          [] e.type = "BUY" ->
               /\ e.data.shares > 0 /\ e.data.capital = e.data.shares * PriceCents
               /\ SoldShares(before) + e.data.shares <= TotalShares
          [] e.type = "EARN" ->
               /\ e.signer = Operator.id
               /\ \A m \in DOMAIN before :
                     before[m].type = "EARN" => before[m].data.ref # e.data.ref
               /\ e.data.revenue > 0
               /\ e.data = Distribution(before, e.data.revenue, e.data.ref)
               /\ e.data.operator >= 0 /\ e.data.investors >= 0
               /\ e.data.after <= RepaymentCap

VerifyMachineShare(es, registry) ==
    /\ es # <<>> /\ es[1].type = "OPEN"
    /\ ChainHolds(es, registry)
    /\ \A n \in DOMAIN es : EventHolds(es, n)

-----------------------------------------------------------------------------
\* However the revenue is cut into earnings, the backers have together exactly
\* their share of all that came in since the first of them bought, floored once,
\* until they are repaid; the clamp to a single earning never costs them a cent,
\* and no backer is paid less than what its shares bring of each earning
\* (machine_rwa.py:81-91).
BackersAreRepaid ==
    /\ CumulativePaid(offering)
          = Min({Part(CreditableRevenue(offering), InvestorShare), RepaymentCap})
    /\ \A n \in DOMAIN offering : offering[n].type = "EARN" =>
          LET held == Holdings(SubSeq(offering, 1, n - 1))
              paid == offering[n].data
          IN  /\ CentsOf(paid.legs) = paid.investors
              /\ paid.investors + paid.operator = paid.revenue /\ paid.operator >= 0
              /\ \A a \in DOMAIN held :
                    CentsTo(paid.legs, a) * SumOver(held) > paid.investors * held[a] - SumOver(held)
              /\ \A a, b \in DOMAIN held :
                    held[a] < held[b] => CentsTo(paid.legs, a) <= CentsTo(paid.legs, b)

\* What the operator and the backers write the verifier accepts, unless one of
\* them signed with another key than its first; and it accepts no such document
\* with an event left out, unless it is the last (machine_rwa.py:243).
OfferingVerifies ==
    offering # <<>> =>
        /\ VerifyMachineShare(offering, parties) <=> KeysAreKept(offering)
        /\ \A n \in DOMAIN offering :
              n < Len(offering) => ~VerifyMachineShare(Without(offering, n), parties)
=============================================================================
