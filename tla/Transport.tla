------------------------------ MODULE Transport ------------------------------
(***************************************************************************)
(* The custody passport of one vehicle, v3/provenance/transport.py.  A     *)
(* broker books a carrier and funds the escrow, whoever has the vehicle    *)
(* signs for it, the customer accepts it, and from the document alone      *)
(* escrow_decision says whether the money moves, how much and to whom.     *)
(*                                                                         *)
(* A condition is the set of damages it reports.  The vehicle is a         *)
(* constant, so what is bound to it is left out, and so are the windows    *)
(* and the locations, which nobody judges.                                 *)
(***************************************************************************)
EXTENDS SignedChain

CONSTANTS Brokers, Carriers, Customers,   \* actors
          Fares,         \* prices of a haul and what the carrier gets of them
          Conditions,    \* sets of damages
          MaxHaul        \* bound: events of a haul

\* Cents are whole; that they make sense is for book and the verifier to see to.
ASSUME HaulAssumption == Fares \subseteq [price : Int, carrier : Int]

VARIABLES haul,    \* the events
          crew,    \* the registry
          mirror   \* the unsigned top: bound_carrier, bound_customer, escrow, of
                  \* which a document may leave out any

haulVars == <<haul, crew, mirror>>

HaulInit == haul = <<>> /\ crew = Nobody /\ mirror = Zero

Sign(actor, type, data) ==
    /\ Len(haul) < MaxHaul
    /\ haul' = Append(haul, Link(haul, actor, type, data))
    /\ crew' = Registered(crew, actor)

Agreement(carrier, customer, fare) == [carrier |-> carrier, customer |-> customer, fare |-> fare]

\* book, which may be called again.
Book(broker, carrier, customer, fare) ==
    /\ fare.carrier <= fare.price
    /\ mirror' = Agreement(carrier, customer, fare)
    /\ Sign(broker, "BOOKING", Agreement(carrier, customer, fare))

\* pickup and transit, whoever signs.
Pickup(actor, cond) == Sign(actor, "PICKUP", [condition |-> cond]) /\ UNCHANGED mirror
Transit(actor) == Sign(actor, "TRANSIT", Zero) /\ UNCHANGED mirror

\* make_acceptance by a customer, for one of the bookings, and deliver with it.
Bookings == {n \in DOMAIN haul : haul[n].type = "BOOKING"}
Acceptances ==
    [customer : Customers, condition : Conditions, booking : {haul[n].hash : n \in Bookings}]

Handoff(actor, acceptance, cond) ==
    /\ Sign(actor, "DELIVERY", [condition |-> cond, acceptance |-> acceptance])
    /\ UNCHANGED mirror

HaulNext ==
    \/ \E broker \in Brokers, carrier \in Carriers, customer \in Customers, fare \in Fares :
          Book(broker, carrier, customer, fare)
    \/ \E carrier \in Carriers :
          \/ \E cond \in Conditions : Pickup(carrier, cond)
          \/ Transit(carrier)
          \/ \E acceptance \in Acceptances, cond \in Conditions :
                Handoff(carrier, acceptance, cond)

HaulSpec == HaulInit /\ [][HaulNext]_haulVars

-----------------------------------------------------------------------------
\* verify_transport
InCustody(link) == link.type \in {"PICKUP", "TRANSIT", "DELIVERY"}

\* The unsigned top taken for what the broker signed, as far as there is one.
BugBound(es, top) ==
    [f \in DOMAIN es[1].data |-> IF f \in DOMAIN top THEN top[f] ELSE es[1].data[f]]
Bound(es, top) == es[1].data

AcceptanceHolds(es, link, bound) ==
    LET acceptance == link.data.acceptance
    IN  /\ acceptance.customer = bound.customer
        /\ acceptance.booking = es[1].hash
        /\ acceptance.condition = link.data.condition

VerifyTransport(es, registry, top, head) ==
    /\ es # <<>> /\ es[1].type = "BOOKING"
    /\ LET bound == Bound(es, top)
       IN  /\ \A f \in DOMAIN top : top[f] = bound[f]
           /\ \A h \in head : h = HeadOf(es)
           /\ bound.fare.carrier \in 0 .. bound.fare.price
           /\ ChainHolds(es, registry)
           /\ \A n \in DOMAIN es :
                 /\ InCustody(es[n]) => registry[es[n].signer] = bound.carrier.key
                 /\ es[n].type = "DELIVERY" => AcceptanceHolds(es, es[n], bound)

\* escrow_decision: the last handoff of each kind counts.
LastOf(es, type) == SelectLastInSeq(es, LAMBDA link : link.type = type)
ConditionAt(es, n) == IF n = 0 THEN {} ELSE es[n].data.condition

EscrowDecision(es, registry, top, head) ==
    IF ~VerifyTransport(es, registry, top, head) THEN [status |-> "BLOCKED"]
    ELSE IF LastOf(es, "DELIVERY") = 0 THEN [status |-> "HELD"]
    ELSE [status |-> "RELEASED", to |-> es[1].data.carrier.id,
          carrier |-> es[1].data.fare.carrier,
          broker |-> es[1].data.fare.price - es[1].data.fare.carrier,
          claim |-> ConditionAt(es, LastOf(es, "DELIVERY")) \ ConditionAt(es, LastOf(es, "PICKUP"))]

-----------------------------------------------------------------------------
\* What should keep the escrow: somebody else than the carrier booked first had
\* the vehicle, the load was last booked on other terms, or a delivery that the
\* customer did not accept as it was reported.
Rebrokered == \E n \in DOMAIN haul :
    InCustody(haul[n]) /\ haul[n].sig[1] # haul[1].data.carrier.key
Rebooked == haul[Max(Bookings)].data # haul[1].data
Disputed == \E n \in DOMAIN haul :
    /\ haul[n].type = "DELIVERY"
    /\ haul[n].data.acceptance # [customer |-> haul[1].data.customer,
                                  condition |-> haul[n].data.condition,
                                  booking |-> haul[1].hash]

\* The escrow is paid out exactly if the vehicle was delivered by the carrier it
\* was booked with, who alone had it all the way, to the customer who accepts it
\* as it is: neither a second booking nor a handoff to another carrier, before
\* the delivery or after it, ever releases the money, and what is released is
\* the price that the broker signed first.  A document that leaves out what is
\* unsigned on its top forgets the second booking and nothing else
\* (transport.py:8-14, 206-214, 312).
HaulSettles ==
    \A kept \in SUBSET DOMAIN mirror, head \in SUBSET {HeadOf(haul)} :
        LET decision == EscrowDecision(haul, crew, [f \in kept |-> mirror[f]], head)
            earned == /\ haul # <<>> /\ haul[1].type = "BOOKING"
                      /\ haul[1].data.fare.carrier >= 0
                      /\ \E n \in DOMAIN haul : haul[n].type = "DELIVERY"
                      /\ ~Rebrokered /\ ~Disputed /\ KeysAreKept(haul)
        IN  /\ decision.status = "RELEASED" => earned
            /\ earned /\ ~Rebooked => decision.status = "RELEASED"
            /\ decision.status = "RELEASED" /\ kept = DOMAIN mirror => ~Rebooked
            /\ decision.status = "RELEASED" =>
                  /\ decision.to = haul[1].data.carrier.id
                  /\ decision.carrier + decision.broker = haul[1].data.fare.price
                  /\ decision.carrier >= 0 /\ decision.broker >= 0
=============================================================================
