------------------------------- MODULE Passport -------------------------------
(***************************************************************************)
(* The provenance passport of one physical unit, v3/provenance/passport.py:*)
(* actors attest links of its chain, one of which may be a sale with the   *)
(* division of its price, and verify_passport judges the document alone.   *)
(*                                                                         *)
(* What a link says besides a sale is its type.  The subject is bound to   *)
(* the first link and never changes, so it is left out, and what a reader  *)
(* of a malformed document must refuse is too.  An unsigned field that a   *)
(* document need not have is the set of what it says: nothing, or one      *)
(* thing.                                                                  *)
(***************************************************************************)
EXTENDS SignedChain

CONSTANTS Actors,       \* records of an id and a key
          Splits,       \* what a sale may be divided by, whole or not
          Prices,
          MaxLinks      \* bound: links of a passport

VARIABLES links,      \* the events
          signers,    \* the registry
          settlement  \* the legs of the last sale

passportVars == <<links, signers, settlement>>

PassportInit == links = <<>> /\ signers = Nobody /\ settlement = <<>>

\* attest
Attest(actor, type, data) ==
    /\ Len(links) < MaxLinks
    /\ links' = Append(links, Link(links, actor, type, data))
    /\ signers' = Registered(signers, actor)

Vouch(actor, type) ==
    /\ Attest(actor, type, Zero)
    /\ UNCHANGED settlement

\* A sale whose legs are added to those of the sale before.
BugRecordSale(actor, price, split) ==
    /\ split # <<>>
    /\ Attest(actor, "SALE", [price |-> price, split |-> split, legs |-> Route(price, split)])
    /\ settlement' = settlement \o Route(price, split)

\* record_sale, which does not look at what the split adds up to.
RecordSale(actor, price, split) ==
    /\ split # <<>>
    /\ settlement' = Route(price, split)
    /\ Attest(actor, "SALE", [price |-> price, split |-> split, legs |-> Route(price, split)])

PassportNext ==
    \E actor \in Actors :
        \/ \E type \in {"HARVEST", "CUSTODY"} : Vouch(actor, type)
        \/ \E price \in Prices, split \in Splits : RecordSale(actor, price, split)

-----------------------------------------------------------------------------
\* verify_passport
SaleHolds(data) ==
    /\ data.price >= 0
    /\ CentsOf(data.legs) = data.price
    /\ \A i \in DOMAIN data.split : data.split[i].bps > 0
    /\ data.split # <<>> => BpsOf(data.split) = Whole
    /\ \A i \in DOMAIN data.legs : data.legs[i].cents >= 0
    /\ ByAccount(data.legs) = ByAccount(Route(data.price, data.split))

SalesIn(ls) == SelectSeq(ls, LAMBDA l : l.type = "SALE")

VerifyPassport(ls, registry, paid, head) ==
    /\ ls # <<>>
    /\ ChainHolds(ls, registry)
    /\ \A h \in head : h = HeadOf(ls)
    /\ \A n \in DOMAIN SalesIn(ls) : SaleHolds(SalesIn(ls)[n].data)
    /\ \A legs \in paid :
          legs = IF SalesIn(ls) = <<>> THEN <<>> ELSE Last(SalesIn(ls)).data.legs

-----------------------------------------------------------------------------
WholeSplits == \A n \in DOMAIN links :
    links[n].type = "SALE" => BpsOf(links[n].data.split) = Whole

\* The document a passport becomes verifies exactly if its actors kept their
\* keys and its sales were divided by whole splits, whatever was attested between
\* them, with its unsigned settlement and head or without.  With a link left out
\* of the middle, or with the money of a sale that is not its last, it is always
\* refused; with the last link left out it is the passport of an earlier day,
\* which is refused where it says the head of this one (passport.py:218, 269, 325).
PassportVerifies ==
    \A paid \in SUBSET {settlement}, head \in SUBSET {HeadOf(links)} :
        LET verifies(ls, money) == VerifyPassport(ls, signers, money, head)
        IN  links # <<>> =>
            /\ verifies(links, paid) <=> KeysAreKept(links) /\ WholeSplits
            /\ \A n \in DOMAIN links :
                  /\ n < Len(links) \/ head # {} => ~verifies(Without(links, n), paid)
                  /\ links[n].type = "SALE" /\ links[n].data.legs # settlement =>
                        ~verifies(links, {links[n].data.legs})
=============================================================================
