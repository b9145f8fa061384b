----------------------------- MODULE SignedChain -----------------------------
(***************************************************************************)
(* The chain that every document of v3/provenance is: links signed by      *)
(* actors, each naming the hash of the one before, and a registry in which *)
(* an actor keeps the key it was first seen with.                          *)
(*                                                                         *)
(* An actor is an identity, which names its account too, and a key: one    *)
(* that is made anew without its seed has the same identity and another    *)
(* key.  A signature is a key and what it is over, a hash what it is of.   *)
(***************************************************************************)
EXTENDS Apportion, FiniteSetsExt

Zero == <<>>
HeadOf(links) == IF links = <<>> THEN Zero ELSE Last(links).hash
Body(link) == <<link.signer, link.type, link.data, link.prev>>

\* _emit: the link an actor adds, and who is registered then.
Link(links, actor, type, data) ==
    LET body == <<actor.id, type, data, HeadOf(links)>>
    IN  [signer |-> actor.id, type |-> type, data |-> data, prev |-> HeadOf(links),
         sig |-> <<actor.key, body>>, hash |-> <<body, actor.key>>]

Registered(registry, actor) ==
    [i \in DOMAIN registry \union {actor.id} |->
        IF i \in DOMAIN registry THEN registry[i] ELSE actor.key]

Nobody == [i \in {} |-> Zero]

\* The first half of each verifier's loop.
ChainHolds(links, registry) == \A n \in DOMAIN links :
    /\ links[n].signer \in DOMAIN registry
    /\ links[n].prev = HeadOf(SubSeq(links, 1, n - 1))
    /\ links[n].hash = <<Body(links[n]), links[n].sig[1]>>
    /\ links[n].sig = <<registry[links[n].signer], Body(links[n])>>

\* An actor signs with the key its identity was registered with.
KeysAreKept(links) == \A m, n \in DOMAIN links :
    links[m].signer = links[n].signer => links[m].sig[1] = links[n].sig[1]

Without(links, n) == SubSeq(links, 1, n - 1) \o SubSeq(links, n + 1, Len(links))

-----------------------------------------------------------------------------
\* What the floors leave over goes to nobody.
BugRoute(amount, split) ==
    [i \in DOMAIN split |-> [account |-> split[i].account,
                             cents |-> Part(amount, split[i].bps)]]

\* route: floored shares, the residue to the first payee.
Route(amount, split) ==
    LET legs == [i \in DOMAIN split |->
                    [account |-> split[i].account,
                     cents |-> Part(amount, split[i].bps)]]
    IN  IF legs = <<>> THEN legs
        ELSE [legs EXCEPT ![1].cents = @ + amount - CentsOf(legs)]

\* What each account gets, which is what the earnings show of a source too.
\* Passports compare the accounts, tokens only those that get something.
ByAccount(legs) == [a \in {legs[i].account : i \in DOMAIN legs} |-> CentsTo(legs, a)]
SameLegs(a, b) ==
    \A account \in DOMAIN ByAccount(a) \union DOMAIN ByAccount(b) :
        CentsTo(a, account) = CentsTo(b, account)
=============================================================================
