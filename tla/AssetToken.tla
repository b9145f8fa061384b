------------------------------ MODULE AssetToken ------------------------------
(***************************************************************************)
(* The transferable claim of v3/provenance/token.py on what a passport is  *)
(* about: shares are issued once, moved, sold with the proceeds routed and *)
(* redeemed against signed receipts of delivery, and verify_token replays  *)
(* the document alone to see whether all of that was in order.             *)
(*                                                                         *)
(* The writer keeps balances by account; the verifier also asks which key  *)
(* an account was bound to by its first credit.  What the manifest pins    *)
(* besides the passport's head are constants.  The tables that a document  *)
(* shows, unsigned and not always, are sets of what they say.              *)
(***************************************************************************)
EXTENDS Passport

CONSTANTS Issuer, Grocer,   \* actors: who issues, and whose receipts redeem
          Bare,             \* account names that shares are sent to as such
          Supply, SharePrices, Royalties,
          ValueSplit,       \* the passport's split, routed through
          Units,            \* what a delivery receipt may be for
          MaxDeliveries,    \* bound: links of its passport
          MaxTokenEvents    \* bound: events of a token

ASSUME TokenAssumption ==
    /\ Issuer \in Actors /\ IsFiniteSet(Actors) /\ IsFiniteSet(Bare)
    /\ Supply \in Nat \ {0} /\ SharePrices \subseteq Nat /\ Units \subseteq Nat
    /\ Royalties \subseteq 0 .. Whole
    /\ ValueSplit # <<>>

Wallets == {a.id : a \in Actors} \union Bare
NoKey == "none"
Recipients == {[account |-> a.id, key |-> a.key] : a \in Actors}
                  \union {[account |-> b, key |-> NoKey] : b \in Bare}

VARIABLES ledger,    \* the token's events
          holders,   \* its registry
          balances, retired,
          delivered  \* _receipt_used: shares redeemed for each delivery

tokenVars == <<ledger, holders, balances, retired, delivered>>

\* __init__, at some time in the passport's life, and what there is before.
Unissued ==
    /\ ledger = <<>> /\ holders = Nobody
    /\ balances = [a \in Wallets |-> 0]
    /\ retired = 0
    /\ delivered = Nobody

Emit(actor, type, data) ==
    /\ Len(ledger) < MaxTokenEvents
    /\ ledger' = Append(ledger, Link(ledger, actor, type, data))
    /\ holders' = Registered(holders, actor)

Issue ==
    /\ ledger = <<>> /\ links # <<>>
    /\ Emit(Issuer, "ISSUE", [to |-> Issuer.id, key |-> NoKey, shares |-> Supply,
                              head |-> HeadOf(links)])
    /\ balances' = [balances EXCEPT ![Issuer.id] = Supply]
    /\ UNCHANGED <<retired, delivered>>

Moved(bal, from, to, n) ==
    LET less == [bal EXCEPT ![from] = @ - n]
    IN  [less EXCEPT ![to] = @ + n]

Transfer(sender, to, n) ==
    /\ ledger # <<>> /\ balances[sender.id] >= n
    /\ Emit(sender, "TRANSFER", [from |-> sender.id, to |-> to.account, key |-> to.key,
                                 shares |-> n])
    /\ balances' = Moved(balances, sender.id, to.account, n)
    /\ UNCHANGED <<retired, delivered>>

\* _sale_legs
SaleLegs(price, primary, royalty, seller) ==
    IF primary THEN Route(price, ValueSplit)
    ELSE LET due == Part(price, royalty)
         IN  Append(IF due > 0 THEN Route(due, ValueSplit) ELSE <<>>,
                    [account |-> seller, cents |-> price - due])

Sell(seller, to, n, price, royalty) ==
    LET primary == seller.id = Issuer.id
    IN  /\ ledger # <<>> /\ balances[seller.id] >= n
        /\ Emit(seller, "SALE",
                [from |-> seller.id, to |-> to.account, key |-> to.key, shares |-> n,
                 price |-> price, royalty |-> IF primary THEN 0 ELSE royalty,
                 legs |-> SaleLegs(price, primary, royalty, seller.id)])
        /\ balances' = Moved(balances, seller.id, to.account, n)
        /\ UNCHANGED <<retired, delivered>>

\* make_fulfillment by whoever, for a delivery of the passport, and redeem,
\* which takes it if the grocer signed it and enough of it is left.
\* Each receipt is counted on its own.
BugUsedOf(ref) == 0
UsedOf(ref) == IF ref \in DOMAIN delivered THEN delivered[ref] ELSE 0

Redeem(holder, n, receipt) ==
    /\ ledger # <<>> /\ balances[holder.id] >= n
    /\ receipt.key = Grocer.key
    /\ UsedOf(receipt.ref) + n <= receipt.units
    /\ Emit(holder, "REDEEM", [from |-> holder.id, shares |-> n, receipt |-> receipt])
    /\ delivered' = [r \in DOMAIN delivered \union {receipt.ref} |->
                        IF r = receipt.ref THEN UsedOf(r) + n ELSE delivered[r]]
    /\ balances' = [balances EXCEPT ![holder.id] = @ - n]
    /\ retired' = retired + n

Deliveries == {links[n].hash : n \in {m \in DOMAIN links : links[m].type = "CUSTODY"}}
Receipts == [ref : Deliveries, units : Units, key : {Grocer.key, Issuer.key}]

TokenStep ==
    \/ Issue
    \/ \E actor \in Actors, n \in 1 .. Supply :
          \/ \E to \in Recipients :
                \/ Transfer(actor, to, n)
                \/ \E price \in SharePrices, royalty \in Royalties :
                      Sell(actor, to, n, price, royalty)
          \/ \E receipt \in Receipts : Redeem(actor, n, receipt)

\* The good is delivered, before the token is issued or after.
Deliver == Len(links) < MaxDeliveries /\ Vouch(Grocer, "CUSTODY")

TokenNext ==
    \/ TokenStep /\ UNCHANGED passportVars
    \/ Deliver /\ UNCHANGED tokenVars

TokenSpec == PassportInit /\ Unissued /\ [][TokenNext]_<<passportVars, tokenVars>>

-----------------------------------------------------------------------------
\* verify_token: a replay, from nothing, of the document's events.
Unbound == "unbound"
Terminal == "terminal"

Fresh == [ok |-> TRUE, bal |-> [a \in Wallets |-> 0],
          bound |-> [a \in Wallets |-> Unbound], retired |-> 0, used |-> Nobody]

DebitHolds(r, e) ==
    /\ e.data.from = e.signer
    /\ r.bound[e.data.from] = holders[e.signer]
    /\ r.bal[e.data.from] >= e.data.shares

\* _bind_recipient
BindHolds(r, d) == d.key = NoKey \/ r.bound[d.to] \in {Unbound, d.key}
Bind(r, d) == [r.bound EXCEPT ![d.to] = IF d.key # NoKey THEN d.key
                                        ELSE IF @ = Unbound THEN Terminal ELSE @]

SharesHold(e) == e.data.shares > 0

ReplayIssue(r, e) ==
    [r EXCEPT !.ok = @ /\ e.data.shares = Supply /\ e.signer = Issuer.id,
              !.bal = [@ EXCEPT ![e.data.to] = @ + e.data.shares],
              !.bound = [@ EXCEPT ![e.data.to] = holders[e.signer]]]

LegsHold(e) ==
    LET primary == e.signer = Issuer.id
    IN  /\ SameLegs(e.data.legs, SaleLegs(e.data.price, primary, e.data.royalty, e.signer))
        /\ \A i \in DOMAIN e.data.legs : e.data.legs[i].cents >= 0
        /\ CentsOf(e.data.legs) = e.data.price

ReplayMove(r, e) ==
    [r EXCEPT !.ok = /\ @ /\ SharesHold(e) /\ DebitHolds(r, e) /\ BindHolds(r, e.data)
                     /\ e.type = "SALE" => LegsHold(e),
              !.bal = Moved(@, e.data.from, e.data.to, e.data.shares),
              !.bound = Bind(r, e.data)]

ReplayRedeem(r, e) ==
    LET ref == e.data.receipt.ref
        now == e.data.shares + (IF ref \in DOMAIN r.used THEN r.used[ref] ELSE 0)
    IN  [r EXCEPT !.ok = /\ @ /\ SharesHold(e) /\ DebitHolds(r, e)
                         /\ e.data.receipt.key = Grocer.key
                         /\ now <= e.data.receipt.units,
                  !.bal = [@ EXCEPT ![e.data.from] = @ - e.data.shares],
                  !.retired = @ + e.data.shares,
                  !.used = [x \in DOMAIN @ \union {ref} |-> IF x = ref THEN now ELSE @[x]]]

ReplayStep(r, e) ==
    IF ~r.ok THEN r
    ELSE IF e.type = "ISSUE" THEN ReplayIssue(r, e)
    ELSE IF e.type = "REDEEM" THEN ReplayRedeem(r, e)
    ELSE ReplayMove(r, e)

VerifyToken(es, shown, gone) ==
    /\ es # <<>> /\ es[1].type = "ISSUE"
    /\ \A n \in 2 .. Len(es) : es[n].type # "ISSUE"
    /\ ChainHolds(es, holders)
    /\ LET r == FoldLeft(ReplayStep, Fresh, es)
       IN  /\ r.ok
           /\ SumOver(r.bal) + r.retired = Supply
           /\ \A table \in shown : table = r.bal
           /\ \A count \in gone : count = r.retired

\* What is asked besides where a passport is supplied, ls: that it verifies, has the
\* head that was pinned, and has the deliveries that were redeemed for.
BackedBy(es, ls) ==
    /\ VerifyPassport(ls, signers, {}, {HeadOf(ls)})
    /\ HeadOf(ls) = es[1].data.head
    /\ \A n \in DOMAIN es : es[n].type = "REDEEM" =>
          es[n].data.receipt.ref \in {ls[i].hash : i \in {j \in DOMAIN ls : ls[j].type = "CUSTODY"}}

-----------------------------------------------------------------------------
Issued == ledger # <<>>

\* Who an account belongs to is settled by its first credit; nobody else has
\* moved its shares, and nobody received any under another key.
FirstCredit(a) ==
    LET n == Min({m \in DOMAIN ledger : ledger[m].type # "REDEEM" /\ ledger[m].data.to = a})
    IN  IF n = 1 THEN Issuer.key ELSE ledger[n].data.key
OwnersOnly ==
    \A n \in 2 .. Len(ledger) :
        /\ ledger[n].sig[1] = FirstCredit(ledger[n].data.from)
        /\ ledger[n].type # "REDEEM" /\ ledger[n].data.key # NoKey =>
              ledger[n].data.key = FirstCredit(ledger[n].data.to)

\* The document of a token verifies exactly if its actors kept their keys and
\* shares were moved by their owners only, with the tables it shows or without.
\* With an event left out of the middle it is always refused; with its last one
\* left out, or with the balances there were before it, where it shows balances
\* that it changed (token.py:357, 531).
TokenVerifies ==
    \A shown \in SUBSET {balances}, gone \in SUBSET {retired} : Issued =>
        /\ VerifyToken(ledger, shown, gone) <=> KeysAreKept(ledger) /\ OwnersOnly
        /\ \A n \in 1 .. Len(ledger) - 1 : ~VerifyToken(Without(ledger, n), shown, gone)
        /\ LET es == Without(ledger, Len(ledger))
               before == FoldLeft(ReplayStep, Fresh, es)
           IN  before.bal # balances =>
                  /\ shown # {} => ~VerifyToken(es, shown, gone)
                  /\ ~VerifyToken(ledger, {before.bal}, gone)

\* Of the passports its goods ever had, a token is backed by the one of the day it
\* was issued and no other, and only while nothing was redeemed for a later
\* delivery, which that passport cannot have (token.py:539-554).
TokenIsPinned ==
    Issued => \A n \in DOMAIN links :
        LET pinned == SubSeq(links, 1, n)
            late == {links[i].hash : i \in n + 1 .. Len(links)}
        IN  BackedBy(ledger, pinned) <=>
                /\ HeadOf(pinned) = ledger[1].data.head
                /\ \A m \in DOMAIN ledger :
                      ledger[m].type = "REDEEM" => ledger[m].data.receipt.ref \notin late

RedemptionsOf(ref) == {n \in DOMAIN ledger :
    ledger[n].type = "REDEEM" /\ ledger[n].data.receipt.ref = ref}
RedeemedFor(ref) == SumOver([n \in RedemptionsOf(ref) |-> ledger[n].data.shares])

\* No step makes or loses a share, and no more shares are redeemed for a
\* delivery, over all its receipts, than the largest of them attests
\* (token.py:276).
SharesAreAccountedFor ==
    /\ \A a \in Wallets : balances[a] >= 0
    /\ Issued => SumOver(balances) + retired = Supply
    /\ \A ref \in Deliveries : RedeemedFor(ref) <=
          Max({0} \union {ledger[n].data.receipt.units : n \in RedemptionsOf(ref)})

\* The price of every sale is paid out in full: a first sale to the passport's
\* payees and nobody else, a resale to the seller but for a royalty to them
\* (token.py:88-106).
SalesArePaid ==
    LET payees == {ValueSplit[i].account : i \in DOMAIN ValueSplit}
        paid(e, as) == SumOver([a \in as |-> CentsTo(e.data.legs, a)])
    IN  \A n \in DOMAIN ledger : LET e == ledger[n] IN e.type = "SALE" =>
           /\ CentsOf(e.data.legs) = e.data.price
           /\ e.signer = Issuer.id => paid(e, payees) = e.data.price
           /\ e.signer # Issuer.id =>
                 /\ paid(e, payees \union {e.signer}) = e.data.price
                 /\ paid(e, {e.signer}) * Whole >= e.data.price * (Whole - e.data.royalty)
=============================================================================
