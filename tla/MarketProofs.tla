---------------------------- MODULE MarketProofs ----------------------------
(***************************************************************************)
(* Theorems about the documents and figures by which the money of          *)
(* v3/provenance and the orders of v3/bingo move.                          *)
(*                                                                         *)
(* A haul: the chain holds exactly if actors kept their keys, since the    *)
(* registry has the key of somebody's first link, and the unsigned top     *)
(* is the booking made last.  What the verifier asks of the top and of     *)
(* the signers is then what may not have happened to the load.             *)
(*                                                                         *)
(* A token: what its writer counted for a delivery is what the ledger      *)
(* redeemed for it, which a receipt bounds; and floors never exceed the    *)
(* amount split, so that the residue that the first party takes is no      *)
(* debt.                                                                   *)
(*                                                                         *)
(* Royalties: the exact terms of a composition come to the whole, account  *)
(* by account; flooring loses less than one for each term; the catalogue   *)
(* only grows, so that what held of an asset still does.  The legs of a    *)
(* job are its parts in some order, and a sum does not ask in which.       *)
(*                                                                         *)
(* Orders: shares in the order of scores stay so, but for a unit, however  *)
(* often the largest is trimmed; and the fees that were floored leave less *)
(* to the largest job than there are jobs.                                 *)
(*                                                                         *)
(* Reputation: each term of a score moves the right way, cross-multiplied, *)
(* and clamping keeps the order.                                           *)
(*                                                                         *)
(* Machine shares: pools are what an entitlement on the running total has  *)
(* grown by, so that they add up to it however the revenue is cut; of each *)
(* the floors are in the order of the holdings.                            *)
(*                                                                         *)
(* Training: an asset's cut is paid in full or not at all, so legs that    *)
(* come to the pool have paid every asset; a base's legs are not the       *)
(* corpus' own.                                                            *)
(*                                                                         *)
(* Earnings: legs summed up by account, or one account's by asset, come to *)
(* what they carry; assets only added, a job's royalty legs made again are *)
(* those it was settled with.                                              *)
(***************************************************************************)
EXTENDS Earnings, Transport, Pricing, Reputation, MachineShare, SumsProofs

-----------------------------------------------------------------------------
\* A link as Link makes it, under the key it is signed with.
Linked(es, n) ==
    /\ es[n].prev = HeadOf(SubSeq(es, 1, n - 1))
    /\ es[n].sig = <<es[n].sig[1], Body(es[n])>>
    /\ es[n].hash = <<Body(es[n]), es[n].sig[1]>>

\* The registry has a key for every signer and no other, and it is one that the
\* signer used.
KeysSeen(es, registry) ==
    /\ \A n \in DOMAIN es : es[n].signer \in DOMAIN registry
    /\ \A i \in DOMAIN registry :
          \E n \in DOMAIN es : es[n].signer = i /\ es[n].sig[1] = registry[i]

ChainInv(es, registry) ==
    /\ Chain(es)
    /\ \A n \in DOMAIN es : Linked(es, n)
    /\ KeysSeen(es, registry)

LEMMA ChainStarts == ChainInv(<<>>, Nobody)
<1>1. Chain(<<>>)
  BY EmptySeq DEF Chain
<1>2. DOMAIN <<>> = {} /\ DOMAIN Nobody = {}
  BY DEF Nobody
<1> QED  BY <1>1, <1>2 DEF ChainInv, KeysSeen

LEMMA ChainGrows ==
    ASSUME NEW s, NEW registry, ChainInv(s, registry), NEW actor, NEW type, NEW data
    PROVE  ChainInv(Append(s, Link(s, actor, type, data)), Registered(registry, actor))
<1> DEFINE e == Link(s, actor, type, data)
           t == Append(s, e)
           after == Registered(registry, actor)
<1>1. /\ e.signer = actor.id /\ e.prev = HeadOf(s) /\ e.type = type /\ e.data = data
      /\ e.sig = <<actor.key, Body(e)>> /\ e.sig[1] = actor.key
      /\ e.hash = <<Body(e), actor.key>>
  BY DEF Link, Body
<1>2. /\ DOMAIN after = DOMAIN registry \union {actor.id}
      /\ \A i \in DOMAIN registry : after[i] = registry[i]
      /\ actor.id \notin DOMAIN registry => after[actor.id] = actor.key
  BY DEF Registered
<1> HIDE DEF e, after
<1>3. /\ Chain(t) /\ Len(s) \in Nat
      /\ DOMAIN s = 1 .. Len(s) /\ DOMAIN t = 1 .. (Len(s) + 1)
      /\ t[Len(s) + 1] = e /\ \A n \in 1 .. Len(s) : t[n] = s[n]
      /\ \A n \in 1 .. (Len(s) + 1) : SubSeq(t, 1, n - 1) = SubSeq(s, 1, n - 1)
      /\ SubSeq(s, 1, Len(s)) = s
  BY ChainAppend DEF ChainInv
<1> HIDE DEF t
<1>4. ASSUME NEW n \in DOMAIN t
      PROVE  Linked(t, n)
  <2>1. CASE n \in 1 .. Len(s)
    <3>1. t[n] = s[n] /\ SubSeq(t, 1, n - 1) = SubSeq(s, 1, n - 1) /\ Linked(s, n)
      BY <1>3, <2>1 DEF ChainInv
    <3> QED  BY <3>1, Zenon DEF Linked
  <2>2. CASE n = Len(s) + 1
    <3>1. t[n] = e /\ SubSeq(t, 1, n - 1) = s
      <4>1. n - 1 = Len(s)
        BY <1>3, <2>2
      <4> QED  BY <1>3, <2>2, <4>1
    <3> QED  BY <1>1, <3>1, Zenon DEF Linked
  <2> QED  BY <1>3, <2>1, <2>2
<1>5. KeysSeen(t, after)
  <2>1. ASSUME NEW n \in DOMAIN t
        PROVE  t[n].signer \in DOMAIN after
    <3>1. CASE n \in 1 .. Len(s)
      BY <1>2, <1>3, <3>1 DEF ChainInv, KeysSeen
    <3>2. CASE n = Len(s) + 1
      BY <1>1, <1>2, <1>3, <3>2
    <3> QED  BY <1>3, <3>1, <3>2
  <2>2. ASSUME NEW i \in DOMAIN after
        PROVE  \E n \in DOMAIN t : t[n].signer = i /\ t[n].sig[1] = after[i]
    <3>1. CASE i \in DOMAIN registry
      <4>1. PICK n \in DOMAIN s : s[n].signer = i /\ s[n].sig[1] = registry[i]
        BY <3>1 DEF ChainInv, KeysSeen
      <4> QED  BY <1>2, <1>3, <3>1, <4>1
    <3>2. CASE i \notin DOMAIN registry
      <4>1. i = actor.id /\ after[i] = actor.key
        BY <1>2, <2>2, <3>2
      <4>2. Len(s) + 1 \in DOMAIN t
        BY <1>3
      <4> QED  BY <1>1, <1>3, <4>1, <4>2
    <3> QED  BY <3>1, <3>2
  <2> QED  BY <2>1, <2>2 DEF KeysSeen
<1>6. ChainInv(t, after)
  BY <1>3, <1>4, <1>5 DEF ChainInv
<1> QED  BY <1>6 DEF e, t, after

\* A chain that was written by Link holds exactly if keys were kept.
LEMMA ChainVerifies ==
    ASSUME NEW es, NEW registry, ChainInv(es, registry)
    PROVE  /\ ChainHolds(es, registry) <=> KeysAreKept(es)
           /\ ChainHolds(es, registry) =>
                 \A n \in DOMAIN es : es[n].sig[1] = registry[es[n].signer]
<1>1. ASSUME ChainHolds(es, registry), NEW n \in DOMAIN es
      PROVE  es[n].sig[1] = registry[es[n].signer]
  BY <1>1 DEF ChainHolds
<1>2. ASSUME ChainHolds(es, registry)
      PROVE  KeysAreKept(es)
  BY <1>1, <1>2 DEF KeysAreKept
<1>3. ASSUME KeysAreKept(es), NEW n \in DOMAIN es
      PROVE  es[n].sig[1] = registry[es[n].signer]
  <2>1. es[n].signer \in DOMAIN registry
    BY DEF ChainInv, KeysSeen
  <2>2. PICK m \in DOMAIN es : /\ es[m].signer = es[n].signer
                               /\ es[m].sig[1] = registry[es[n].signer]
    BY <2>1 DEF ChainInv, KeysSeen
  <2> QED  BY <1>3, <2>2 DEF KeysAreKept
<1>4. ASSUME KeysAreKept(es)
      PROVE  ChainHolds(es, registry)
  <2> SUFFICES ASSUME NEW n \in DOMAIN es
               PROVE  /\ es[n].signer \in DOMAIN registry
                      /\ es[n].prev = HeadOf(SubSeq(es, 1, n - 1))
                      /\ es[n].hash = <<Body(es[n]), es[n].sig[1]>>
                      /\ es[n].sig = <<registry[es[n].signer], Body(es[n])>>
    BY DEF ChainHolds
  <2>1. Linked(es, n) /\ es[n].signer \in DOMAIN registry
    BY DEF ChainInv, KeysSeen
  <2>2. es[n].sig[1] = registry[es[n].signer]
    BY <1>3, <1>4
  <2> QED  BY <2>1, <2>2 DEF Linked
<1> QED  BY <1>1, <1>2, <1>4

-----------------------------------------------------------------------------
\* What a BOOKING and a DELIVERY say.
DealMade(data) ==
    /\ data = Agreement(data.carrier, data.customer, data.fare)
    /\ data.fare.price \in Int /\ data.fare.carrier \in Int
    /\ data.fare.carrier <= data.fare.price

HandedOver(data) ==
    data.acceptance = [customer |-> data.acceptance.customer,
                       condition |-> data.acceptance.condition,
                       booking |-> data.acceptance.booking]

Said(es) == \A n \in DOMAIN es :
    /\ es[n].type = "BOOKING" => DealMade(es[n].data)
    /\ es[n].type = "DELIVERY" => HandedOver(es[n].data)

\* The top is the booking made last.
Mirrored(es, top) ==
    \/ \A n \in DOMAIN es : es[n].type # "BOOKING"
    \/ \E n \in DOMAIN es :
          /\ es[n].type = "BOOKING" /\ top = es[n].data
          /\ \A m \in DOMAIN es : es[m].type = "BOOKING" => m <= n

HaulInv == ChainInv(haul, crew) /\ Said(haul) /\ Mirrored(haul, mirror)

LEMMA HaulStarts == HaulInit => HaulInv
<1> SUFFICES ASSUME HaulInit
             PROVE  HaulInv
  OBVIOUS
<1>1. ChainInv(haul, crew)
  BY ChainStarts DEF HaulInit
<1>2. DOMAIN haul = {}
  BY DEF HaulInit
<1> QED  BY <1>1, <1>2 DEF HaulInv, Said, Mirrored

\* A link of any kind: its data are what its type wants, and the top is kept
\* or is what is booked.
LEMMA SignKeeps ==
    ASSUME HaulInv, NEW actor, NEW type, NEW data, Sign(actor, type, data),
           type = "BOOKING" => DealMade(data) /\ mirror' = data,
           type = "DELIVERY" => HandedOver(data),
           type # "BOOKING" => mirror' = mirror
    PROVE  HaulInv'
<1> DEFINE e == Link(haul, actor, type, data)
           t == Append(haul, e)
           L == Len(haul)
<1>1. haul' = t /\ crew' = Registered(crew, actor)
  BY DEF Sign
<1>2. ChainInv(t, Registered(crew, actor))
  BY ChainGrows DEF HaulInv
<1>3. ChainInv(haul', crew')
  BY <1>1, <1>2
<1>4. e.type = type /\ e.data = data
  BY DEF Link
<1> HIDE DEF e
<1>5. /\ L \in Nat /\ DOMAIN haul = 1 .. L /\ DOMAIN t = 1 .. (L + 1)
      /\ t[L + 1] = e /\ \A n \in 1 .. L : t[n] = haul[n]
  BY ChainAppend DEF HaulInv, ChainInv
<1> HIDE DEF t
<1>6. Said(t)
  <2> SUFFICES ASSUME NEW n \in 1 .. (L + 1)
               PROVE  /\ t[n].type = "BOOKING" => DealMade(t[n].data)
                      /\ t[n].type = "DELIVERY" => HandedOver(t[n].data)
    BY <1>5 DEF Said
  <2>1. CASE n \in 1 .. L
    BY <1>5, <2>1 DEF HaulInv, Said
  <2>2. CASE n = L + 1
    BY <1>4, <1>5, <2>2
  <2> QED  BY <1>5, <2>1, <2>2
<1>7. Mirrored(t, mirror')
  <2>1. CASE type = "BOOKING"
    <3>1. /\ t[L + 1].type = "BOOKING" /\ mirror' = t[L + 1].data /\ L + 1 \in DOMAIN t
          /\ \A m \in DOMAIN t : m <= L + 1
      BY <1>4, <1>5, <2>1
    <3> QED  BY <3>1 DEF Mirrored
  <2>2. CASE type # "BOOKING"
    <3>1. t[L + 1].type # "BOOKING" /\ mirror' = mirror
      BY <1>4, <1>5, <2>2
    <3>2. CASE \A n \in DOMAIN haul : haul[n].type # "BOOKING"
      <4>1. \A n \in DOMAIN t : t[n].type # "BOOKING"
        BY <1>5, <3>1, <3>2
      <4> QED  BY <4>1 DEF Mirrored
    <3>3. ASSUME NEW n \in DOMAIN haul,
                 haul[n].type = "BOOKING", mirror = haul[n].data,
                 \A m \in DOMAIN haul : haul[m].type = "BOOKING" => m <= n
          PROVE  Mirrored(t, mirror')
      <4>1. n \in DOMAIN t /\ t[n] = haul[n]
        BY <1>5
      <4>2. \A m \in DOMAIN t : t[m].type = "BOOKING" => m <= n
        BY <1>5, <3>1, <3>3
      <4> QED  BY <3>1, <3>3, <4>1, <4>2 DEF Mirrored
    <3> QED  BY <3>2, <3>3 DEF HaulInv, Mirrored
  <2> QED  BY <2>1, <2>2
<1> QED  BY <1>1, <1>3, <1>6, <1>7 DEF HaulInv

LEMMA HaulKeeps == HaulInv /\ [HaulNext]_haulVars => HaulInv'
<1> SUFFICES ASSUME HaulInv, [HaulNext]_haulVars
             PROVE  HaulInv'
  OBVIOUS
<1>1. ASSUME NEW broker, NEW hauler, NEW customer, NEW fare \in Fares,
             Book(broker, hauler, customer, fare)
      PROVE  HaulInv'
  <2> DEFINE deal == Agreement(hauler, customer, fare)
  <2>1. DealMade(deal)
    BY <1>1, HaulAssumption DEF DealMade, Agreement, Book
  <2>2. Sign(broker, "BOOKING", deal) /\ mirror' = deal
    BY <1>1 DEF Book
  <2> HIDE DEF deal
  <2> QED  BY <2>1, <2>2, SignKeeps
<1>2. ASSUME NEW actor, NEW cond, Pickup(actor, cond)
      PROVE  HaulInv'
  BY <1>2, SignKeeps DEF Pickup
<1>3. ASSUME NEW actor, Transit(actor)
      PROVE  HaulInv'
  BY <1>3, SignKeeps DEF Transit
<1>4. ASSUME NEW actor, NEW acceptance \in Acceptances, NEW cond,
             Handoff(actor, acceptance, cond)
      PROVE  HaulInv'
  <2> DEFINE data == [condition |-> cond, acceptance |-> acceptance]
  <2>1. HandedOver(data)
    BY DEF HandedOver, Acceptances
  <2>2. Sign(actor, "DELIVERY", data) /\ mirror' = mirror
    BY <1>4 DEF Handoff
  <2> HIDE DEF data
  <2> QED  BY <2>1, <2>2, SignKeeps
<1>5. CASE UNCHANGED haulVars
  BY <1>5 DEF haulVars, HaulInv
<1> QED  BY <1>1, <1>2, <1>3, <1>4, <1>5 DEF HaulNext

\* The conditions of a settlement, one by one, as the document shows them.
LEMMA TopIsFirst ==
    ASSUME HaulInv, haul # <<>>, haul[1].type = "BOOKING"
    PROVE  ~Rebooked <=> mirror = haul[1].data
<1> DEFINE L == Len(haul)
<1>1. L \in Nat /\ DOMAIN haul = 1 .. L
  BY ChainAppend DEF HaulInv, ChainInv
<1>2. 1 \in DOMAIN haul
  <2>1. PICK S : haul \in Seq(S)
    BY DEF HaulInv, ChainInv, Chain
  <2> QED  BY <1>1, <2>1, EmptySeq
<1>3. PICK n \in DOMAIN haul :
         /\ haul[n].type = "BOOKING" /\ mirror = haul[n].data
         /\ \A m \in DOMAIN haul : haul[m].type = "BOOKING" => m <= n
  BY <1>2 DEF HaulInv, Mirrored
<1>4. Bookings \in SUBSET (1 .. L) /\ n \in Bookings
  BY <1>1, <1>3 DEF Bookings
<1>5. Max(Bookings) \in Bookings /\ Max(Bookings) >= n
  BY <1>1, <1>4, MaxOfPositions, Zenon
<1>6. Max(Bookings) \in DOMAIN haul /\ Max(Bookings) <= n
  BY <1>3, <1>5 DEF Bookings
<1>7. Max(Bookings) = n
  BY <1>1, <1>5, <1>6
<1> QED  BY <1>3, <1>7 DEF Rebooked

LEMMA AcceptedAsReported ==
    ASSUME HaulInv
    PROVE  ~Disputed <=>
              \A n \in DOMAIN haul : haul[n].type = "DELIVERY" =>
                  AcceptanceHolds(haul, haul[n], haul[1].data)
<1> SUFFICES ASSUME NEW n \in DOMAIN haul, haul[n].type = "DELIVERY"
             PROVE  AcceptanceHolds(haul, haul[n], haul[1].data) <=>
                       haul[n].data.acceptance = [customer |-> haul[1].data.customer,
                                                  condition |-> haul[n].data.condition,
                                                  booking |-> haul[1].hash]
  BY Zenon DEF Disputed
<1>1. HandedOver(haul[n].data)
  BY DEF HaulInv, Said
<1> DEFINE a == haul[n].data.acceptance
           c == haul[1].data.customer
           k == haul[n].data.condition
           h == haul[1].hash
<1>2. a = [customer |-> a.customer, condition |-> a.condition, booking |-> a.booking]
  BY <1>1 DEF HandedOver
<1>3. AcceptanceHolds(haul, haul[n], haul[1].data) <=>
         a.customer = c /\ a.booking = h /\ a.condition = k
  BY DEF AcceptanceHolds
<1> HIDE DEF a, c, k, h
<1>4. a = [customer |-> c, condition |-> k, booking |-> h] <=>
         a.customer = c /\ a.booking = h /\ a.condition = k
  BY <1>2
<1> QED  BY <1>3, <1>4 DEF a, c, k, h

LEMMA DeliveredOnce ==
    ASSUME HaulInv
    PROVE  LastOf(haul, "DELIVERY") # 0 <=> \E n \in DOMAIN haul : haul[n].type = "DELIVERY"
<1> DEFINE L == Len(haul)
           I == {n \in 1 .. L : haul[n].type = "DELIVERY"}
<1>1. L \in Nat /\ DOMAIN haul = 1 .. L
  BY ChainAppend DEF HaulInv, ChainInv
<1>2. LastOf(haul, "DELIVERY") = IF I # {} THEN Max(I) ELSE 0
  BY DEF LastOf, SelectLastInSeq
<1>3. I # {} => Max(I) \in 1 .. L
  <2> HAVE I # {}
  <2>1. I \in SUBSET (1 .. L)
    OBVIOUS
  <2>2. Max(I) \in I
    <3> HIDE DEF I, L
    <3> QED  BY <1>1, <2>1, MaxOfPositions, Zenon
  <2> QED  BY <2>1, <2>2
<1> QED  BY <1>1, <1>2, <1>3

\* What is on top says no more than what was signed.
Agrees(top) == \A f \in DOMAIN top : top[f] = haul[1].data[f]

BroughtHome ==
    /\ haul # <<>> /\ haul[1].type = "BOOKING"
    /\ haul[1].data.fare.carrier >= 0
    /\ \E n \in DOMAIN haul : haul[n].type = "DELIVERY"
    /\ ~Rebrokered /\ ~Disputed /\ KeysAreKept(haul)

LEMMA VerifiesIfHonest ==
    ASSUME HaulInv, NEW top, NEW head, \A h \in head : h = HeadOf(haul)
    PROVE  VerifyTransport(haul, crew, top, head) <=>
              /\ haul # <<>> /\ haul[1].type = "BOOKING"
              /\ haul[1].data.fare.carrier >= 0
              /\ Agrees(top)
              /\ ~Rebrokered /\ ~Disputed /\ KeysAreKept(haul)
<1> DEFINE b == haul[1].data
<1>1. CASE ~(haul # <<>> /\ haul[1].type = "BOOKING")
  BY <1>1 DEF VerifyTransport
<1>2. CASE haul # <<>> /\ haul[1].type = "BOOKING"
  <2>1. 1 \in DOMAIN haul
    <3>1. PICK S : haul \in Seq(S)
      BY DEF HaulInv, ChainInv, Chain
    <3> QED  BY <1>2, <3>1, EmptySeq, LenProperties
  <2>2. b.fare.price \in Int /\ b.fare.carrier \in Int /\ b.fare.carrier <= b.fare.price
    BY <1>2, <2>1 DEF HaulInv, Said, DealMade
  <2>3. b.fare.carrier \in 0 .. b.fare.price <=> b.fare.carrier >= 0
    BY <2>2
  <2>4. ChainHolds(haul, crew) <=> KeysAreKept(haul)
    BY ChainVerifies DEF HaulInv
  <2>5. ASSUME ChainHolds(haul, crew)
        PROVE  ~Rebrokered <=> \A n \in DOMAIN haul :
                   InCustody(haul[n]) => crew[haul[n].signer] = b.carrier.key
    <3>1. \A n \in DOMAIN haul : haul[n].sig[1] = crew[haul[n].signer]
      BY <2>5, ChainVerifies DEF HaulInv
    <3> QED  BY <3>1 DEF Rebrokered
  <2>6. VerifyTransport(haul, crew, top, head) <=>
           /\ Agrees(top) /\ b.fare.carrier \in 0 .. b.fare.price
           /\ ChainHolds(haul, crew)
           /\ \A n \in DOMAIN haul :
                 InCustody(haul[n]) => crew[haul[n].signer] = b.carrier.key
           /\ \A n \in DOMAIN haul :
                 haul[n].type = "DELIVERY" => AcceptanceHolds(haul, haul[n], b)
    BY <1>2, Zenon DEF VerifyTransport, Bound, Agrees
  <2> QED  BY <1>2, <2>3, <2>4, <2>5, <2>6, AcceptedAsReported
<1> QED  BY <1>1, <1>2

\* A top that leaves nothing out agrees with the first booking if it is the last,
\* and then every part of it does.
LEMMA WholeTopIsFirst ==
    ASSUME HaulInv, haul # <<>>, haul[1].type = "BOOKING", NEW kept \in SUBSET DOMAIN mirror
    PROVE  LET top == [f \in kept |-> mirror[f]]
           IN  /\ ~Rebooked => Agrees(top)
               /\ kept = DOMAIN mirror /\ Agrees(top) => ~Rebooked
<1> DEFINE top == [f \in kept |-> mirror[f]]
<1>1. ~Rebooked <=> mirror = haul[1].data
  BY TopIsFirst
<1>2. 1 \in DOMAIN haul
  <2>1. PICK S : haul \in Seq(S)
    BY DEF HaulInv, ChainInv, Chain
  <2> QED  BY <2>1, EmptySeq, LenProperties
<1>3. DealMade(haul[1].data) /\ DealMade(mirror)
  <2>1. \A n \in DOMAIN haul : haul[n].type = "BOOKING" => DealMade(haul[n].data)
    BY DEF HaulInv, Said
  <2> QED  BY <1>2, <2>1 DEF HaulInv, Mirrored
<1>4. PICK fst : fst = haul[1].data
  OBVIOUS
<1>5. mirror = fst <=> \A f \in DOMAIN mirror : mirror[f] = fst[f]
  <2>1. /\ mirror = [carrier |-> mirror.carrier, customer |-> mirror.customer, fare |-> mirror.fare]
        /\ fst = [carrier |-> fst.carrier, customer |-> fst.customer, fare |-> fst.fare]
    BY <1>3, <1>4 DEF DealMade, Agreement
  <2>2. DOMAIN mirror = {"carrier", "customer", "fare"}
    BY <2>1
  <2> QED  BY <2>1, <2>2
<1>6. Agrees(top) <=> \A f \in kept : mirror[f] = fst[f]
  BY <1>4 DEF Agrees
<1> QED  BY <1>1, <1>4, <1>5, <1>6

\* What a haul settles as, of what is shown of its top.
SettledAs(decision, kept) ==
    /\ decision.status = "RELEASED" => BroughtHome
    /\ BroughtHome /\ ~Rebooked => decision.status = "RELEASED"
    /\ decision.status = "RELEASED" /\ kept = DOMAIN mirror => ~Rebooked
    /\ decision.status = "RELEASED" =>
          /\ decision.to = haul[1].data.carrier.id
          /\ decision.carrier + decision.broker = haul[1].data.fare.price
          /\ decision.carrier >= 0 /\ decision.broker >= 0

LEMMA HaulInvSettles == HaulInv => HaulSettles
<1> SUFFICES ASSUME HaulInv, NEW kept \in SUBSET DOMAIN mirror,
                    NEW head \in SUBSET {HeadOf(haul)}
             PROVE  SettledAs(EscrowDecision(haul, crew, [f \in kept |-> mirror[f]], head), kept)
  BY Zenon DEF HaulSettles, BroughtHome, SettledAs
<1> DEFINE b == haul[1].data
           top == [f \in kept |-> mirror[f]]
           claim == ConditionAt(haul, LastOf(haul, "DELIVERY")) \ ConditionAt(haul, LastOf(haul, "PICKUP"))
           decision == EscrowDecision(haul, crew, top, head)
           arrived == VerifyTransport(haul, crew, top, head) /\ LastOf(haul, "DELIVERY") # 0
<1>1. \A h \in head : h = HeadOf(haul)
  OBVIOUS
<1>2. arrived <=> BroughtHome /\ Agrees(top)
  <2>1. PICK t : t = top
    OBVIOUS
  <2> HIDE DEF top
  <2> QED  BY <1>1, <2>1, VerifiesIfHonest, DeliveredOnce DEF BroughtHome
<1>3. BroughtHome => haul # <<>> /\ haul[1].type = "BOOKING"
  BY DEF BroughtHome
<1>4. ASSUME BroughtHome
      PROVE  /\ ~Rebooked => Agrees(top)
             /\ kept = DOMAIN mirror /\ Agrees(top) => ~Rebooked
  BY <1>3, <1>4, WholeTopIsFirst
<1>5. CASE ~arrived
  <2>1. decision.status # "RELEASED"
    BY <1>5 DEF EscrowDecision
  <2> HIDE DEF decision, arrived, top
  <2>2. SettledAs(decision, kept)
    BY <1>2, <1>4, <1>5, <2>1 DEF SettledAs
  <2> QED  BY <2>2 DEF decision, top
<1>6. CASE arrived
  <2>1. decision = [status |-> "RELEASED", to |-> b.carrier.id,
                    carrier |-> b.fare.carrier, broker |-> b.fare.price - b.fare.carrier,
                    claim |-> claim]
    BY <1>6 DEF EscrowDecision
  <2>2. 1 \in DOMAIN haul
    <3>1. PICK S : haul \in Seq(S)
      BY DEF HaulInv, ChainInv, Chain
    <3> QED  BY <1>2, <1>3, <1>6, <3>1, EmptySeq, LenProperties
  <2>3. /\ b.fare.price \in Int /\ b.fare.carrier \in Int /\ b.fare.carrier <= b.fare.price
        /\ b.fare.carrier >= 0
    BY <1>2, <1>3, <1>6, <2>2 DEF HaulInv, Said, DealMade, BroughtHome
  <2>4. /\ decision.status = "RELEASED" /\ decision.to = b.carrier.id
        /\ decision.carrier = b.fare.carrier
        /\ decision.broker = b.fare.price - b.fare.carrier
    <3> HIDE DEF decision, claim
    <3> QED  BY <2>1
  <2>5. decision.carrier + decision.broker = b.fare.price
        /\ decision.carrier >= 0 /\ decision.broker >= 0
    <3> HIDE DEF decision
    <3> QED  BY <2>3, <2>4
  <2> HIDE DEF decision, arrived, top
  <2>6. SettledAs(decision, kept)
    BY <1>2, <1>4, <1>6, <2>4, <2>5 DEF SettledAs
  <2> QED  BY <2>6 DEF decision, top
<1> QED  BY <1>5, <1>6

\* The escrow of a haul is paid out exactly if the carrier booked first had the
\* vehicle all the way and the booked customer accepts it as it is, whatever is
\* booked, picked up and handed over by whom and in which order, and whatever of its
\* unsigned top the document leaves out, and it is the price the broker signed first
\* (transport.py:8-14, 206-214, 312).
THEOREM HaulAlwaysSettles == HaulSpec => []HaulSettles
<1>1. HaulInit => HaulInv
  BY HaulStarts
<1>2. HaulInv /\ [HaulNext]_haulVars => HaulInv'
  BY HaulKeeps
<1>3. HaulInv => HaulSettles
  BY HaulInvSettles
<1> QED  BY <1>1, <1>2, <1>3, PTL DEF HaulSpec

-----------------------------------------------------------------------------
\* Shares of a token: the balances, what was retired and the writer's count for
\* each delivery, against the redemptions in the ledger.
Backed(ref) ==
    /\ UsedOf(ref) \in Nat /\ RedeemedFor(ref) = UsedOf(ref)
    /\ UsedOf(ref) > 0 =>
          \E n \in RedemptionsOf(ref) : UsedOf(ref) <= ledger[n].data.receipt.units

RedemptionsTyped == \A n \in DOMAIN ledger : ledger[n].type = "REDEEM" =>
    ledger[n].data.shares \in Nat /\ ledger[n].data.receipt.units \in Nat

SharesInv ==
    /\ balances \in [Wallets -> Nat] /\ retired \in Nat
    /\ IF ledger = <<>> THEN balances = [a \in Wallets |-> 0] /\ retired = 0
       ELSE SumOver(balances) + retired = Supply

TokenInv == Chain(ledger) /\ SharesInv /\ RedemptionsTyped /\ \A ref : Backed(ref)

LEMMA WalletsAreFinite ==
    /\ IsFiniteSet(Wallets) /\ Issuer.id \in Wallets
    /\ \A a \in Actors : a.id \in Wallets
    /\ \A to \in Recipients : to.account \in Wallets
<1>1. IsFiniteSet({a.id : a \in Actors})
  <2> DEFINE ids == {a.id : a \in Actors}
             idOf == [a \in Actors |-> a.id]
  <2>1. idOf \in [Actors -> ids] /\ \A i \in ids : \E a \in Actors : idOf[a] = i
    OBVIOUS
  <2>2. idOf \in Surjection(Actors, ids)
    BY <2>1 DEF Surjection
  <2> QED  BY <2>2, TokenAssumption, FS_Surjection
<1>2. IsFiniteSet(Wallets)
  BY <1>1, TokenAssumption, FS_Union, Zenon DEF Wallets
<1> QED  BY <1>2, TokenAssumption DEF Wallets, Recipients

LEMMA TokenStarts == Unissued => TokenInv
<1> SUFFICES ASSUME Unissued
             PROVE  TokenInv
  OBVIOUS
<1>1. ledger = <<>> /\ delivered = Nobody /\ DOMAIN ledger = {}
  BY DEF Unissued
<1>2. Chain(ledger)
  BY <1>1, EmptySeq DEF Chain
<1>3. SharesInv
  BY <1>1 DEF Unissued, SharesInv
<1>4. RedemptionsTyped
  BY <1>1 DEF RedemptionsTyped
<1>5. ASSUME NEW ref
      PROVE  Backed(ref)
  <2>1. UsedOf(ref) = 0
    BY <1>1 DEF UsedOf, Nobody
  <2>2. RedemptionsOf(ref) = {}
    BY <1>1 DEF RedemptionsOf
  <2>3. RedeemedFor(ref) = 0
    <3>1. RedeemedFor(ref) = SumOver([n \in {} |-> 0])
      BY <2>2 DEF RedeemedFor
    <3> QED  BY <3>1, SumOfZeros, FS_EmptySet, Zenon
  <2> QED  BY <2>1, <2>3 DEF Backed
<1> QED  BY <1>2, <1>3, <1>4, <1>5 DEF TokenInv

\* What one event more does to the ledger and to the redemptions in it.
LEMMA EmitAdds ==
    ASSUME Chain(ledger), NEW actor, NEW type, NEW data, Emit(actor, type, data)
    PROVE  /\ Chain(ledger') /\ Len(ledger) \in Nat /\ ledger' # <<>>
           /\ DOMAIN ledger = 1 .. Len(ledger) /\ DOMAIN ledger' = 1 .. (Len(ledger) + 1)
           /\ \A n \in 1 .. Len(ledger) : ledger'[n] = ledger[n]
           /\ ledger'[Len(ledger) + 1].type = type
           /\ ledger'[Len(ledger) + 1].data = data
           /\ ledger'[Len(ledger) + 1].signer = actor.id
<1> DEFINE e == Link(ledger, actor, type, data)
           t == Append(ledger, e)
<1>1. e.type = type /\ e.data = data /\ e.signer = actor.id
  BY DEF Link
<1>2. ledger' = t
  BY DEF Emit
<1> HIDE DEF e
<1>3. /\ Chain(t) /\ Len(ledger) \in Nat /\ Len(t) = Len(ledger) + 1
      /\ DOMAIN ledger = 1 .. Len(ledger) /\ DOMAIN t = 1 .. (Len(ledger) + 1)
      /\ \A n \in 1 .. Len(ledger) : t[n] = ledger[n]
      /\ t[Len(ledger) + 1] = e
  BY ChainAppend
<1> HIDE DEF t
<1>4. t # <<>>
  <2>1. Len(ledger) + 1 \in DOMAIN t
    BY <1>3
  <2> QED  BY <2>1
<1> QED  BY <1>1, <1>2, <1>3, <1>4

\* An event that is no redemption leaves the redemptions as they are.
LEMMA EmitOther ==
    ASSUME TokenInv, NEW actor, NEW type, NEW data, Emit(actor, type, data),
           type # "REDEEM", delivered' = delivered
    PROVE  RedemptionsTyped' /\ (\A ref : Backed(ref))'
<1> DEFINE L == Len(ledger)
<1>1. /\ L \in Nat /\ DOMAIN ledger = 1 .. L /\ DOMAIN ledger' = 1 .. (L + 1)
      /\ \A n \in 1 .. L : ledger'[n] = ledger[n]
      /\ ledger'[L + 1].type = type
  BY EmitAdds DEF TokenInv
<1> HIDE DEF L
<1>2. RedemptionsTyped'
  BY <1>1 DEF TokenInv, RedemptionsTyped
<1>3. ASSUME NEW ref
      PROVE  Backed(ref)'
  <2>1. RedemptionsOf(ref)' = RedemptionsOf(ref)
    BY <1>1 DEF RedemptionsOf
  <2>2. \A n \in RedemptionsOf(ref) : ledger'[n] = ledger[n]
    BY <1>1 DEF RedemptionsOf
  <2>3. RedeemedFor(ref)' = RedeemedFor(ref)
    <3>1. [n \in RedemptionsOf(ref)' |-> ledger'[n].data.shares]
             = [n \in RedemptionsOf(ref) |-> ledger[n].data.shares]
      BY <2>1, <2>2
    <3> QED  BY <3>1 DEF RedeemedFor
  <2>4. UsedOf(ref)' = UsedOf(ref)
    BY DEF UsedOf
  <2>5. Backed(ref)
    BY DEF TokenInv
  <2> QED  BY <2>1, <2>2, <2>3, <2>4, <2>5 DEF Backed
<1> QED  BY <1>2, <1>3

\* Moving shares makes none.
LEMMA MovedKeepsSum ==
    ASSUME NEW from \in Wallets, NEW to \in Wallets, NEW n \in Nat,
           NEW bal \in [Wallets -> Nat], bal[from] >= n
    PROVE  /\ Moved(bal, from, to, n) \in [Wallets -> Nat]
           /\ SumOver(Moved(bal, from, to, n)) = SumOver(bal)
<1>1. IsFiniteSet(Wallets)
  BY WalletsAreFinite
<1>2. PICK v \in Nat : v = bal[from] - n
  OBVIOUS
<1> DEFINE less == [bal EXCEPT ![from] = v]
<1>3. less \in [Wallets -> Nat] /\ less[from] = v /\ \A a \in Wallets \ {from} : less[a] = bal[a]
  OBVIOUS
<1>4. Moved(bal, from, to, n) = [less EXCEPT ![to] = @ + n]
  <2>1. less = [bal EXCEPT ![from] = bal[from] - n]
    BY <1>2
  <2> HIDE DEF less
  <2> QED  BY <2>1 DEF Moved
<1> HIDE DEF less
<1>5. PICK w \in Nat : w = less[to] + n
  BY <1>3
<1> DEFINE moved == [less EXCEPT ![to] = w]
<1>6. moved \in [Wallets -> Nat] /\ moved[to] = w /\ \A a \in Wallets \ {to} : moved[a] = less[a]
  BY <1>3
<1>7. Moved(bal, from, to, n) = moved
  BY <1>4, <1>5
<1> HIDE DEF moved
<1>8. SumOver(less) + bal[from] = SumOver(bal) + v
  BY <1>1, <1>3, SumsDiffer
<1>9. SumOver(moved) + less[to] = SumOver(less) + w
  BY <1>1, <1>3, <1>6, SumsDiffer
<1>10. SumOver(bal) \in Nat /\ SumOver(less) \in Nat /\ SumOver(moved) \in Nat
  BY <1>1, <1>3, <1>6, SumType
<1>11. bal[from] \in Nat /\ less[to] \in Nat
  BY <1>3
<1>12. SumOver(moved) = SumOver(bal)
  BY <1>2, <1>5, <1>8, <1>9, <1>10, <1>11
<1> QED  BY <1>6, <1>7, <1>12

\* A redemption adds as much to what was redeemed for a delivery as the writer
\* counts for it.
LEMMA RedemptionCounts ==
    ASSUME TokenInv, NEW holder, NEW n \in Nat \ {0}, NEW receipt, receipt.units \in Nat,
           UsedOf(receipt.ref) + n <= receipt.units, NEW data,
           data.shares = n, data.receipt = receipt, Emit(holder, "REDEEM", data),
           delivered' = [r \in DOMAIN delivered \union {receipt.ref} |->
                            IF r = receipt.ref THEN UsedOf(r) + n ELSE delivered[r]]
    PROVE  RedemptionsTyped' /\ (\A ref : Backed(ref))'
<1> DEFINE L == Len(ledger)
<1>1. /\ L \in Nat /\ DOMAIN ledger = 1 .. L /\ DOMAIN ledger' = 1 .. (L + 1)
      /\ \A m \in 1 .. L : ledger'[m] = ledger[m]
      /\ ledger'[L + 1].type = "REDEEM" /\ ledger'[L + 1].data = data
  BY EmitAdds DEF TokenInv
<1> HIDE DEF L
<1>2. RedemptionsTyped'
  BY <1>1 DEF TokenInv, RedemptionsTyped
<1>3. ASSUME NEW ref
      PROVE  Backed(ref)'
  <2> DEFINE old == RedemptionsOf(ref)
  <2>1. /\ old \subseteq 1 .. L /\ L + 1 \notin old
        /\ \A m \in old : ledger'[m] = ledger[m] /\ ledger[m].data.shares \in Nat
    BY <1>1 DEF RedemptionsOf, TokenInv, RedemptionsTyped
  <2>2. IsFiniteSet(old)
    <3>1. IsFiniteSet(1 .. L)
      BY <1>1, FS_Interval
    <3> QED  BY <2>1, <3>1, FS_Subset, Zenon
  <2>3. Backed(ref)
    BY DEF TokenInv
  <2>4. CASE ref = receipt.ref
    <3> DEFINE f == [m \in old \union {L + 1} |-> ledger'[m].data.shares]
    <3>1. RedemptionsOf(ref)' = old \union {L + 1}
      BY <1>1, <2>4 DEF RedemptionsOf
    <3>2. f \in [old \union {L + 1} -> Nat] /\ f[L + 1] = n
      BY <1>1, <2>1
    <3>3. Only(f, old) = [m \in old |-> ledger[m].data.shares]
      BY <2>1 DEF Only
    <3>4. RedeemedFor(ref)' = SumOver(f)
      BY <3>1 DEF RedeemedFor
    <3>5. RedeemedFor(ref) = SumOver(Only(f, old))
      BY <3>3 DEF RedeemedFor
    <3> HIDE DEF f, old
    <3>6. SumOver(f) = n + SumOver(Only(f, old))
      BY <2>1, <2>2, <3>2, SumOneMore, Zenon
    <3>7. UsedOf(ref)' = UsedOf(ref) + n
      BY <2>4 DEF UsedOf
    <3>8. L + 1 \in RedemptionsOf(ref)' /\ ledger'[L + 1].data.receipt.units = receipt.units
      BY <1>1, <3>1
    <3>9. UsedOf(ref) \in Nat /\ RedeemedFor(ref) = UsedOf(ref)
      BY <2>3 DEF Backed
    <3>10. /\ UsedOf(ref)' \in Nat /\ RedeemedFor(ref)' = UsedOf(ref)'
           /\ UsedOf(ref)' <= ledger'[L + 1].data.receipt.units
      BY <2>4, <3>4, <3>5, <3>6, <3>7, <3>8, <3>9
    <3> QED  BY <3>8, <3>10 DEF Backed
  <2>5. CASE ref # receipt.ref
    <3>1. RedemptionsOf(ref)' = old
      BY <1>1, <2>5 DEF RedemptionsOf
    <3>2. RedeemedFor(ref)' = RedeemedFor(ref)
      <4>1. [m \in RedemptionsOf(ref)' |-> ledger'[m].data.shares]
               = [m \in RedemptionsOf(ref) |-> ledger[m].data.shares]
        BY <2>1, <3>1
      <4> QED  BY <4>1 DEF RedeemedFor
    <3>3. UsedOf(ref)' = UsedOf(ref)
      BY <2>5 DEF UsedOf
    <3> QED  BY <2>1, <2>3, <3>1, <3>2, <3>3 DEF Backed
  <2> QED  BY <2>4, <2>5
<1> QED  BY <1>2, <1>3

\* A transfer or a sale.
LEMMA MoveKeeps ==
    ASSUME TokenInv, NEW sender \in Actors, NEW to \in Recipients, NEW n \in Nat,
           NEW type, type # "REDEEM", NEW data, Emit(sender, type, data),
           ledger # <<>>, balances[sender.id] >= n,
           balances' = Moved(balances, sender.id, to.account, n),
           UNCHANGED <<retired, delivered>>
    PROVE  TokenInv'
<1>1. sender.id \in Wallets /\ to.account \in Wallets
  BY WalletsAreFinite
<1>2. balances \in [Wallets -> Nat] /\ SumOver(balances) + retired = Supply
  BY DEF TokenInv, SharesInv
<1>3. balances' \in [Wallets -> Nat] /\ SumOver(balances') = SumOver(balances)
  BY <1>1, <1>2, MovedKeepsSum
<1>4. Chain(ledger') /\ ledger' # <<>>
  BY EmitAdds DEF TokenInv
<1>5. SharesInv'
  BY <1>2, <1>3, <1>4 DEF TokenInv, SharesInv
<1>6. RedemptionsTyped' /\ (\A ref : Backed(ref))'
  BY EmitOther
<1> QED  BY <1>4, <1>5, <1>6 DEF TokenInv

LEMMA RedeemKeeps ==
    ASSUME TokenInv, NEW holder \in Actors, NEW n \in Nat \ {0}, NEW receipt \in Receipts,
           Redeem(holder, n, receipt)
    PROVE  TokenInv'
<1>1. PICK data : data = [from |-> holder.id, shares |-> n, receipt |-> receipt]
  BY Zenon
<1>2. /\ data.shares = n /\ data.receipt = receipt /\ receipt.units \in Nat
      /\ Emit(holder, "REDEEM", data)
  BY <1>1, TokenAssumption, Zenon DEF Redeem, Receipts
<1>3. RedemptionsTyped' /\ (\A ref : Backed(ref))'
  BY <1>2, RedemptionCounts DEF Redeem
<1>4. Chain(ledger') /\ ledger' # <<>>
  BY <1>2, EmitAdds DEF TokenInv
<1>5. IsFiniteSet(Wallets) /\ holder.id \in Wallets
  BY WalletsAreFinite
<1>6. /\ balances \in [Wallets -> Nat] /\ retired \in Nat /\ balances[holder.id] >= n
      /\ SumOver(balances) + retired = Supply
      /\ retired' = retired + n
      /\ balances' = [balances EXCEPT ![holder.id] = @ - n]
  BY DEF TokenInv, SharesInv, Redeem
<1>7. /\ balances' \in [Wallets -> Nat] /\ balances'[holder.id] = balances[holder.id] - n
      /\ \A a \in Wallets \ {holder.id} : balances'[a] = balances[a]
  BY <1>5, <1>6
<1>8. SumOver(balances') + balances[holder.id] = SumOver(balances) + balances'[holder.id]
  <2>1. PICK x : x = holder.id
    OBVIOUS
  <2>2. PICK f, g : f = balances /\ g = balances'
    OBVIOUS
  <2>3. /\ f \in [Wallets -> Nat] /\ g \in [Wallets -> Nat] /\ x \in Wallets
        /\ \A a \in Wallets \ {x} : g[a] = f[a]
    BY <1>5, <1>6, <1>7, <2>1, <2>2
  <2>4. SumOver(g) + f[x] = SumOver(f) + g[x]
    BY <1>5, <2>3, SumsDiffer
  <2> QED  BY <2>1, <2>2, <2>4
<1>9. SumOver(balances') \in Nat /\ SumOver(balances) \in Nat /\ balances[holder.id] \in Nat
  BY <1>5, <1>6, <1>7, SumType, Zenon
<1>10. SumOver(balances') + retired' = Supply
  BY <1>6, <1>7, <1>8, <1>9
<1>11. SharesInv'
  BY <1>4, <1>6, <1>7, <1>10 DEF SharesInv
<1> QED  BY <1>3, <1>4, <1>11 DEF TokenInv

LEMMA IssueKeeps ==
    ASSUME TokenInv, Issue
    PROVE  TokenInv'
<1>1. PICK data : Emit(Issuer, "ISSUE", data)
  BY DEF Issue
<1>2. Chain(ledger') /\ ledger' # <<>>
  BY <1>1, EmitAdds DEF TokenInv
<1>3. RedemptionsTyped' /\ (\A ref : Backed(ref))'
  BY <1>1, EmitOther DEF Issue
<1>4. IsFiniteSet(Wallets) /\ Issuer.id \in Wallets
  BY WalletsAreFinite
<1>5. /\ balances = [a \in Wallets |-> 0] /\ retired = 0 /\ retired' = 0
      /\ balances' = [balances EXCEPT ![Issuer.id] = Supply]
  BY DEF TokenInv, SharesInv, Issue
<1>6. /\ balances \in [Wallets -> Nat] /\ balances' \in [Wallets -> Nat]
      /\ balances[Issuer.id] = 0 /\ balances'[Issuer.id] = Supply
      /\ \A a \in Wallets \ {Issuer.id} : balances'[a] = balances[a]
  BY <1>4, <1>5, TokenAssumption
<1>7. SumOver(balances) = 0
  BY <1>4, <1>5, SumOfZeros
<1>8. SumOver(balances') + balances[Issuer.id] = SumOver(balances) + balances'[Issuer.id]
  BY <1>4, <1>6, SumsDiffer
<1>9. SumOver(balances') \in Nat
  BY <1>4, <1>6, SumType
<1>10. SumOver(balances') + retired' = Supply
  BY <1>5, <1>6, <1>7, <1>8, <1>9, TokenAssumption
<1>11. SharesInv'
  BY <1>2, <1>5, <1>6, <1>10 DEF SharesInv
<1> QED  BY <1>2, <1>3, <1>11 DEF TokenInv

LEMMA TokenKeeps == TokenInv /\ [TokenNext]_<<passportVars, tokenVars>> => TokenInv'
<1> SUFFICES ASSUME TokenInv, [TokenNext]_<<passportVars, tokenVars>>
             PROVE  TokenInv'
  OBVIOUS
<1>1. CASE UNCHANGED tokenVars
  <2>1. UNCHANGED <<ledger, balances, retired, delivered>>
    BY <1>1 DEF tokenVars
  <2>2. Chain(ledger')
    BY <2>1 DEF TokenInv
  <2>3. SharesInv' /\ RedemptionsTyped'
    BY <2>1 DEF TokenInv, SharesInv, RedemptionsTyped
  <2>4. ASSUME NEW ref
        PROVE  Backed(ref)'
    <3>1. UsedOf(ref)' = UsedOf(ref) /\ RedemptionsOf(ref)' = RedemptionsOf(ref)
          /\ RedeemedFor(ref)' = RedeemedFor(ref)
      BY <2>1 DEF UsedOf, RedemptionsOf, RedeemedFor
    <3>2. Backed(ref)
      BY DEF TokenInv
    <3> QED  BY <2>1, <3>1, <3>2 DEF Backed
  <2> QED  BY <2>2, <2>3, <2>4 DEF TokenInv
<1>2. CASE Issue
  BY <1>2, IssueKeeps
<1>3. ASSUME NEW actor \in Actors, NEW n \in 1 .. Supply, NEW to \in Recipients,
             Transfer(actor, to, n)
      PROVE  TokenInv'
  <2>1. PICK data : Emit(actor, "TRANSFER", data)
    BY <1>3 DEF Transfer
  <2> QED  BY <1>3, <2>1, MoveKeeps, TokenAssumption DEF Transfer
<1>4. ASSUME NEW actor \in Actors, NEW n \in 1 .. Supply, NEW to \in Recipients,
             NEW price \in SharePrices, NEW royalty \in Royalties,
             Sell(actor, to, n, price, royalty)
      PROVE  TokenInv'
  <2>1. PICK data : Emit(actor, "SALE", data)
    BY <1>4 DEF Sell
  <2> QED  BY <1>4, <2>1, MoveKeeps, TokenAssumption DEF Sell
<1>5. ASSUME NEW actor \in Actors, NEW n \in 1 .. Supply, NEW receipt \in Receipts,
             Redeem(actor, n, receipt)
      PROVE  TokenInv'
  BY <1>5, RedeemKeeps, TokenAssumption
<1>6. CASE TokenStep
  BY <1>2, <1>3, <1>4, <1>5, <1>6 DEF TokenStep
<1>7. TokenStep \/ UNCHANGED tokenVars
  BY DEF TokenNext, tokenVars, passportVars
<1> QED  BY <1>1, <1>6, <1>7

LEMMA TokenInvAccounts == TokenInv => SharesAreAccountedFor
<1> SUFFICES ASSUME TokenInv
             PROVE  SharesAreAccountedFor
  OBVIOUS
<1>1. \A a \in Wallets : balances[a] >= 0
  BY DEF TokenInv, SharesInv
<1>2. Issued => SumOver(balances) + retired = Supply
  BY DEF TokenInv, SharesInv, Issued
<1>3. ASSUME NEW ref \in Deliveries
      PROVE  RedeemedFor(ref) <=
                Max({0} \union {ledger[n].data.receipt.units : n \in RedemptionsOf(ref)})
  <2> DEFINE old == RedemptionsOf(ref)
             attested == {ledger[n].data.receipt.units : n \in old}
             attests == [n \in old |-> ledger[n].data.receipt.units]
             all == {0} \union attested
  <2>1. attested \subseteq Nat
    BY DEF RedemptionsOf, TokenInv, RedemptionsTyped
  <2>2. IsFiniteSet(old)
    <3>1. PICK S : ledger \in Seq(S)
      BY DEF TokenInv, Chain
    <3>2. Len(ledger) \in Nat /\ DOMAIN ledger = 1 .. Len(ledger)
      BY <3>1, LenProperties
    <3>3. IsFiniteSet(DOMAIN ledger)
      BY <3>2, FS_Interval
    <3>4. old \subseteq DOMAIN ledger
      BY DEF RedemptionsOf
    <3> HIDE DEF old
    <3> QED  BY <3>3, <3>4, FS_Subset
  <2>3. IsFiniteSet(attested)
    <3>1. attests \in [old -> attested] /\ \A u \in attested : \E n \in old : attests[n] = u
      OBVIOUS
    <3>2. attests \in Surjection(old, attested)
      <4> HIDE DEF attests, attested
      <4> QED  BY <3>1 DEF Surjection
    <3> HIDE DEF attests, attested, old
    <3> QED  BY <2>2, <3>2, FS_Surjection
  <2>4. IsFiniteSet(all)
    <3>1. IsFiniteSet({0})
      BY FS_Singleton
    <3> HIDE DEF attested
    <3> QED  BY <2>3, <3>1, FS_Union, Zenon
  <2>5. all \subseteq Nat /\ 0 \in all
    <3> HIDE DEF attested
    <3> QED  BY <2>1
  <2>6. /\ UsedOf(ref) \in Nat /\ RedeemedFor(ref) = UsedOf(ref)
        /\ UsedOf(ref) > 0 => \E u \in all : UsedOf(ref) <= u
    BY Zenon DEF TokenInv, Backed
  <2> HIDE DEF all
  <2>7. \A u \in all : u <= Max(all) /\ Max(all) \in Nat
    <3>1. all \subseteq Int /\ all # {}
      BY <2>5
    <3>2. Max(all) \in all /\ \A u \in all : Max(all) >= u
      BY <2>4, <3>1, MaxOfFinite, Zenon
    <3>3. Max(all) \in Nat
      BY <2>5, <3>2, Zenon
    <3> QED  BY <2>5, <3>2, <3>3
  <2>8. RedeemedFor(ref) <= Max(all)
    BY <2>5, <2>6, <2>7
  <2> QED  BY <2>8 DEF all
<1> QED  BY <1>1, <1>2, <1>3 DEF SharesAreAccountedFor

\* However shares are issued, moved, sold and redeemed, there are as many of them
\* as were issued, nobody owes any, and for one delivery no more are redeemed
\* than the largest receipt for it attests (token.py:276).
THEOREM SharesAlwaysAccountedFor == TokenSpec => []SharesAreAccountedFor
<1>1. PassportInit /\ Unissued => TokenInv
  BY TokenStarts
<1>2. TokenInv /\ [TokenNext]_<<passportVars, tokenVars>> => TokenInv'
  BY TokenKeeps
<1>3. TokenInv => SharesAreAccountedFor
  BY TokenInvAccounts
<1> QED  BY <1>1, <1>2, <1>3, PTL DEF TokenSpec

-----------------------------------------------------------------------------
\* The proceeds of a sale.  What the token is told of the passport's split is
\* what verify_passport asks of one: the token itself does not look.
Divides(split, accounts) ==
    /\ split \in Seq([account : accounts, bps : Nat]) /\ split # <<>>
    /\ BpsOf(split) <= Whole
SplitHolds == \E accounts : Divides(ValueSplit, accounts)

Beneficiaries == {ValueSplit[i].account : i \in DOMAIN ValueSplit}
LegsFor(accounts) == Seq([account : accounts, cents : Nat])

LEMMA PartBound ==
    ASSUME NEW amount \in Nat, NEW bps \in Nat
    PROVE  Part(amount, bps) \in Nat /\ Whole * Part(amount, bps) <= amount * bps
<1>1. PICK product \in Nat : product = amount * bps
  OBVIOUS
<1>2. product \div Whole \in Nat /\ Whole * (product \div Whole) <= product
  BY WholeAssumption
<1> QED  BY <1>1, <1>2 DEF Part

LEMMA SplitHasParts ==
    ASSUME NEW accounts, NEW split, Divides(split, accounts)
    PROVE  /\ \E k \in Nat \ {0} : DOMAIN split = 1 .. k
           /\ IsFiniteSet(DOMAIN split)
           /\ \A i \in DOMAIN split : split[i].account \in accounts /\ split[i].bps \in Nat
<1>1. split \in Seq([account : accounts, bps : Nat]) /\ split # <<>>
  BY DEF Divides
<1>2. PICK k \in Nat \ {0} : DOMAIN split = 1 .. k
  BY <1>1, EmptySeq, LenProperties
<1>3. IsFiniteSet(DOMAIN split)
  BY <1>2, FS_Interval
<1>4. \A i \in DOMAIN split : split[i] \in [account : accounts, bps : Nat]
  BY <1>1, ElementOfSeq, LenProperties, Zenon
<1> QED  BY <1>2, <1>3, <1>4

LEMMA RouteConserves ==
    ASSUME NEW accounts, NEW split, Divides(split, accounts), NEW amount \in Nat
    PROVE  /\ Route(amount, split) \in LegsFor(accounts)
           /\ CentsOf(Route(amount, split)) = amount
<1> DEFINE D == DOMAIN split
           b == [i \in D |-> split[i].bps]
           c == [i \in D |-> Part(amount, split[i].bps)]
           wholes == [i \in D |-> Whole * c[i]]
           dues == [i \in D |-> amount * b[i]]
<1>1. PICK k \in Nat \ {0} : D = 1 .. k
  BY SplitHasParts
<1>2. /\ IsFiniteSet(D) /\ 1 \in D
      /\ \A i \in D : split[i].account \in accounts /\ split[i].bps \in Nat
  BY <1>1, SplitHasParts
<1>3. /\ b \in [D -> Nat] /\ c \in [D -> Nat]
      /\ \A i \in D : c[i] = Part(amount, split[i].bps) /\ Whole * c[i] <= amount * b[i]
  BY <1>2, PartBound, Zenon
<1>4. SumOver(b) = BpsOf(split)
  BY DEF BpsOf
<1> HIDE DEF b, c
<1>5. \A i \in D : Whole * c[i] \in Nat /\ amount * b[i] \in Nat
  BY <1>3, WholeAssumption
<1>6. /\ wholes \in [D -> Nat] /\ dues \in [D -> Nat]
      /\ \A i \in D : wholes[i] <= dues[i]
  BY <1>3, <1>5
<1>7. SumOver(wholes) = Whole * SumOver(c) /\ SumOver(dues) = amount * SumOver(b)
  BY <1>2, <1>3, SumScaled, WholeAssumption
<1> HIDE DEF wholes, dues
<1>8. SumOver(wholes) <= SumOver(dues)
  BY <1>2, <1>6, SumMonotone
<1>9. PICK total \in Nat, bps \in Nat : total = SumOver(c) /\ bps = SumOver(b)
  BY <1>2, <1>3, SumType
<1>10. total <= amount
  <2>1. Whole * total <= amount * bps /\ bps <= Whole
    BY <1>4, <1>7, <1>8, <1>9 DEF Divides
  <2>2. amount * bps <= amount * Whole
    BY <2>1, WholeAssumption
  <2>3. Whole * total <= Whole * amount
    BY <2>1, <2>2, WholeAssumption
  <2> QED  BY <2>3, WholeAssumption
<1> DEFINE floored == [i \in D |-> [account |-> split[i].account,
                                    cents |-> Part(amount, split[i].bps)]]
           r == Route(amount, split)
           rc == [i \in D |-> r[i].cents]
<1>11. CentsOf(floored) = total
  <2>1. c = [i \in DOMAIN floored |-> floored[i].cents]
    BY <1>3 DEF c
  <2> QED  BY <1>9, <2>1 DEF CentsOf
<1>12. /\ DOMAIN floored = D /\ floored # <<>> /\ floored = [i \in D |-> floored[i]]
       /\ \A i \in D : floored[i] = [account |-> split[i].account, cents |-> c[i]]
  BY <1>2, <1>3
<1>13. r = [floored EXCEPT ![1].cents = @ + amount - CentsOf(floored)]
  <2>1. r = IF floored = <<>> THEN floored
            ELSE [floored EXCEPT ![1].cents = @ + amount - CentsOf(floored)]
    BY DEF Route
  <2> HIDE DEF r, floored
  <2> QED  BY <1>12, <2>1
<1> HIDE DEF floored, r
<1>14. PICK first \in Nat : first = c[1] + amount - total
  BY <1>2, <1>3, <1>10
<1>15. r = [floored EXCEPT ![1].cents = first]
  <2>1. floored[1].cents = c[1]
    BY <1>2, <1>12
  <2>2. floored[1].cents + amount - CentsOf(floored) = first
    BY <1>11, <1>14, <2>1
  <2> QED  BY <1>13, <2>2, Zenon
<1>16. /\ DOMAIN r = D /\ r[1] = [account |-> split[1].account, cents |-> first]
       /\ \A i \in D \ {1} : r[i] = [account |-> split[i].account, cents |-> c[i]]
  BY <1>2, <1>12, <1>15
<1>17. rc \in [D -> Nat] /\ rc[1] = first /\ \A i \in D \ {1} : rc[i] = c[i]
  BY <1>2, <1>3, <1>16
<1>18. CentsOf(r) = SumOver(rc)
  BY <1>16 DEF CentsOf
<1> HIDE DEF rc
<1>19. SumOver(rc) + c[1] = SumOver(c) + rc[1]
  BY <1>2, <1>3, <1>17, SumsDiffer
<1>20. SumOver(rc) \in Nat /\ c[1] \in Nat
  BY <1>2, <1>3, <1>17, SumType
<1>21. CentsOf(r) = amount
  <2>1. PICK x \in Nat, y \in Nat : x = c[1] /\ y = SumOver(rc)
    BY <1>20
  <2>2. first = x + amount - total /\ y + x = total + first
    BY <1>9, <1>14, <1>17, <1>19, <2>1
  <2>3. y = amount
    BY <2>2
  <2> QED  BY <1>18, <2>1, <2>3
<1>22. r \in LegsFor(accounts)
  <2>1. r = [i \in 1 .. k |-> r[i]]
    <3>1. r = [i \in D |-> r[i]]
      BY <1>12, <1>15, Zenon
    <3> QED  BY <1>1, <3>1
  <2>2. \A i \in 1 .. k : r[i] \in [account : accounts, cents : Nat]
    <3>1. \A i \in D : c[i] \in Nat /\ split[i].account \in accounts
      BY <1>2, <1>3
    <3>2. r[1] \in [account : accounts, cents : Nat]
      BY <1>2, <1>16, <3>1
    <3>3. \A i \in D \ {1} : r[i] \in [account : accounts, cents : Nat]
      BY <1>16, <3>1
    <3> QED  BY <1>1, <3>2, <3>3
  <2>3. r \in [1 .. k -> [account : accounts, cents : Nat]]
    BY <2>1, <2>2
  <2> QED  BY <2>3, SeqDef, ZenonT(30) DEF LegsFor
<1> QED  BY <1>21, <1>22 DEF r

\* The split of a token, to its own accounts.
LEMMA ValueIsRouted ==
    ASSUME SplitHolds
    PROVE  /\ Divides(ValueSplit, Beneficiaries) /\ IsFiniteSet(Beneficiaries)
           /\ \A amount \in Nat : /\ Route(amount, ValueSplit) \in LegsFor(Beneficiaries)
                                   /\ CentsOf(Route(amount, ValueSplit)) = amount
<1>1. PICK accounts : Divides(ValueSplit, accounts)
  BY DEF SplitHolds
<1>2. PICK k \in Nat \ {0} : DOMAIN ValueSplit = 1 .. k
  BY <1>1, SplitHasParts
<1>3. ValueSplit \in [1 .. k -> [account : Beneficiaries, bps : Nat]]
  <2>1. ValueSplit \in Seq([account : accounts, bps : Nat])
    BY <1>1 DEF Divides
  <2>2. PICK T : T = [account : accounts, bps : Nat] /\ ValueSplit \in [1 .. k -> T]
    <3>1. PICK T : T = [account : accounts, bps : Nat]
      OBVIOUS
    <3>2. ValueSplit \in Seq(T)
      BY <2>1, <3>1
    <3>3. PICK m \in Nat : ValueSplit \in [1 .. m -> T]
      BY <3>2, SeqDef
    <3> QED  BY <1>2, <3>1, <3>3
  <2>3. \A i \in 1 .. k : ValueSplit[i] \in [account : Beneficiaries, bps : Nat]
    BY <1>2, <2>2 DEF Beneficiaries
  <2> QED  BY <2>2, <2>3
<1>4. Divides(ValueSplit, Beneficiaries)
  <2>1. PICK T : T = [account : Beneficiaries, bps : Nat]
    OBVIOUS
  <2>2. k \in Nat /\ ValueSplit \in [1 .. k -> T]
    BY <1>3, <2>1
  <2>3. Seq(T) = UNION {[1 .. n -> T] : n \in Nat}
    BY SeqDef
  <2>4. ValueSplit \in Seq(T)
    BY <2>2, <2>3
  <2> QED  BY <1>1, <2>1, <2>4 DEF Divides
<1>5. IsFiniteSet(Beneficiaries)
  <2> DEFINE to == [i \in DOMAIN ValueSplit |-> ValueSplit[i].account]
  <2>1. to \in Surjection(DOMAIN ValueSplit, Beneficiaries)
    BY DEF Beneficiaries, Surjection
  <2> HIDE DEF to
  <2>2. IsFiniteSet(DOMAIN ValueSplit)
    BY <1>1, SplitHasParts
  <2> QED  BY <2>1, <2>2, FS_Surjection
<1> QED  BY <1>4, <1>5, RouteConserves

LEMMA LegsForMore ==
    ASSUME NEW P, NEW Q, P \subseteq Q
    PROVE  LegsFor(P) \subseteq LegsFor(Q)
<1>1. PICK S, T : S = [account : P, cents : Nat] /\ T = [account : Q, cents : Nat]
  BY Zenon
<1>2. S \subseteq T
  BY <1>1
<1>3. Seq(S) \subseteq Seq(T)
  BY <1>2, SeqMonotonic
<1> QED  BY <1>1, <1>3, Zenon DEF LegsFor

LEMMA LegsAreSummed ==
    ASSUME NEW accounts, NEW ls \in LegsFor(accounts)
    PROVE  /\ Len(ls) \in Nat /\ DOMAIN ls = 1 .. Len(ls) /\ IsFiniteSet(DOMAIN ls)
           /\ \A i \in DOMAIN ls : ls[i].account \in accounts /\ ls[i].cents \in Nat
           /\ [i \in DOMAIN ls |-> ls[i].cents] \in [DOMAIN ls -> Nat]
<1>1. Len(ls) \in Nat /\ DOMAIN ls = 1 .. Len(ls)
  BY LenProperties DEF LegsFor
<1>2. \A i \in DOMAIN ls : ls[i] \in [account : accounts, cents : Nat]
  BY <1>1, ElementOfSeq, Zenon DEF LegsFor
<1>3. IsFiniteSet(DOMAIN ls)
  BY <1>1, FS_Interval
<1> QED  BY <1>1, <1>2, <1>3

\* What legs pay is what their accounts are paid.
LEMMA PaidInAccounts ==
    ASSUME NEW accounts, IsFiniteSet(accounts), NEW ls, IsFiniteSet(DOMAIN ls),
           \A i \in DOMAIN ls : ls[i].account \in accounts /\ ls[i].cents \in Nat
    PROVE  /\ SumOver([a \in accounts |-> CentsTo(ls, a)]) = CentsOf(ls)
           /\ \A a \in accounts : CentsTo(ls, a) \in Nat
<1> DEFINE D == DOMAIN ls
           f == [i \in D |-> ls[i].cents]
           key == [i \in D |-> ls[i].account]
<1>1. IsFiniteSet(D) /\ f \in [D -> Nat] /\ key \in [D -> accounts]
  OBVIOUS
<1>2. ASSUME NEW a
      PROVE  CentsTo(ls, a) = SumOver(Only(f, {i \in D : key[i] = a}))
  <2>1. [i \in LegsTo(ls, a) |-> ls[i].cents] = Only(f, {i \in D : key[i] = a})
    BY DEF LegsTo, Only
  <2> QED  BY <2>1 DEF CentsTo
<1>3. CentsOf(ls) = SumOver(f)
  BY DEF CentsOf
<1> HIDE DEF D, f, key
<1>4. SumOver([a \in accounts |-> SumOver(Only(f, {i \in D : key[i] = a}))]) = SumOver(f)
  BY <1>1, SumByKey
<1>5. [a \in accounts |-> CentsTo(ls, a)]
         = [a \in accounts |-> SumOver(Only(f, {i \in D : key[i] = a}))]
  BY <1>2
<1>6. ASSUME NEW a \in accounts
      PROVE  CentsTo(ls, a) \in Nat
  <2>1. {i \in D : key[i] = a} \in SUBSET D
    OBVIOUS
  <2>2. SumOver(Only(f, {i \in D : key[i] = a})) \in Nat
    BY <1>1, <2>1, SumOfPart
  <2> QED  BY <1>2, <2>2
<1> QED  BY <1>3, <1>4, <1>5, <1>6, Zenon

LEMMA PaidByAccount ==
    ASSUME NEW accounts, IsFiniteSet(accounts), NEW ls \in LegsFor(accounts)
    PROVE  /\ SumOver([a \in accounts |-> CentsTo(ls, a)]) = CentsOf(ls)
           /\ \A a \in accounts : CentsTo(ls, a) \in Nat
<1>1. /\ IsFiniteSet(DOMAIN ls)
      /\ \A i \in DOMAIN ls : ls[i].account \in accounts /\ ls[i].cents \in Nat
  BY LegsAreSummed
<1> QED  BY <1>1, PaidInAccounts

\* One leg more.
LEMMA LegMore ==
    ASSUME NEW accounts, NEW ls \in LegsFor(accounts), NEW leg,
           leg \in [account : accounts, cents : Nat]
    PROVE  /\ Append(ls, leg) \in LegsFor(accounts)
           /\ CentsOf(Append(ls, leg)) = CentsOf(ls) + leg.cents
           /\ CentsTo(Append(ls, leg), leg.account) >= leg.cents
<1> DEFINE t == Append(ls, leg)
           D == DOMAIN ls
           last == Len(ls) + 1
           f == [i \in D \union {last} |-> t[i].cents]
           his == LegsTo(t, leg.account)
<1>1. /\ Len(ls) \in Nat /\ D = 1 .. Len(ls) /\ IsFiniteSet(D)
      /\ \A i \in D : ls[i].cents \in Nat
  BY LegsAreSummed
<1>2. t \in LegsFor(accounts)
  BY AppendProperties DEF LegsFor
<1>3. /\ DOMAIN t = D \union {last} /\ last \notin D /\ t[last] = leg
      /\ \A i \in D : t[i] = ls[i]
  <2>1. /\ Len(t) = Len(ls) + 1 /\ t[last] = leg
        /\ \A i \in 1 .. Len(ls) : t[i] = ls[i]
    BY AppendProperties DEF LegsFor
  <2>2. DOMAIN t = 1 .. Len(t)
    BY <1>2, LegsAreSummed
  <2> HIDE DEF t
  <2> QED  BY <1>1, <2>1, <2>2
<1> HIDE DEF t
<1>4. /\ f \in [D \union {last} -> Nat] /\ f[last] = leg.cents
      /\ Only(f, D) = [i \in D |-> ls[i].cents]
  BY <1>1, <1>3 DEF Only
<1>5. CentsOf(t) = SumOver(f) /\ CentsOf(ls) = SumOver(Only(f, D))
  BY <1>3, <1>4 DEF CentsOf
<1>6. his \in SUBSET (D \union {last}) /\ {last} \in SUBSET his
  BY <1>3 DEF LegsTo
<1>7. CentsTo(t, leg.account) = SumOver(Only(f, his))
  <2>1. [i \in his |-> t[i].cents] = Only(f, his)
    BY <1>6 DEF Only
  <2> HIDE DEF f
  <2> QED  BY <2>1 DEF CentsTo
<1> HIDE DEF D, last, f, his
<1>8. SumOver(f) = f[last] + SumOver(Only(f, D))
  BY <1>1, <1>3, <1>4, SumOneMore, Zenon
<1>9. IsFiniteSet(D \union {last})
  BY <1>1, FS_AddElement, Zenon
<1>10. SumOver(Only(f, {last})) <= SumOver(Only(f, his))
  <2>1. PICK S : S = D \union {last}
    BY Zenon
  <2> QED  BY <1>4, <1>6, <1>9, <2>1, SumOfParts
<1>11. SumOver(Only(f, {last})) = f[last]
  <2>1. PICK S : S = D \union {last}
    BY Zenon
  <2>2. /\ IsFiniteSet(S) /\ f \in [S -> Nat] /\ {last} \in SUBSET S /\ {last} \ {last} = {}
        /\ f[last] \in Nat
    BY <1>4, <1>9, <2>1
  <2>3. SumOver(Only(f, {last})) = f[last] + SumOver(Only(f, {last} \ {last}))
    BY <2>2, SumRemove
  <2>4. SumOver(Only(f, {})) = 0
    BY <2>2, SumOfNone
  <2>5. Only(f, {last} \ {last}) = Only(f, {})
    BY <2>2
  <2> QED  BY <2>2, <2>3, <2>4, <2>5
<1>12. SumOver(Only(f, D)) \in Nat /\ leg.cents \in Nat
       /\ SumOver(Only(f, his)) \in Nat
  <2>1. PICK S : S = D \union {last}
    BY Zenon
  <2>2. D \in SUBSET S /\ his \in SUBSET S /\ f \in [S -> Nat] /\ IsFiniteSet(S)
    BY <1>4, <1>6, <1>9, <2>1
  <2> QED  BY <2>2, SumOfPart
<1>13. /\ CentsOf(t) = CentsOf(ls) + leg.cents
       /\ CentsTo(t, leg.account) >= leg.cents
  BY <1>4, <1>5, <1>7, <1>8, <1>10, <1>11, <1>12
<1> QED  BY <1>2, <1>13 DEF t

\* What SalesArePaid says of a sale.
PaidTo(ls, accounts) == SumOver([a \in accounts |-> CentsTo(ls, a)])
SalePaid(e) ==
    /\ e.data.price \in Nat /\ e.data.legs \in LegsFor(Beneficiaries \union Wallets)
    /\ CentsOf(e.data.legs) = e.data.price
    /\ e.signer = Issuer.id => PaidTo(e.data.legs, Beneficiaries) = e.data.price
    /\ e.signer # Issuer.id =>
          /\ PaidTo(e.data.legs, Beneficiaries \union {e.signer}) = e.data.price
          /\ PaidTo(e.data.legs, {e.signer}) * Whole
                >= e.data.price * (Whole - e.data.royalty)

LEMMA ResaleIsPaid ==
    ASSUME SplitHolds, NEW price \in Nat, NEW royalty \in 0 .. Whole, NEW seller
    PROVE  LET ls == SaleLegs(price, FALSE, royalty, seller)
           IN  /\ ls \in LegsFor(Beneficiaries \union {seller}) /\ CentsOf(ls) = price
               /\ PaidTo(ls, Beneficiaries \union {seller}) = price
               /\ PaidTo(ls, {seller}) * Whole >= price * (Whole - royalty)
<1> DEFINE ls == SaleLegs(price, FALSE, royalty, seller)
           accounts == Beneficiaries \union {seller}
<1>1. PICK due \in Nat : due = Part(price, royalty) /\ Whole * due <= price * royalty
  <2>1. royalty \in Nat
    BY WholeAssumption
  <2> QED  BY <2>1, PartBound, Zenon
<1>2. due <= price
  <2>1. price * royalty <= price * Whole
    BY WholeAssumption
  <2>2. Whole * due <= Whole * price
    BY <1>1, <2>1, WholeAssumption
  <2> QED  BY <2>2, WholeAssumption
<1> DEFINE back == IF due > 0 THEN Route(due, ValueSplit) ELSE <<>>
           leg == [account |-> seller, cents |-> price - due]
<1>3. ls = Append(back, leg)
  BY <1>1 DEF SaleLegs
<1>4. back \in LegsFor(accounts) /\ CentsOf(back) = due
  <2>1. CASE due > 0
    <3>1. Route(due, ValueSplit) \in LegsFor(Beneficiaries) /\ CentsOf(Route(due, ValueSplit)) = due
      BY ValueIsRouted
    <3>2. [account : Beneficiaries, cents : Nat] \subseteq [account : accounts, cents : Nat]
      OBVIOUS
    <3>3. LegsFor(Beneficiaries) \subseteq LegsFor(accounts)
      <4>1. ASSUME NEW s \in LegsFor(Beneficiaries)
            PROVE  s \in LegsFor(accounts)
        <5>1. PICK n \in Nat : s \in [1 .. n -> [account : Beneficiaries, cents : Nat]]
          BY LenProperties, Zenon DEF LegsFor
        <5>2. PICK T : T = [account : accounts, cents : Nat]
          BY Zenon
        <5>3. s \in [1 .. n -> T]
          BY <3>2, <5>1, <5>2
        <5>4. s \in Seq(T)
          BY <5>3, SeqDef
        <5> QED  BY <5>2, <5>4 DEF LegsFor
      <4> QED  BY <4>1
    <3> QED  BY <2>1, <3>1, <3>3
  <2>2. CASE due = 0
    <3>1. back = <<>> /\ <<>> \in LegsFor(accounts)
      BY <2>2, EmptySeq DEF LegsFor
    <3>2. CentsOf(<<>>) = SumOver([i \in {} |-> 0])
      BY DEF CentsOf
    <3>3. SumOver([i \in {} |-> 0]) = 0
      BY SumOfZeros, FS_EmptySet, Zenon
    <3> HIDE DEF back
    <3> QED  BY <2>2, <3>1, <3>2, <3>3
  <2> QED  BY <2>1, <2>2
<1>5. leg \in [account : accounts, cents : Nat] /\ leg.account = seller /\ leg.cents = price - due
  BY <1>2
<1> HIDE DEF ls, back, leg
<1>6. /\ ls \in LegsFor(accounts) /\ CentsOf(ls) = due + (price - due)
      /\ CentsTo(ls, seller) >= price - due
  BY <1>3, <1>4, <1>5, LegMore
<1>7. CentsOf(ls) = price
  BY <1>2, <1>6
<1>8. IsFiniteSet(accounts)
  BY ValueIsRouted, FS_AddElement
<1>9. PaidTo(ls, accounts) = price /\ CentsTo(ls, seller) \in Nat
  <2>1. seller \in accounts
    OBVIOUS
  <2> HIDE DEF accounts
  <2> QED  BY <1>6, <1>7, <1>8, <2>1, PaidByAccount DEF PaidTo
<1>10. PaidTo(ls, {seller}) = CentsTo(ls, seller)
  <2> DEFINE g == [a \in {seller} |-> CentsTo(ls, a)]
  <2>1. g \in [{seller} -> Nat] /\ g[seller] = CentsTo(ls, seller)
    BY <1>9
  <2>2. Only(g, {seller}) = g /\ {seller} \ {seller} = {}
    BY DEF Only
  <2>3. IsFiniteSet({seller})
    BY FS_Singleton
  <2> HIDE DEF g
  <2>4. SumOver(Only(g, {seller})) = g[seller] + SumOver(Only(g, {seller} \ {seller}))
    BY <2>1, <2>3, SumRemove
  <2>5. SumOver(Only(g, {})) = 0
    BY <2>1, <2>3, SumOfNone
  <2>6. SumOver(g) = CentsTo(ls, seller)
    BY <1>9, <2>1, <2>2, <2>4, <2>5
  <2> QED  BY <2>6 DEF PaidTo, g
<1>11. (price - due) * Whole >= price * (Whole - royalty)
  <2>1. (price - due) * Whole = price * Whole - Whole * due
    BY WholeAssumption
  <2>2. price * (Whole - royalty) = price * Whole - price * royalty
    BY WholeAssumption
  <2>3. PICK a \in Nat, b \in Nat, d \in Nat :
           a = price * Whole /\ b = Whole * due /\ d = price * royalty
    BY WholeAssumption
  <2> QED  BY <1>1, <2>1, <2>2, <2>3
<1>12. CentsTo(ls, seller) * Whole >= (price - due) * Whole
  BY <1>2, <1>6, <1>9, WholeAssumption
<1>13. PaidTo(ls, {seller}) * Whole >= price * (Whole - royalty)
  <2>1. PICK a \in Int, b \in Int, d \in Int :
           /\ a = CentsTo(ls, seller) * Whole /\ b = (price - due) * Whole
           /\ d = price * (Whole - royalty)
    BY <1>2, <1>9, WholeAssumption
  <2> QED  BY <1>10, <1>11, <1>12, <2>1
<1> QED  BY <1>6, <1>7, <1>9, <1>13, Zenon DEF ls

LEMMA FirstSaleIsPaid ==
    ASSUME SplitHolds, NEW price \in Nat, NEW royalty, NEW seller
    PROVE  LET ls == SaleLegs(price, TRUE, royalty, seller)
           IN  /\ ls \in LegsFor(Beneficiaries) /\ CentsOf(ls) = price
               /\ PaidTo(ls, Beneficiaries) = price
<1>1. SaleLegs(price, TRUE, royalty, seller) = Route(price, ValueSplit)
  BY DEF SaleLegs
<1>2. PICK ls \in LegsFor(Beneficiaries) : ls = Route(price, ValueSplit) /\ CentsOf(ls) = price
  BY ValueIsRouted
<1>3. PaidTo(ls, Beneficiaries) = price
  BY <1>2, ValueIsRouted, PaidByAccount DEF PaidTo
<1> QED  BY <1>1, <1>2, <1>3, Zenon

SalesInv == Chain(ledger) /\ \A n \in DOMAIN ledger :
    ledger[n].type = "SALE" => SalePaid(ledger[n])

LEMMA SalesInvPays == SalesInv => SalesArePaid
BY Zenon DEF SalesInv, SalesArePaid, SalePaid, PaidTo, Beneficiaries

\* An event whose data holds.
LEMMA EventKeepsSales ==
    ASSUME SalesInv, NEW actor, NEW type, NEW data, Emit(actor, type, data),
           type = "SALE" => \A e : e.data = data /\ e.signer = actor.id => SalePaid(e)
    PROVE  SalesInv'
<1> DEFINE L == Len(ledger)
<1>1. /\ Chain(ledger') /\ L \in Nat /\ DOMAIN ledger = 1 .. L /\ DOMAIN ledger' = 1 .. (L + 1)
      /\ \A n \in 1 .. L : ledger'[n] = ledger[n]
      /\ ledger'[L + 1].type = type /\ ledger'[L + 1].data = data
      /\ ledger'[L + 1].signer = actor.id
  BY EmitAdds DEF SalesInv
<1> HIDE DEF L
<1>2. ASSUME NEW n \in DOMAIN ledger', ledger'[n].type = "SALE"
      PROVE  SalePaid(ledger'[n])
  <2>1. CASE n \in 1 .. L
    BY <1>1, <1>2, <2>1 DEF SalesInv
  <2>2. CASE n = L + 1
    <3>1. type = "SALE"
      BY <1>1, <1>2, <2>2
    <3>2. ledger'[n].data = data /\ ledger'[n].signer = actor.id
      BY <1>1, <2>2
    <3> QED  BY <3>1, <3>2
  <2> QED  BY <1>1, <2>1, <2>2
<1>3. \A n \in DOMAIN ledger' : ledger'[n].type = "SALE" => SalePaid(ledger'[n])
  BY <1>2
<1> QED  BY <1>1, <1>3, Zenon DEF SalesInv, SalePaid, PaidTo

LEMMA SalesKeep ==
    ASSUME SplitHolds, SalesInv, [TokenNext]_<<passportVars, tokenVars>>
    PROVE  SalesInv'
<1>1. CASE UNCHANGED tokenVars
  BY <1>1 DEF tokenVars, SalesInv
<1>2. CASE Issue
  <2>1. PICK data : Emit(Issuer, "ISSUE", data)
    BY <1>2 DEF Issue
  <2> QED  BY <2>1, EventKeepsSales
<1>3. ASSUME NEW actor \in Actors, NEW n \in 1 .. Supply, NEW to \in Recipients,
             Transfer(actor, to, n)
      PROVE  SalesInv'
  <2>1. PICK data : Emit(actor, "TRANSFER", data)
    BY <1>3 DEF Transfer
  <2> QED  BY <2>1, EventKeepsSales
<1>4. ASSUME NEW actor \in Actors, NEW n \in 1 .. Supply, NEW receipt \in Receipts,
             Redeem(actor, n, receipt)
      PROVE  SalesInv'
  <2>1. PICK data : Emit(actor, "REDEEM", data)
    BY <1>4 DEF Redeem
  <2> QED  BY <2>1, EventKeepsSales
<1>5. ASSUME NEW seller \in Actors, NEW n \in 1 .. Supply, NEW to \in Recipients,
             NEW price \in SharePrices, NEW royalty \in Royalties,
             Sell(seller, to, n, price, royalty)
      PROVE  SalesInv'
  <2>1. PICK primary \in BOOLEAN : primary = (seller.id = Issuer.id)
    BY Zenon
  <2>2. PICK ls : ls = SaleLegs(price, primary, royalty, seller.id)
    OBVIOUS
  <2>3. PICK data :
           /\ data = [from |-> seller.id, to |-> to.account, key |-> to.key, shares |-> n,
                      price |-> price, royalty |-> IF primary THEN 0 ELSE royalty,
                      legs |-> ls]
           /\ Emit(seller, "SALE", data)
    BY <1>5, <2>1, <2>2, Zenon DEF Sell
  <2>4. /\ data.price = price /\ data.legs = ls
        /\ ~primary => data.royalty = royalty
    BY <2>3
  <2>5. price \in Nat /\ royalty \in 0 .. Whole
    BY TokenAssumption
  <2>6. primary => /\ ls \in LegsFor(Beneficiaries) /\ CentsOf(ls) = price
                   /\ PaidTo(ls, Beneficiaries) = price
    BY <2>2, <2>5, FirstSaleIsPaid, Zenon
  <2>7. ~primary => /\ ls \in LegsFor(Beneficiaries \union {seller.id}) /\ CentsOf(ls) = price
                    /\ PaidTo(ls, Beneficiaries \union {seller.id}) = price
                    /\ PaidTo(ls, {seller.id}) * Whole >= price * (Whole - royalty)
    <3>1. PICK cents \in Nat, cut \in 0 .. Whole : cents = price /\ cut = royalty
      BY <2>5
    <3>2. PICK id : id = seller.id
      OBVIOUS
    <3>3. PICK paid : paid = SaleLegs(cents, FALSE, cut, id)
      BY Zenon
    <3>4. /\ paid \in LegsFor(Beneficiaries \union {id}) /\ CentsOf(paid) = cents
          /\ PaidTo(paid, Beneficiaries \union {id}) = cents
          /\ PaidTo(paid, {id}) * Whole >= cents * (Whole - cut)
      BY <3>3, ResaleIsPaid, Zenon
    <3>5. ~primary => ls = paid
      BY <2>2, <3>1, <3>3, <3>2, Zenon
    <3> QED  BY <3>1, <3>2, <3>4, <3>5
  <2>8. ls \in LegsFor(Beneficiaries \union Wallets)
    <3>1. PICK one, all : /\ one = Beneficiaries \union {seller.id}
                          /\ all = Beneficiaries \union Wallets
      OBVIOUS
    <3>2. Beneficiaries \subseteq all /\ one \subseteq all
      BY <3>1 DEF Wallets
    <3>3. LegsFor(Beneficiaries) \subseteq LegsFor(all) /\ LegsFor(one) \subseteq LegsFor(all)
      BY <3>2, LegsForMore
    <3> QED  BY <2>6, <2>7, <3>1, <3>3
  <2>9. ASSUME NEW e, e.data = data, e.signer = seller.id
        PROVE  SalePaid(e)
    <3>1. CASE primary
      BY <2>1, <2>4, <2>5, <2>6, <2>8, <2>9, <3>1, Zenon DEF SalePaid
    <3>2. CASE ~primary
      BY <2>1, <2>4, <2>5, <2>7, <2>8, <2>9, <3>2, Zenon DEF SalePaid
    <3> QED  BY <3>1, <3>2
  <2> QED  BY <2>3, <2>9, EventKeepsSales
<1>6. CASE TokenStep
  BY <1>2, <1>3, <1>4, <1>5, <1>6 DEF TokenStep
<1>7. TokenStep \/ UNCHANGED tokenVars
  BY DEF TokenNext, tokenVars, passportVars
<1> QED  BY <1>1, <1>6, <1>7

\* The price of every sale is paid out in full, whatever is sold and resold at
\* which price and royalty, if the split that the token was given gives away no
\* more than the whole (token.py:88-106, 143-154).
THEOREM SalesAlwaysPaid ==
    ASSUME SplitHolds
    PROVE  TokenSpec => []SalesArePaid
<1>1. PassportInit /\ Unissued => SalesInv
  <2>1. Unissued => ledger = <<>> /\ Chain(<<>>) /\ DOMAIN <<>> = {}
    BY EmptySeq DEF Unissued, Chain
  <2> QED  BY <2>1 DEF SalesInv
<1>2. SalesInv /\ [TokenNext]_<<passportVars, tokenVars>> => SalesInv'
  BY SalesKeep
<1>3. SalesInv => SalesArePaid
  BY SalesInvPays
<1> QED  BY <1>1, <1>2, <1>3, PTL DEF TokenSpec

-----------------------------------------------------------------------------
(***************************************************************************)
(* Effective splits: every term is floored on its own, and the terms come  *)
(* to the whole exactly, since each parent's split does.  So the floors do *)
(* not exceed it, and what the first declared payee gets on top is no debt.*)
(***************************************************************************)
LEMMA PartBounds ==
    ASSUME NEW amount \in Nat, NEW bps \in Nat
    PROVE  /\ Part(amount, bps) \in Nat /\ Whole * Part(amount, bps) \in Nat
           /\ Whole * Part(amount, bps) <= amount * bps
           /\ amount * bps <= Whole * Part(amount, bps) + (Whole - 1)
<1>1. PICK product \in Nat : product = amount * bps
  OBVIOUS
<1>2. /\ product \div Whole \in Nat /\ Whole * (product \div Whole) <= product
      /\ product <= Whole * (product \div Whole) + (Whole - 1)
  BY WholeAssumption
<1>3. Whole * (product \div Whole) \in Nat
  BY <1>2, WholeAssumption
<1> QED  BY <1>1, <1>2, <1>3 DEF Part

LEMMA PartOfProduct ==
    ASSUME NEW S, NEW x \in [S -> Nat], NEW y \in [S -> Nat], NEW i \in S
    PROVE  /\ Part(x[i], y[i]) \in Nat /\ x[i] * y[i] \in Nat
           /\ Whole * Part(x[i], y[i]) <= x[i] * y[i]
           /\ x[i] * y[i] <= Whole * Part(x[i], y[i]) + (Whole - 1)
<1>1. PICK u \in Nat, v \in Nat : u = x[i] /\ v = y[i]
  OBVIOUS
<1>2. /\ Part(u, v) \in Nat
      /\ Whole * Part(u, v) <= u * v /\ u * v <= Whole * Part(u, v) + (Whole - 1)
  BY PartBounds, Zenon
<1>3. u * v \in Nat
  OBVIOUS
<1> QED  BY <1>1, <1>2, <1>3

\* Flooring loses less than a unit for each term of a sum.
LEMMA FlooredSumOf ==
    ASSUME NEW S, IsFiniteSet(S), NEW parts \in [S -> Nat], NEW exact \in [S -> Nat],
           NEW w \in Nat, NEW d \in Nat,
           \A i \in S : w * parts[i] <= exact[i] /\ exact[i] <= w * parts[i] + d
    PROVE  /\ SumOver(parts) \in Nat /\ SumOver(exact) \in Nat
           /\ w * SumOver(parts) <= SumOver(exact)
           /\ SumOver(exact) <= w * SumOver(parts) + d * Cardinality(S)
<1>1. PICK wholes \in [S -> Nat] : \A i \in S : wholes[i] = w * parts[i]
  <2>1. \A i \in S : w * parts[i] \in Nat
    OBVIOUS
  <2>2. [i \in S |-> w * parts[i]] \in [S -> Nat]
    BY <2>1
  <2> QED  BY <2>2, Zenon
<1>2. PICK slack \in [S -> Nat] : slack = [i \in S |-> d]
  BY Zenon
<1>3. PICK more \in [S -> Nat] : \A i \in S : more[i] = wholes[i] + slack[i]
  <2>1. [i \in S |-> wholes[i] + slack[i]] \in [S -> Nat]
    OBVIOUS
  <2> QED  BY <2>1, Zenon
<1>4. SumOver(wholes) = w * SumOver(parts)
  BY <1>1, SumScaledOf
<1>5. SumOver(slack) = d * Cardinality(S)
  BY <1>2, SumOfSame, Zenon
<1>6. SumOver(more) = SumOver(wholes) + SumOver(slack)
  BY <1>3, SumPlusOf
<1>7. SumOver(wholes) <= SumOver(exact)
  <2>1. \A i \in S : wholes[i] <= exact[i]
    BY <1>1
  <2> QED  BY <2>1, SumMonotone
<1>8. SumOver(exact) <= SumOver(more)
  <2>1. \A i \in S : exact[i] <= more[i]
    BY <1>1, <1>2, <1>3
  <2> QED  BY <2>1, SumMonotone
<1>9. SumOver(parts) \in Nat /\ SumOver(exact) \in Nat
  BY SumType
<1> QED  BY <1>4, <1>5, <1>6, <1>7, <1>8, <1>9

LEMMA FlooredSum ==
    ASSUME NEW S, IsFiniteSet(S), NEW parts \in [S -> Nat], NEW exact \in [S -> Nat],
           \A i \in S : Whole * parts[i] <= exact[i] /\ exact[i] <= Whole * parts[i] + (Whole - 1)
    PROVE  /\ SumOver(parts) \in Nat /\ SumOver(exact) \in Nat
           /\ Whole * SumOver(parts) <= SumOver(exact)
           /\ SumOver(exact) <= Whole * SumOver(parts) + (Whole - 1) * Cardinality(S)
<1>1. Whole \in Nat /\ Whole - 1 \in Nat
  BY WholeAssumption
<1> QED  BY <1>1, FlooredSumOf, Zenon

SplitsShareTheWhole == \A p \in DOMAIN assets :
    assets[p].split \in [Accounts -> Nat] /\ SumOver(assets[p].split) = Whole
Derivable(ds) == ds \in Seq([parent : DOMAIN assets, share : Shares]) /\ Granted(ds) < Whole

\* What an account is owed by the parents, and by the declared split.
ExactInherited(ds, a) ==
    SumOver([i \in DOMAIN ds |-> assets[ds[i].parent].split[a] * ds[i].share])
ExactKept(declared, ds, a) ==
    SumOver([i \in LegsTo(declared, a) |-> declared[i].bps * (Whole - Granted(ds))])

LEMMA UpToIsFinite ==
    ASSUME NEW k \in Nat
    PROVE  IsFiniteSet(1 .. k)
BY FS_Interval

LEMMA CardinalityUpTo ==
    ASSUME NEW k \in Nat
    PROVE  \E N : N = 1 .. k /\ IsFiniteSet(N) /\ Cardinality(N) = k
<1>1. IsFiniteSet(1 .. k) /\ Cardinality(1 .. k) = IF 1 > k THEN 0 ELSE k - 1 + 1
  BY FS_Interval
<1>2. (IF 1 > k THEN 0 ELSE k - 1 + 1) = k
  OBVIOUS
<1> QED  BY <1>1, <1>2

LEMMA SeqFrom ==
    ASSUME NEW T, NEW k \in Nat, NEW s \in [1 .. k -> T]
    PROVE  s \in Seq(T)
BY SeqDef

LEMMA SeqIs ==
    ASSUME NEW T, NEW s \in Seq(T)
    PROVE  \E k \in Nat : s \in [1 .. k -> T]
BY SeqDef

LEMMA SeqIsFinite ==
    ASSUME NEW T, NEW s \in Seq(T)
    PROVE  IsFiniteSet(DOMAIN s)
<1>1. Len(s) \in Nat /\ DOMAIN s = 1 .. Len(s)
  BY LenProperties
<1>2. PICK k \in Nat : k = Len(s)
  BY <1>1, Zenon
<1>3. IsFiniteSet(1 .. k)
  BY UpToIsFinite
<1> QED  BY <1>1, <1>2, <1>3

LEMMA SeqHas ==
    ASSUME NEW T, NEW s \in Seq(T)
    PROVE  /\ IsFiniteSet(DOMAIN s) /\ Cardinality(DOMAIN s) = Len(s)
           /\ Len(s) \in Nat /\ DOMAIN s = 1 .. Len(s)
           /\ \A i \in DOMAIN s : s[i] \in T
<1>1. PICK n \in Nat : n = Len(s) /\ DOMAIN s = 1 .. n
  BY LenProperties
<1>2. IsFiniteSet(1 .. n) /\ Cardinality(1 .. n) = (IF 1 > n THEN 0 ELSE n - 1 + 1)
  BY FS_Interval
<1>3. Cardinality(1 .. n) = n
  BY <1>2
<1>4. \A i \in DOMAIN s : s[i] \in T
  BY <1>1, ElementOfSeq
<1> QED  BY <1>1, <1>2, <1>3, <1>4

LEMMA AppendHas ==
    ASSUME NEW T, NEW s \in Seq(T), NEW e \in T, NEW more, more = Append(s, e)
    PROVE  /\ more \in Seq(T) /\ Len(more) = Len(s) + 1 /\ DOMAIN more = 1 .. (Len(s) + 1)
           /\ more[Len(s) + 1] = e /\ \A i \in 1 .. Len(s) : more[i] = s[i]
<1>1. /\ more \in Seq(T) /\ Len(more) = Len(s) + 1
      /\ more[Len(s) + 1] = e /\ \A i \in 1 .. Len(s) : more[i] = s[i]
  BY AppendProperties
<1> QED  BY <1>1, LenProperties

LEMMA AppendKeeps ==
    ASSUME NEW T, NEW s \in Seq(T), NEW e, NEW more, more = Append(s, e)
    PROVE  DOMAIN more = 1 .. (Len(s) + 1) /\ \A i \in 1 .. Len(s) : more[i] = s[i]
<1>1. PICK U : U = T \union {e}
  BY Zenon
<1>2. T \subseteq U /\ e \in U
  BY <1>1
<1>3. s \in Seq(U)
  BY <1>2, SeqMonotonic
<1> QED  BY <1>2, <1>3, AppendHas

\* t is the first n elements of s.
Starts(t, s, n) == t = SubSeq(s, 1, n)

LEMMA SubSeqHas ==
    ASSUME NEW T, NEW s \in Seq(T), NEW n \in Nat \ {0}, n <= Len(s), NEW t, Starts(t, s, n)
    PROVE  /\ t \in [1 .. n -> T] /\ Len(t) = n
           /\ \A i \in 1 .. n : t[i] = s[i]
<1>1. Len(s) \in Nat /\ \A i \in 1 .. n : s[i] \in T
  <2>1. Len(s) \in Nat /\ DOMAIN s = 1 .. Len(s)
    BY LenProperties
  <2>2. \A i \in DOMAIN s : s[i] \in T
    BY SeqHas
  <2> QED  BY <2>1, <2>2
<1>2. /\ t \in Seq(T) /\ Len(t) = IF 1 <= n THEN n - 1 + 1 ELSE 0
      /\ \A i \in 1 .. (n - 1 + 1) : t[i] = s[1 + i - 1]
  <2>1. 1 \in Int /\ n \in Int
    OBVIOUS
  <2> QED  BY <1>1, <2>1, SubSeqProperties DEF Starts
<1>3. Len(t) = n /\ \A i \in 1 .. n : t[i] = s[i]
  <2>1. n - 1 + 1 = n /\ 1 <= n /\ \A i \in 1 .. n : 1 + i - 1 = i
    OBVIOUS
  <2> QED  BY <1>2, <2>1
<1> QED  BY <1>2, <1>3, LenProperties

LEMMA DeclaredHas ==
    ASSUME NEW declared \in Declared
    PROVE  /\ IsFiniteSet(DOMAIN declared) /\ Cardinality(DOMAIN declared) = Len(declared)
           /\ Len(declared) \in Nat \ {0} /\ 1 \in DOMAIN declared
           /\ \A i \in DOMAIN declared : declared[i].account \in Accounts /\ declared[i].bps \in Nat
           /\ SumOver([i \in DOMAIN declared |-> declared[i].bps]) = Whole
<1>1. /\ declared \in Seq([account : Accounts, bps : Nat \ {0}])
      /\ declared # <<>> /\ BpsOf(declared) = Whole
  BY RoutingAssumption, Zenon
<1>2. Len(declared) \in Nat \ {0} /\ DOMAIN declared = 1 .. Len(declared)
  BY <1>1, EmptySeq, LenProperties
<1>3. IsFiniteSet(DOMAIN declared) /\ Cardinality(DOMAIN declared) = Len(declared)
  BY <1>2, FS_Interval
<1>4. ASSUME NEW i \in DOMAIN declared
      PROVE  declared[i].account \in Accounts /\ declared[i].bps \in Nat
  <2>1. declared[i] \in [account : Accounts, bps : Nat \ {0}]
    BY <1>1, ElementOfSeq, <1>2, Zenon
  <2> QED  BY <2>1
<1>5. 1 \in DOMAIN declared
  BY <1>2
<1> QED  BY <1>1, <1>2, <1>3, <1>4, <1>5 DEF BpsOf

LEMMA DerivationHas ==
    ASSUME NEW ds, Derivable(ds), SplitsShareTheWhole
    PROVE  /\ IsFiniteSet(DOMAIN ds) /\ Cardinality(DOMAIN ds) = Len(ds) /\ Len(ds) \in Nat
           /\ \A i \in DOMAIN ds : /\ ds[i].parent \in DOMAIN assets /\ ds[i].share \in Nat
                                   /\ assets[ds[i].parent].split \in [Accounts -> Nat]
                                   /\ SumOver(assets[ds[i].parent].split) = Whole
           /\ Granted(ds) \in Nat /\ Whole - Granted(ds) \in Nat
<1>1. ds \in Seq([parent : DOMAIN assets, share : Shares]) /\ Granted(ds) < Whole
  BY DEF Derivable
<1>2. PICK T : T = [parent : DOMAIN assets, share : Shares] /\ ds \in Seq(T)
  BY <1>1, Zenon
<1>3. /\ IsFiniteSet(DOMAIN ds) /\ Cardinality(DOMAIN ds) = Len(ds) /\ Len(ds) \in Nat
      /\ \A i \in DOMAIN ds : ds[i] \in T
  BY <1>2, SeqHas, Zenon
<1>4. ASSUME NEW i \in DOMAIN ds
      PROVE  ds[i].parent \in DOMAIN assets /\ ds[i].share \in Nat
  <2>1. ds[i] \in [parent : DOMAIN assets, share : Shares]
    BY <1>2, <1>3
  <2> QED  BY <2>1, RoutingAssumption
<1>5. Granted(ds) \in Nat
  <2>1. PICK share \in [DOMAIN ds -> Nat] : share = [i \in DOMAIN ds |-> ds[i].share]
    BY <1>4, Zenon
  <2> QED  BY <1>3, <2>1, SumType DEF Granted
<1>6. Whole - Granted(ds) \in Nat
  BY <1>1, <1>5, WholeAssumption
<1> QED  BY <1>3, <1>4, <1>5, <1>6 DEF SplitsShareTheWhole

\* What the floored terms of an account come to, near what it is owed.
LEMMA FloorsAreNear ==
    ASSUME NEW declared \in Declared, NEW ds, Derivable(ds), SplitsShareTheWhole,
           NEW a \in Accounts
    PROVE  LET floored == Inherited(ds, a) + Kept(declared, ds, a)
               exact == ExactInherited(ds, a) + ExactKept(declared, ds, a)
           IN  /\ floored \in Nat
               /\ ExactInherited(ds, a) \in Nat /\ ExactKept(declared, ds, a) \in Nat
               /\ Whole * floored <= exact
               /\ exact < Whole * floored + Whole * (Len(ds) + Len(declared))
<1> DEFINE D == DOMAIN ds
           L == LegsTo(declared, a)
           x == [i \in D |-> assets[ds[i].parent].split[a]]
           share == [i \in D |-> ds[i].share]
           bps == [i \in L |-> declared[i].bps]
           rest == [i \in L |-> Whole - Granted(ds)]
<1>1. /\ IsFiniteSet(D) /\ Cardinality(D) = Len(ds) /\ Len(ds) \in Nat
      /\ x \in [D -> Nat] /\ share \in [D -> Nat]
  BY DerivationHas
<1>2. /\ IsFiniteSet(L) /\ Cardinality(L) \in Nat /\ Cardinality(L) <= Len(declared)
      /\ Len(declared) \in Nat \ {0}
  <2>1. L \subseteq DOMAIN declared
    BY DEF LegsTo
  <2>2. /\ IsFiniteSet(DOMAIN declared) /\ Cardinality(DOMAIN declared) = Len(declared)
        /\ Len(declared) \in Nat \ {0}
    BY DeclaredHas, Zenon
  <2> HIDE DEF L
  <2>3. IsFiniteSet(L) /\ Cardinality(L) <= Cardinality(DOMAIN declared)
    BY <2>1, <2>2, FS_Subset
  <2> QED  BY <2>2, <2>3, FS_CardinalityType
<1>3. bps \in [L -> Nat] /\ rest \in [L -> Nat]
  BY DeclaredHas, DerivationHas, Zenon DEF LegsTo
<1>4. /\ Inherited(ds, a) = SumOver([i \in D |-> Part(x[i], share[i])])
      /\ ExactInherited(ds, a) = SumOver([i \in D |-> x[i] * share[i]])
  BY DEF Inherited, ExactInherited
<1>5. /\ Kept(declared, ds, a) = SumOver([i \in L |-> Part(bps[i], rest[i])])
      /\ ExactKept(declared, ds, a) = SumOver([i \in L |-> bps[i] * rest[i]])
  BY DEF Kept, ExactKept
<1> HIDE DEF D, L, x, share, bps, rest
<1>6. PICK p \in Nat, e \in Nat :
          /\ p = Inherited(ds, a) /\ e = ExactInherited(ds, a)
          /\ Whole * p <= e /\ e <= Whole * p + (Whole - 1) * Len(ds)
  <2>1. ASSUME NEW i \in D
        PROVE  /\ Part(x[i], share[i]) \in Nat /\ x[i] * share[i] \in Nat
               /\ Whole * Part(x[i], share[i]) <= x[i] * share[i]
               /\ x[i] * share[i] <= Whole * Part(x[i], share[i]) + (Whole - 1)
    BY <1>1, PartOfProduct, Zenon
  <2>2. PICK parts \in [D -> Nat], terms \in [D -> Nat] :
            /\ parts = [i \in D |-> Part(x[i], share[i])]
            /\ terms = [i \in D |-> x[i] * share[i]]
    BY <2>1, Zenon
  <2>3. \A i \in D : /\ Whole * parts[i] <= terms[i]
                      /\ terms[i] <= Whole * parts[i] + (Whole - 1)
    BY <2>1, <2>2
  <2>4. /\ SumOver(parts) \in Nat /\ SumOver(terms) \in Nat
        /\ Whole * SumOver(parts) <= SumOver(terms)
        /\ SumOver(terms) <= Whole * SumOver(parts) + (Whole - 1) * Cardinality(D)
    BY <1>1, <2>3, FlooredSum, Zenon
  <2> QED  BY <1>1, <1>4, <2>2, <2>4, Zenon
<1>7. PICK q \in Nat, f \in Nat :
          /\ q = Kept(declared, ds, a) /\ f = ExactKept(declared, ds, a)
          /\ Whole * q <= f /\ f <= Whole * q + (Whole - 1) * Cardinality(L)
  <2>1. ASSUME NEW i \in L
        PROVE  /\ Part(bps[i], rest[i]) \in Nat /\ bps[i] * rest[i] \in Nat
               /\ Whole * Part(bps[i], rest[i]) <= bps[i] * rest[i]
               /\ bps[i] * rest[i] <= Whole * Part(bps[i], rest[i]) + (Whole - 1)
    BY <1>2, <1>3, PartOfProduct, Zenon
  <2>2. PICK parts \in [L -> Nat], terms \in [L -> Nat] :
            /\ parts = [i \in L |-> Part(bps[i], rest[i])]
            /\ terms = [i \in L |-> bps[i] * rest[i]]
    BY <2>1, Zenon
  <2>3. \A i \in L : /\ Whole * parts[i] <= terms[i]
                      /\ terms[i] <= Whole * parts[i] + (Whole - 1)
    BY <2>1, <2>2
  <2>4. /\ SumOver(parts) \in Nat /\ SumOver(terms) \in Nat
        /\ Whole * SumOver(parts) <= SumOver(terms)
        /\ SumOver(terms) <= Whole * SumOver(parts) + (Whole - 1) * Cardinality(L)
    BY <1>2, <2>3, FlooredSum, Zenon
  <2> QED  BY <1>5, <2>2, <2>4, Zenon
<1>8. Whole * (p + q) <= e + f /\ e + f < Whole * (p + q) + Whole * (Len(ds) + Len(declared))
  <2>1. PICK w \in Nat \ {0}, m \in Nat, n \in Nat \ {0}, k \in Nat :
            /\ w = Whole /\ m = Len(ds) /\ n = Len(declared) /\ k = Cardinality(L)
            /\ k <= n
    BY <1>1, <1>2, WholeAssumption, Zenon
  <2>2. (w - 1) * k <= (w - 1) * n
    BY <2>1
  <2>3. /\ w * (p + q) = w * p + w * q /\ w * (m + n) = w * m + w * n
        /\ (w - 1) * m = w * m - m /\ (w - 1) * n = w * n - n
    BY <2>1
  <2>4. /\ w * p \in Nat /\ w * q \in Nat /\ w * m \in Nat /\ w * n \in Nat
        /\ (w - 1) * k \in Nat
    BY <2>1
  <2>5. /\ w * p <= e /\ e <= w * p + (w - 1) * m
        /\ w * q <= f /\ f <= w * q + (w - 1) * k
    BY <1>6, <1>7, <2>1
  <2>6. w * (p + q) <= e + f /\ e + f < w * (p + q) + w * (m + n)
    BY <2>2, <2>3, <2>4, <2>5
  <2> QED  BY <2>1, <2>6
<1> QED  BY <1>6, <1>7, <1>8

\* The parents' exact terms of all accounts come to the granted part of the whole.
LEMMA InheritedInAll ==
    ASSUME NEW ds, Derivable(ds), SplitsShareTheWhole
    PROVE  SumOver([a \in Accounts |-> ExactInherited(ds, a)]) = Whole * Granted(ds)
<1> DEFINE D == DOMAIN ds
           share == [i \in D |-> ds[i].share]
           grid == [i \in D |-> [a \in Accounts |->
                       ds[i].share * assets[ds[i].parent].split[a]]]
<1>1. /\ IsFiniteSet(D) /\ IsFiniteSet(Accounts) /\ Whole \in Nat
      /\ share \in [D -> Nat] /\ Granted(ds) = SumOver(share)
  BY DerivationHas, RoutingAssumption, WholeAssumption, Zenon DEF Granted
<1>2. ASSUME NEW i \in D
      PROVE  /\ \A a \in Accounts : /\ grid[i][a] \in Nat
                                    /\ grid[i][a] = assets[ds[i].parent].split[a] * ds[i].share
             /\ grid[i] \in [Accounts -> Nat]
             /\ SumOver(grid[i]) = Whole * share[i]
  <2>1. PICK n \in Nat, split \in [Accounts -> Nat] :
            n = ds[i].share /\ split = assets[ds[i].parent].split /\ SumOver(split) = Whole
    BY DerivationHas
  <2>2. \A a \in Accounts : n * split[a] \in Nat /\ n * split[a] = split[a] * n
    BY <2>1
  <2>3. grid[i] = [a \in Accounts |-> n * split[a]]
    BY <2>1
  <2>4. SumOver([a \in Accounts |-> n * split[a]]) = n * Whole
    BY <1>1, <2>1, SumScaled
  <2>5. n * Whole = Whole * share[i]
    BY <1>1, <2>1
  <2> QED  BY <2>1, <2>2, <2>3, <2>4, <2>5
<1>3. grid \in [D -> [Accounts -> Nat]]
  BY <1>2, Zenon
<1>4. \A a \in Accounts : ExactInherited(ds, a) = SumOver([i \in D |-> grid[i][a]])
  <2>1. ASSUME NEW a \in Accounts
        PROVE  [i \in D |-> assets[ds[i].parent].split[a] * ds[i].share] = [i \in D |-> grid[i][a]]
    <3>1. \A i \in D : assets[ds[i].parent].split[a] * ds[i].share = grid[i][a]
      BY <1>2, Zenon
    <3> HIDE DEF grid
    <3> QED  BY <3>1
  <2> QED  BY <2>1 DEF ExactInherited
<1>5. [i \in D |-> SumOver(grid[i])] = [i \in D |-> Whole * share[i]]
  BY <1>2
<1> HIDE DEF grid, share
<1>6. SumOver([i \in D |-> SumOver(grid[i])])
          = SumOver([a \in Accounts |-> SumOver([i \in D |-> grid[i][a]])])
  BY <1>1, <1>3, SumSwap
<1>7. SumOver([i \in D |-> Whole * share[i]]) = Whole * SumOver(share)
  BY <1>1, SumScaled
<1>8. [a \in Accounts |-> ExactInherited(ds, a)]
          = [a \in Accounts |-> SumOver([i \in D |-> grid[i][a]])]
  BY <1>4
<1> QED  BY <1>1, <1>5, <1>6, <1>7, <1>8, Zenon

\* And the declared ones to the rest of it.
LEMMA KeptInAll ==
    ASSUME NEW declared \in Declared, NEW ds, Derivable(ds), SplitsShareTheWhole
    PROVE  SumOver([a \in Accounts |-> ExactKept(declared, ds, a)])
              = (Whole - Granted(ds)) * Whole
<1> DEFINE D == DOMAIN declared
           bps == [i \in D |-> declared[i].bps]
           account == [i \in D |-> declared[i].account]
<1>1. PICK rest \in Nat : rest = Whole - Granted(ds)
  BY DerivationHas
<1> DEFINE due == [i \in D |-> rest * bps[i]]
<1>2. /\ IsFiniteSet(D) /\ IsFiniteSet(Accounts)
      /\ bps \in [D -> Nat] /\ account \in [D -> Accounts] /\ SumOver(bps) = Whole
  BY DeclaredHas, RoutingAssumption
<1>3. due \in [D -> Nat] /\ \A i \in D : due[i] = declared[i].bps * rest
  <2>1. ASSUME NEW i \in D
        PROVE  /\ declared[i].bps \in Nat /\ rest * declared[i].bps \in Nat
               /\ rest * declared[i].bps = declared[i].bps * rest
    <3>1. PICK q \in Nat : q = declared[i].bps
      BY DeclaredHas, Zenon
    <3>2. rest * q \in Nat /\ rest * q = q * rest
      OBVIOUS
    <3> QED  BY <3>1, <3>2
  <2> QED  BY <2>1
<1>4. SumOver(due) = rest * Whole
  <2>1. SumOver(due) = rest * SumOver(bps)
    <3> HIDE DEF bps
    <3> QED  BY <1>1, <1>2, SumScaled
  <2> QED  BY <1>2, <2>1
<1>5. \A a \in Accounts : ExactKept(declared, ds, a) = SumOver(Only(due, {i \in D : account[i] = a}))
  <2>1. ASSUME NEW a \in Accounts
        PROVE  [i \in LegsTo(declared, a) |-> declared[i].bps * rest]
                   = Only(due, {i \in D : account[i] = a})
    <3>1. LegsTo(declared, a) = {i \in D : account[i] = a}
      BY DEF LegsTo
    <3>2. \A i \in LegsTo(declared, a) : due[i] = declared[i].bps * rest
      BY <1>3 DEF LegsTo
    <3> HIDE DEF due, account
    <3> QED  BY <3>1, <3>2 DEF Only
  <2> HIDE DEF due, account
  <2> QED  BY <1>1, <2>1 DEF ExactKept
<1> HIDE DEF due, account, bps, D
<1>6. SumOver([a \in Accounts |-> SumOver(Only(due, {i \in D : account[i] = a}))]) = SumOver(due)
  BY <1>2, <1>3, SumByKey
<1>7. [a \in Accounts |-> ExactKept(declared, ds, a)]
          = [a \in Accounts |-> SumOver(Only(due, {i \in D : account[i] = a}))]
  BY <1>5
<1> QED  BY <1>1, <1>4, <1>6, <1>7, Zenon

\* The floors do not exceed the whole.
LEMMA FloorsLeaveAResidue ==
    ASSUME NEW declared \in Declared, NEW ds, Derivable(ds), SplitsShareTheWhole
    PROVE  /\ FlooredSplit(declared, ds) \in [Accounts -> Nat]
           /\ SumOver(FlooredSplit(declared, ds)) \in 0 .. Whole
<1> DEFINE floored == FlooredSplit(declared, ds)
           inherited == [a \in Accounts |-> ExactInherited(ds, a)]
           kept == [a \in Accounts |-> ExactKept(declared, ds, a)]
           exact == [a \in Accounts |-> inherited[a] + kept[a]]
           wholes == [a \in Accounts |-> Whole * floored[a]]
<1>1. IsFiniteSet(Accounts) /\ Whole \in Nat \ {0}
  BY RoutingAssumption, WholeAssumption
<1>2. ASSUME NEW a \in Accounts
      PROVE  /\ floored[a] \in Nat /\ Whole * floored[a] \in Nat
             /\ inherited[a] \in Nat /\ kept[a] \in Nat /\ exact[a] \in Nat
             /\ Whole * floored[a] <= exact[a]
  <2>1. PICK n \in Nat, i \in Nat, k \in Nat :
            /\ n = Inherited(ds, a) + Kept(declared, ds, a)
            /\ i = ExactInherited(ds, a) /\ k = ExactKept(declared, ds, a)
            /\ Whole * n <= i + k
    BY FloorsAreNear
  <2>2. floored[a] = n /\ inherited[a] = i /\ kept[a] = k /\ exact[a] = i + k
    BY <2>1 DEF FlooredSplit
  <2>3. Whole * n \in Nat
    BY <1>1, <2>1
  <2> HIDE DEF floored, inherited, kept, exact
  <2> QED  BY <2>1, <2>2, <2>3
<1>3. /\ floored \in [Accounts -> Nat]
      /\ inherited \in [Accounts -> Nat] /\ kept \in [Accounts -> Nat]
      /\ exact \in [Accounts -> Nat] /\ wholes \in [Accounts -> Nat]
  <2>1. floored = [a \in Accounts |-> floored[a]]
    BY DEF FlooredSplit
  <2> QED  BY <1>2, <2>1
<1>4. SumOver(inherited) = Whole * Granted(ds) /\ SumOver(kept) = (Whole - Granted(ds)) * Whole
  BY InheritedInAll, KeptInAll
<1>5. \A a \in Accounts : wholes[a] <= exact[a]
  BY <1>2
<1> HIDE DEF floored, inherited, kept
<1>6. SumOver(exact) = SumOver(inherited) + SumOver(kept)
  BY <1>1, <1>3, SumPlus
<1>7. SumOver(wholes) = Whole * SumOver(floored)
  BY <1>1, <1>3, SumScaled
<1> HIDE DEF exact, wholes
<1>8. SumOver(wholes) <= SumOver(exact)
  BY <1>1, <1>3, <1>5, SumMonotone
<1>9. SumOver(exact) = Whole * Whole
  <2>1. PICK w \in Nat, g \in Nat : w = Whole /\ g = Granted(ds)
    BY <1>1, DerivationHas
  <2>2. w * g + (w - g) * w = w * w
    BY <2>1
  <2> QED  BY <1>4, <1>6, <2>1, <2>2
<1>10. PICK total \in Nat : total = SumOver(floored)
  BY <1>1, <1>3, SumType
<1>11. total <= Whole
  <2>1. Whole * total <= Whole * Whole
    BY <1>7, <1>8, <1>9, <1>10
  <2> QED  BY <1>1, <1>10, <2>1
<1>12. SumOver(floored) \in 0 .. Whole
  BY <1>1, <1>10, <1>11
<1> QED  BY <1>3, <1>12 DEF floored

LEMMA ComposeIsFair ==
    ASSUME NEW declared \in Declared, NEW ds, Derivable(ds), SplitsShareTheWhole
    PROVE  LET split == Compose(declared, ds)
           IN  /\ split \in [Accounts -> Nat] /\ SumOver(split) = Whole
               /\ \A a \in Accounts :
                     LET exact == ExactInherited(ds, a) + ExactKept(declared, ds, a)
                     IN  /\ split[a] * Whole > exact - Whole * (Len(ds) + Len(declared))
                         /\ a # declared[1].account => split[a] * Whole <= exact
<1>1. PICK floored \in [Accounts -> Nat], total \in Nat, w \in Nat \ {0} :
          /\ floored = FlooredSplit(declared, ds)
          /\ total = SumOver(floored) /\ total <= Whole /\ w = Whole
  <2>1. Whole \in Nat \ {0}
    BY WholeAssumption
  <2>2. SumOver(FlooredSplit(declared, ds)) \in Nat /\ SumOver(FlooredSplit(declared, ds)) <= Whole
    BY <2>1, FloorsLeaveAResidue
  <2> QED  BY <2>1, <2>2, FloorsLeaveAResidue
<1>2. PICK first \in Accounts : first = declared[1].account
  BY DeclaredHas, Zenon
<1>3. PICK gain \in Nat : gain = floored[first] + w - total
  <2>1. floored[first] \in Nat
    BY <1>1
  <2> QED  BY <1>1, <2>1
<1>4. PICK split : split = [floored EXCEPT ![first] = gain]
  BY Zenon
<1>5. Compose(declared, ds) = split
  <2>1. Compose(declared, ds) = [floored EXCEPT ![first] = @ + w - total]
    BY <1>1, <1>2 DEF Compose
  <2> QED  BY <1>3, <1>4, <2>1
<1>6. split \in [Accounts -> Nat]
  BY <1>1, <1>4
<1>7. SumOver(split) = Whole
  <2>1. SumOver(split) + floored[first] = SumOver(floored) + gain
    <3>1. IsFiniteSet(Accounts)
      BY RoutingAssumption
    <3>2. split[first] = gain /\ \A a \in Accounts \ {first} : split[a] = floored[a]
      BY <1>4
    <3>3. SumOver(split) + floored[first] = SumOver(floored) + split[first]
      BY <1>6, <3>1, <3>2, SumsDiffer
    <3> QED  BY <3>2, <3>3
  <2>2. PICK sum \in Nat : sum = SumOver(split)
    BY <1>6, RoutingAssumption, SumType, Zenon
  <2>3. floored[first] \in Nat
    BY <1>1
  <2> QED  BY <1>1, <1>3, <1>4, <2>1, <2>2, <2>3
<1>8. ASSUME NEW a \in Accounts
      PROVE  LET exact == ExactInherited(ds, a) + ExactKept(declared, ds, a)
             IN  /\ split[a] * Whole > exact - Whole * (Len(ds) + Len(declared))
                 /\ a # declared[1].account => split[a] * Whole <= exact
  <2>1. PICK exact \in Nat, slack \in Nat :
            /\ exact = ExactInherited(ds, a) + ExactKept(declared, ds, a)
            /\ slack = Whole * (Len(ds) + Len(declared))
            /\ w * floored[a] <= exact /\ exact < w * floored[a] + slack
    <3>1. floored[a] = Inherited(ds, a) + Kept(declared, ds, a)
      BY <1>1 DEF FlooredSplit
    <3>2. Whole * (Len(ds) + Len(declared)) \in Nat
      <4>1. Len(ds) + Len(declared) \in Nat
        BY DeclaredHas, DerivationHas
      <4> QED  BY <4>1, WholeAssumption
    <3> QED  BY <1>1, <3>1, <3>2, FloorsAreNear, SMTT(20)
  <2>2. PICK fl \in Nat, sp \in Nat : fl = floored[a] /\ sp = split[a]
    BY <1>1, <1>6
  <2>3. fl <= sp /\ (a # first => sp = fl)
    BY <1>1, <1>2, <1>3, <1>4, <2>2
  <2>4. w * fl <= w * sp /\ w * sp = sp * w /\ w * sp \in Nat /\ w * fl \in Nat
    BY <1>1, <2>2, <2>3
  <2>5. sp * w > exact - slack /\ (a # first => sp * w <= exact)
    <3>1. PICK u \in Nat, v \in Nat : u = w * fl /\ v = w * sp /\ u <= v /\ v = sp * w
      BY <2>4
    <3>2. u <= exact /\ exact < u + slack
      BY <2>1, <2>2, <3>1
    <3>3. v > exact - slack
      BY <3>1, <3>2
    <3>4. a # first => v <= exact
      BY <2>3, <3>1, <3>2
    <3> QED  BY <3>1, <3>3, <3>4
  <2>6. split[a] * Whole = sp * w
    BY <1>1, <2>2
  <2> QED  BY <1>2, <2>1, <2>5, <2>6
<1> QED  BY <1>5, <1>6, <1>7, <1>8

-----------------------------------------------------------------------------
\* Whatever comes after an asset, its composition stays: parents come before it.
Asset == [declared : Declared, derives_from : Seq([parent : Nat, share : Shares]),
          split : [Accounts -> Nat]]

AssetsInv ==
    /\ assets \in Seq(Asset)
    /\ \A n \in DOMAIN assets : \A i \in DOMAIN assets[n].derives_from :
           assets[n].derives_from[i].parent \in 1 .. (n - 1)
    /\ SharesAreFair

LEMMA AssetsShareTheWhole ==
    ASSUME AssetsInv
    PROVE  SplitsShareTheWhole
<1>1. ASSUME NEW p \in DOMAIN assets
      PROVE  assets[p].split \in [Accounts -> Nat]
  <2>1. assets[p] \in Asset
    BY LenProperties, ElementOfSeq DEF AssetsInv
  <2> QED  BY <2>1 DEF Asset
<1> QED  BY <1>1 DEF SplitsShareTheWhole, AssetsInv, SharesAreFair

LEMMA DerivationsAreDerivable ==
    ASSUME NEW ds \in Derivations, Granted(ds) < Whole
    PROVE  Derivable(ds)
<1>1. PICK m \in 0 .. MaxTerms : ds \in [1 .. m -> [parent : DOMAIN assets, share : Shares]]
  BY DEF Derivations, SeqOf
<1>2. m \in Nat
  BY <1>1, RoutingAssumption
<1>3. PICK T : T = [parent : DOMAIN assets, share : Shares]
  BY Zenon
<1>4. ds \in [1 .. m -> T]
  BY <1>1, <1>3
<1>5. ds \in Seq(T)
  BY <1>2, <1>4, SeqDef
<1> QED  BY <1>3, <1>5 DEF Derivable

\* What SharesAreFair says of one asset among others.
ExactIn(others, work, a) ==
    SumOver([i \in DOMAIN work.derives_from |->
                others[work.derives_from[i].parent].split[a] * work.derives_from[i].share])
    + SumOver([i \in LegsTo(work.declared, a) |->
                work.declared[i].bps * (Whole - Granted(work.derives_from))])
IsFair(others, work) ==
    /\ SumOver(work.split) = Whole
    /\ \A a \in Accounts :
          /\ work.split[a] >= 0
          /\ work.split[a] * Whole > ExactIn(others, work, a) - Whole * Terms(work)
          /\ a # work.declared[1].account => work.split[a] * Whole <= ExactIn(others, work, a)

LEMMA FairOneByOne ==
    /\ SharesAreFair <=> \A n \in DOMAIN assets : IsFair(assets, assets[n])
    /\ SharesAreFair' <=> \A n \in DOMAIN assets' : IsFair(assets', assets'[n])
<1>1. SharesAreFair <=> \A n \in DOMAIN assets : IsFair(assets, assets[n])
  BY DEF SharesAreFair, IsFair, Exact, ExactIn
<1>2. SharesAreFair' <=> \A n \in DOMAIN assets' : IsFair(assets', assets'[n])
  BY DEF SharesAreFair, IsFair, Exact, ExactIn, Terms
<1> QED  BY <1>1, <1>2

LEMMA FairStaysFair ==
    ASSUME NEW old, NEW more, NEW work,
           \A i \in DOMAIN work.derives_from :
               more[work.derives_from[i].parent] = old[work.derives_from[i].parent],
           IsFair(old, work)
    PROVE  IsFair(more, work)
<1>1. ASSUME NEW a \in Accounts
      PROVE  ExactIn(more, work, a) = ExactIn(old, work, a)
  <2>1. \A i \in DOMAIN work.derives_from :
            more[work.derives_from[i].parent].split[a] * work.derives_from[i].share
                = old[work.derives_from[i].parent].split[a] * work.derives_from[i].share
    OBVIOUS
  <2>2. [i \in DOMAIN work.derives_from |->
            more[work.derives_from[i].parent].split[a] * work.derives_from[i].share]
            = [i \in DOMAIN work.derives_from |->
                  old[work.derives_from[i].parent].split[a] * work.derives_from[i].share]
    BY <2>1
  <2> QED  BY <2>2 DEF ExactIn
<1> QED  BY <1>1 DEF IsFair

LEMMA RegisterKeepsAssets ==
    ASSUME AssetsInv, NEW declared \in Declared, NEW ds \in Derivations, Register(declared, ds)
    PROVE  AssetsInv'
<1>1. Derivable(ds) /\ SplitsShareTheWhole
  BY DerivationsAreDerivable, AssetsShareTheWhole DEF Register
<1>2. PICK split \in [Accounts -> Nat] :
          /\ split = Compose(declared, ds) /\ SumOver(split) = Whole
          /\ \A a \in Accounts :
                /\ split[a] * Whole > (ExactInherited(ds, a) + ExactKept(declared, ds, a))
                                          - Whole * (Len(ds) + Len(declared))
                /\ a # declared[1].account =>
                       split[a] * Whole <= ExactInherited(ds, a) + ExactKept(declared, ds, a)
  BY <1>1, ComposeIsFair
<1>3. PICK work : work = [declared |-> declared, derives_from |-> ds, split |-> split]
  BY Zenon
<1>4. assets' = Append(assets, work)
  BY <1>2, <1>3 DEF Register
<1>5. assets \in Seq(Asset) /\ work \in Asset
  <2>1. ds \in Seq([parent : DOMAIN assets, share : Shares])
    BY <1>1 DEF Derivable
  <2>2. assets \in Seq(Asset)
    BY DEF AssetsInv
  <2>3. [parent : DOMAIN assets, share : Shares] \subseteq [parent : Nat, share : Shares]
    BY <2>2, LenProperties
  <2>4. ds \in Seq([parent : Nat, share : Shares])
    <3>1. PICK P, Q : /\ P = [parent : DOMAIN assets, share : Shares]
                      /\ Q = [parent : Nat, share : Shares]
      BY Zenon
    <3>2. ds \in Seq(P) /\ P \subseteq Q
      BY <2>1, <2>3, <3>1
    <3>3. PICK k \in Nat : ds \in [1 .. k -> P]
      BY <3>2, SeqDef
    <3>4. ds \in [1 .. k -> Q]
      BY <3>2, <3>3
    <3> QED  BY <3>1, <3>3, <3>4, SeqDef, ZenonT(30)
  <2> QED  BY <1>3, <2>2, <2>4 DEF Asset
<1>6. PICK k \in Nat : k = Len(assets) /\ DOMAIN assets = 1 .. k
  BY <1>5, LenProperties
<1>7. /\ assets' \in Seq(Asset) /\ DOMAIN assets' = 1 .. (k + 1)
      /\ assets'[k + 1] = work /\ \A n \in 1 .. k : assets'[n] = assets[n]
  <2>1. PICK S, old, more : S = Asset /\ old = assets /\ more = assets'
    OBVIOUS
  <2>2. old \in Seq(S) /\ work \in S /\ more = Append(old, work)
    BY <1>4, <1>5, <2>1
  <2>3. /\ more \in Seq(S) /\ DOMAIN more = 1 .. (Len(old) + 1)
        /\ more[Len(old) + 1] = work /\ \A n \in 1 .. Len(old) : more[n] = old[n]
    BY <2>2, AppendHas
  <2> QED  BY <1>6, <2>1, <2>3
<1>8. \A n \in DOMAIN assets : \A i \in DOMAIN assets[n].derives_from :
          assets[n].derives_from[i].parent \in 1 .. (n - 1)
  BY DEF AssetsInv
<1>9. \A i \in DOMAIN work.derives_from : work.derives_from[i].parent \in 1 .. k
  <2>1. work.derives_from = ds
    BY <1>3
  <2> QED  BY <1>1, <1>6, <2>1, DerivationHas
<1>10. \A n \in DOMAIN assets' : \A i \in DOMAIN assets'[n].derives_from :
          assets'[n].derives_from[i].parent \in 1 .. (n - 1)
  <2>1. ASSUME NEW n \in 1 .. k
        PROVE  \A i \in DOMAIN assets'[n].derives_from :
                   assets'[n].derives_from[i].parent \in 1 .. (n - 1)
    BY <1>6, <1>7, <1>8, Zenon
  <2>2. \A i \in DOMAIN assets'[k + 1].derives_from :
                   assets'[k + 1].derives_from[i].parent \in 1 .. ((k + 1) - 1)
    <3>1. (k + 1) - 1 = k
      BY <1>6
    <3> QED  BY <1>7, <1>9, <3>1
  <2>3. \A n \in 1 .. (k + 1) : n \in 1 .. k \/ n = k + 1
    BY <1>6
  <2> QED  BY <1>7, <2>1, <2>2, <2>3
<1>11. IsFair(assets', work)
  <2>1. IsFair(assets, work)
    <3>1. /\ work.declared = declared /\ work.derives_from = ds /\ work.split = split
          /\ Terms(work) = Len(ds) + Len(declared)
      BY <1>3 DEF Terms
    <3>2. \A a \in Accounts : ExactIn(assets, work, a) = ExactInherited(ds, a) + ExactKept(declared, ds, a)
      BY <3>1 DEF ExactIn, ExactInherited, ExactKept
    <3>3. \A a \in Accounts : split[a] >= 0
      BY <1>2
    <3> QED  BY <1>2, <3>1, <3>2, <3>3 DEF IsFair
  <2>2. PICK old, more : old = assets /\ more = assets'
    OBVIOUS
  <2>3. \A i \in DOMAIN work.derives_from :
            more[work.derives_from[i].parent] = old[work.derives_from[i].parent]
    BY <1>7, <1>9, <2>2
  <2> QED  BY <2>1, <2>2, <2>3, FairStaysFair
<1>12. \A n \in 1 .. k : IsFair(assets', assets'[n])
  <2>1. ASSUME NEW n \in 1 .. k
        PROVE  IsFair(assets', assets[n])
    <3>1. \A i \in DOMAIN assets[n].derives_from :
              assets'[assets[n].derives_from[i].parent] = assets[assets[n].derives_from[i].parent]
      <4>1. ASSUME NEW i \in DOMAIN assets[n].derives_from
            PROVE  assets[n].derives_from[i].parent \in 1 .. k
        <5>1. PICK p : p = assets[n].derives_from[i].parent
          OBVIOUS
        <5>2. p \in 1 .. (n - 1)
          BY <1>6, <1>8, <5>1
        <5> QED  BY <1>6, <5>1, <5>2
      <4> QED  BY <1>7, <4>1
    <3>2. IsFair(assets, assets[n])
      BY <1>6, FairOneByOne DEF AssetsInv
    <3> QED  BY <3>1, <3>2, FairStaysFair
  <2> QED  BY <1>7, <2>1, Zenon
<1>13. SharesAreFair'
  <2>1. \A n \in 1 .. (k + 1) : IsFair(assets', assets'[n])
    <3>1. \A n \in 1 .. (k + 1) : n \in 1 .. k \/ n = k + 1
      BY <1>6
    <3> QED  BY <1>7, <1>11, <1>12, <3>1
  <2> QED  BY <1>7, <2>1, FairOneByOne
<1> QED  BY <1>7, <1>10, <1>13 DEF AssetsInv

LEMMA AssetsKeep == AssetsInv /\ [RoutingNext]_routingVars => AssetsInv'
<1> SUFFICES ASSUME AssetsInv, [RoutingNext]_routingVars
             PROVE  AssetsInv'
  OBVIOUS
<1>1. CASE UNCHANGED assets
  <2>1. SharesAreFair'
    BY <1>1, FairOneByOne DEF AssetsInv
  <2> QED  BY <1>1, <2>1 DEF AssetsInv
<1>2. ASSUME NEW declared \in Declared, NEW ds \in Derivations, Register(declared, ds)
      PROVE  AssetsInv'
  BY <1>2, RegisterKeepsAssets
<1> QED  BY <1>1, <1>2 DEF RoutingNext, Settle, routingVars

LEMMA AssetsHold ==
    RoutingSpec => []AssetsInv
<1>1. RoutingInit => AssetsInv
  BY EmptySeq DEF RoutingInit, AssetsInv, SharesAreFair
<1> QED  BY <1>1, AssetsKeep, PTL DEF RoutingSpec

-----------------------------------------------------------------------------
(***************************************************************************)
(* Royalty legs: what a list of legs carries is the sum of what each of    *)
(* them does, so that of a list of lists is the sum over the lists.        *)
(***************************************************************************)
WeightOf(weight, s) == SumOver([i \in DOMAIN s |-> weight[s[i]]])

LEMMA WeightType ==
    ASSUME NEW L, NEW weight \in [L -> Nat], NEW s \in Seq(L)
    PROVE  /\ [i \in DOMAIN s |-> weight[s[i]]] \in [DOMAIN s -> Nat]
           /\ IsFiniteSet(DOMAIN s) /\ WeightOf(weight, s) \in Nat
<1>1. Len(s) \in Nat /\ DOMAIN s = 1 .. Len(s) /\ \A i \in DOMAIN s : s[i] \in L
  BY LenProperties, ElementOfSeq
<1>2. IsFiniteSet(DOMAIN s)
  BY <1>1, FS_Interval
<1>3. [i \in DOMAIN s |-> weight[s[i]]] \in [DOMAIN s -> Nat]
  BY <1>1
<1> QED  BY <1>2, <1>3, SumType DEF WeightOf

LEMMA WeightOfOne ==
    ASSUME NEW L, NEW weight \in [L -> Nat], NEW l \in L
    PROVE  WeightOf(weight, <<l>>) = weight[l]
<1> DEFINE f == [i \in {1} |-> weight[l]]
<1>1. DOMAIN <<l>> = {1} /\ <<l>>[1] = l
  OBVIOUS
<1>2. f = [i \in DOMAIN <<l>> |-> weight[<<l>>[i]]]
  BY <1>1
<1>3. f \in [{1} -> Nat] /\ f[1] = weight[l] /\ IsFiniteSet({1})
  BY FS_Singleton, Zenon
<1>4. Only(f, {1}) = f /\ {1} \ {1} = {}
  BY DEF Only
<1> HIDE DEF f
<1>5. SumOver(f) = f[1]
  <2>1. SumOver(Only(f, {1})) = f[1] + SumOver(Only(f, {1} \ {1}))
    BY <1>3, SumRemove
  <2>2. SumOver(Only(f, {})) = 0
    BY <1>3, SumOfNone
  <2> QED  BY <1>3, <1>4, <2>1, <2>2
<1> QED  BY <1>2, <1>3, <1>5 DEF WeightOf

\* u is s and then t, of m and of n elements of L.
Follows(u, s, t, m, n, L) ==
    /\ DOMAIN s = 1 .. m /\ DOMAIN t = 1 .. n /\ DOMAIN u = 1 .. (m + n)
    /\ (\A i \in 1 .. (m + n) : u[i] \in L) /\ (\A i \in 1 .. n : t[i] \in L)
    /\ (\A i \in 1 .. m : u[i] = s[i]) /\ (\A i \in 1 .. n : u[m + i] = t[i])

LEMMA WeightInTwo ==
    ASSUME NEW L, NEW weight \in [L -> Nat], NEW m \in Nat, NEW n \in Nat,
           NEW s, NEW t, NEW u, Follows(u, s, t, m, n, L)
    PROVE  WeightOf(weight, u) = WeightOf(weight, s) + WeightOf(weight, t)
<1> DEFINE f == [i \in 1 .. (m + n) |-> weight[u[i]]]
           g == [i \in 1 .. n |-> weight[t[i]]]
<1>1. ASSUME DOMAIN s = 1 .. m, DOMAIN t = 1 .. n, DOMAIN u = 1 .. (m + n),
             \A i \in 1 .. (m + n) : u[i] \in L, \A i \in 1 .. n : t[i] \in L,
             \A i \in 1 .. m : u[i] = s[i], \A i \in 1 .. n : u[m + i] = t[i]
      PROVE  WeightOf(weight, u) = WeightOf(weight, s) + WeightOf(weight, t)
  <2>1. f \in [1 .. (m + n) -> Nat] /\ g \in [1 .. n -> Nat]
    BY <1>1
  <2>2. \A i \in 1 .. n : f[m + i] = g[i]
    <3>1. \A i \in 1 .. n : m + i \in 1 .. (m + n)
      OBVIOUS
    <3> QED  BY <1>1, <3>1
  <2>3. SumOver(f) = SumOver(Only(f, 1 .. m)) + SumOver(g)
    <3> HIDE DEF f, g
    <3>1. Joined(f, g, m, n)
      BY <2>1, <2>2 DEF Joined
    <3> QED  BY <3>1, SumInTwo
  <2>4. Only(f, 1 .. m) = [i \in DOMAIN s |-> weight[s[i]]]
    <3>1. 1 .. m \subseteq 1 .. (m + n)
      OBVIOUS
    <3> QED  BY <1>1, <3>1 DEF Only
  <2>5. /\ SumOver(Only(f, 1 .. m)) = WeightOf(weight, s)
        /\ SumOver(g) = WeightOf(weight, t) /\ SumOver(f) = WeightOf(weight, u)
    BY <1>1, <2>4 DEF WeightOf
  <2> HIDE DEF f, g
  <2> QED  BY <2>3, <2>5
<1> QED  BY <1>1 DEF Follows

LEMMA WeightOfConcat ==
    ASSUME NEW L, NEW weight \in [L -> Nat], NEW s \in Seq(L), NEW t \in Seq(L)
    PROVE  /\ s \o t \in Seq(L)
           /\ WeightOf(weight, s \o t) = WeightOf(weight, s) + WeightOf(weight, t)
<1>1. PICK m \in Nat, n \in Nat, u \in Seq(L) :
          /\ m = Len(s) /\ n = Len(t) /\ u = s \o t
          /\ DOMAIN s = 1 .. m /\ DOMAIN t = 1 .. n /\ DOMAIN u = 1 .. (m + n)
          /\ \A i \in 1 .. m : u[i] = s[i]
          /\ \A i \in 1 .. n : u[m + i] = t[i]
  <2>1. Len(s) \in Nat /\ Len(t) \in Nat /\ s \o t \in Seq(L) /\ Len(s \o t) = Len(s) + Len(t)
    BY ConcatProperties, LenProperties
  <2>2. DOMAIN s = 1 .. Len(s) /\ DOMAIN t = 1 .. Len(t) /\ DOMAIN (s \o t) = 1 .. Len(s \o t)
    BY <2>1, LenProperties
  <2>3. \A i \in 1 .. Len(s) : (s \o t)[i] = s[i]
    BY <2>1
  <2>4. \A i \in 1 .. Len(t) : (s \o t)[Len(s) + i] = t[i]
    BY <2>1
  <2> QED  BY <2>1, <2>2, <2>3, <2>4, Zenon
<1>2. (\A i \in 1 .. (m + n) : u[i] \in L) /\ (\A i \in 1 .. n : t[i] \in L)
  BY <1>1, SeqHas
<1>3. WeightOf(weight, u) = WeightOf(weight, s) + WeightOf(weight, t)
  <2>1. Follows(u, s, t, m, n, L)
    BY <1>1, <1>2 DEF Follows
  <2> QED  BY <2>1, WeightInTwo
<1> QED  BY <1>1, <1>3

LEMMA WeightOfPair ==
    ASSUME NEW L, NEW weight \in [L -> Nat], NEW x \in L, NEW y \in L
    PROVE  WeightOf(weight, <<x>> \o <<y>>) = weight[x] + weight[y]
<1>1. PICK s, t : s = <<x>> /\ t = <<y>>
  BY Zenon
<1>2. s \in Seq(L) /\ t \in Seq(L)
  BY <1>1
<1>3. WeightOf(weight, s \o t) = WeightOf(weight, s) + WeightOf(weight, t)
  BY <1>2, WeightOfConcat
<1>4. WeightOf(weight, s) = weight[x] /\ WeightOf(weight, t) = weight[y]
  BY <1>1, WeightOfOne
<1> QED  BY <1>1, <1>3, <1>4

LEMMA NotEmptyWith ==
    ASSUME NEW L, NEW s \in Seq(L), NEW x \in L
    PROVE  s \o <<x>> # <<>>
<1>1. PICK t : t = <<x>>
  BY Zenon
<1>2. t \in Seq(L) /\ Len(t) = 1
  BY <1>1
<1>3. Len(s \o t) = Len(s) + 1 /\ Len(s) \in Nat
  BY <1>2, ConcatProperties, LenProperties
<1>4. Len(<<>>) = 0
  OBVIOUS
<1> QED  BY <1>1, <1>3, <1>4

LEMMA WeightOfFlat ==
    ASSUME NEW L, NEW weight \in [L -> Nat], NEW seqs \in Seq(Seq(L)), seqs # <<>>
    PROVE  /\ FlattenSeq(seqs) \in Seq(L)
           /\ WeightOf(weight, FlattenSeq(seqs))
                  = SumOver([i \in DOMAIN seqs |-> WeightOf(weight, seqs[i])])
<1>1. PICK n \in Nat \ {0} : n = Len(seqs) /\ DOMAIN seqs = 1 .. n
  BY EmptySeq, LenProperties
<1> DEFINE step(f, i) == IF i = 1 THEN seqs[i] ELSE f[i - 1] \o seqs[i]
           Built(m, f) == f = [i \in 1 .. m |-> step(f, i)]
           Ok == {m \in 0 .. n : \E f : Built(m, f)}
<1>2. 0 \in Ok
  <2> DEFINE f == [i \in 1 .. 0 |-> seqs[i]]
  <2>1. Built(0, f) /\ 0 \in 0 .. n
    BY <1>1
  <2> HIDE DEF Built, f
  <2> QED  BY <2>1
<1>3. ASSUME NEW m \in 0 .. (n - 1), m \in Ok
      PROVE  m + 1 \in Ok
  <2>1. PICK f : Built(m, f)
    BY <1>3, Zenon
  <2> DEFINE g == [i \in 1 .. (m + 1) |-> IF i <= m THEN f[i] ELSE step(f, m + 1)]
  <2>2. ASSUME NEW i \in 1 .. (m + 1)
        PROVE  g[i] = step(g, i)
    <3>1. CASE i <= m
      <4>1. i \in 1 .. m
        BY <3>1
      <4>2. f[i] = step(f, i)
        BY <2>1, <4>1, Zenon
      <4>3. i # 1 => i - 1 \in 1 .. m /\ g[i - 1] = f[i - 1]
        BY <4>1
      <4>4. g[i] = f[i]
        BY <3>1
      <4> HIDE DEF g
      <4> QED  BY <4>2, <4>3, <4>4
    <3>2. CASE i = m + 1
      <4>1. g[i] = step(f, i)
        BY <3>2
      <4>2. i # 1 => i - 1 \in 1 .. m /\ g[i - 1] = f[i - 1]
        BY <3>2
      <4> HIDE DEF g
      <4> QED  BY <4>1, <4>2
    <3> QED  BY <3>1, <3>2
  <2>3. Built(m + 1, g)
    BY <2>2, Zenon
  <2>4. m + 1 \in 0 .. n
    BY <1>1
  <2> HIDE DEF Built, g
  <2> QED  BY <2>3, <2>4
<1>4. n \in Ok
  <2> HIDE DEF Ok
  <2> QED  BY <1>2, <1>3, UpTo
<1>5. PICK flat : /\ flat = CHOOSE f : Built(n, f)
                  /\ Built(n, flat)
  BY <1>4, Zenon
<1>6. FlattenSeq(seqs) = flat[n]
  BY <1>1, <1>5 DEF FlattenSeq
<1>7. \A i \in 1 .. n : flat[i] = step(flat, i)
  BY <1>5, Zenon
<1>8. flat[1] = seqs[1] /\ \A i \in 1 .. (n - 1) : flat[i + 1] = flat[i] \o seqs[i + 1]
  <2>1. 1 \in 1 .. n
    BY <1>1
  <2>2. ASSUME NEW i \in 1 .. (n - 1)
        PROVE  flat[i + 1] = flat[i] \o seqs[i + 1]
    <3>1. i + 1 \in 1 .. n /\ i + 1 # 1 /\ (i + 1) - 1 = i
      BY <1>1
    <3>2. flat[i + 1] = step(flat, i + 1)
      BY <1>7, <3>1, Zenon
    <3> QED  BY <3>1, <3>2, Zenon
  <2> QED  BY <1>7, <2>1, <2>2, Zenon
<1>9. \A i \in 1 .. n : seqs[i] \in Seq(L)
  BY <1>1, ElementOfSeq
<1> DEFINE w == [i \in 1 .. n |-> WeightOf(weight, seqs[i])]
<1>10. w \in [1 .. n -> Nat] /\ IsFiniteSet(1 .. n)
  <2>1. \A i \in 1 .. n : WeightOf(weight, seqs[i]) \in Nat
    BY <1>9, WeightType, Zenon
  <2>2. IsFiniteSet(1 .. n)
    BY FS_Interval
  <2> QED  BY <2>1, <2>2
<1>11. \A i \in 1 .. n : w[i] = WeightOf(weight, seqs[i])
  OBVIOUS
<1> DEFINE Sum == {m \in 0 .. n : m # 0 => /\ flat[m] \in Seq(L)
                                           /\ WeightOf(weight, flat[m]) = SumOver(Only(w, 1 .. m))}
<1> HIDE DEF w
<1>12. ASSUME NEW m \in 0 .. (n - 1), m \in Sum
       PROVE  m + 1 \in Sum
  <2>1. m + 1 \in 1 .. n
    BY <1>1
  <2>2. /\ SumOver(Only(w, 1 .. (m + 1))) = w[m + 1] + SumOver(Only(w, 1 .. m))
        /\ m = 0 => SumOver(Only(w, 1 .. m)) = 0
    BY <1>10, SumUpTo, Zenon
  <2>3. SumOver(Only(w, 1 .. m)) \in Nat /\ w[m + 1] \in Nat
    BY <1>10, SumUpTo, Zenon
  <2>4. w[m + 1] = WeightOf(weight, seqs[m + 1]) /\ seqs[m + 1] \in Seq(L)
    BY <1>9, <1>11, <2>1
  <2>5. CASE m = 0
    <3>2. SumOver(Only(w, 1 .. m)) = 0
      BY <2>2, <2>5
    <3>3. flat[m + 1] = seqs[m + 1]
      BY <1>8, <2>5
    <3>4. m + 1 \in 0 .. n
      BY <1>1
    <3> QED  BY <2>2, <2>3, <2>4, <3>2, <3>3, <3>4
  <2>6. CASE m # 0
    <3>1. flat[m] \in Seq(L) /\ WeightOf(weight, flat[m]) = SumOver(Only(w, 1 .. m))
      BY <1>12, <2>6
    <3>2. flat[m + 1] = flat[m] \o seqs[m + 1]
      <4>1. m \in 1 .. (n - 1)
        BY <2>6
      <4> QED  BY <1>8, <4>1, Zenon
    <3>3. /\ flat[m] \o seqs[m + 1] \in Seq(L)
          /\ WeightOf(weight, flat[m] \o seqs[m + 1])
                 = WeightOf(weight, flat[m]) + WeightOf(weight, seqs[m + 1])
      BY <2>4, <3>1, WeightOfConcat, ZenonT(30)
    <3>4. m + 1 \in 0 .. n
      BY <1>1
    <3>5. WeightOf(weight, flat[m + 1]) = SumOver(Only(w, 1 .. (m + 1)))
      BY <2>2, <2>3, <2>4, <3>1, <3>2, <3>3
    <3> QED  BY <3>2, <3>3, <3>4, <3>5, Zenon
  <2> QED  BY <2>5, <2>6
<1>13. n \in Sum
  <2>1. 0 \in Sum
    OBVIOUS
  <2> HIDE DEF Sum
  <2> QED  BY <1>12, <2>1, UpTo
<1>14. flat[n] \in Seq(L) /\ WeightOf(weight, flat[n]) = SumOver(Only(w, 1 .. n))
  BY <1>13
<1>15. Only(w, 1 .. n) = w /\ w = [i \in DOMAIN seqs |-> WeightOf(weight, seqs[i])]
  BY <1>1, <1>10 DEF Only, w
<1> QED  BY <1>6, <1>14, <1>15

\* An ascending listing of a finite set of numbers exists, so InOrder is one.
LEMMA InOrderLists ==
    ASSUME NEW S, IsFiniteSet(S), S \subseteq Nat
    PROVE  LET s == InOrder(S)
               k == Cardinality(S)
           IN  /\ k \in Nat /\ s \in [1 .. k -> S]
               /\ \A i, h \in 1 .. k : s[i] = s[h] => i = h
               /\ \A x \in S : \E i \in 1 .. k : s[i] = x
               /\ S # {} => k >= 1 /\ s[1] = Min(S)
<1> DEFINE Lists(T, s) == /\ s \in [1 .. Cardinality(T) -> T]
                          /\ \A i, h \in 1 .. Cardinality(T) : i < h => s[i] < s[h]
           Good == {T \in SUBSET S : \E s : Lists(T, s)}
<1>1. {} \in Good
  <2> DEFINE s == [i \in 1 .. 0 |-> i]
  <2>1. Cardinality({}) = 0 /\ s \in [1 .. 0 -> {}]
    BY FS_EmptySet
  <2>2. Lists({}, s)
    BY <2>1
  <2> HIDE DEF Lists, s
  <2> QED  BY <2>2
<1>2. ASSUME NEW T \in SUBSET S, T # {}, \A x \in T : T \ {x} \in Good
      PROVE  T \in Good
  <2>1. IsFiniteSet(T)
    BY FS_Subset, Zenon
  <2>2. PICK top \in T : \A x \in T : top >= x
    <3>1. T \subseteq Int
      OBVIOUS
    <3> QED  BY <1>2, <2>1, <3>1, MaxOfFinite, Zenon
  <2>3. PICK m \in Nat : Cardinality(T) = m + 1 /\ Cardinality(T \ {top}) = m
    <3>1. Cardinality(T) \in Nat /\ Cardinality(T \ {top}) \in Nat
      BY <2>1, FS_RemoveElement, FS_CardinalityType
    <3>2. Cardinality(T \ {top}) = Cardinality(T) - 1
      BY <2>1, FS_RemoveElement, Zenon
    <3> QED  BY <3>1, <3>2
  <2>4. PICK s : Lists(T \ {top}, s)
    BY <1>2, Zenon
  <2> DEFINE t == [i \in 1 .. (m + 1) |-> IF i <= m THEN s[i] ELSE top]
  <2>5. /\ s \in [1 .. m -> T \ {top}]
        /\ \A i, h \in 1 .. m : i < h => s[i] < s[h]
    BY <2>3, <2>4, Zenon
  <2>6. t \in [1 .. (m + 1) -> T]
    BY <2>5
  <2>7. ASSUME NEW i \in 1 .. (m + 1), NEW h \in 1 .. (m + 1), i < h
        PROVE  t[i] < t[h]
    <3>1. i \in 1 .. m /\ t[i] = s[i]
      BY <2>7
    <3>2. CASE h <= m
      <4>1. h \in 1 .. m /\ t[h] = s[h]
        BY <3>2
      <4> HIDE DEF t
      <4> QED  BY <2>5, <2>7, <3>1, <4>1
    <3>3. CASE h = m + 1
      <4>1. t[h] = top
        BY <3>3
      <4>2. s[i] \in T \ {top}
        BY <2>5, <3>1
      <4>3. s[i] \in Nat /\ top \in Nat /\ top >= s[i] /\ s[i] # top
        BY <2>2, <4>2, Zenon
      <4> HIDE DEF t
      <4> QED  BY <3>1, <4>1, <4>3
    <3> QED  BY <3>2, <3>3
  <2>8. Lists(T, t)
    BY <2>3, <2>6, <2>7
  <2> HIDE DEF Lists, t
  <2> QED  BY <2>8
<1>3. PICK s : s = InOrder(S) /\ Lists(S, s)
  <2>1. S \in Good
    <3> HIDE DEF Good
    <3> QED  BY <1>1, <1>2, SubsetInduction, Zenon
  <2>2. PICK t \in [1 .. Cardinality(S) -> S] :
            \A i, h \in DOMAIN t : i < h => t[i] < t[h]
    BY <2>1, Zenon
  <2>3. /\ InOrder(S) \in [1 .. Cardinality(S) -> S]
        /\ \A i, h \in DOMAIN InOrder(S) : i < h => InOrder(S)[i] < InOrder(S)[h]
    BY <2>2, Zenon DEF InOrder
  <2> QED  BY <2>3, Zenon
<1>4. PICK k \in Nat : k = Cardinality(S)
  BY FS_CardinalityType
<1>5. s \in [1 .. k -> S] /\ \A i, h \in 1 .. k : i < h => s[i] < s[h]
  BY <1>3, <1>4
<1>6. \A i \in 1 .. k : s[i] \in Nat
  BY <1>5, Zenon
<1>7. \A i, h \in 1 .. k : s[i] = s[h] => i = h
  <2>1. ASSUME NEW i \in 1 .. k, NEW h \in 1 .. k, s[i] = s[h]
        PROVE  i = h
    <3>1. ~(s[i] < s[h]) /\ ~(s[h] < s[i])
      BY <1>6, <2>1
    <3>2. ~(i < h) /\ ~(h < i)
      BY <1>5, <3>1
    <3> QED  BY <3>2
  <2> QED  BY <2>1
<1>8. \A x \in S : \E i \in 1 .. k : s[i] = x
  <2>1. s \in Injection(1 .. k, S)
    BY <1>5, <1>7 DEF Injection, IsInjective
  <2>2. Cardinality(1 .. k) = k
    BY FS_Interval
  <2>3. s \in Surjection(1 .. k, S)
    BY <1>4, <2>1, <2>2, FS_Injection
  <2> QED  BY <2>3 DEF Surjection
<1>9. S # {} => k >= 1 /\ s[1] = Min(S)
  <2> SUFFICES ASSUME S # {}
               PROVE  k >= 1 /\ s[1] = Min(S)
    OBVIOUS
  <2>1. k >= 1
    <3>1. PICK x \in S : TRUE
      BY Zenon
    <3>2. PICK i \in 1 .. k : s[i] = x
      BY <1>8
    <3> QED  BY <3>2
  <2>2. s[1] \in S /\ \A x \in S : s[1] <= x
    <3>1. ASSUME NEW x \in S
          PROVE  s[1] <= x
      <4>1. PICK i \in 1 .. k : s[i] = x
        BY <1>8
      <4>2. i = 1 \/ s[1] < s[i]
        BY <1>5, <2>1
      <4> QED  BY <1>6, <2>1, <4>1, <4>2
    <3> QED  BY <1>5, <2>1, <3>1
  <2>3. ASSUME NEW x \in S, \A y \in S : x <= y
        PROVE  x = s[1]
    <3>1. x <= s[1] /\ s[1] <= x /\ x \in Nat /\ s[1] \in Nat
      BY <2>2, <2>3, Zenon
    <3> QED  BY <3>1
  <2> QED  BY <2>1, <2>2, <2>3, Zenon DEF Min
<1> QED  BY <1>3, <1>4, <1>5, <1>7, <1>8, <1>9

\* The floored shares of a line do not exceed it.
LEMMA SharesFit ==
    ASSUME NEW cents \in Nat, NEW split \in [Accounts -> Nat], SumOver(split) = Whole
    PROVE  LET part == [a \in Accounts |-> Part(cents, split[a])]
           IN  part \in [Accounts -> Nat] /\ SumOver(part) \in 0 .. cents
<1> DEFINE line == [a \in Accounts |-> cents]
           part == [a \in Accounts |-> Part(line[a], split[a])]
           exact == [a \in Accounts |-> line[a] * split[a]]
<1>1. IsFiniteSet(Accounts) /\ Whole \in Nat \ {0} /\ line \in [Accounts -> Nat]
  BY RoutingAssumption, WholeAssumption
<1>2. exact = [a \in Accounts |-> cents * split[a]]
      /\ part = [a \in Accounts |-> Part(cents, split[a])]
  OBVIOUS
<1> HIDE DEF line
<1>3. ASSUME NEW a \in Accounts
      PROVE  /\ Part(line[a], split[a]) \in Nat /\ line[a] * split[a] \in Nat
             /\ Whole * part[a] <= exact[a] /\ exact[a] <= Whole * part[a] + (Whole - 1)
  BY <1>1, PartOfProduct
<1>4. part \in [Accounts -> Nat] /\ exact \in [Accounts -> Nat]
  BY <1>3
<1> HIDE DEF part, exact
<1>5. SumOver(part) \in Nat /\ Whole * SumOver(part) <= SumOver(exact)
  BY <1>1, <1>3, <1>4, FlooredSum
<1>6. SumOver(exact) = cents * Whole
  BY <1>1, <1>2, SumScaled
<1>7. PICK total \in Nat : total = SumOver(part)
  BY <1>5
<1>8. total <= cents
  <2>1. Whole * total <= Whole * cents
    BY <1>1, <1>5, <1>6, <1>7
  <2> QED  BY <1>1, <1>7, <2>1
<1> QED  BY <1>2, <1>4, <1>7, <1>8

\* The sum over one member.
LEMMA SumOfOne ==
    ASSUME NEW S, IsFiniteSet(S), NEW f \in [S -> Nat], NEW x \in S
    PROVE  SumOver(Only(f, {x})) = f[x]
<1>1. {x} \in SUBSET S /\ x \in {x} /\ {x} \ {x} = {} /\ f[x] \in Nat
  OBVIOUS
<1>2. SumOver(Only(f, {x})) = f[x] + SumOver(Only(f, {x} \ {x}))
  BY <1>1, SumRemove
<1>3. SumOver(Only(f, {})) = 0
  BY SumOfNone
<1> QED  BY <1>1, <1>2, <1>3

\* What is not paid adds nothing: the payees' parts come to the sum of all.
LEMMA PayeesAreAll ==
    ASSUME NEW S, IsFiniteSet(S), NEW part \in [S -> Nat], NEW P \in SUBSET S,
           \A a \in S \ P : part[a] = 0, NEW N, IsFiniteSet(N), NEW paid \in [N -> P],
           \A i, h \in N : paid[i] = paid[h] => i = h,
           \A x \in P : \E i \in N : paid[i] = x,
           NEW amt \in [N -> Nat], \A i \in N : amt[i] = part[paid[i]]
    PROVE  SumOver(amt) = SumOver(part)
<1>1. PICK Q \in SUBSET S : Q = S \ P
  BY Zenon
<1>2. IsFiniteSet(P) /\ IsFiniteSet(Q)
  BY FS_Subset
<1>3. PICK q \in [P -> Nat] : q = Only(part, P) /\ \A a \in P : q[a] = part[a]
  <2>1. Only(part, P) \in [P -> Nat] /\ \A a \in P : Only(part, P)[a] = part[a]
    BY DEF Only
  <2> QED  BY <2>1
<1>4. SumOver(part) = SumOver(q) + SumOver(Only(part, Q))
  BY <1>1, <1>3, SumSplit
<1>5. SumOver(Only(part, Q)) = 0
  <2>1. Only(part, Q) = [a \in Q |-> 0]
    BY <1>1 DEF Only
  <2> QED  BY <1>2, <2>1, SumOfZeros
<1>6. \A i \in N : amt[i] = q[paid[i]]
  BY <1>3
<1>7. SumOver(amt) = SumOver(q)
  BY <1>2, <1>6, SumRenamedOf
<1>8. SumOver(q) \in Nat
  BY <1>2, SumType
<1> QED  BY <1>4, <1>5, <1>7, <1>8

\* The legs ls pay each of P, listed by paid at the places N, its part.
PaysParts(ls, S, part, P, N, paid) ==
    /\ IsFiniteSet(S) /\ part \in [S -> Nat] /\ P \in SUBSET S
    /\ \A a \in S \ P : part[a] = 0
    /\ IsFiniteSet(N) /\ paid \in [N -> P]
    /\ \A i, h \in N : paid[i] = paid[h] => i = h
    /\ \A x \in P : \E i \in N : paid[i] = x
    /\ ls = [i \in N |-> Leg(paid[i], part[paid[i]])]

LEMMA PartsArePaid ==
    ASSUME NEW ls, NEW S, NEW part, NEW P, NEW N, NEW paid, PaysParts(ls, S, part, P, N, paid)
    PROVE  /\ CentsOf(ls) = SumOver(part)
           /\ \A a \in S : CentsTo(ls, a) = part[a]
<1>1. PICK f \in [S -> Nat], key \in [N -> P] : f = part /\ key = paid
  BY DEF PaysParts
<1>2. IsFiniteSet(S) /\ IsFiniteSet(N) /\ P \in SUBSET S
  BY DEF PaysParts
<1>3. (\A a \in S \ P : f[a] = 0) /\ (\A i, h \in N : key[i] = key[h] => i = h)
      /\ (\A x \in P : \E i \in N : key[i] = x)
  BY <1>1 DEF PaysParts
<1>4. DOMAIN ls = N /\ \A i \in N : ls[i].account = key[i] /\ ls[i].cents = f[key[i]]
  BY <1>1 DEF PaysParts, Leg
<1>5. PICK amt \in [N -> Nat] : \A i \in N : amt[i] = f[key[i]] /\ ls[i].cents = amt[i]
  <2>1. \A i \in N : f[key[i]] \in Nat
    BY <1>2
  <2>2. [i \in N |-> f[key[i]]] \in [N -> Nat]
    BY <2>1
  <2> QED  BY <1>4, <2>2, Zenon
<1>6. CentsOf(ls) = SumOver(amt)
  <2>1. [i \in DOMAIN ls |-> ls[i].cents] = amt
    BY <1>4, <1>5
  <2> QED  BY <2>1 DEF CentsOf
<1>7. SumOver(amt) = SumOver(f)
  <2>1. \A i \in N : amt[i] = f[key[i]]
    BY <1>5
  <2>2. \A a \in S \ P : f[a] = 0
    BY <1>3
  <2>3. \A i, h \in N : key[i] = key[h] => i = h
    BY <1>3
  <2>4. \A x \in P : \E i \in N : key[i] = x
    BY <1>3
  <2> QED  BY <1>2, <2>1, <2>2, <2>3, <2>4, PayeesAreAll
<1>8. ASSUME NEW a \in S
      PROVE  CentsTo(ls, a) = f[a]
  <2>1. CASE a \in P
    <3>1. PICK i \in N : key[i] = a
      BY <1>3, <2>1
    <3>2. LegsTo(ls, a) = {i}
      BY <1>3, <1>4, <3>1 DEF LegsTo
    <3>3. [h \in LegsTo(ls, a) |-> ls[h].cents] = Only(amt, {i})
      BY <1>5, <3>2 DEF Only
    <3>4. SumOver(Only(amt, {i})) = amt[i]
      BY <1>2, SumOfOne
    <3> QED  BY <1>5, <3>1, <3>3, <3>4 DEF CentsTo
  <2>2. CASE a \notin P
    <3>1. LegsTo(ls, a) = {}
      BY <1>4, <2>2 DEF LegsTo
    <3>2. [h \in LegsTo(ls, a) |-> ls[h].cents] = Only(amt, {})
      BY <3>1 DEF Only
    <3>3. SumOver(Only(amt, {})) = 0
      BY <1>2, SumOfNone
    <3>4. f[a] = 0
      BY <1>3, <2>2
    <3> QED  BY <3>2, <3>3, <3>4 DEF CentsTo
  <2> QED  BY <2>1, <2>2
<1> QED  BY <1>1, <1>6, <1>7, <1>8

\* g is f with residue more at x.
LiftedAt(g, f, S, x, residue) ==
    /\ f \in [S -> Nat] /\ g \in [S -> Nat] /\ g[x] = f[x] + residue
    /\ \A i \in S \ {x} : g[i] = f[i]

LEMMA SumLifted ==
    ASSUME NEW S, IsFiniteSet(S), NEW x \in S, NEW residue \in Nat, NEW f, NEW g,
           LiftedAt(g, f, S, x, residue)
    PROVE  SumOver(g) = SumOver(f) + residue
<1>1. PICK p \in [S -> Nat], q \in [S -> Nat] : p = f /\ q = g
  BY DEF LiftedAt
<1>2. q[x] = p[x] + residue /\ \A i \in S \ {x} : q[i] = p[i]
  BY <1>1 DEF LiftedAt
<1>3. SumOver(q) + p[x] = SumOver(p) + q[x]
  BY <1>2, SumsDiffer
<1>4. SumOver(q) \in Nat /\ SumOver(p) \in Nat /\ p[x] \in Nat
  BY SumType
<1>5. SumOver(q) = SumOver(p) + residue
  BY <1>2, <1>3, <1>4
<1> QED  BY <1>1, <1>5

\* The legs more are the legs ls with residue on top of leg x.
Lifted(more, ls, x, residue) == more = [ls EXCEPT ![x].cents = @ + residue]

\* The residue goes onto one leg.
LEMMA LegIsLifted ==
    ASSUME NEW accounts, NEW ls \in LegsFor(accounts), NEW residue \in Nat, NEW more,
           NEW x \in DOMAIN ls, Lifted(more, ls, x, residue)
    PROVE  /\ more \in LegsFor(accounts) /\ CentsOf(more) = CentsOf(ls) + residue
           /\ \A a : CentsTo(more, a) = IF a = ls[x].account THEN CentsTo(ls, a) + residue
                                        ELSE CentsTo(ls, a)
<1>1. PICK k \in Nat : /\ DOMAIN ls = 1 .. k
                       /\ ls \in [1 .. k -> [account : accounts, cents : Nat]]
  <2>1. PICK T : T = [account : accounts, cents : Nat]
    BY Zenon
  <2>2. ls \in Seq(T)
    BY <2>1 DEF LegsFor
  <2>3. PICK k \in Nat : ls \in [1 .. k -> T]
    BY <2>2, SeqIs
  <2> QED  BY <2>1, <2>3, Zenon
<1>2. PICK D : D = 1 .. k /\ IsFiniteSet(D) /\ x \in D
  <2>1. IsFiniteSet(1 .. k) /\ x \in 1 .. k
    BY <1>1, UpToIsFinite
  <2> QED  BY <2>1
<1>3. \A i \in D : ls[i].account \in accounts /\ ls[i].cents \in Nat
  BY <1>1, <1>2
<1>4. /\ DOMAIN more = D
      /\ \A i \in D : more[i].account = ls[i].account
      /\ more[x].cents = ls[x].cents + residue
      /\ \A i \in D \ {x} : more[i].cents = ls[i].cents
  BY <1>1, <1>2 DEF Lifted
<1>5. more \in LegsFor(accounts)
  <2>1. PICK T : T = [account : accounts, cents : Nat]
    BY Zenon
  <2>2. \A i \in D : ls[i] \in T
    BY <1>1, <1>2, <2>1
  <2>3. more[x] = [ls[x] EXCEPT !.cents = ls[x].cents + residue]
    BY <1>1, <1>2 DEF Lifted
  <2>4. more[x] \in T
    BY <1>2, <2>1, <2>2, <2>3
  <2>5. \A i \in D \ {x} : more[i] = ls[i]
    BY <1>1, <1>2 DEF Lifted
  <2>6. more \in [1 .. k -> T]
    <3>1. more = [i \in D |-> more[i]]
      BY <1>1, <1>2, Zenon DEF Lifted
    <3>2. \A i \in D : more[i] \in T
      BY <2>2, <2>4, <2>5
    <3> QED  BY <1>2, <3>1, <3>2
  <2>7. more \in Seq(T)
    BY <2>6, SeqFrom
  <2> QED  BY <2>1, <2>7 DEF LegsFor
<1>6. PICK f \in [D -> Nat] : \A i \in D : f[i] = ls[i].cents
  <2>1. [i \in D |-> ls[i].cents] \in [D -> Nat]
    BY <1>3
  <2> QED  BY <2>1, Zenon
<1>7. PICK g \in [D -> Nat] : \A i \in D : g[i] = more[i].cents
  <2>1. \A i \in D : more[i].cents \in Nat
    BY <1>3, <1>4
  <2>2. [i \in D |-> more[i].cents] \in [D -> Nat]
    BY <2>1
  <2> QED  BY <2>2, Zenon
<1>8. g[x] = f[x] + residue /\ \A i \in D \ {x} : g[i] = f[i]
  BY <1>2, <1>4, <1>6, <1>7, Zenon
<1>9. CentsOf(more) = CentsOf(ls) + residue
  <2>1. [i \in DOMAIN ls |-> ls[i].cents] = f /\ [i \in DOMAIN more |-> more[i].cents] = g
    BY <1>1, <1>2, <1>4, <1>6, <1>7
  <2>2. CentsOf(ls) = SumOver(f) /\ CentsOf(more) = SumOver(g)
    BY <2>1 DEF CentsOf
  <2>3. LiftedAt(g, f, D, x, residue)
    BY <1>8 DEF LiftedAt
  <2>4. SumOver(g) = SumOver(f) + residue
    <3>1. IsFiniteSet(D) /\ x \in D
      BY <1>2
    <3> QED  BY <2>3, <3>1, SumLifted
  <2> QED  BY <2>2, <2>4
<1>10. ASSUME NEW a
       PROVE  CentsTo(more, a) = IF a = ls[x].account THEN CentsTo(ls, a) + residue
                                 ELSE CentsTo(ls, a)
  <2>1. PICK T : T = {i \in D : ls[i].account = a}
    BY Zenon
  <2>2. LegsTo(ls, a) = T
    BY <1>1, <1>2, <2>1 DEF LegsTo
  <2>3. LegsTo(more, a) = T
    <3>1. \A i \in D : more[i].account = ls[i].account
      BY <1>4
    <3> QED  BY <1>4, <2>1, <3>1 DEF LegsTo
  <2>4. T \in SUBSET D /\ IsFiniteSet(T) /\ (x \in T <=> a = ls[x].account)
    <3>1. T \subseteq D /\ (x \in T <=> a = ls[x].account)
      BY <1>2, <2>1
    <3> QED  BY <1>2, <3>1, FS_Subset
  <2>5. PICK p \in [T -> Nat] : \A i \in T : p[i] = f[i]
    <3>1. [i \in T |-> f[i]] \in [T -> Nat]
      BY <2>4
    <3> QED  BY <3>1, Zenon
  <2>6. PICK q \in [T -> Nat] : \A i \in T : q[i] = g[i]
    <3>1. [i \in T |-> g[i]] \in [T -> Nat]
      BY <2>4
    <3> QED  BY <3>1, Zenon
  <2>7. CentsTo(ls, a) = SumOver(p) /\ CentsTo(more, a) = SumOver(q)
    <3>1. [i \in T |-> ls[i].cents] = p
      BY <1>6, <2>4, <2>5
    <3>2. [i \in T |-> more[i].cents] = q
      BY <1>7, <2>4, <2>6
    <3> QED  BY <2>2, <2>3, <3>1, <3>2 DEF CentsTo
  <2>8. CASE a = ls[x].account
    <3>1. q[x] = p[x] + residue /\ \A i \in T \ {x} : q[i] = p[i]
      BY <1>8, <2>4, <2>5, <2>6, <2>8
    <3>2. LiftedAt(q, p, T, x, residue)
      BY <3>1 DEF LiftedAt
    <3>3. SumOver(q) = SumOver(p) + residue
      BY <2>4, <2>8, <3>2, SumLifted
    <3> QED  BY <2>7, <2>8, <3>3
  <2>9. CASE a # ls[x].account
    <3>1. \A i \in T : q[i] = p[i]
      BY <1>8, <2>4, <2>5, <2>6, <2>9
    <3>2. q = p
      BY <3>1
    <3> QED  BY <2>7, <2>9, <3>2
  <2> QED  BY <2>8, <2>9
<1> QED  BY <1>5, <1>9, <1>10

\* One leg pays its account and nobody else.
LEMMA OneLegPays ==
    ASSUME NEW accounts, NEW account \in accounts, NEW cents \in Nat, NEW ls,
           ls = <<Leg(account, cents)>>
    PROVE  /\ ls \in LegsFor(accounts) /\ CentsOf(ls) = cents
           /\ CentsTo(ls, account) = cents
           /\ \A a : a # account => CentsTo(ls, a) = 0
<1>1. DOMAIN ls = {1} /\ ls[1].account = account /\ ls[1].cents = cents
  BY DEF Leg
<1>2. ls \in LegsFor(accounts)
  <2>1. Leg(account, cents) \in [account : accounts, cents : Nat]
    BY DEF Leg
  <2> QED  BY <2>1 DEF LegsFor
<1>3. PICK f \in [{1} -> Nat] : f[1] = cents /\ f = [i \in {1} |-> ls[i].cents]
  <2>1. [i \in {1} |-> ls[i].cents] \in [{1} -> Nat]
    BY <1>1
  <2> QED  BY <1>1, <2>1, Zenon
<1>4. SumOver(Only(f, {1})) = cents /\ SumOver(Only(f, {})) = 0
  <2>1. PICK S : S = {1} /\ IsFiniteSet(S)
    BY FS_Singleton, Zenon
  <2>2. f \in [S -> Nat] /\ 1 \in S
    BY <2>1
  <2> QED  BY <1>3, <2>1, <2>2, SumOfOne, SumOfNone
<1>5. Only(f, {1}) = f
  BY DEF Only
<1>6. CentsOf(ls) = cents
  <2>1. [i \in DOMAIN ls |-> ls[i].cents] = f
    BY <1>1, <1>3
  <2> QED  BY <1>4, <1>5, <2>1 DEF CentsOf
<1>7. CentsTo(ls, account) = cents
  <2>1. LegsTo(ls, account) = {1}
    BY <1>1 DEF LegsTo
  <2>2. [i \in LegsTo(ls, account) |-> ls[i].cents] = f
    BY <1>3, <2>1
  <2> QED  BY <1>4, <1>5, <2>2 DEF CentsTo
<1>8. ASSUME NEW a, a # account
      PROVE  CentsTo(ls, a) = 0
  <2>1. LegsTo(ls, a) = {}
    BY <1>1, <1>8 DEF LegsTo
  <2>2. [i \in LegsTo(ls, a) |-> ls[i].cents] = Only(f, {})
    BY <2>1 DEF Only
  <2> QED  BY <1>4, <2>2 DEF CentsTo
<1> QED  BY <1>2, <1>6, <1>7, <1>8

\* A line with no floored leg gives everything to its first payee, and one with
\* legs gives the residue to the first of them.
LEMMA LineIsPaid ==
    ASSUME NEW line, line.cents \in Nat, line.asset \in DOMAIN assets, SplitsShareTheWhole
    PROVE  /\ LineLegs(line) \in LegsFor(Accounts) /\ CentsOf(LineLegs(line)) = line.cents
           /\ \A a \in Accounts :
                 LET paid == CentsTo(LineLegs(line), a)
                     due == Part(line.cents, assets[line.asset].split[a])
                 IN  /\ due \in Nat /\ paid >= due
                     /\ paid > due => a = FirstOf(line)
                     /\ paid > 0 => a \in Payees(assets[line.asset].split)
<1>1. PICK cents \in Nat, split \in [Accounts -> Nat] :
          cents = line.cents /\ split = assets[line.asset].split /\ SumOver(split) = Whole
  BY DEF SplitsShareTheWhole
<1>2. PICK part \in [Accounts -> Nat] :
          /\ \A a \in Accounts : part[a] = Part(cents, split[a])
          /\ SumOver(part) \in 0 .. cents
  BY <1>1, SharesFit, Zenon
<1>3. IsFiniteSet(Accounts) /\ Accounts \subseteq Nat
  BY RoutingAssumption
<1>4. PICK P : P = {a \in Accounts : Part(line.cents, assets[line.asset].split[a]) > 0}
  BY Zenon
<1>5. P \in SUBSET Accounts /\ \A a \in Accounts : a \in P <=> part[a] > 0
  BY <1>1, <1>2, <1>4
<1>6. IsFiniteSet(P) /\ P \subseteq Nat
  <2>1. P \subseteq Nat
    BY <1>3, <1>5
  <2> QED  BY <1>3, <1>5, <2>1, FS_Subset, Zenon
<1>7. \A a \in Accounts : part[a] > 0 => split[a] > 0
  <2>1. ASSUME NEW a \in Accounts, split[a] = 0
        PROVE  part[a] = 0
    <3>1. cents * 0 = 0 /\ 0 \div Whole = 0
      BY WholeAssumption
    <3> QED  BY <1>2, <2>1, <3>1 DEF Part
  <2> QED  BY <1>1, <2>1
<1>8. PICK k \in Nat : k = Cardinality(P)
  BY <1>6, FS_CardinalityType
<1>9. PICK paid \in [1 .. k -> P] :
          /\ paid = InOrder(P)
          /\ \A i, h \in 1 .. k : paid[i] = paid[h] => i = h
          /\ \A x \in P : \E i \in 1 .. k : paid[i] = x
          /\ P # {} => k >= 1 /\ paid[1] = Min(P)
  BY <1>6, <1>8, InOrderLists, Zenon
<1>10. PICK N, floored : /\ N = 1 .. k /\ floored = FlooredLegs(line)
                         /\ floored = [i \in 1 .. k |-> Leg(paid[i], part[paid[i]])]
  <2>1. DOMAIN paid = 1 .. k /\ \A i \in 1 .. k : paid[i] \in Accounts
    BY <1>5
  <2>2. \A i \in 1 .. k : Part(line.cents, assets[line.asset].split[paid[i]]) = part[paid[i]]
    BY <1>1, <1>2, <2>1
  <2>3. FlooredLegs(line) = [i \in DOMAIN paid |->
            Leg(paid[i], Part(line.cents, assets[line.asset].split[paid[i]]))]
    BY <1>4, <1>9 DEF FlooredLegs
  <2>4. FlooredLegs(line) = [i \in 1 .. k |-> Leg(paid[i], part[paid[i]])]
    BY <2>1, <2>2, <2>3
  <2> QED  BY <2>4
<1>11. CentsOf(floored) = SumOver(part) /\ \A a \in Accounts : CentsTo(floored, a) = part[a]
  <2>1. IsFiniteSet(1 .. k)
    BY UpToIsFinite
  <2>2. PaysParts(floored, Accounts, part, P, N, paid)
    <3>1. \A a \in Accounts \ P : part[a] = 0
      BY <1>5
    <3>2. /\ \A i, h \in N : paid[i] = paid[h] => i = h
          /\ \A x \in P : \E i \in N : paid[i] = x
      BY <1>9, <1>10
    <3>3. IsFiniteSet(N) /\ paid \in [N -> P]
      BY <1>10, <2>1
    <3>4. floored = [i \in N |-> Leg(paid[i], part[paid[i]])]
      BY <1>10
    <3>5. PICK pt \in [Accounts -> Nat] : pt = part
      OBVIOUS
    <3> QED  BY <1>3, <1>5, <3>1, <3>2, <3>3, <3>4 DEF PaysParts
  <2> QED  BY <2>2, PartsArePaid
<1>12. floored \in LegsFor(Accounts)
  <2>1. \A i \in 1 .. k : paid[i] \in Accounts /\ part[paid[i]] \in Nat
    BY <1>5
  <2>2. floored \in [1 .. k -> [account : Accounts, cents : Nat]]
    BY <1>10, <2>1 DEF Leg
  <2> QED  BY <2>2, SeqFrom, Zenon DEF LegsFor
<1>13. PICK residue \in Nat : residue = cents - SumOver(part)
  BY <1>2
<1>14. residue = line.cents - CentsOf(FlooredLegs(line)) /\ SumOver(part) \in Nat
  BY <1>1, <1>2, <1>10, <1>11, <1>13
<1>15. \A a \in Accounts : part[a] \in Nat
  OBVIOUS
<1> DEFINE Fair(ls) ==
       /\ ls \in LegsFor(Accounts) /\ CentsOf(ls) = cents
       /\ \A a \in Accounts : /\ CentsTo(ls, a) >= part[a]
                              /\ CentsTo(ls, a) > part[a] => a = FirstOf(line)
                              /\ CentsTo(ls, a) > 0 => split[a] > 0
<1>16. Fair(LineLegs(line))
  <2>1. CASE residue = 0
    <3>1. LineLegs(line) = floored
      BY <1>10, <1>14, <2>1 DEF LineLegs
    <3>2. CentsOf(floored) = cents
      BY <1>1, <1>11, <1>13, <1>14, <2>1
    <3> QED  BY <1>7, <1>11, <1>12, <1>15, <3>1, <3>2
  <2>2. CASE residue # 0 /\ P # {}
    <3>1. 1 \in 1 .. k /\ floored # <<>>
      <4>1. 1 \in 1 .. k
        BY <1>9, <2>2
      <4>2. DOMAIN floored = 1 .. k /\ DOMAIN <<>> = {}
        BY <1>10
      <4> QED  BY <4>1, <4>2
    <3>2. PICK first \in Accounts : /\ first = floored[1].account /\ first = FirstOf(line)
                                    /\ part[first] > 0
      <4>1. FirstOf(line) = Min(P)
        BY <1>4, <2>2 DEF FirstOf
      <4>2. paid[1] = Min(P) /\ paid[1] \in P
        BY <1>9, <2>2, <3>1
      <4>3. floored[1].account = paid[1]
        BY <1>10, <3>1 DEF Leg
      <4> QED  BY <1>5, <4>1, <4>2, <4>3
    <3>3. PICK ls : ls = LineLegs(line) /\ Lifted(ls, floored, 1, residue)
      BY <1>10, <1>14, <2>2, <3>1, Zenon DEF LineLegs, Lifted
    <3>4. /\ ls \in LegsFor(Accounts) /\ CentsOf(ls) = CentsOf(floored) + residue
          /\ \A a : CentsTo(ls, a) = IF a = floored[1].account THEN CentsTo(floored, a) + residue
                                     ELSE CentsTo(floored, a)
      <4>1. Lifted(ls, floored, 1, residue) /\ 1 \in DOMAIN floored
        BY <1>10, <3>1, <3>3
      <4> QED  BY <1>12, <4>1, LegIsLifted
    <3>5. CentsOf(ls) = cents
      BY <1>1, <1>11, <1>13, <1>14, <3>4
    <3>6. ASSUME NEW a \in Accounts
          PROVE  /\ CentsTo(ls, a) >= part[a] /\ (CentsTo(ls, a) > part[a] => a = FirstOf(line))
                 /\ CentsTo(ls, a) > 0 => split[a] > 0
      <4>1. CASE a = first
        <5>1. CentsTo(ls, a) = part[a] + residue
          BY <1>11, <3>2, <3>4, <4>1
        <5>2. split[a] > 0
          BY <1>7, <3>2, <4>1
        <5> QED  BY <1>15, <3>2, <4>1, <5>1, <5>2
      <4>2. CASE a # first
        <5>1. CentsTo(ls, a) = part[a]
          BY <1>11, <3>2, <3>4, <4>2
        <5> QED  BY <1>7, <1>15, <5>1
      <4> QED  BY <4>1, <4>2
    <3> QED  BY <3>3, <3>4, <3>5, <3>6
  <2>3. CASE residue # 0 /\ P = {}
    <3>1. \A a \in Accounts : part[a] = 0
      BY <1>5, <1>15, <2>3
    <3>2. floored = <<>>
      <4>1. k = 0
        BY <1>8, <2>3, FS_EmptySet
      <4> QED  BY <1>10, <4>1
    <3>3. PICK Q : Q = Payees(assets[line.asset].split)
      OBVIOUS
    <3>4. Q \in SUBSET Accounts /\ \A a \in Accounts : a \in Q <=> split[a] > 0
      BY <1>1, <3>3 DEF Payees
    <3>5. Q # {}
      <4>1. SUFFICES ASSUME Q = {}
                     PROVE  FALSE
        OBVIOUS
      <4>2. split = [a \in Accounts |-> 0]
        BY <3>4, <4>1
      <4>3. SumOver([a \in Accounts |-> 0]) = 0
        BY <1>3, SumOfZeros, Zenon
      <4> QED  BY <1>1, <4>2, <4>3, WholeAssumption
    <3>6. IsFiniteSet(Q) /\ Q \subseteq Nat
      <4>1. Q \subseteq Nat
        BY <1>3, <3>4
      <4> QED  BY <1>3, <3>4, <4>1, FS_Subset, Zenon
    <3>7. PICK first \in Accounts : first = Min(Q) /\ split[first] > 0
      <4>1. PICK n \in Nat : n = Cardinality(Q)
        BY <3>6, FS_CardinalityType
      <4>2. InOrder(Q) \in [1 .. n -> Q] /\ n >= 1 /\ InOrder(Q)[1] = Min(Q)
        BY <3>5, <3>6, <4>1, InOrderLists, Zenon
      <4>3. Min(Q) \in Q
        <5>1. 1 \in 1 .. n
          BY <4>2
        <5> QED  BY <4>2, <5>1
      <4> QED  BY <3>4, <4>3
    <3>8. FirstOf(line) = first
      BY <1>4, <2>3, <3>3, <3>7 DEF FirstOf
    <3>9. PICK ls : ls = LineLegs(line) /\ ls = <<Leg(first, residue)>>
      <4>1. LineLegs(line) = <<Leg(Min(Q), residue)>>
        BY <1>10, <1>14, <2>3, <3>2, <3>3, Zenon DEF LineLegs
      <4> QED  BY <3>7, <4>1
    <3>10. /\ ls \in LegsFor(Accounts) /\ CentsOf(ls) = residue
           /\ CentsTo(ls, first) = residue
           /\ \A a : a # first => CentsTo(ls, a) = 0
      BY <3>9, OneLegPays
    <3>11. residue = cents
      <4>1. part = [a \in Accounts |-> 0]
        BY <3>1
      <4>2. SumOver([a \in Accounts |-> 0]) = 0
        BY <1>3, SumOfZeros
      <4>3. SumOver(part) = 0
        BY <4>1, <4>2
      <4> QED  BY <1>13, <4>3
    <3>12. ASSUME NEW a \in Accounts
           PROVE  /\ CentsTo(ls, a) >= part[a]
                  /\ CentsTo(ls, a) > part[a] => a = FirstOf(line)
                  /\ CentsTo(ls, a) > 0 => split[a] > 0
      <4>1. part[a] = 0
        BY <3>1
      <4>2. CASE a = first
        BY <3>7, <3>8, <3>10, <4>1, <4>2
      <4>3. CASE a # first
        <5>1. CentsTo(ls, a) = 0
          BY <3>10, <4>3
        <5> QED  BY <4>1, <5>1
      <4> QED  BY <4>2, <4>3
    <3> QED  BY <3>9, <3>10, <3>11, <3>12
  <2> QED  BY <2>1, <2>2, <2>3
<1>17. \A a \in Accounts : /\ part[a] \in Nat
                           /\ Part(line.cents, assets[line.asset].split[a]) = part[a]
                           /\ a \in Payees(assets[line.asset].split) <=> split[a] > 0
  BY <1>1, <1>2 DEF Payees
<1> QED  BY <1>1, <1>16, <1>17

\* Legs, of some shape, carry their cents.
Pays(L) == \A l \in L : l.cents \in Nat
Carried(L) == [l \in L |-> l.cents]
CarriedTo(L, a) == [l \in L |-> IF l.account = a THEN l.cents ELSE 0]

LEMMA LegsWeigh ==
    ASSUME NEW L, Pays(L), NEW ls \in Seq(L)
    PROVE  /\ Carried(L) \in [L -> Nat] /\ CentsOf(ls) = WeightOf(Carried(L), ls)
           /\ \A a : /\ CarriedTo(L, a) \in [L -> Nat]
                     /\ CentsTo(ls, a) = WeightOf(CarriedTo(L, a), ls)
<1>1. Len(ls) \in Nat /\ DOMAIN ls = 1 .. Len(ls)
  BY LenProperties
<1>2. IsFiniteSet(DOMAIN ls)
  BY <1>1, FS_Interval
<1>3. \A i \in DOMAIN ls : ls[i] \in L
  BY LenProperties, ElementOfSeq
<1>4. Carried(L) \in [L -> Nat] /\ CentsOf(ls) = WeightOf(Carried(L), ls)
  <2>1. [i \in DOMAIN ls |-> ls[i].cents] = [i \in DOMAIN ls |-> Carried(L)[ls[i]]]
    BY <1>3 DEF Carried
  <2> QED  BY <2>1, Zenon DEF CentsOf, WeightOf, Carried, Pays
<1>5. ASSUME NEW a
      PROVE  /\ CarriedTo(L, a) \in [L -> Nat]
             /\ CentsTo(ls, a) = WeightOf(CarriedTo(L, a), ls)
  <2> DEFINE D == DOMAIN ls
             his == LegsTo(ls, a)
             f == [i \in D |-> CarriedTo(L, a)[ls[i]]]
             none == [i \in D \ his |-> 0]
  <2>1. CarriedTo(L, a) \in [L -> Nat]
    BY DEF CarriedTo, Pays
  <2>2. f \in [D -> Nat] /\ his \in SUBSET D /\ IsFiniteSet(D \ his)
    BY <1>2, <1>3, <2>1, FS_Subset DEF LegsTo
  <2>3. Only(f, his) = [i \in his |-> ls[i].cents] /\ Only(f, D \ his) = none
    BY <1>3 DEF Only, LegsTo, CarriedTo
  <2>4. WeightOf(CarriedTo(L, a), ls) = SumOver(f) /\ CentsTo(ls, a) = SumOver(Only(f, his))
    BY <2>3 DEF WeightOf, CentsTo
  <2> HIDE DEF f, his, D
  <2>5. SumOver(f) = SumOver(Only(f, his)) + SumOver(Only(f, D \ his))
    BY <1>2, <2>2, SumSplit DEF D
  <2>6. SumOver(none) = 0
    BY <2>2, SumOfZeros
  <2> HIDE DEF none
  <2>7. SumOver(Only(f, his)) \in Nat
    BY <1>2, <2>2, SumOfPart DEF D
  <2> QED  BY <2>1, <2>3, <2>4, <2>5, <2>6, <2>7
<1> QED  BY <1>4, <1>5

\* So do lists of them, one behind the other, if any.
LEMMA FlatPays ==
    ASSUME NEW L, Pays(L), NEW seqs \in Seq(Seq(L))
    PROVE  /\ FlattenSeq(seqs) \in Seq(L)
           /\ CentsOf(FlattenSeq(seqs)) = SumOver([i \in DOMAIN seqs |-> CentsOf(seqs[i])])
           /\ \A a : CentsTo(FlattenSeq(seqs), a)
                        = SumOver([i \in DOMAIN seqs |-> CentsTo(seqs[i], a)])
<1>1. PICK D : D = DOMAIN seqs /\ \A i \in D : seqs[i] \in Seq(L)
  BY LenProperties, ElementOfSeq
<1>2. CASE seqs = <<>>
  <2>1. FlattenSeq(seqs) = <<>> /\ D = {} /\ <<>> \in Seq(L)
    BY <1>1, <1>2, EmptySeq DEF FlattenSeq
  <2>2. CentsOf(<<>>) = SumOver([i \in {} |-> 0]) /\ \A a : CentsTo(<<>>, a) = SumOver([i \in {} |-> 0])
    <3>1. DOMAIN <<>> = {} /\ \A a : LegsTo(<<>>, a) = {}
      BY EmptySeq DEF LegsTo
    <3>2. CentsOf(<<>>) = SumOver([i \in {} |-> 0])
      BY <3>1 DEF CentsOf
    <3>3. \A a : CentsTo(<<>>, a) = SumOver([i \in {} |-> 0])
      BY <3>1 DEF CentsTo
    <3> QED  BY <3>2, <3>3
  <2>3. /\ [i \in D |-> CentsOf(seqs[i])] = [i \in {} |-> 0]
        /\ \A a : [i \in D |-> CentsTo(seqs[i], a)] = [i \in {} |-> 0]
    BY <2>1
  <2> QED  BY <1>1, <2>1, <2>2, <2>3, Zenon
<1>3. CASE seqs # <<>>
  <2>1. PICK flat \in Seq(L) : flat = FlattenSeq(seqs)
    <3>1. Carried(L) \in [L -> Nat]
      BY DEF Carried, Pays
    <3> QED  BY <1>3, <3>1, WeightOfFlat, Zenon
  <2>2. CentsOf(flat) = SumOver([i \in D |-> CentsOf(seqs[i])])
    <3>1. Carried(L) \in [L -> Nat] /\ CentsOf(flat) = WeightOf(Carried(L), flat)
      BY LegsWeigh
    <3>2. WeightOf(Carried(L), flat) = SumOver([i \in DOMAIN seqs |-> WeightOf(Carried(L), seqs[i])])
      BY <1>3, <2>1, <3>1, WeightOfFlat, Zenon
    <3>3. \A i \in D : CentsOf(seqs[i]) = WeightOf(Carried(L), seqs[i])
      BY <1>1, LegsWeigh
    <3>4. [i \in DOMAIN seqs |-> WeightOf(Carried(L), seqs[i])] = [i \in D |-> CentsOf(seqs[i])]
      BY <1>1, <3>3
    <3> QED  BY <3>1, <3>2, <3>4, Zenon
  <2>3. ASSUME NEW a
        PROVE  CentsTo(flat, a) = SumOver([i \in D |-> CentsTo(seqs[i], a)])
    <3>1. CarriedTo(L, a) \in [L -> Nat] /\ CentsTo(flat, a) = WeightOf(CarriedTo(L, a), flat)
      BY LegsWeigh
    <3>2. PICK w \in [L -> Nat] : w = CarriedTo(L, a)
      BY <3>1
    <3>3. WeightOf(w, flat) = SumOver([i \in DOMAIN seqs |-> WeightOf(w, seqs[i])])
      BY <1>3, <2>1, WeightOfFlat, Zenon
    <3>4. \A i \in D : CentsTo(seqs[i], a) = WeightOf(w, seqs[i])
      BY <1>1, <3>2, LegsWeigh
    <3>5. [i \in DOMAIN seqs |-> WeightOf(w, seqs[i])] = [i \in D |-> CentsTo(seqs[i], a)]
      BY <1>1, <3>4
    <3> QED  BY <3>1, <3>2, <3>3, <3>5, Zenon
  <2> QED  BY <1>1, <2>1, <2>2, <2>3, Zenon
<1> QED  BY <1>2, <1>3

\* Everybody a job can pay.
Payable == Accounts \union {node, carrier, network}
PaidLeg == [account : Payable, cents : Nat]
InCents == Carried(PaidLeg)
InCentsTo(a) == CarriedTo(PaidLeg, a)

LEMMA LegsAreWeighed ==
    ASSUME NEW ls \in Seq(PaidLeg)
    PROVE  /\ InCents \in [PaidLeg -> Nat] /\ CentsOf(ls) = WeightOf(InCents, ls)
           /\ \A a : /\ InCentsTo(a) \in [PaidLeg -> Nat]
                     /\ CentsTo(ls, a) = WeightOf(InCentsTo(a), ls)
<1>1. Pays(PaidLeg)
  BY DEF Pays, PaidLeg
<1> QED  BY <1>1, LegsWeigh DEF InCents, InCentsTo

\* What RoyaltiesFollowSplits says of a job and its legs, among some assets.
DueIn(all, jb, a) == SumOver([i \in DOMAIN jb.lines |->
    Part(jb.lines[i].cents, all[jb.lines[i].asset].split[a])])
FirstIn(all, line) ==
    LET split == all[line.asset].split
        paid == {a \in Accounts : Part(line.cents, split[a]) > 0}
    IN  Min(IF paid = {} THEN Payees(split) ELSE paid)
Followed(all, jb, ls) ==
    /\ ls # <<>> /\ CentsOf(ls) = JobTotal(jb)
    /\ \A a \in Accounts :
          LET paid == CentsTo(ls, a)
          IN  /\ paid >= DueIn(all, jb, a)
              /\ paid > DueIn(all, jb, a) => \E i \in DOMAIN jb.lines : a = FirstIn(all, jb.lines[i])
              /\ paid > 0 => \E i \in DOMAIN jb.lines :
                                 a \in Payees(all[jb.lines[i].asset].split)
Billable(jb) ==
    /\ jb.make \in Nat /\ jb.logistics \in Nat /\ jb.fee \in Nat
    /\ jb.lines \in Seq([asset : DOMAIN assets, cents : Nat]) /\ jb.lines # <<>>

LEMMA LinesArePaid ==
    ASSUME NEW lines \in Seq([asset : DOMAIN assets, cents : Nat]), lines # <<>>,
           SplitsShareTheWhole
    PROVE  LET flat == FlattenSeq([i \in DOMAIN lines |-> LineLegs(lines[i])])
           IN  /\ flat \in Seq(PaidLeg)
               /\ CentsOf(flat) = SumOver([i \in DOMAIN lines |-> lines[i].cents])
               /\ \A a : CentsTo(flat, a)
                            = SumOver([i \in DOMAIN lines |-> CentsTo(LineLegs(lines[i]), a)])
<1> DEFINE ll == [i \in DOMAIN lines |-> LineLegs(lines[i])]
           flat == FlattenSeq(ll)
<1>1. PICK n \in Nat \ {0} : DOMAIN lines = 1 .. n
  BY EmptySeq, LenProperties
<1>2. ASSUME NEW i \in DOMAIN lines
      PROVE  ll[i] \in Seq(PaidLeg) /\ CentsOf(ll[i]) = lines[i].cents
  <2>1. lines[i] \in [asset : DOMAIN assets, cents : Nat]
    BY ElementOfSeq, LenProperties, Zenon
  <2>2. LineLegs(lines[i]) \in LegsFor(Accounts) /\ CentsOf(LineLegs(lines[i])) = lines[i].cents
    BY <2>1, LineIsPaid
  <2>3. LineLegs(lines[i]) \in LegsFor(Payable)
    <3>1. Accounts \subseteq Payable
      BY DEF Payable
    <3>2. LegsFor(Accounts) \subseteq LegsFor(Payable)
      BY <3>1, LegsForMore
    <3> QED  BY <2>2, <3>2
  <2> QED  BY <2>2, <2>3 DEF LegsFor, PaidLeg
<1>3. ll \in Seq(Seq(PaidLeg)) /\ ll # <<>>
  <2>1. ll \in [1 .. n -> Seq(PaidLeg)]
    BY <1>1, <1>2, Zenon
  <2>2. ll \in Seq(Seq(PaidLeg))
    BY <2>1, SeqDef
  <2>3. DOMAIN ll = 1 .. n /\ 1 \in 1 .. n
    BY <1>1
  <2> HIDE DEF ll
  <2> QED  BY <2>2, <2>3, EmptySeq
<1>4. DOMAIN ll = DOMAIN lines /\ \A i \in DOMAIN lines : ll[i] = LineLegs(lines[i])
  OBVIOUS
<1>5. Pays(PaidLeg)
  BY DEF Pays, PaidLeg
<1> HIDE DEF ll
<1>6. flat \in Seq(PaidLeg) /\ CentsOf(flat) = SumOver([i \in DOMAIN ll |-> CentsOf(ll[i])])
  BY <1>3, <1>5, FlatPays, Zenon
<1>7. \A a : CentsTo(flat, a) = SumOver([i \in DOMAIN ll |-> CentsTo(ll[i], a)])
  BY <1>3, <1>5, FlatPays, Zenon
<1>8. [i \in DOMAIN ll |-> CentsOf(ll[i])] = [i \in DOMAIN lines |-> lines[i].cents]
  BY <1>2, <1>4
<1>9. \A a : [i \in DOMAIN ll |-> CentsTo(ll[i], a)]
                 = [i \in DOMAIN lines |-> CentsTo(LineLegs(lines[i]), a)]
  BY <1>4
<1>10. flat = FlattenSeq([i \in DOMAIN lines |-> LineLegs(lines[i])])
  BY DEF ll
<1> HIDE DEF flat
<1> QED  BY <1>6, <1>7, <1>8, <1>9, <1>10, Zenon

\* The legs of a whole job, of which the node, the carrier and the network get theirs.
LEMMA JobIsPaid ==
    ASSUME NEW jb, Billable(jb), SplitsShareTheWhole
    PROVE  /\ Followed(assets, jb, SettlementLegs(jb))
           /\ \A a \in Accounts : CentsTo(SettlementLegs(jb), a)
                  = SumOver([i \in DOMAIN jb.lines |-> CentsTo(LineLegs(jb.lines[i]), a)])
<1> DEFINE lines == jb.lines
           D == DOMAIN lines
           flat == FlattenSeq([i \in D |-> LineLegs(lines[i])])
           first == <<Leg(node, jb.make), Leg(carrier, jb.logistics)>>
           last == <<Leg(network, jb.fee)>>
           made == (first \o flat) \o last
<1>1. /\ jb.make \in Nat /\ jb.logistics \in Nat /\ jb.fee \in Nat
      /\ lines \in Seq([asset : DOMAIN assets, cents : Nat]) /\ lines # <<>>
  BY DEF Billable
<1>2. /\ flat \in Seq(PaidLeg)
      /\ CentsOf(flat) = SumOver([i \in D |-> lines[i].cents])
      /\ \A a : CentsTo(flat, a) = SumOver([i \in D |-> CentsTo(LineLegs(lines[i]), a)])
  <2> HIDE DEF lines
  <2> QED  BY <1>1, LinesArePaid, Zenon
<1> HIDE DEF flat
<1>3. PICK x \in PaidLeg, y \in PaidLeg, z \in PaidLeg :
          /\ x = Leg(node, jb.make) /\ y = Leg(carrier, jb.logistics) /\ z = Leg(network, jb.fee)
  BY <1>1, Zenon DEF Leg, PaidLeg, Payable
<1>4. first = <<x>> \o <<y>> /\ last = <<z>>
  BY <1>3
<1>5. <<x>> \in Seq(PaidLeg) /\ <<y>> \in Seq(PaidLeg) /\ <<z>> \in Seq(PaidLeg)
  OBVIOUS
<1> HIDE DEF first, last
<1>6. ASSUME NEW weight \in [PaidLeg -> Nat]
      PROVE  /\ made \in Seq(PaidLeg)
             /\ WeightOf(weight, made) = weight[x] + weight[y] + WeightOf(weight, flat) + weight[z]
  <2>1. first \in Seq(PaidLeg) /\ WeightOf(weight, first) = weight[x] + weight[y]
    <3>1. <<x>> \o <<y>> \in Seq(PaidLeg)
      BY <1>5, ConcatProperties
    <3>2. WeightOf(weight, <<x>> \o <<y>>) = weight[x] + weight[y]
      BY WeightOfPair
    <3> QED  BY <1>4, <3>1, <3>2, Zenon
  <2>3. last \in Seq(PaidLeg) /\ WeightOf(weight, last) = weight[z]
    BY <1>4, <1>5, WeightOfOne
  <2>4. flat \in Seq(PaidLeg)
    BY <1>2
  <2>5. /\ made \in Seq(PaidLeg)
        /\ WeightOf(weight, made)
               = (WeightOf(weight, first) + WeightOf(weight, flat)) + WeightOf(weight, last)
    <3>1. PICK s \in Seq(PaidLeg), t \in Seq(PaidLeg), u \in Seq(PaidLeg) :
              s = first /\ t = flat /\ u = last
      BY <2>1, <2>3, <2>4
    <3>2. PICK most \in Seq(PaidLeg) :
              most = s \o t /\ WeightOf(weight, most) = WeightOf(weight, s) + WeightOf(weight, t)
      BY WeightOfConcat, Zenon
    <3>3. most \o u \in Seq(PaidLeg)
          /\ WeightOf(weight, most \o u) = WeightOf(weight, most) + WeightOf(weight, u)
      BY WeightOfConcat
    <3> QED  BY <3>1, <3>2, <3>3
  <2> HIDE DEF made
  <2> QED  BY <2>1, <2>3, <2>5
<1>7. /\ InCents \in [PaidLeg -> Nat]
      /\ \A a : InCentsTo(a) \in [PaidLeg -> Nat]
  BY <1>5, LegsAreWeighed, Zenon
<1>8. made \in Seq(PaidLeg) /\ made # <<>>
  <2>1. made \in Seq(PaidLeg)
    BY <1>6, <1>7
  <2>2. PICK most : most = first \o flat /\ most \in Seq(PaidLeg)
    <3>1. first \in Seq(PaidLeg) /\ flat \in Seq(PaidLeg)
      BY <1>2, <1>4, <1>5, ConcatProperties
    <3>2. first \o flat \in Seq(PaidLeg)
      BY <3>1, ConcatProperties
    <3> QED  BY <3>2, Zenon
  <2>3. most \o <<z>> # <<>>
    BY <2>2, NotEmptyWith
  <2> QED  BY <1>4, <2>1, <2>2, <2>3
<1>9. CentsOf(made) = JobTotal(jb)
  <2>1. CentsOf(made) = WeightOf(InCents, made) /\ CentsOf(flat) = WeightOf(InCents, flat)
    <3> HIDE DEF made
    <3> QED  BY <1>2, <1>8, LegsAreWeighed
  <2>2. InCents[x] = jb.make /\ InCents[y] = jb.logistics /\ InCents[z] = jb.fee
    BY <1>3 DEF InCents, Carried, Leg
  <2>3. WeightOf(InCents, flat) \in Nat
    BY <1>2, <1>7, WeightType
  <2>4. WeightOf(InCents, made) = jb.make + jb.logistics + WeightOf(InCents, flat) + jb.fee
    BY <1>6, <1>7, <2>2
  <2>5. JobTotal(jb) = jb.make + jb.logistics + jb.fee + CentsOf(flat)
    BY <1>2 DEF JobTotal
  <2> HIDE DEF made
  <2> QED  BY <1>1, <2>1, <2>3, <2>4, <2>5
<1>10. SettlementLegs(jb) = made
  <2>1. made = <<Leg(node, jb.make), Leg(carrier, jb.logistics)>>
                  \o FlattenSeq([i \in DOMAIN jb.lines |-> LineLegs(jb.lines[i])])
                  \o <<Leg(network, jb.fee)>>
    BY DEF first, last, flat
  <2> QED  BY <1>9, <2>1 DEF SettlementLegs
<1>11. ASSUME NEW a \in Accounts
       PROVE  CentsTo(made, a) = SumOver([i \in D |-> CentsTo(LineLegs(lines[i]), a)])
  <2>1. CentsTo(made, a) = WeightOf(InCentsTo(a), made)
        /\ CentsTo(flat, a) = WeightOf(InCentsTo(a), flat)
    <3> HIDE DEF made
    <3> QED  BY <1>2, <1>8, LegsAreWeighed
  <2>2. InCentsTo(a)[x] = 0 /\ InCentsTo(a)[y] = 0 /\ InCentsTo(a)[z] = 0
    <3>1. a # node /\ a # carrier /\ a # network
      BY RoutingAssumption
    <3>2. x.account = node /\ y.account = carrier /\ z.account = network
      BY <1>3 DEF Leg
    <3> QED  BY <3>1, <3>2 DEF InCentsTo, CarriedTo
  <2>3. WeightOf(InCentsTo(a), flat) \in Nat
    BY <1>2, <1>7, WeightType, Zenon
  <2>4. WeightOf(InCentsTo(a), made) = 0 + 0 + WeightOf(InCentsTo(a), flat) + 0
    BY <1>6, <1>7, <2>2
  <2> HIDE DEF made
  <2> QED  BY <1>2, <2>1, <2>3, <2>4
<1> HIDE DEF made
<1>12. ASSUME NEW a \in Accounts
       PROVE  LET paid == CentsTo(made, a)
              IN  /\ paid >= DueIn(assets, jb, a)
                  /\ paid > DueIn(assets, jb, a) => \E i \in D : a = FirstIn(assets, lines[i])
                  /\ paid > 0 => \E i \in D : a \in Payees(assets[lines[i].asset].split)
  <2> DEFINE paid == [i \in D |-> CentsTo(LineLegs(lines[i]), a)]
             due == [i \in D |-> Part(lines[i].cents, assets[lines[i].asset].split[a])]
  <2>1. IsFiniteSet(D)
    BY <1>1, SeqIsFinite
  <2>2. ASSUME NEW i \in D
        PROVE  /\ paid[i] \in Nat /\ due[i] \in Nat /\ due[i] <= paid[i]
               /\ paid[i] > due[i] => a = FirstIn(assets, lines[i])
               /\ paid[i] > 0 => a \in Payees(assets[lines[i].asset].split)
    <3>1. lines[i] \in [asset : DOMAIN assets, cents : Nat]
      BY <1>1, ElementOfSeq, LenProperties, Zenon
    <3>2. PICK line : line = lines[i]
      OBVIOUS
    <3>3. line.cents \in Nat /\ line.asset \in DOMAIN assets
      BY <3>1, <3>2
    <3>4. LineLegs(line) \in LegsFor(Accounts)
      BY <3>3, LineIsPaid
    <3>5. CentsTo(LineLegs(line), a) \in Nat
      BY <3>4, PaidByAccount, RoutingAssumption, Zenon
    <3>6. FirstOf(line) = FirstIn(assets, line)
      BY DEF FirstOf, FirstIn
    <3>7. paid[i] = CentsTo(LineLegs(line), a)
          /\ due[i] = Part(line.cents, assets[line.asset].split[a])
      BY <3>2
    <3> HIDE DEF paid, due
    <3> QED  BY <3>2, <3>3, <3>5, <3>6, <3>7, LineIsPaid
  <2>3. paid \in [D -> Nat] /\ due \in [D -> Nat]
    BY <2>2, Zenon
  <2>4. CentsTo(made, a) = SumOver(paid) /\ DueIn(assets, jb, a) = SumOver(due)
    BY <1>11 DEF DueIn
  <2> HIDE DEF paid, due
  <2>5. PICK p \in Nat, d \in Nat : p = SumOver(paid) /\ d = SumOver(due)
    BY <2>1, <2>3, SumType
  <2>6. d <= p
    BY <2>1, <2>2, <2>3, <2>5, SumMonotone
  <2>7. p > d => \E i \in D : a = FirstIn(assets, lines[i])
    <3> SUFFICES ASSUME \A i \in D : paid[i] <= due[i]
                 PROVE  p <= d
      BY <2>2, <2>3, <2>5
    <3> QED  BY <2>1, <2>3, <2>5, SumMonotone
  <2>8. p > 0 => \E i \in D : a \in Payees(assets[lines[i].asset].split)
    <3> SUFFICES ASSUME \A i \in D : paid[i] = 0
                 PROVE  p = 0
      BY <2>2, <2>3, <2>5
    <3>1. paid = [i \in D |-> 0]
      BY <2>3
    <3> QED  BY <2>1, <2>5, <3>1, SumOfZeros
  <2> QED  BY <2>4, <2>5, <2>6, <2>7, <2>8
<1>13. Followed(assets, jb, made)
  BY <1>8, <1>9, <1>12 DEF Followed
<1> QED  BY <1>10, <1>11, <1>13

LEMMA FollowedAsStated ==
    /\ RoyaltiesFollowSplits <=> (job # Nothing => Followed(assets, job, legs))
    /\ RoyaltiesFollowSplits' <=> (job' # Nothing => Followed(assets', job', legs'))
<1>1. RoyaltiesFollowSplits <=> (job # Nothing => Followed(assets, job, legs))
  BY DEF RoyaltiesFollowSplits, Followed, DueTo, DueIn, FirstOf, FirstIn
<1>2. RoyaltiesFollowSplits' <=> (job' # Nothing => Followed(assets', job', legs'))
  BY DEF RoyaltiesFollowSplits, Followed, DueTo, DueIn, FirstOf, FirstIn,
         CentsOf, CentsTo, LegsTo, JobTotal, Payees, Part
<1> QED  BY <1>1, <1>2

LEMMA FollowedStays ==
    ASSUME NEW old, NEW more, NEW jb, NEW ls, Followed(old, jb, ls),
           \A i \in DOMAIN jb.lines : more[jb.lines[i].asset] = old[jb.lines[i].asset]
    PROVE  Followed(more, jb, ls)
<1>1. ASSUME NEW a
      PROVE  DueIn(more, jb, a) = DueIn(old, jb, a)
  <2>1. \A i \in DOMAIN jb.lines :
            Part(jb.lines[i].cents, more[jb.lines[i].asset].split[a])
                = Part(jb.lines[i].cents, old[jb.lines[i].asset].split[a])
    OBVIOUS
  <2>2. [i \in DOMAIN jb.lines |-> Part(jb.lines[i].cents, more[jb.lines[i].asset].split[a])]
            = [i \in DOMAIN jb.lines |-> Part(jb.lines[i].cents, old[jb.lines[i].asset].split[a])]
    BY <2>1
  <2> QED  BY <2>2 DEF DueIn
<1>2. \A i \in DOMAIN jb.lines : FirstIn(more, jb.lines[i]) = FirstIn(old, jb.lines[i])
  BY Zenon DEF FirstIn
<1> QED  BY <1>1, <1>2 DEF Followed

-----------------------------------------------------------------------------
\* A job names assets, which stay as they are: the legs of it do not get stale.
JobInv ==
    /\ AssetsInv
    /\ job # Nothing => job.lines \in Seq([asset : DOMAIN assets, cents : Nat])
    /\ RoyaltiesFollowSplits

LEMMA LinesAreBillable ==
    ASSUME NEW base \in BaseCosts, NEW lines \in SomeLines, NEW jb,
           jb = [make |-> base.make, logistics |-> base.logistics, fee |-> base.fee,
                 lines |-> lines]
    PROVE  Billable(jb)
<1>1. base.make \in Nat /\ base.logistics \in Nat /\ base.fee \in Nat
  BY RoutingAssumption
<1>2. PICK T, U : /\ T = [asset : DOMAIN assets, cents : Costs]
                  /\ U = [asset : DOMAIN assets, cents : Nat]
  BY Zenon
<1>3. lines \in SeqOf(T, MaxTerms) /\ lines # <<>>
  BY <1>2 DEF SomeLines
<1>4. PICK m \in 0 .. MaxTerms : lines \in [1 .. m -> T]
  BY <1>3 DEF SeqOf
<1>5. m \in Nat /\ T \subseteq U
  <2>1. Costs \subseteq Nat /\ MaxTerms \in Nat
    BY RoutingAssumption
  <2>2. m \in Nat
    BY <2>1
  <2>3. T \subseteq U
    BY <1>2, <2>1, Zenon
  <2> QED  BY <2>2, <2>3
<1>6. lines \in [1 .. m -> U]
  BY <1>4, <1>5
<1>7. lines \in Seq(U)
  BY <1>5, <1>6, SeqFrom
<1> QED  BY <1>1, <1>2, <1>3, <1>7 DEF Billable

LEMMA AssetsStay ==
    ASSUME AssetsInv, NEW declared, NEW ds, Register(declared, ds)
    PROVE  \E k \in Nat : /\ DOMAIN assets = 1 .. k /\ DOMAIN assets' = 1 .. (k + 1)
                          /\ \A n \in 1 .. k : assets'[n] = assets[n]
<1>1. PICK work : assets' = Append(assets, work)
  BY DEF Register
<1>2. assets \in Seq(Asset)
  BY DEF AssetsInv
<1>3. PICK k \in Nat : k = Len(assets) /\ DOMAIN assets = 1 .. k
  BY <1>2, LenProperties
<1>4. PICK S, old, more : S = Asset /\ old = assets /\ more = assets'
  OBVIOUS
<1>5. old \in Seq(S) /\ more = Append(old, work)
  BY <1>1, <1>2, <1>4
<1>6. DOMAIN more = 1 .. (Len(old) + 1) /\ \A n \in 1 .. Len(old) : more[n] = old[n]
  BY <1>5, AppendKeeps
<1> QED  BY <1>3, <1>4, <1>6

LEMMA JobKeeps ==
    ASSUME JobInv, [RoutingNext]_routingVars, AssetsInv'
    PROVE  JobInv'
<1>1. ASSUME NEW declared \in Declared, NEW ds \in Derivations, Register(declared, ds)
      PROVE  JobInv'
  <2>2. job' = job /\ legs' = legs
    BY <1>1 DEF Register
  <2>6. PICK k \in Nat : /\ DOMAIN assets = 1 .. k /\ DOMAIN assets' = 1 .. (k + 1)
                         /\ \A n \in 1 .. k : assets'[n] = assets[n]
    BY <1>1, AssetsStay DEF JobInv
  <2>7. CASE job = Nothing
    BY <2>2, <2>7, FollowedAsStated DEF JobInv
  <2>8. CASE job # Nothing
    <3>1. PICK lines : lines = job.lines /\ lines \in Seq([asset : DOMAIN assets, cents : Nat])
      BY <2>8 DEF JobInv
    <3>2. PICK P, Q : /\ P = [asset : DOMAIN assets, cents : Nat]
                      /\ Q = [asset : DOMAIN assets', cents : Nat]
      BY Zenon
    <3>3. PICK m \in Nat : lines \in [1 .. m -> P]
      <4>1. lines \in Seq(P)
        BY <3>1, <3>2
      <4> QED  BY <4>1, SeqIs
    <3>4. \A i \in DOMAIN lines : lines[i].asset \in 1 .. k
      BY <2>6, <3>2, <3>3
    <3>5. lines \in Seq([asset : DOMAIN assets', cents : Nat])
      <4>1. P \subseteq Q
        BY <2>6, <3>2
      <4>2. lines \in [1 .. m -> Q]
        BY <3>3, <4>1
      <4>3. lines \in Seq(Q)
        BY <4>2, SeqFrom
      <4> QED  BY <3>2, <4>3
    <3>6. Followed(assets, job, legs)
      BY <2>8, FollowedAsStated DEF JobInv
    <3>7. \A i \in DOMAIN job.lines : assets'[job.lines[i].asset] = assets[job.lines[i].asset]
      BY <2>6, <3>1, <3>4, Zenon
    <3>8. Followed(assets', job, legs)
      BY <3>6, <3>7, FollowedStays
    <3> QED  BY <2>2, <3>1, <3>5, <3>8, FollowedAsStated DEF JobInv
  <2> QED  BY <2>7, <2>8
<1>2. ASSUME NEW base \in BaseCosts, NEW lines \in SomeLines, Settle(base, lines)
      PROVE  JobInv'
  <2>1. PICK jb : jb = [make |-> base.make, logistics |-> base.logistics, fee |-> base.fee,
                        lines |-> lines]
    BY Zenon
  <2>2. /\ job' = jb /\ legs' = SettlementLegs(jb) /\ assets' = assets
    BY <1>2, <2>1 DEF Settle
  <2>3. Billable(jb) /\ SplitsShareTheWhole
    BY <2>1, LinesAreBillable, AssetsShareTheWhole DEF JobInv
  <2>4. Followed(assets', job', legs')
    BY <2>2, <2>3, JobIsPaid
  <2>5. job'.lines \in Seq([asset : DOMAIN assets', cents : Nat])
    BY <2>2, <2>3 DEF Billable
  <2> QED  BY <2>4, <2>5, FollowedAsStated DEF JobInv
<1>3. CASE UNCHANGED routingVars
  <2>1. assets' = assets /\ job' = job /\ legs' = legs
    BY <1>3 DEF routingVars
  <2> QED  BY <2>1, FollowedAsStated DEF JobInv
<1> QED  BY <1>1, <1>2, <1>3 DEF RoutingNext

\* Every effective split is the whole and near what its ancestry and creators are
\* owed, every job's legs are its total, and every royalty line reaches the payees
\* of its asset in their proportion, whatever is registered and whatever jobs cost
\* (registry.py:136, settlement.py:64-92).
THEOREM RoyaltiesAlwaysFair ==
    RoutingSpec => []RoyaltiesAreFair
<1>1. RoutingInit => JobInv
  BY EmptySeq DEF RoutingInit, JobInv, AssetsInv, SharesAreFair, RoyaltiesFollowSplits
<1>2. JobInv /\ AssetsInv' /\ [RoutingNext]_routingVars => JobInv'
  BY JobKeeps
<1>3. JobInv => RoyaltiesAreFair
  BY DEF JobInv, AssetsInv, RoyaltiesAreFair
<1> QED  BY <1>1, <1>2, <1>3, AssetsHold, PTL DEF RoutingSpec

-----------------------------------------------------------------------------
(***************************************************************************)
(* Orders: trimming keeps the shares in order but for a unit, and ends     *)
(* with no more units than were ordered; the fees are floored shares of    *)
(* what the whole order pays.                                              *)
(***************************************************************************)
LEMMA LargestIs ==
    ASSUME NEW n \in Nat \ {0}, NEW s \in [1 .. n -> Nat]
    PROVE  /\ Largest(s) \in 1 .. n
           /\ \A h \in 1 .. n : s[h] <= s[Largest(s)]
           /\ \A h \in 1 .. (Largest(s) - 1) : s[h] < s[Largest(s)]
<1> DEFINE Tops(m, i) == /\ i \in 1 .. m
                         /\ \A h \in 1 .. m : s[h] <= s[i]
                         /\ \A h \in 1 .. (i - 1) : s[h] < s[i]
           Ok == {m \in 0 .. n : m # 0 => \E i : Tops(m, i)}
<1>1. \A h \in 1 .. n : s[h] \in Nat
  OBVIOUS
<1>2. ASSUME NEW m \in 0 .. (n - 1), m \in Ok
      PROVE  m + 1 \in Ok
  <2>1. m + 1 \in 0 .. n /\ m + 1 \in 1 .. n
    OBVIOUS
  <2>2. CASE m = 0
    <3>1. Tops(1, 1)
      BY <1>1
    <3> QED  BY <2>1, <2>2, <3>1
  <2>3. CASE m # 0
    <3>1. PICK i : Tops(m, i)
      BY <1>2, <2>3
    <3>2. CASE s[m + 1] > s[i]
      <4>1. Tops(m + 1, m + 1)
        BY <1>1, <2>1, <3>1, <3>2
      <4> QED  BY <2>1, <4>1, Zenon
    <3>3. CASE ~(s[m + 1] > s[i])
      <4>1. Tops(m + 1, i)
        BY <1>1, <2>1, <3>1, <3>3
      <4> QED  BY <2>1, <4>1, Zenon
    <3> QED  BY <3>2, <3>3
  <2> QED  BY <2>2, <2>3
<1>3. n \in Ok
  <2>1. 0 \in Ok
    OBVIOUS
  <2> HIDE DEF Ok
  <2> QED  BY <1>2, <2>1, UpTo
<1>4. PICK i \in DOMAIN s : /\ \A h \in DOMAIN s : s[h] <= s[i]
                            /\ \A h \in 1 .. (i - 1) : s[h] < s[i]
  BY <1>3, Zenon
<1>5. /\ Largest(s) \in DOMAIN s
      /\ \A h \in DOMAIN s : s[h] <= s[Largest(s)]
      /\ \A h \in 1 .. (Largest(s) - 1) : s[h] < s[Largest(s)]
  BY <1>4, Zenon DEF Largest
<1> QED  BY <1>5

LEMMA OfTwo ==
    ASSUME NEW a \in Int, NEW b \in Int
    PROVE  /\ Max({a, b}) = IF a >= b THEN a ELSE b
           /\ Min({a, b}) = IF a <= b THEN a ELSE b
<1>1. \E x \in {a, b} : \A y \in {a, b} : x >= y
  OBVIOUS
<1>2. \E x \in {a, b} : \A y \in {a, b} : x <= y
  OBVIOUS
<1>3. Max({a, b}) \in {a, b} /\ \A y \in {a, b} : Max({a, b}) >= y
  BY <1>1 DEF Max
<1>4. Min({a, b}) \in {a, b} /\ \A y \in {a, b} : Min({a, b}) <= y
  BY <1>2 DEF Min
<1> QED  BY <1>3, <1>4

-----------------------------------------------------------------------------
\* Shares as allocate makes them: to everybody something, and in order but for a unit.
InRank(n, shares) ==
    /\ shares \in [1 .. n -> Nat \ {0}]
    /\ \A i, h \in 1 .. n : i < h => shares[i] >= shares[h] - 1

LEMMA TrimKeepsRank ==
    ASSUME NEW n \in Nat \ {0}, NEW shares, InRank(n, shares), NEW q \in Nat, n < q,
           SumOver(shares) > q
    PROVE  InRank(n, Trim(shares)) /\ SumOver(Trim(shares)) = SumOver(shares) - 1
<1>1. shares \in [1 .. n -> Nat] /\ IsFiniteSet(1 .. n) /\ \A i \in 1 .. n : shares[i] >= 1
  <2>1. IsFiniteSet(1 .. n)
    BY UpToIsFinite
  <2>2. shares \in [1 .. n -> Nat \ {0}]
    BY DEF InRank
  <2> QED  BY <2>1, <2>2
<1>2. PICK top \in 1 .. n : /\ top = Largest(shares)
                            /\ \A h \in 1 .. n : shares[h] <= shares[top]
  BY <1>1, LargestIs, Zenon
<1>3. shares[top] >= 2
  <2> DEFINE ones == [i \in 1 .. n |-> 1]
  <2>1. SUFFICES ASSUME \A i \in 1 .. n : shares[i] <= 1
                 PROVE  FALSE
    BY <1>1, <1>2
  <2>2. ones \in [1 .. n -> Nat] /\ \A i \in 1 .. n : shares[i] <= ones[i]
    BY <2>1
  <2>3. SumOver(ones) = 1 * Cardinality(1 .. n) /\ Cardinality(1 .. n) = n
    <3>1. PICK N : N = 1 .. n /\ IsFiniteSet(N) /\ Cardinality(N) = n
      BY CardinalityUpTo
    <3>2. SumOver([i \in N |-> 1]) = 1 * Cardinality(N)
      BY <3>1, SumOfSame, Zenon
    <3> QED  BY <3>1, <3>2
  <2> HIDE DEF ones
  <2>4. SumOver(shares) <= SumOver(ones)
    BY <1>1, <2>2, SumMonotone, Zenon
  <2>5. SumOver(shares) \in Nat
    BY <1>1, SumType
  <2> QED  BY <2>3, <2>4, <2>5
<1>4. PICK less \in Nat \ {0} : less = shares[top] - 1
  BY <1>1, <1>3
<1>5. PICK trimmed : trimmed = [shares EXCEPT ![top] = less]
  BY Zenon
<1>6. Trim(shares) = trimmed
  BY <1>2, <1>4, <1>5 DEF Trim
<1>7. trimmed \in [1 .. n -> Nat \ {0}]
  <2>1. shares \in [1 .. n -> Nat \ {0}]
    BY DEF InRank
  <2> QED  BY <1>4, <1>5, <2>1
<1>8. trimmed[top] = less /\ \A i \in 1 .. n : i # top => trimmed[i] = shares[i]
  BY <1>1, <1>5
<1>9. ASSUME NEW i \in 1 .. n, NEW h \in 1 .. n, i < h
      PROVE  trimmed[i] >= trimmed[h] - 1
  <2>1. shares[i] >= shares[h] - 1
    BY <1>9 DEF InRank
  <2>2. shares[i] \in Nat /\ shares[h] \in Nat
    BY <1>1
  <2>3. CASE i = top
    BY <1>2, <1>4, <1>8, <1>9, <2>2, <2>3
  <2>4. CASE i # top
    BY <1>2, <1>4, <1>8, <1>9, <2>1, <2>2, <2>4
  <2> QED  BY <2>3, <2>4
<1>10. SumOver(trimmed) = SumOver(shares) - 1
  <2>1. PICK N : N = 1 .. n
    OBVIOUS
  <2>2. IsFiniteSet(N) /\ top \in N /\ shares[top] = less + 1 /\ shares \in [N -> Nat]
    BY <1>1, <1>4, <2>1
  <2>3. LiftedAt(shares, trimmed, N, top, 1)
    BY <1>7, <1>8, <2>1, <2>2, Zenon DEF LiftedAt
  <2>4. SumOver(shares) = SumOver(trimmed) + 1
    BY <2>2, <2>3, SumLifted
  <2>5. SumOver(trimmed) \in Nat
    <3>1. trimmed \in [N -> Nat]
      BY <1>7, <2>1
    <3> QED  BY <2>2, <3>1, SumType, Zenon
  <2> QED  BY <2>4, <2>5
<1> QED  BY <1>6, <1>7, <1>9, <1>10 DEF InRank

LEMMA TrimmedIsEnough ==
    ASSUME NEW n \in Nat \ {0}, NEW shares, InRank(n, shares), NEW q \in Nat, n < q
    PROVE  InRank(n, Trimmed(shares, q)) /\ SumOver(Trimmed(shares, q)) <= q
<1>1. PICK all \in Nat : all = SumOver(shares)
  <2>1. shares \in [1 .. n -> Nat] /\ IsFiniteSet(1 .. n)
    <3>1. shares \in [1 .. n -> Nat \ {0}]
      BY DEF InRank
    <3>2. IsFiniteSet(1 .. n)
      BY UpToIsFinite
    <3> QED  BY <3>1, <3>2
  <2> QED  BY <2>1, SumType
<1> DEFINE round(f, k) == IF k = 0 THEN shares
                          ELSE IF SumOver(f[k - 1]) > q THEN Trim(f[k - 1]) ELSE f[k - 1]
           Runs(m, f) == f = [k \in 0 .. m |-> round(f, k)]
           Ok == {m \in 0 .. all : \E f : Runs(m, f)}
<1>2. 0 \in Ok
  <2> DEFINE f == [k \in 0 .. 0 |-> shares]
  <2>1. Runs(0, f)
    OBVIOUS
  <2>2. 0 \in 0 .. all
    BY <1>1
  <2> HIDE DEF Runs, f
  <2> QED  BY <2>1, <2>2
<1>3. ASSUME NEW m \in 0 .. (all - 1), m \in Ok
      PROVE  m + 1 \in Ok
  <2>1. PICK f : Runs(m, f)
    BY <1>3
  <2> DEFINE g == [k \in 0 .. (m + 1) |-> IF k <= m THEN f[k] ELSE round(f, m + 1)]
  <2>2. ASSUME NEW k \in 0 .. (m + 1)
        PROVE  g[k] = round(g, k)
    <3>1. CASE k <= m
      <4>1. k \in 0 .. m
        BY <3>1
      <4>2. f[k] = round(f, k)
        BY <2>1, <4>1
      <4>3. k # 0 => k - 1 \in 0 .. m /\ g[k - 1] = f[k - 1]
        BY <4>1
      <4>4. g[k] = f[k]
        BY <3>1
      <4> HIDE DEF g
      <4> QED  BY <4>2, <4>3, <4>4
    <3>2. CASE k = m + 1
      <4>1. g[k] = round(f, k)
        BY <3>2
      <4>2. k # 0 => k - 1 \in 0 .. m /\ g[k - 1] = f[k - 1]
        BY <3>2
      <4> HIDE DEF g
      <4> QED  BY <4>1, <4>2
    <3> QED  BY <3>1, <3>2
  <2>3. Runs(m + 1, g)
    BY <2>2
  <2>4. m + 1 \in 0 .. all
    BY <1>1
  <2> HIDE DEF Runs, g
  <2> QED  BY <2>3, <2>4
<1>4. all \in Ok
  <2> HIDE DEF Ok
  <2> QED  BY <1>1, <1>2, <1>3, UpTo
<1>5. PICK after : after = (CHOOSE f : Runs(all, f)) /\ Runs(all, after)
  BY <1>4, Zenon
<1>6. Trimmed(shares, q) = after[all]
  BY <1>1, <1>5 DEF Trimmed
<1>7. \A k \in 0 .. all : after[k] = round(after, k)
  <2>1. after = [k \in 0 .. all |-> round(after, k)]
    BY <1>5, Zenon
  <2> HIDE DEF round
  <2> QED  BY <2>1
<1>8. after[0] = shares
  <2>1. 0 \in 0 .. all
    BY <1>1
  <2>2. round(after, 0) = shares
    OBVIOUS
  <2> HIDE DEF round
  <2> QED  BY <1>7, <2>1, <2>2
<1>9. \A k \in 0 .. (all - 1) :
          after[k + 1] = IF SumOver(after[k]) > q THEN Trim(after[k]) ELSE after[k]
  <2>1. ASSUME NEW k \in 0 .. (all - 1)
        PROVE  after[k + 1] = IF SumOver(after[k]) > q THEN Trim(after[k]) ELSE after[k]
    <3>1. k + 1 \in 0 .. all /\ k + 1 # 0 /\ (k + 1) - 1 = k
      BY <1>1
    <3>2. PICK next \in 0 .. all : next = k + 1 /\ next # 0 /\ next - 1 = k
      BY <3>1
    <3>3. after[next] = round(after, next)
      BY <1>7
    <3> QED  BY <3>2, <3>3
  <2> QED  BY <2>1
<1> DEFINE Fine == {k \in 0 .. all :
                       /\ InRank(n, after[k])
                       /\ SumOver(after[k]) \in Nat
                       /\ SumOver(after[k]) <= q \/ SumOver(after[k]) <= all - k}
<1>10. 0 \in Fine
  BY <1>1, <1>8
<1>11. ASSUME NEW k \in 0 .. (all - 1), k \in Fine
       PROVE  k + 1 \in Fine
  <2>1. k + 1 \in 0 .. all
    BY <1>1
  <2>2. PICK sum \in Nat : /\ sum = SumOver(after[k]) /\ InRank(n, after[k])
                           /\ sum <= q \/ sum <= all - k
    BY <1>11
  <2>3. CASE sum > q
    <3>1. after[k + 1] = Trim(after[k])
      BY <1>9, <2>2, <2>3
    <3>2. InRank(n, after[k + 1]) /\ SumOver(after[k + 1]) = sum - 1
      BY <2>2, <2>3, <3>1, TrimKeepsRank
    <3> QED  BY <1>1, <2>1, <2>2, <2>3, <3>2
  <2>4. CASE ~(sum > q)
    <3>1. after[k + 1] = after[k]
      BY <1>9, <2>2, <2>4
    <3> QED  BY <2>1, <2>2, <2>4, <3>1
  <2> QED  BY <2>3, <2>4
<1>12. all \in Fine
  <2> HIDE DEF Fine
  <2> QED  BY <1>1, <1>10, <1>11, UpTo
<1> QED  BY <1>1, <1>6, <1>12

Ranked(s) == \A i, h \in DOMAIN s : i < h => s[i] >= s[h]

\* What sorted looks like from one element to the next, and in all.
LEMMA SortedIsRanked ==
    ASSUME NEW s \in Seq(Nat), \A i \in 2 .. Len(s) : s[i - 1] >= s[i]
    PROVE  Ranked(s)
<1>1. PICK n \in Nat : n = Len(s) /\ DOMAIN s = 1 .. n /\ \A i \in 1 .. n : s[i] \in Nat
  BY LenProperties, ElementOfSeq
<1> DEFINE Ok == {m \in 0 .. n : \A i, h \in 1 .. m : i < h => s[i] >= s[h]}
<1>2. ASSUME NEW m \in 0 .. (n - 1), m \in Ok
      PROVE  m + 1 \in Ok
  <2>1. ASSUME NEW i \in 1 .. (m + 1), NEW h \in 1 .. (m + 1), i < h
        PROVE  s[i] >= s[h]
    <3>1. CASE h <= m
      BY <1>2, <2>1, <3>1
    <3>2. CASE h = m + 1
      <4>1. s[m] >= s[m + 1] /\ m \in 1 .. n
        BY <1>1, <2>1, <3>2
      <4>2. i = m \/ s[i] >= s[m]
        BY <1>2, <2>1, <3>2
      <4>3. s[i] \in Nat /\ s[m] \in Nat /\ s[m + 1] \in Nat
        BY <1>1, <2>1, <3>2
      <4> QED  BY <3>2, <4>1, <4>2, <4>3
    <3> QED  BY <3>1, <3>2
  <2> QED  BY <2>1
<1>3. n \in Ok
  <2>1. 0 \in Ok
    OBVIOUS
  <2> HIDE DEF Ok
  <2> QED  BY <1>2, <2>1, UpTo
<1> QED  BY <1>1, <1>3 DEF Ranked

LEMMA FirstSharesRank ==
    ASSUME NEW q \in Nat, NEW n \in Nat \ {0}, NEW chosen \in [1 .. n -> Nat], Ranked(chosen)
    PROVE  InRank(n, [i \in DOMAIN chosen |-> FirstShare(q, chosen, i)])
<1>1. PICK total \in Nat : total = SumOver(chosen)
  <2>1. PICK N : N = 1 .. n /\ IsFiniteSet(N)
    BY UpToIsFinite
  <2>2. PICK f \in [N -> Nat] : f = chosen
    BY <2>1
  <2>3. SumOver(f) \in Nat
    BY <2>1, SumType
  <2> QED  BY <2>2, <2>3
<1> DEFINE share == [i \in DOMAIN chosen |-> FirstShare(q, chosen, i)]
<1>2. CASE total = 0
  <2>1. \A i \in 1 .. n : share[i] = 1
    BY <1>1, <1>2 DEF FirstShare
  <2>2. share \in [1 .. n -> Nat \ {0}]
    BY <2>1
  <2> HIDE DEF share
  <2>3. InRank(n, share)
    BY <2>1, <2>2 DEF InRank
  <2> QED  BY <2>3 DEF share
<1>3. CASE total # 0
  <2> DEFINE own(i) == (q * chosen[i]) \div total
  <2>1. \A i \in 1 .. n : own(i) \in Nat
    <3>1. ASSUME NEW i \in 1 .. n
          PROVE  own(i) \in Nat
      <4>1. PICK p \in Nat : p = q * chosen[i]
        OBVIOUS
      <4>2. p \div total \in Nat
        BY <1>3
      <4> QED  BY <4>1, <4>2
    <3> QED  BY <3>1
  <2>2. ASSUME NEW i \in 1 .. n, NEW h \in 1 .. n, i < h
        PROVE  own(i) >= own(h)
    <3>1. PICK c \in Nat, d \in Nat : c = chosen[i] /\ d = chosen[h] /\ c >= d
      BY <2>2 DEF Ranked
    <3>2. PICK x \in Nat, y \in Nat : x = q * c /\ y = q * d
      OBVIOUS
    <3>3. x >= y
      BY <3>1, <3>2
    <3>4. x \div total >= y \div total
      BY <1>3, <3>3
    <3> QED  BY <3>1, <3>2, <3>4
  <2>3. \A i \in 1 .. n : share[i] = Max({1, own(i)})
    BY <1>1, <1>3 DEF FirstShare
  <2> HIDE DEF own, share
  <2>4. \A i \in 1 .. n : share[i] = IF 1 >= own(i) THEN 1 ELSE own(i)
    <3>1. ASSUME NEW i \in 1 .. n
          PROVE  share[i] = IF 1 >= own(i) THEN 1 ELSE own(i)
      <4>1. PICK o \in Int : o = own(i) /\ 1 \in Int
        BY <2>1
      <4>2. Max({1, o}) = IF 1 >= o THEN 1 ELSE o
        BY <4>1, OfTwo
      <4>3. share[i] = Max({1, own(i)})
        BY <2>3
      <4> QED  BY <4>1, <4>2, <4>3
    <3> QED  BY <3>1
  <2>5. share \in [1 .. n -> Nat \ {0}]
    <3>1. DOMAIN share = 1 .. n /\ share = [i \in 1 .. n |-> share[i]]
      BY DEF share
    <3> QED  BY <2>1, <2>4, <3>1
  <2>6. ASSUME NEW i \in 1 .. n, NEW h \in 1 .. n, i < h
        PROVE  share[i] >= share[h] - 1
    <3>1. own(i) >= own(h) /\ own(i) \in Nat /\ own(h) \in Nat
      BY <2>1, <2>2, <2>6
    <3> QED  BY <2>4, <3>1
  <2>7. InRank(n, share)
    BY <2>5, <2>6 DEF InRank
  <2> QED  BY <2>7 DEF share
<1> QED  BY <1>2, <1>3

LEMMA AllocateSharesUnits ==
    ASSUME NEW q \in Nat \ {0}, NEW s \in Seq(Nat), s # <<>>, Ranked(s)
    PROVE  \E n \in 1 .. MaxNodes :
               InRank(n, Allocate(q, s)) /\ SumOver(Allocate(q, s)) = q
<1>1. PICK len \in Nat \ {0} : len = Len(s) /\ DOMAIN s = 1 .. len
  BY EmptySeq, LenProperties
<1>2. PICK n \in Nat \ {0} : n = Min({MaxNodes, Len(s)}) /\ n <= MaxNodes /\ n <= len
  <2>1. MaxNodes \in Nat \ {0}
    BY PricingAssumption
  <2>2. Min({MaxNodes, len}) = IF MaxNodes <= len THEN MaxNodes ELSE len
    <3>1. MaxNodes \in Int /\ len \in Int
      BY <2>1
    <3> QED  BY <3>1, OfTwo, Zenon
  <2> QED  BY <1>1, <2>1, <2>2
<1>3. n \in 1 .. MaxNodes
  BY <1>2, PricingAssumption
<1>4. PICK chosen : chosen = SubSeq(s, 1, n)
  BY Zenon
<1>5. chosen \in [1 .. n -> Nat] /\ Ranked(chosen) /\ Len(chosen) = n
  <2>1. chosen \in [1 .. n -> Nat] /\ Len(chosen) = n /\ \A i \in 1 .. n : chosen[i] = s[i]
    <3> DEFINE T == Nat
    <3>1. s \in Seq(T) /\ n <= Len(s)
      BY <1>1, <1>2
    <3> HIDE DEF T
    <3>2. chosen \in [1 .. n -> T] /\ Len(chosen) = n /\ \A i \in 1 .. n : chosen[i] = s[i]
      <4>1. Starts(chosen, s, n)
        BY <1>4 DEF Starts
      <4>2. PICK u \in Seq(T) : u = s
        BY <3>1
      <4>3. Starts(chosen, u, n) /\ n <= Len(u)
        BY <3>1, <4>1, <4>2
      <4>4. chosen \in [1 .. n -> T] /\ Len(chosen) = n /\ \A i \in 1 .. n : chosen[i] = u[i]
        BY <4>3, SubSeqHas
      <4> QED  BY <4>2, <4>4
    <3> QED  BY <3>2 DEF T
  <2>2. \A i, h \in 1 .. n : i < h => s[i] >= s[h]
    <3>1. \A i \in 1 .. n : i \in DOMAIN s
      BY <1>1, <1>2
    <3> QED  BY <3>1 DEF Ranked
  <2> QED  BY <2>1, <2>2, Zenon DEF Ranked
<1> DEFINE first == [i \in DOMAIN chosen |-> FirstShare(q, chosen, i)]
<1>6. CASE q <= n
  <2> DEFINE ones == [i \in 1 .. q |-> 1]
  <2>1. Allocate(q, s) = ones
    BY <1>2, <1>4, <1>5, <1>6 DEF Allocate
  <2>2. ones \in [1 .. q -> Nat \ {0}]
    OBVIOUS
  <2>3. InRank(q, ones)
    BY <2>2 DEF InRank
  <2>4. SumOver(ones) = q
    <3>1. PICK N : N = 1 .. q /\ IsFiniteSet(N) /\ Cardinality(N) = q
      BY CardinalityUpTo
    <3>2. SumOver([i \in N |-> 1]) = 1 * Cardinality(N)
      BY <3>1, SumOfSame, Zenon
    <3> QED  BY <3>1, <3>2
  <2>5. q \in 1 .. MaxNodes
    BY <1>2, <1>6, PricingAssumption
  <2> HIDE DEF ones
  <2> QED  BY <2>1, <2>3, <2>4, <2>5
<1>7. CASE ~(q <= n)
  <2>1. InRank(n, first)
    BY <1>5, FirstSharesRank, Zenon
  <2>2. PICK shares : shares = Trimmed(first, q)
    BY Zenon
  <2> HIDE DEF first
  <2>3. InRank(n, shares) /\ SumOver(shares) <= q
    BY <1>7, <2>1, <2>2, TrimmedIsEnough
  <2>4. /\ shares \in [1 .. n -> Nat] /\ IsFiniteSet(1 .. n) /\ 1 \in 1 .. n
        /\ shares \in [1 .. n -> Nat \ {0}] /\ shares[1] \in Nat \ {0}
    <3>1. shares \in [1 .. n -> Nat \ {0}]
      BY <2>3 DEF InRank
    <3>2. IsFiniteSet(1 .. n) /\ 1 \in 1 .. n
      BY UpToIsFinite
    <3> QED  BY <3>1, <3>2
  <2>5. PICK sum \in Nat : sum = SumOver(shares) /\ sum <= q
    BY <2>3, <2>4, SumType, Zenon
  <2>6. PICK most \in Nat \ {0} : most = shares[1] + q - sum
    BY <2>4, <2>5
  <2>7. PICK given : given = [shares EXCEPT ![1] = most]
    BY Zenon
  <2>8. Allocate(q, s) = given
    <3>1. Allocate(q, s) = [shares EXCEPT ![1] = @ + q - SumOver(shares)]
      BY <1>2, <1>4, <1>5, <1>7, <2>2 DEF Allocate, first
    <3> QED  BY <2>5, <2>6, <2>7, <3>1
  <2>9. given \in [1 .. n -> Nat \ {0}] /\ given \in [1 .. n -> Nat]
    BY <2>4, <2>6, <2>7, Zenon
  <2>10. given[1] = most /\ \A i \in 2 .. n : given[i] = shares[i]
    BY <2>4, <2>7
  <2>11. ASSUME NEW i \in 1 .. n, NEW h \in 1 .. n, i < h
         PROVE  given[i] >= given[h] - 1
    <3>1. shares[i] >= shares[h] - 1 /\ shares[i] \in Nat /\ shares[h] \in Nat
      BY <2>3, <2>4, <2>11 DEF InRank
    <3>2. given[h] = shares[h] /\ h \in 2 .. n
      BY <2>10, <2>11
    <3>3. given[i] >= shares[i]
      <4>1. CASE i = 1
        BY <2>5, <2>6, <2>10, <3>1, <4>1
      <4>2. CASE i # 1
        BY <2>10, <3>1, <4>2
      <4> QED  BY <4>1, <4>2
    <3>4. given[i] \in Nat
      BY <2>9
    <3> QED  BY <3>1, <3>2, <3>3, <3>4
  <2>12. SumOver(given) = q
    <3>1. PICK residue \in Nat : residue = q - sum
      BY <2>5
    <3>5. PICK N : N = 1 .. n
      OBVIOUS
    <3>2. IsFiniteSet(N) /\ 1 \in N /\ shares \in [N -> Nat]
      BY <2>4, <3>5
    <3>3. LiftedAt(given, shares, N, 1, residue)
      <4>1. given[1] = shares[1] + residue
        BY <2>4, <2>5, <2>6, <2>10, <3>1
      <4>2. \A i \in N \ {1} : given[i] = shares[i]
        BY <2>10, <3>5
      <4> QED  BY <2>9, <3>2, <3>5, <4>1, <4>2, Zenon DEF LiftedAt
    <3>4. SumOver(given) = SumOver(shares) + residue
      BY <3>2, <3>3, SumLifted
    <3> QED  BY <2>5, <3>1, <3>4
  <2> QED  BY <1>3, <2>8, <2>9, <2>11, <2>12, Zenon DEF InRank
<1> QED  BY <1>6, <1>7

\* Rounding is off by half a cent at most, and floored rates by less than a cent for
\* each job: so what the fees leave over is no debt, and no more than their number.
LEMMA RoundedBounds ==
    ASSUME NEW amount \in Nat
    PROVE  /\ Rounded(amount) \in Nat
           /\ Rounded(amount) >= amount \div 10000
           /\ 10000 * Rounded(amount) <= amount + 5000
<1>1. PICK q \in Nat, r \in Nat :
          /\ q = amount \div 10000 /\ r = amount % 10000
          /\ amount = 10000 * q + r /\ r < 10000
  OBVIOUS
<1>2. Rounded(amount) = IF r > 5000 \/ (r = 5000 /\ q % 2 = 1) THEN q + 1 ELSE q
  BY <1>1 DEF Rounded
<1>3. CASE r > 5000 \/ (r = 5000 /\ q % 2 = 1)
  <2>1. Rounded(amount) = q + 1 /\ r >= 5000
    BY <1>1, <1>2, <1>3
  <2> QED  BY <1>1, <2>1
<1>4. CASE ~(r > 5000 \/ (r = 5000 /\ q % 2 = 1))
  BY <1>1, <1>2, <1>4
<1> QED  BY <1>3, <1>4

\* Part is short of a ten-thousandth of amount by less than one for each of n.
NearlyRated(amount, part, n) == 10000 * part <= amount /\ amount <= 10000 * part + 9999 * n

\* What is left over of an amount once the shares floored of it are taken.
LEMMA RoundingLeaves ==
    ASSUME NEW n \in Nat \ {0}, NEW amount \in Nat, NEW part \in Nat,
           NearlyRated(amount, part, n)
    PROVE  \E residue \in Nat : Rounded(amount) = part + residue /\ residue <= n
<1>1. /\ Rounded(amount) \in Nat /\ Rounded(amount) >= amount \div 10000
      /\ 10000 * Rounded(amount) <= amount + 5000
  BY RoundedBounds
<1>2. PICK total \in Nat : total = Rounded(amount)
  BY <1>1
<1>3. total >= amount \div 10000 /\ 10000 * total <= amount + 5000
  BY <1>1, <1>2
<1>4. PICK q \in Nat, r \in Nat : q = amount \div 10000 /\ amount = 10000 * q + r /\ r < 10000
  OBVIOUS
<1>5. 10000 * part <= amount /\ amount <= 10000 * part + 9999 * n
  BY DEF NearlyRated
<1>6. part <= q
  BY <1>4, <1>5
<1>7. 10000 * total <= 10000 * part + 9999 * n + 5000
  BY <1>3, <1>5
<1>8. part <= total
  BY <1>3, <1>4, <1>6
<1>9. total <= part + n
  BY <1>7
<1>10. total - part \in Nat /\ total - part <= n /\ total = part + (total - part)
  BY <1>8, <1>9
<1> QED  BY <1>2, <1>10

\* Each fee is the floored rate of its job.
RatedAt(floored, subs, S, bps) == floored = [i \in S |-> (subs[i] * bps) \div 10000]

LEMMA RateIsFloored ==
    ASSUME NEW S, IsFiniteSet(S), NEW subs \in [S -> Nat], NEW bps \in Nat, NEW floored,
           RatedAt(floored, subs, S, bps)
    PROVE  /\ floored \in [S -> Nat] /\ SumOver(floored) \in Nat /\ SumOver(subs) * bps \in Nat
           /\ NearlyRated(SumOver(subs) * bps, SumOver(floored), Cardinality(S))
<1>1. ASSUME NEW i \in S
      PROVE  \E x \in Nat, y \in Nat :
                /\ x = subs[i] * bps /\ x = bps * subs[i] /\ y = x \div 10000
                /\ 10000 * y <= x /\ x <= 10000 * y + 9999
  <2>1. subs[i] \in Nat
    OBVIOUS
  <2>2. PICK x \in Nat : x = subs[i] * bps /\ x = bps * subs[i]
    BY <2>1
  <2>3. PICK y \in Nat : y = x \div 10000 /\ 10000 * y <= x /\ x <= 10000 * y + 9999
    OBVIOUS
  <2> QED  BY <2>2, <2>3
<1>2. PICK exact : exact = [i \in S |-> bps * subs[i]]
  BY Zenon
<1>3. PICK w \in Nat, d \in Nat : w = 10000 /\ d = 9999
  OBVIOUS
<1>4. \A i \in S : /\ floored[i] \in Nat /\ exact[i] \in Nat /\ exact[i] = bps * subs[i]
                   /\ w * floored[i] <= exact[i] /\ exact[i] <= w * floored[i] + d
  <2>1. \A i \in S : floored[i] = (subs[i] * bps) \div 10000
    BY DEF RatedAt
  <2>2. \A i \in S : exact[i] = bps * subs[i]
    BY <1>2
  <2> QED  BY <1>1, <1>3, <2>1, <2>2
<1>5. PICK f \in [S -> Nat], e \in [S -> Nat] : f = floored /\ e = exact
  <2>1. floored \in [S -> Nat]
    BY <1>4 DEF RatedAt
  <2>2. exact \in [S -> Nat]
    BY <1>2, <1>4
  <2> QED  BY <2>1, <2>2
<1>6. \A i \in S : /\ e[i] = bps * subs[i]
                   /\ w * f[i] <= e[i] /\ e[i] <= w * f[i] + d
  BY <1>4, <1>5
<1>7. /\ SumOver(f) \in Nat /\ SumOver(e) \in Nat
      /\ w * SumOver(f) <= SumOver(e)
      /\ SumOver(e) <= w * SumOver(f) + d * Cardinality(S)
  BY <1>6, FlooredSumOf, Zenon
<1>8. SumOver(e) = bps * SumOver(subs)
  <2>1. \A i \in S : e[i] = bps * subs[i]
    BY <1>6
  <2> QED  BY <2>1, SumScaledOf
<1>9. SumOver(subs) \in Nat /\ Cardinality(S) \in Nat
  BY SumType, FS_CardinalityType
<1>10. bps * SumOver(subs) = SumOver(subs) * bps /\ SumOver(subs) * bps \in Nat
  BY <1>9
<1>11. /\ 10000 * SumOver(f) <= SumOver(subs) * bps
       /\ SumOver(subs) * bps <= 10000 * SumOver(f) + 9999 * Cardinality(S)
  BY <1>3, <1>7, <1>8, <1>10
<1> QED  BY <1>5, <1>7, <1>10, <1>11 DEF NearlyRated

\* Fees over jobs, as apply_network_fee leaves them: each at its floored rate, but for
\* the job that costs most, and together the rounded rate of the whole.
FeesFit(fees, subs, n) ==
    /\ fees \in [1 .. n -> Nat]
    /\ SumOver(fees) = Rounded(SumOver(subs) * Bps)
    /\ \A i \in 1 .. n :
          LET own == (subs[i] * Bps) \div 10000
          IN  /\ own \in Nat
              /\ fees[i] \in own .. (own + n)
              /\ fees[i] > own => \A h \in 1 .. n : subs[h] <= subs[i]

LEMMA FeesAreRounded ==
    ASSUME NEW n \in Nat \ {0}, NEW subs \in [1 .. n -> Nat]
    PROVE  FeesFit(Fees(subs), subs, n)
<1>1. PICK bps \in Nat : bps = Bps
  BY PricingAssumption
<1>2. PICK N : N = 1 .. n /\ IsFiniteSet(N) /\ Cardinality(N) = n
  BY CardinalityUpTo
<1>3. PICK floored : floored = FlooredFees(subs)
  OBVIOUS
<1>4. RatedAt(floored, subs, N, bps)
  BY <1>1, <1>2, <1>3 DEF FlooredFees, RatedAt
<1>5. IsFiniteSet(N) /\ Cardinality(N) = n /\ subs \in [N -> Nat]
  BY <1>2
<1>6. /\ floored \in [N -> Nat] /\ SumOver(floored) \in Nat /\ SumOver(subs) * bps \in Nat
      /\ NearlyRated(SumOver(subs) * bps, SumOver(floored), Cardinality(N))
  BY <1>4, <1>5, RateIsFloored
<1>7. \A i \in N : floored[i] \in Nat /\ floored[i] = (subs[i] * bps) \div 10000
  <2>1. \A i \in N : floored[i] \in Nat
    BY <1>6
  <2> QED  BY <1>4, <2>1 DEF RatedAt
<1>8. PICK amount \in Nat : amount = SumOver(subs) * Bps
  BY <1>1, <1>6
<1>9. PICK part \in Nat : part = SumOver(floored)
  BY <1>6
<1>10. NearlyRated(amount, part, n)
  BY <1>1, <1>5, <1>6, <1>8, <1>9
<1>11. PICK residue \in Nat : Rounded(amount) = part + residue /\ residue <= n
  BY <1>10, RoundingLeaves, Zenon
<1>12. PICK top \in N : top = Largest(subs) /\ \A h \in 1 .. n : subs[h] <= subs[top]
  <2>1. Largest(subs) \in 1 .. n /\ \A h \in 1 .. n : subs[h] <= subs[Largest(subs)]
    BY LargestIs, Zenon
  <2> QED  BY <1>2, <2>1
<1>13. PICK fees : fees = Fees(subs)
  OBVIOUS
<1>14. LiftedAt(fees, floored, N, top, residue)
  <2>1. fees = [floored EXCEPT ![top] = floored[top] + Rounded(SumOver(subs) * Bps) - part]
    BY <1>3, <1>9, <1>12, <1>13 DEF Fees
  <2>2. fees = [floored EXCEPT ![top] = floored[top] + (part + residue) - part]
    BY <1>8, <1>11, <2>1, Zenon
  <2>3. floored[top] \in Nat
    BY <1>7
  <2>4. floored[top] + (part + residue) - part = floored[top] + residue
    BY <2>3
  <2>5. fees = [floored EXCEPT ![top] = floored[top] + residue]
    BY <2>2, <2>4
  <2>6. floored[top] + residue \in Nat
    BY <2>3
  <2> QED  BY <1>6, <2>5, <2>6 DEF LiftedAt
<1>15. SumOver(fees) = Rounded(SumOver(subs) * Bps)
  <2>1. SumOver(fees) = SumOver(floored) + residue
    BY <1>5, <1>14, SumLifted
  <2> QED  BY <1>8, <1>9, <1>11, <2>1
<1>16. ASSUME NEW i \in N
       PROVE  /\ floored[i] \in Nat /\ fees[i] \in floored[i] .. (floored[i] + n)
              /\ fees[i] > floored[i] => \A h \in 1 .. n : subs[h] <= subs[i]
  <2>1. floored[i] \in Nat
    BY <1>7
  <2>2. CASE i = top
    <3>1. fees[i] = floored[i] + residue
      BY <1>14, <2>2 DEF LiftedAt
    <3> QED  BY <1>11, <1>12, <2>1, <2>2, <3>1
  <2>3. CASE i # top
    <3>1. fees[i] = floored[i]
      BY <1>14, <2>3 DEF LiftedAt
    <3> QED  BY <2>1, <3>1
  <2> QED  BY <2>2, <2>3
<1>17. fees \in [1 .. n -> Nat]
  BY <1>2, <1>14, Zenon DEF LiftedAt
<1>18. ASSUME NEW i \in 1 .. n
       PROVE  LET own == (subs[i] * Bps) \div 10000
              IN  /\ own \in Nat
                  /\ fees[i] \in own .. (own + n)
                  /\ fees[i] > own => \A h \in 1 .. n : subs[h] <= subs[i]
  <2>1. i \in N
    BY <1>2
  <2>2. floored[i] = (subs[i] * Bps) \div 10000
    BY <1>1, <1>7, <2>1
  <2> QED  BY <1>16, <2>1, <2>2
<1>19. FeesFit(fees, subs, n)
  BY <1>15, <1>17, <1>18 DEF FeesFit
<1> QED  BY <1>13, <1>19

-----------------------------------------------------------------------------
PricingInv ==
    /\ stage \in {"intake", "allocated", "priced"} =>
          /\ qty \in Nat \ {0}
          /\ scores \in Seq(Nat) /\ scores # <<>> /\ Ranked(scores)
    /\ stage \in {"allocated", "priced"} => \E n \in 1 .. MaxNodes :
          /\ InRank(n, alloc) /\ SumOver(alloc) = qty
          /\ alloc \in Seq(Nat)
    /\ FeesAreFair

LEMMA OrderIsRanked ==
    ASSUME NEW s \in SeqOf(Scores, MaxNodes + 1), s # <<>>,
           \A i \in 2 .. Len(s) : s[i - 1] >= s[i]
    PROVE  s \in Seq(Nat) /\ Ranked(s)
<1>1. PICK m \in 0 .. (MaxNodes + 1) : s \in [1 .. m -> Scores]
  BY DEF SeqOf
<1>2. m \in Nat /\ s \in [1 .. m -> Nat]
  <2>1. Scores \subseteq Nat /\ MaxNodes \in Nat
    BY PricingAssumption
  <2>2. m \in Nat
    BY <2>1
  <2>3. s \in [1 .. m -> Nat]
    BY <1>1, <2>1, Zenon
  <2> QED  BY <2>2, <2>3
<1>3. s \in Seq(Nat)
  BY <1>2, SeqFrom
<1> QED  BY <1>3, SortedIsRanked

LEMMA PricesAreFair ==
    ASSUME NEW n \in Nat \ {0}, NEW subs \in [1 .. n -> Nat],
           quotes' = [i \in DOMAIN subs |-> [subtotal |-> subs[i], fee |-> Fees(subs)[i]]]
    PROVE  FeesAreFair'
<1>1. PICK fees : fees = Fees(subs)
  OBVIOUS
<1>2. FeesFit(fees, subs, n)
  BY <1>1, FeesAreRounded
<1>3. PICK N : N = 1 .. n
  OBVIOUS
<1>4. fees \in [N -> Nat] /\ subs \in [N -> Nat]
  BY <1>2, <1>3 DEF FeesFit
<1>5. quotes' = [i \in N |-> [subtotal |-> subs[i], fee |-> fees[i]]]
  BY <1>1, <1>4
<1>6. /\ DOMAIN quotes' = N
      /\ \A i \in N : quotes'[i].subtotal = subs[i] /\ quotes'[i].fee = fees[i]
  BY <1>5
<1>7. Len(quotes') = n
  BY <1>3, <1>6
<1>8. [i \in DOMAIN quotes' |-> quotes'[i].fee] = fees
  BY <1>4, <1>6, Zenon
<1>9. [i \in DOMAIN quotes' |-> quotes'[i].subtotal] = subs
  BY <1>4, <1>6
<1>10. SumOver(fees) = Rounded(SumOver(subs) * Bps)
  BY <1>2 DEF FeesFit
<1>11. SumOver([i \in DOMAIN quotes' |-> quotes'[i].fee])
          = Rounded(SumOver([i \in DOMAIN quotes' |-> quotes'[i].subtotal]) * Bps)
  BY <1>8, <1>9, <1>10, Zenon
<1>12. ASSUME NEW i \in DOMAIN quotes'
       PROVE  LET own == (quotes'[i].subtotal * Bps) \div 10000
              IN  /\ quotes'[i].fee \in own .. (own + Len(quotes'))
                  /\ quotes'[i].fee > own =>
                         \A h \in DOMAIN quotes' : quotes'[h].subtotal <= quotes'[i].subtotal
  <2>1. i \in N /\ quotes'[i].subtotal = subs[i] /\ quotes'[i].fee = fees[i]
    BY <1>6, Zenon
  <2>2. LET own == (subs[i] * Bps) \div 10000
        IN  /\ fees[i] \in own .. (own + n)
            /\ fees[i] > own => \A h \in N : subs[h] <= subs[i]
    BY <1>2, <1>3, <2>1 DEF FeesFit
  <2>3. (\A h \in N : subs[h] <= subs[i])
            => \A h \in DOMAIN quotes' : quotes'[h].subtotal <= quotes'[i].subtotal
    BY <1>6, <2>1
  <2> QED  BY <1>7, <2>1, <2>2, <2>3
<1> QED  BY <1>11, <1>12 DEF FeesAreFair

LEMMA PricingKeeps ==
    ASSUME PricingInv, [PricingNext]_pricingVars
    PROVE  PricingInv'
<1>1. CASE TakeOrder
  <2>1. /\ qty' \in Quantities /\ stage' = "intake"
        /\ scores' \in SeqOf(Scores, MaxNodes + 1)
        /\ scores' # <<>> /\ \A i \in 2 .. Len(scores') : scores'[i - 1] >= scores'[i]
    BY <1>1 DEF TakeOrder
  <2>2. qty' \in Nat \ {0} /\ scores' \in Seq(Nat) /\ Ranked(scores')
    BY <2>1, OrderIsRanked, PricingAssumption
  <2> QED  BY <2>1, <2>2 DEF PricingInv, FeesAreFair
<1>2. CASE AllocateUnits
  <2>1. stage = "intake" /\ stage' = "allocated" /\ alloc' = Allocate(qty, scores)
        /\ qty' = qty /\ scores' = scores
    BY <1>2 DEF AllocateUnits
  <2>2. qty \in Nat \ {0} /\ scores \in Seq(Nat) /\ scores # <<>> /\ Ranked(scores)
    BY <2>1 DEF PricingInv
  <2>3. PICK n \in 1 .. MaxNodes : InRank(n, alloc') /\ SumOver(alloc') = qty
    BY <2>1, <2>2, AllocateSharesUnits
  <2>4. alloc' \in Seq(Nat)
    <3>1. n \in Nat /\ alloc' \in [1 .. n -> Nat]
      BY <2>3, PricingAssumption DEF InRank
    <3> QED  BY <3>1, SeqDef
  <2> QED  BY <2>1, <2>2, <2>3, <2>4 DEF PricingInv, FeesAreFair
<1>3. CASE Price
  <2>1. /\ stage = "allocated" /\ stage' = "priced"
        /\ qty' = qty /\ scores' = scores /\ alloc' = alloc
    BY <1>3 DEF Price
  <2>2. PICK n \in 1 .. MaxNodes : InRank(n, alloc) /\ SumOver(alloc) = qty /\ alloc \in Seq(Nat)
    BY <2>1 DEF PricingInv
  <2>3. PICK subs \in [DOMAIN alloc -> Subtotals] :
            quotes' = [i \in DOMAIN subs |-> [subtotal |-> subs[i], fee |-> Fees(subs)[i]]]
    BY <1>3 DEF Price
  <2>4. DOMAIN alloc = 1 .. n /\ n \in Nat \ {0}
    BY <2>2, PricingAssumption DEF InRank
  <2>5. subs \in [1 .. n -> Nat]
    <3>1. Subtotals \subseteq Nat
      BY PricingAssumption
    <3> QED  BY <2>3, <2>4, <3>1, Zenon
  <2>6. FeesAreFair'
    BY <2>3, <2>4, <2>5, PricesAreFair, Zenon
  <2> QED  BY <2>1, <2>2, <2>6 DEF PricingInv
<1>4. CASE UNCHANGED pricingVars
  <2>1. FeesAreFair'
    BY <1>4 DEF PricingInv, FeesAreFair, pricingVars, Rounded
  <2> QED  BY <1>4, <2>1 DEF PricingInv, pricingVars
<1> QED  BY <1>1, <1>2, <1>3, <1>4 DEF PricingNext

\* Every unit ordered is made by one of at most MaxNodes nodes, no better node makes
\* fewer by more than the unit that trimming takes, and the fees of the jobs are the
\* published rate on the order, to the nearest cent, whatever is ordered, whoever can
\* make it and whatever it costs (match.py:58-71, quote.py:79-91).
THEOREM QuotesAlwaysFair ==
    PricingSpec => []QuotesAreFair
<1>1. PricingInit => PricingInv
  BY DEF PricingInit, PricingInv, FeesAreFair
<1>2. PricingInv /\ [PricingNext]_pricingVars => PricingInv'
  BY PricingKeeps
<1>3. PricingInv => QuotesAreFair
  <2> SUFFICES ASSUME PricingInv
               PROVE  QuotesAreFair
    OBVIOUS
  <2>1. UnitsAreShared
    <3> SUFFICES ASSUME stage \in {"allocated", "priced"}
                 PROVE  UnitsAreShared
      BY DEF UnitsAreShared
    <3>1. PICK n \in 1 .. MaxNodes : InRank(n, alloc) /\ SumOver(alloc) = qty /\ alloc \in Seq(Nat)
      BY DEF PricingInv
    <3>2. alloc \in [1 .. n -> Nat \ {0}] /\ Len(alloc) = n
      <4>1. alloc \in [1 .. n -> Nat \ {0}] /\ n \in Nat
        BY <3>1, PricingAssumption DEF InRank
      <4> QED  BY <3>1, <4>1, LenProperties
    <3>3. Len(alloc) <= MaxNodes
      BY <3>1, <3>2, PricingAssumption
    <3> QED  BY <3>1, <3>2, <3>3 DEF UnitsAreShared, InRank
  <2> QED  BY <2>1 DEF PricingInv, QuotesAreFair
<1> QED  BY <1>1, <1>2, <1>3, PTL DEF PricingSpec

-----------------------------------------------------------------------------
(***************************************************************************)
(* Reputation.                                                             *)
(***************************************************************************)

\* Records of a grade that add up: nobody was on time more often than done.
StatsRecords ==
    [completed : Nat, failed : Nat, on_time : Nat, qa_pass : Nat, disputes_lost : Nat]
GoodStats == {s \in StatsRecords : s.on_time <= s.completed /\ s.qa_pass <= s.completed}

ReputationInv == stats \in [Grades -> GoodStats] /\ expelled \in BOOLEAN

LEMMA Products ==
    ASSUME NEW a \in Nat, NEW b \in Nat
    PROVE  a * b \in Nat
OBVIOUS

\* A product grows with its factors.
LEMMA TimesMore ==
    ASSUME NEW a \in Int, NEW b \in Int, NEW x \in Nat, a <= b
    PROVE  x * a <= x * b
<1>1. x * (b - a) \in Nat
  <2>1. b - a \in Nat
    OBVIOUS
  <2> QED  BY <2>1, Products
<1>2. x * (b - a) = x * b - x * a
  OBVIOUS
<1>3. x * b \in Int /\ x * a \in Int
  OBVIOUS
<1> QED  BY <1>1, <1>2, <1>3

\* A grade's score before it is clamped: c / 2n, p / 4c and less m / 10.
RawNum(c, n, p, m) == 10 * c * c + 5 * n * p - 2 * n * c * m
RawDen(c, n) == 20 * n * c

\* Clamping keeps the order.
LEMMA ClampKeeps ==
    ASSUME NEW a \in Int, NEW b \in Nat \ {0}, NEW c \in Int, NEW d \in Nat \ {0},
           a * d <= c * b
    PROVE  AtMost(Clamped(Fraction(a, b)), Clamped(Fraction(c, d)))
<1>1. a > b => c >= d
  <2>1. SUFFICES ASSUME a > b, c < d
                 PROVE  FALSE
    OBVIOUS
  <2>2. d * (b + 1) <= d * a
    BY <2>1, TimesMore
  <2>3. b * c <= b * d
    BY <2>1, TimesMore
  <2>4. d * (b + 1) = d * b + d /\ d * b = b * d /\ d * a = a * d /\ b * c = c * b
    OBVIOUS
  <2>5. b * d \in Int /\ a * d \in Int /\ c * b \in Int
    OBVIOUS
  <2> QED  BY <2>2, <2>3, <2>4, <2>5
<1>2. c < 0 => a < 0
  <2>1. SUFFICES ASSUME c < 0, a >= 0
                 PROVE  FALSE
    OBVIOUS
  <2>2. b * c <= b * (-1)
    BY <2>1, TimesMore
  <2>3. b * (-1) = -b /\ b * c = c * b
    OBVIOUS
  <2>4. a * d \in Nat
    BY <2>1, Products
  <2>5. c * b \in Int
    OBVIOUS
  <2> QED  BY <2>2, <2>3, <2>4, <2>5
<1>3. a >= 0 => 0 <= a * 1
  OBVIOUS
<1> QED  BY <1>1, <1>2 DEF AtMost, Clamped, Fraction

\* One more outcome that is all good: each term grows.
LEMMA GoodCounts ==
    ASSUME NEW c \in Nat \ {0}, NEW n \in Nat, NEW p \in Nat, NEW m \in Nat, c <= n, p <= 2 * c
    PROVE  RawNum(c, n, p, m) * RawDen(c + 1, n + 1) <= RawNum(c + 1, n + 1, p + 2, m) * RawDen(c, n)
<1>1. PICK x \in Nat : x = (200 * c * (c + 1)) * (n - c)
  <2>1. n - c \in Nat /\ 200 * c * (c + 1) \in Nat
    BY Products
  <2> QED  BY <2>1, Products
<1>2. PICK y \in Nat : y = (100 * n * (n + 1)) * (2 * c - p)
  <2>1. 2 * c - p \in Nat /\ 100 * n * (n + 1) \in Nat
    BY Products
  <2> QED  BY <2>1, Products
<1>3. RawNum(c + 1, n + 1, p + 2, m) * RawDen(c, n)
         = RawNum(c, n, p, m) * RawDen(c + 1, n + 1) + x + y
  BY <1>1, <1>2 DEF RawNum, RawDen
<1>4. RawNum(c, n, p, m) * RawDen(c + 1, n + 1) \in Int
  <2>1. RawNum(c, n, p, m) \in Int /\ RawDen(c + 1, n + 1) \in Int
    BY DEF RawNum, RawDen
  <2> QED  BY <2>1
<1> QED  BY <1>3, <1>4

\* One failure more, one dispute more, and a worse completion: no term grows.
LEMMA WorseCounts ==
    ASSUME NEW c \in Nat \ {0}, NEW n \in Nat, NEW p \in Nat, NEW q \in Nat,
           NEW m \in Nat, NEW k \in Nat, c <= n, p <= q, m <= k
    PROVE  /\ RawNum(c, n + 1, p, m) * RawDen(c, n) <= RawNum(c, n, p, m) * RawDen(c, n + 1)
           /\ RawNum(c, n, p, k) * RawDen(c, n) <= RawNum(c, n, p, m) * RawDen(c, n)
           /\ RawNum(c, n, p, m) * RawDen(c, n) <= RawNum(c, n, q, m) * RawDen(c, n)
<1>1. PICK x \in Nat : x = 200 * c * c * c
  BY Products
<1>2. RawNum(c, n, p, m) * RawDen(c, n + 1) = RawNum(c, n + 1, p, m) * RawDen(c, n) + x
  BY <1>1 DEF RawNum, RawDen
<1>3. PICK y \in Nat : y = (40 * n * n * c * c) * (k - m)
  <2>1. k - m \in Nat /\ 40 * n * n * c * c \in Nat
    BY Products
  <2> QED  BY <2>1, Products
<1>4. RawNum(c, n, p, m) * RawDen(c, n) = RawNum(c, n, p, k) * RawDen(c, n) + y
  BY <1>3 DEF RawNum, RawDen
<1>5. PICK z \in Nat : z = (100 * n * n * c) * (q - p)
  <2>1. q - p \in Nat /\ 100 * n * n * c \in Nat
    BY Products
  <2> QED  BY <2>1, Products
<1>6. RawNum(c, n, q, m) * RawDen(c, n) = RawNum(c, n, p, m) * RawDen(c, n) + z
  BY <1>5 DEF RawNum, RawDen
<1>7. /\ RawNum(c, n, p, m) * RawDen(c, n) \in Int
      /\ RawNum(c, n, p, k) * RawDen(c, n) \in Int
      /\ RawNum(c, n + 1, p, m) * RawDen(c, n) \in Int
  <2>1. /\ RawNum(c, n, p, m) \in Int /\ RawDen(c, n) \in Int
        /\ RawNum(c, n, p, k) \in Int /\ RawNum(c, n + 1, p, m) \in Int
    BY DEF RawNum, RawDen
  <2> QED  BY <2>1
<1> QED  BY <1>2, <1>4, <1>6, <1>7

LEMMA UpToFive ==
    ASSUME NEW d \in Nat
    PROVE  Min({5, d}) = IF 5 <= d THEN 5 ELSE d
<1>1. PICK five \in Int, x \in Int : five = 5 /\ x = d
  OBVIOUS
<1>2. Min({five, x}) = IF five <= x THEN five ELSE x
  BY OfTwo
<1> QED  BY <1>1, <1>2

\* The counts a score is made of.
Counts(s, c, n, p, m) ==
    /\ s \in GoodStats /\ c = s.completed /\ n = s.completed + s.failed
    /\ p = s.on_time + s.qa_pass /\ m = Min({5, s.disputes_lost})

LEMMA CountsExist ==
    ASSUME NEW s \in GoodStats
    PROVE  \E c \in Nat, n \in Nat, p \in Nat, m \in 0 .. 5 :
               Counts(s, c, n, p, m) /\ c <= n /\ p <= 2 * c
<1>1. /\ s.completed \in Nat /\ s.failed \in Nat /\ s.on_time \in Nat /\ s.qa_pass \in Nat
      /\ s.disputes_lost \in Nat /\ s.on_time <= s.completed /\ s.qa_pass <= s.completed
  BY DEF GoodStats, StatsRecords
<1>2. Min({5, s.disputes_lost}) \in 0 .. 5
  <2>1. PICK d \in Nat : d = s.disputes_lost
    BY <1>1
  <2>2. Min({5, d}) = IF 5 <= d THEN 5 ELSE d
    BY UpToFive
  <2> QED  BY <2>1, <2>2
<1>3. PICK c \in Nat, n \in Nat, p \in Nat :
          /\ c = s.completed /\ n = s.completed + s.failed /\ p = s.on_time + s.qa_pass
          /\ c <= n /\ p <= 2 * c
  BY <1>1
<1>4. PICK m \in 0 .. 5 : m = Min({5, s.disputes_lost})
  BY <1>2
<1>5. Counts(s, c, n, p, m)
  BY <1>3, <1>4 DEF Counts
<1> QED  BY <1>3, <1>5

\* A score that is no fraction of zero, and lies in [0, 1].
IsScore(x) == x.num \in Nat /\ x.den \in Nat \ {0} /\ x.num <= x.den

LEMMA ClampedIsScore ==
    ASSUME NEW a \in Int, NEW b \in Nat \ {0}
    PROVE  IsScore(Clamped(Fraction(a, b)))
BY DEF IsScore, Clamped, Fraction

LEMMA RawType ==
    ASSUME NEW c \in Nat \ {0}, NEW n \in Nat, NEW p \in Nat, NEW m \in Nat, c <= n
    PROVE  RawNum(c, n, p, m) \in Int /\ RawDen(c, n) \in Nat \ {0}
<1>1. n \in Nat \ {0}
  OBVIOUS
<1>2. n * c \in Nat \ {0}
  <2>1. n * 1 <= n * c
    BY TimesMore
  <2> QED  BY <1>1, <2>1
<1>3. 20 * n * c = 20 * (n * c)
  OBVIOUS
<1> QED  BY <1>2, <1>3 DEF RawNum, RawDen

LEMMA ScoreByCounts ==
    ASSUME NEW s, NEW c \in Nat, NEW n \in Nat, NEW p \in Nat, NEW m \in Nat,
           Counts(s, c, n, p, m), c <= n
    PROVE  /\ n = 0 => Score(s) = Fraction(1, 2)
           /\ n # 0 /\ c = 0 => Score(s) = Fraction(0, 1)
           /\ c # 0 => Score(s) = Clamped(Fraction(RawNum(c, n, p, m), RawDen(c, n)))
           /\ IsScore(Score(s))
<1>1. Score(s) = IF n = 0 THEN Fraction(1, 2)
                 ELSE IF c = 0 THEN Fraction(0, 1)
                 ELSE Clamped(Fraction(RawNum(c, n, p, m), RawDen(c, n)))
  BY DEF Score, Counts, RawNum, RawDen
<1>2. CASE c # 0
  BY <1>1, <1>2, RawType, ClampedIsScore
<1>3. CASE c = 0
  <2>1. IsScore(Fraction(1, 2)) /\ IsScore(Fraction(0, 1))
    BY DEF IsScore, Fraction
  <2> QED  BY <1>1, <1>3, <2>1
<1> QED  BY <1>2, <1>3

\* What an outcome does to the counts.
LEMMA OutcomesKeep ==
    ASSUME NEW s \in GoodStats, NEW c \in Nat, NEW n \in Nat, NEW p \in Nat, NEW m \in 0 .. 5,
           Counts(s, c, n, p, m)
    PROVE  /\ Counts(Failed(s), c, n + 1, p, m)
           /\ \E k \in 0 .. 5 : m <= k /\ Counts(Lost(s), c, n, p, k)
           /\ \A t, q \in BOOLEAN :
                 Counts(Completed(s, t, q), c + 1, n + 1, p + One(t) + One(q), m)
<1>1. /\ s.completed \in Nat /\ s.failed \in Nat /\ s.on_time \in Nat /\ s.qa_pass \in Nat
      /\ s.disputes_lost \in Nat /\ s.on_time <= s.completed /\ s.qa_pass <= s.completed
      /\ s \in [completed : Nat, failed : Nat, on_time : Nat, qa_pass : Nat, disputes_lost : Nat]
  BY DEF GoodStats, StatsRecords
<1>2. /\ c = s.completed /\ n = s.completed + s.failed /\ p = s.on_time + s.qa_pass
      /\ m = Min({5, s.disputes_lost})
  BY DEF Counts
<1>3. Counts(Failed(s), c, n + 1, p, m)
  <2>1. /\ Failed(s) \in GoodStats
        /\ Failed(s).completed = s.completed /\ Failed(s).failed = s.failed + 1
        /\ Failed(s).on_time = s.on_time /\ Failed(s).qa_pass = s.qa_pass
        /\ Failed(s).disputes_lost = s.disputes_lost
    BY <1>1 DEF Failed, GoodStats, StatsRecords
  <2> QED  BY <1>1, <1>2, <2>1 DEF Counts
<1>4. \E k \in 0 .. 5 : m <= k /\ Counts(Lost(s), c, n, p, k)
  <2>1. /\ Lost(s) \in GoodStats
        /\ Lost(s).completed = s.completed /\ Lost(s).failed = s.failed
        /\ Lost(s).on_time = s.on_time /\ Lost(s).qa_pass = s.qa_pass
        /\ Lost(s).disputes_lost = s.disputes_lost + 1
    BY <1>1 DEF Lost, GoodStats, StatsRecords
  <2>2. PICK d \in Nat, e \in Nat : d = s.disputes_lost /\ e = d + 1
    BY <1>1
  <2>3. /\ Min({5, e}) = IF 5 <= e THEN 5 ELSE e
        /\ Min({5, d}) = IF 5 <= d THEN 5 ELSE d
    BY UpToFive
  <2>4. PICK k \in 0 .. 5 : k = Min({5, e}) /\ m <= k
    BY <1>2, <2>2, <2>3
  <2> QED  BY <1>2, <2>1, <2>2, <2>4 DEF Counts
<1>5. ASSUME NEW t \in BOOLEAN, NEW q \in BOOLEAN
      PROVE  Counts(Completed(s, t, q), c + 1, n + 1, p + One(t) + One(q), m)
  <2>1. PICK x \in 0 .. 1, y \in 0 .. 1 : x = One(t) /\ y = One(q)
    BY DEF One
  <2>2. Completed(s, t, q) =
            [s EXCEPT !.completed = @ + 1, !.on_time = @ + x, !.qa_pass = @ + y]
    BY <2>1 DEF Completed
  <2>3. /\ Completed(s, t, q) \in GoodStats
        /\ Completed(s, t, q).completed = s.completed + 1
        /\ Completed(s, t, q).failed = s.failed
        /\ Completed(s, t, q).on_time = s.on_time + x
        /\ Completed(s, t, q).qa_pass = s.qa_pass + y
        /\ Completed(s, t, q).disputes_lost = s.disputes_lost
    <3>1. PICK s1 : s1 = [s EXCEPT !.completed = @ + 1]
      BY Zenon
    <3>2. /\ s1 \in StatsRecords
          /\ s1.completed = s.completed + 1 /\ s1.failed = s.failed
          /\ s1.on_time = s.on_time /\ s1.qa_pass = s.qa_pass
          /\ s1.disputes_lost = s.disputes_lost
      BY <1>1, <3>1 DEF StatsRecords
    <3>3. s1.on_time \in Nat
      BY <1>1, <3>2
    <3>4. PICK u \in StatsRecords : u = s1
      BY <3>2
    <3>5. PICK s2 : s2 = [u EXCEPT !.on_time = @ + x]
      BY Zenon
    <3>6. /\ s2 \in StatsRecords
          /\ s2.completed = u.completed /\ s2.failed = u.failed
          /\ s2.on_time = u.on_time + x /\ s2.qa_pass = u.qa_pass
          /\ s2.disputes_lost = u.disputes_lost
      BY <3>5 DEF StatsRecords
    <3>7. PICK v \in StatsRecords : v = s2
      BY <3>6
    <3>8. PICK s3 : s3 = [v EXCEPT !.qa_pass = @ + y]
      BY Zenon
    <3>9. /\ s3 \in StatsRecords
          /\ s3.completed = v.completed /\ s3.failed = v.failed
          /\ s3.on_time = v.on_time /\ s3.qa_pass = v.qa_pass + y
          /\ s3.disputes_lost = v.disputes_lost
      BY <3>8 DEF StatsRecords
    <3>10. Completed(s, t, q) = s3
      BY <2>2, <3>1, <3>4, <3>5, <3>7, <3>8
    <3>11. /\ s3.completed = s.completed + 1 /\ s3.failed = s.failed
           /\ s3.on_time = s.on_time + x /\ s3.qa_pass = s.qa_pass + y
           /\ s3.disputes_lost = s.disputes_lost
      BY <3>2, <3>4, <3>6, <3>7, <3>9
    <3>12. s3 \in GoodStats
      BY <1>1, <3>9, <3>11 DEF GoodStats
    <3> QED  BY <3>10, <3>11, <3>12
  <2> QED  BY <1>1, <1>2, <2>1, <2>3 DEF Counts
<1> QED  BY <1>3, <1>4, <1>5

\* A half is the least that the first completion brings.
LEMMA FirstIsHalf ==
    ASSUME NEW m \in 0 .. 5
    PROVE  AtMost(Fraction(1, 2), Clamped(Fraction(RawNum(1, 1, 2, m), RawDen(1, 1))))
<1>1. RawNum(1, 1, 2, m) = 20 - 2 * m /\ RawDen(1, 1) = 20
  BY DEF RawNum, RawDen
<1> QED  BY <1>1 DEF AtMost, Clamped, Fraction

LEMMA ZeroIsLeast ==
    ASSUME NEW x, IsScore(x)
    PROVE  AtMost(Fraction(0, 1), x)
BY DEF IsScore, AtMost, Fraction

LEMMA GradeOutcomesCount ==
    ASSUME NEW s \in GoodStats
    PROVE  /\ AtMost(Score(s), Score(Completed(s, TRUE, TRUE)))
           /\ AtMost(Score(Failed(s)), Score(s))
           /\ AtMost(Score(Lost(s)), Score(s))
           /\ \A t, q \in BOOLEAN :
                 AtMost(Score(Completed(s, t, q)), Score(Completed(s, TRUE, TRUE)))
<1>1. PICK c \in Nat, n \in Nat, p \in Nat, m \in 0 .. 5 :
          Counts(s, c, n, p, m) /\ c <= n /\ p <= 2 * c
  BY CountsExist
<1>2. m \in Nat /\ c + 1 \in Nat \ {0} /\ n + 1 \in Nat \ {0} /\ c + 1 <= n + 1
  BY <1>1
<1>3. PICK good : good = Completed(s, TRUE, TRUE)
  BY Zenon
<1>4. Counts(good, c + 1, n + 1, p + 2, m)
  <2>1. p + One(TRUE) + One(TRUE) = p + 2
    BY DEF One
  <2> QED  BY <1>1, <1>3, <2>1, OutcomesKeep, Zenon
<1>5. Score(good) = Clamped(Fraction(RawNum(c + 1, n + 1, p + 2, m), RawDen(c + 1, n + 1)))
      /\ IsScore(Score(good))
  BY <1>2, <1>4, ScoreByCounts
<1>6. AtMost(Score(s), Score(good))
  <2>1. CASE c # 0
    <3>1. Score(s) = Clamped(Fraction(RawNum(c, n, p, m), RawDen(c, n)))
      BY <1>1, <1>2, <2>1, ScoreByCounts
    <3>2. RawNum(c, n, p, m) * RawDen(c + 1, n + 1)
             <= RawNum(c + 1, n + 1, p + 2, m) * RawDen(c, n)
      BY <1>1, <1>2, <2>1, GoodCounts
    <3>3. /\ RawNum(c, n, p, m) \in Int /\ RawDen(c, n) \in Nat \ {0}
          /\ RawNum(c + 1, n + 1, p + 2, m) \in Int /\ RawDen(c + 1, n + 1) \in Nat \ {0}
      <4>1. c \in Nat \ {0} /\ p + 2 \in Nat
        BY <2>1
      <4>2. RawNum(c, n, p, m) \in Int /\ RawDen(c, n) \in Nat \ {0}
        BY <1>1, <1>2, <4>1, RawType
      <4>3. RawNum(c + 1, n + 1, p + 2, m) \in Int /\ RawDen(c + 1, n + 1) \in Nat \ {0}
        BY <1>2, <4>1, RawType
      <4> QED  BY <4>2, <4>3
    <3> QED  BY <1>5, <3>1, <3>2, <3>3, ClampKeeps
  <2>2. CASE n = 0
    <3>1. c = 0 /\ p = 0 /\ Score(s) = Fraction(1, 2)
      BY <1>1, <1>2, <2>2, ScoreByCounts
    <3>2. Score(good) = Clamped(Fraction(RawNum(1, 1, 2, m), RawDen(1, 1)))
      BY <1>5, <2>2, <3>1
    <3> QED  BY <3>1, <3>2, FirstIsHalf
  <2>3. CASE n # 0 /\ c = 0
    <3>1. Score(s) = Fraction(0, 1)
      BY <1>1, <1>2, <2>3, ScoreByCounts
    <3> QED  BY <1>5, <3>1, ZeroIsLeast
  <2> QED  BY <2>1, <2>2, <2>3
<1>7. AtMost(Score(Failed(s)), Score(s))
  <2>1. Counts(Failed(s), c, n + 1, p, m) /\ c <= n + 1
    BY <1>1, OutcomesKeep
  <2>2. CASE c # 0
    <3>1. /\ Score(s) = Clamped(Fraction(RawNum(c, n, p, m), RawDen(c, n)))
          /\ Score(Failed(s)) = Clamped(Fraction(RawNum(c, n + 1, p, m), RawDen(c, n + 1)))
      BY <1>1, <1>2, <2>1, <2>2, ScoreByCounts
    <3>2. RawNum(c, n + 1, p, m) * RawDen(c, n) <= RawNum(c, n, p, m) * RawDen(c, n + 1)
      BY <1>1, <1>2, <2>2, WorseCounts
    <3>3. /\ RawNum(c, n, p, m) \in Int /\ RawDen(c, n) \in Nat \ {0}
          /\ RawNum(c, n + 1, p, m) \in Int /\ RawDen(c, n + 1) \in Nat \ {0}
      BY <1>1, <1>2, <2>1, <2>2, RawType
    <3> QED  BY <3>1, <3>2, <3>3, ClampKeeps
  <2>3. CASE c = 0
    <3>1. Score(Failed(s)) = Fraction(0, 1)
      BY <1>2, <2>1, <2>3, ScoreByCounts
    <3>2. IsScore(Score(s))
      BY <1>1, <1>2, ScoreByCounts
    <3> QED  BY <3>1, <3>2, ZeroIsLeast
  <2> QED  BY <2>2, <2>3
<1>8. AtMost(Score(Lost(s)), Score(s))
  <2>1. PICK k \in 0 .. 5 : m <= k /\ Counts(Lost(s), c, n, p, k)
    BY <1>1, OutcomesKeep
  <2>2. CASE c # 0
    <3>1. /\ Score(s) = Clamped(Fraction(RawNum(c, n, p, m), RawDen(c, n)))
          /\ Score(Lost(s)) = Clamped(Fraction(RawNum(c, n, p, k), RawDen(c, n)))
      BY <1>1, <1>2, <2>1, <2>2, ScoreByCounts
    <3>2. RawNum(c, n, p, k) * RawDen(c, n) <= RawNum(c, n, p, m) * RawDen(c, n)
      BY <1>1, <1>2, <2>1, <2>2, WorseCounts
    <3>3. /\ RawNum(c, n, p, m) \in Int /\ RawDen(c, n) \in Nat \ {0}
          /\ RawNum(c, n, p, k) \in Int
      BY <1>1, <1>2, <2>1, <2>2, RawType
    <3> QED  BY <3>1, <3>2, <3>3, ClampKeeps, Zenon
  <2>3. CASE c = 0
    <3>1. Score(Lost(s)) = Score(s) /\ IsScore(Score(s))
      BY <1>1, <1>2, <2>1, <2>3, ScoreByCounts
    <3> QED  BY <3>1 DEF AtMost, IsScore
  <2> QED  BY <2>2, <2>3
<1>9. ASSUME NEW t \in BOOLEAN, NEW q \in BOOLEAN
      PROVE  AtMost(Score(Completed(s, t, q)), Score(good))
  <2>1. PICK r \in Nat : r = p + One(t) + One(q) /\ r <= p + 2
    BY DEF One
  <2>2. Counts(Completed(s, t, q), c + 1, n + 1, r, m)
    BY <1>1, <2>1, OutcomesKeep, Zenon
  <2>3. Score(Completed(s, t, q)) = Clamped(Fraction(RawNum(c + 1, n + 1, r, m), RawDen(c + 1, n + 1)))
    BY <1>2, <2>2, ScoreByCounts
  <2>4. RawNum(c + 1, n + 1, r, m) * RawDen(c + 1, n + 1)
           <= RawNum(c + 1, n + 1, p + 2, m) * RawDen(c + 1, n + 1)
    <3>1. PICK done \in Nat \ {0}, all \in Nat, points \in Nat :
              /\ done = c + 1 /\ all = n + 1 /\ points = p + 2
              /\ done <= all /\ r <= points /\ m <= m
      BY <1>2, <2>1
    <3>2. RawNum(done, all, r, m) * RawDen(done, all)
             <= RawNum(done, all, points, m) * RawDen(done, all)
      BY <1>2, <3>1, WorseCounts, Zenon
    <3> QED  BY <3>1, <3>2
  <2>5. /\ RawNum(c + 1, n + 1, r, m) \in Int /\ RawDen(c + 1, n + 1) \in Nat \ {0}
        /\ RawNum(c + 1, n + 1, p + 2, m) \in Int
    <3>1. PICK done \in Nat \ {0}, all \in Nat, points \in Nat :
              done = c + 1 /\ all = n + 1 /\ points = p + 2 /\ done <= all
      BY <1>2
    <3>2. /\ RawNum(done, all, r, m) \in Int /\ RawDen(done, all) \in Nat \ {0}
          /\ RawNum(done, all, points, m) \in Int
      BY <1>2, <3>1, RawType
    <3> QED  BY <3>1, <3>2
  <2>6. AtMost(Clamped(Fraction(RawNum(c + 1, n + 1, r, m), RawDen(c + 1, n + 1))),
               Clamped(Fraction(RawNum(c + 1, n + 1, p + 2, m), RawDen(c + 1, n + 1))))
    BY <2>4, <2>5, ClampKeeps, Zenon
  <2> QED  BY <1>5, <2>3, <2>6
<1> QED  BY <1>3, <1>6, <1>7, <1>8, <1>9, Zenon

\* What is blended of a prior and a score is between them, so a score.
LEMMA BlendedIsScore ==
    ASSUME NEW w \in 0 .. 5, NEW x, IsScore(x)
    PROVE  IsScore(Fraction((5 - w) * Prior * x.den + 10 * w * x.num, 50 * x.den))
<1>1. PICK a \in Nat, b \in Nat \ {0}, v \in Nat, prior \in Nat :
          /\ a = x.num /\ b = x.den /\ a <= b /\ v = 5 - w /\ prior = Prior /\ prior <= 10
  BY ReputationAssumption DEF IsScore
<1>2. w \in Nat /\ v + w = 5
  BY <1>1
<1>3. v * prior * b <= 10 * (v * b)
  <2>1. (v * b) * prior <= (v * b) * 10
    <3>1. v * b \in Nat
      BY Products
    <3> QED  BY <1>1, <3>1, TimesMore
  <2>2. (v * b) * prior = v * prior * b /\ (v * b) * 10 = 10 * (v * b)
    OBVIOUS
  <2> QED  BY <2>1, <2>2
<1>4. 10 * w * a <= 10 * (w * b)
  <2>1. w * a <= w * b
    BY <1>1, <1>2, TimesMore
  <2>2. w * a \in Nat /\ w * b \in Nat /\ 10 * w * a = 10 * (w * a)
    BY <1>2, Products
  <2> QED  BY <2>1, <2>2
<1>5. v * b + w * b = 5 * b
  <2>1. v * b + w * b = (v + w) * b
    BY <1>2
  <2> QED  BY <1>2, <2>1
<1>6. v * prior * b \in Nat /\ 10 * w * a \in Nat /\ v * b \in Nat /\ w * b \in Nat
  <2>1. v * prior \in Nat /\ 10 * w \in Nat
    BY <1>2, Products
  <2> QED  BY <1>2, <2>1, Products
<1>7. v * prior * b + 10 * w * a <= 50 * b
  BY <1>3, <1>4, <1>5, <1>6
<1>8. /\ (5 - w) * Prior * x.den + 10 * w * x.num = v * prior * b + 10 * w * a
      /\ 50 * x.den = 50 * b
  BY <1>1
<1>9. IsScore(Fraction(v * prior * b + 10 * w * a, 50 * b))
  BY <1>6, <1>7 DEF IsScore, Fraction
<1> QED  BY <1>8, <1>9

LEMMA NodeOutcomesCount ==
    ASSUME NEW g \in Grades, ReputationInv
    PROVE  /\ stats[g].completed + stats[g].failed = 0 /\ ~expelled =>
                 /\ AtMost(NodeScore(g), Fraction(Prior, 10))
                 /\ ~IsProbationary => AtMost(Fraction(Prior, 10), NodeScore(g))
           /\ NodeScore(g).num \in 0 .. NodeScore(g).den
<1>1. PICK s \in GoodStats : s = stats[g]
  BY DEF ReputationInv
<1>2. PICK c \in Nat, n \in Nat, p \in Nat, m \in 0 .. 5 : Counts(s, c, n, p, m) /\ c <= n
  BY CountsExist
<1>3. PICK x : x = Score(s)
  OBVIOUS
<1>4. IsScore(x) /\ (n = 0 => x = Fraction(1, 2))
  <2>1. m \in Nat
    OBVIOUS
  <2> QED  BY <1>2, <1>3, <2>1, ScoreByCounts
<1>5. PICK w \in 0 .. 5 : w = Min({5, n}) /\ (n = 0 => w = 0)
  <2>1. Min({5, n}) = IF 5 <= n THEN 5 ELSE n
    BY UpToFive
  <2> QED  BY <2>1
<1>6. PICK blended :
          blended = Fraction((5 - w) * Prior * x.den + 10 * w * x.num, 50 * x.den)
  OBVIOUS
<1>7. IsScore(blended)
  BY <1>4, <1>6, BlendedIsScore, Zenon
<1>8. n = stats[g].completed + stats[g].failed
  BY <1>1, <1>2 DEF Counts
<1>9. NodeScore(g) = IF expelled THEN Fraction(0, 1)
                     ELSE IF IsProbationary THEN Fraction(17 * blended.num, 20 * blended.den)
                     ELSE blended
  BY <1>1, <1>3, <1>5, <1>6, <1>8 DEF NodeScore
<1>10. IsScore(Fraction(0, 1)) /\ IsScore(Fraction(17 * blended.num, 20 * blended.den))
  BY <1>7 DEF IsScore, Fraction
<1>11. IsScore(NodeScore(g))
  BY <1>7, <1>9, <1>10
<1>12. ASSUME n = 0
       PROVE  /\ AtMost(blended, Fraction(Prior, 10)) /\ AtMost(Fraction(Prior, 10), blended)
              /\ AtMost(Fraction(17 * blended.num, 20 * blended.den), Fraction(Prior, 10))
  <2>1. PICK prior \in Nat : prior = Prior
    BY ReputationAssumption
  <2>2. x.num = 1 /\ x.den = 2 /\ w = 0
    BY <1>4, <1>5, <1>12 DEF Fraction
  <2>3. blended.num = 10 * prior /\ blended.den = 100
    BY <1>6, <2>1, <2>2 DEF Fraction
  <2> QED  BY <2>1, <2>3 DEF AtMost, Fraction
<1>13. n = 0 /\ ~expelled =>
          /\ AtMost(NodeScore(g), Fraction(Prior, 10))
          /\ ~IsProbationary => AtMost(Fraction(Prior, 10), NodeScore(g))
  BY <1>9, <1>12
<1> QED  BY <1>8, <1>11, <1>13 DEF IsScore

\* Whatever is recorded of a node, in whatever order and for any prior, a good
\* completion never lowers a grade's score, a failure or a lost dispute never raises
\* it, and no score leaves [0, 1] (reputation.py:5-9, 41-43).
THEOREM OutcomesAlwaysCount == ReputationSpec => []OutcomesCount
<1>1. ReputationInit => ReputationInv
  <2>1. NoStats \in GoodStats
    BY DEF NoStats, GoodStats, StatsRecords
  <2> QED  BY <2>1, Zenon DEF ReputationInit, ReputationInv
<1>2. ReputationInv /\ [ReputationNext]_reputationVars => ReputationInv'
  <2> SUFFICES ASSUME ReputationInv, [ReputationNext]_reputationVars
               PROVE  ReputationInv'
    OBVIOUS
  <2>1. CASE Expel
    BY <2>1 DEF Expel, ReputationInv
  <2>2. ASSUME NEW g \in Grades, RecordOutcome(g)
        PROVE  ReputationInv'
    <3>1. PICK s \in Outcomes(stats[g]) : stats' = [stats EXCEPT ![g] = s]
      BY <2>2, Zenon DEF RecordOutcome
    <3>2. PICK r \in GoodStats : r = stats[g]
      BY DEF ReputationInv
    <3>3. PICK c \in Nat, n \in Nat, p \in Nat, m \in 0 .. 5 : Counts(r, c, n, p, m)
      BY CountsExist
    <3>4. \A t, q \in BOOLEAN : Completed(r, t, q) \in GoodStats
      BY <3>3, OutcomesKeep, Zenon DEF Counts
    <3>5. Failed(r) \in GoodStats /\ Lost(r) \in GoodStats
      BY <3>3, OutcomesKeep, Zenon DEF Counts
    <3>6. s \in GoodStats
      BY <3>1, <3>2, <3>4, <3>5 DEF Outcomes
    <3> QED  BY <2>2, <3>1, <3>6 DEF RecordOutcome, ReputationInv
  <2>3. CASE UNCHANGED reputationVars
    BY <2>3 DEF reputationVars, ReputationInv
  <2> QED  BY <2>1, <2>2, <2>3 DEF ReputationNext
<1>3. ReputationInv => OutcomesCount
  <2> SUFFICES ASSUME ReputationInv, NEW g \in Grades
               PROVE  LET s == stats[g]
                      IN  /\ AtMost(Score(s), Score(Completed(s, TRUE, TRUE)))
                          /\ AtMost(Score(Failed(s)), Score(s))
                          /\ AtMost(Score(Lost(s)), Score(s))
                          /\ \A t, q \in BOOLEAN :
                                AtMost(Score(Completed(s, t, q)), Score(Completed(s, TRUE, TRUE)))
                          /\ s.completed + s.failed = 0 /\ ~expelled =>
                                /\ AtMost(NodeScore(g), Fraction(Prior, 10))
                                /\ ~IsProbationary => AtMost(Fraction(Prior, 10), NodeScore(g))
                          /\ NodeScore(g).num \in 0 .. NodeScore(g).den
    BY Zenon DEF OutcomesCount
  <2>1. PICK s \in GoodStats : s = stats[g]
    BY DEF ReputationInv
  <2>2. /\ AtMost(Score(s), Score(Completed(s, TRUE, TRUE)))
        /\ AtMost(Score(Failed(s)), Score(s))
        /\ AtMost(Score(Lost(s)), Score(s))
        /\ \A t, q \in BOOLEAN :
              AtMost(Score(Completed(s, t, q)), Score(Completed(s, TRUE, TRUE)))
    BY GradeOutcomesCount, Zenon
  <2> QED  BY <2>1, <2>2, NodeOutcomesCount, Zenon
<1> QED  BY <1>1, <1>2, <1>3, PTL DEF ReputationSpec
-----------------------------------------------------------------------------
(***************************************************************************)
(* Machine shares: the floors of a pool are in the order of the holdings   *)
(* and never exceed it; the residue goes to the largest of those with a    *)
(* leg, above whom nobody is; and since the pools are what an entitlement  *)
(* on the running total has grown by, they add up to it.                   *)
(***************************************************************************)
LEMMA FlooredBy ==
    ASSUME NEW n \in Nat, NEW d \in Nat \ {0}
    PROVE  n \div d \in Nat /\ d * (n \div d) <= n /\ n <= d * (n \div d) + (d - 1)
OBVIOUS

LEMMA FloorsInOrder ==
    ASSUME NEW n \in Nat, NEW m \in Nat, n <= m, NEW d \in Nat \ {0}
    PROVE  n \div d <= m \div d
<1>1. PICK p \in Nat, q \in Nat : p = n \div d /\ q = m \div d
  BY FlooredBy, Zenon
<1>2. d * p <= n /\ m <= d * q + (d - 1)
  BY <1>1, FlooredBy
<1>3. SUFFICES ASSUME q + 1 <= p
               PROVE  FALSE
  BY <1>1
<1>4. d * (q + 1) <= d * p
  BY <1>3, TimesMore
<1>5. d * (q + 1) = d * q + d /\ d * q \in Nat /\ d * p \in Nat
  OBVIOUS
<1> QED  BY <1>2, <1>4, <1>5

\* Somebody holds something.
Held(held, B) == IsFiniteSet(B) /\ B \subseteq Nat /\ B # {} /\ held \in [B -> Nat \ {0}]

\* cut is what the holders get of a pool, before the residue; all have total.
Cuts(cut, gains, held, B, total) ==
    /\ cut \in [B -> Nat] /\ total \in Nat \ {0} /\ total = SumOver(held)
    /\ SumOver(cut) \in 0 .. gains
    /\ \A a \in B : /\ cut[a] = (gains * held[a]) \div total
                    /\ gains * held[a] - total < cut[a] * total
    /\ \A a, b \in B : held[a] <= held[b] => cut[a] <= cut[b]

\* Everybody holds so much or nothing, and somebody something.
Shared(held, B) ==
    IsFiniteSet(B) /\ held \in [B -> Nat] /\ SumOver(held) \in Nat \ {0}

LEMMA SharedIsCut ==
    ASSUME NEW held, NEW B, Shared(held, B), NEW gains \in Nat
    PROVE  \E cut, total : Cuts(cut, gains, held, B, total)
<1>1. PICK h \in [B -> Nat] : h = held
  BY DEF Shared
<1>2. IsFiniteSet(B) /\ \A a \in B : h[a] \in Nat
  BY DEF Shared
<1>3. h \in [B -> Nat]
  OBVIOUS
<1>4. PICK total \in Nat \ {0} : total = SumOver(h)
  BY <1>1 DEF Shared
<1>5. PICK whole \in [B -> Nat] : \A a \in B : whole[a] = gains * h[a]
  <2>1. \A a \in B : gains * h[a] \in Nat
    BY <1>2, Products
  <2>2. [a \in B |-> gains * h[a]] \in [B -> Nat]
    BY <2>1
  <2> QED  BY <2>2, Zenon
<1>6. PICK cut \in [B -> Nat] : \A a \in B : cut[a] = whole[a] \div total
  <2>1. \A a \in B : whole[a] \div total \in Nat
    BY FlooredBy
  <2>2. [a \in B |-> whole[a] \div total] \in [B -> Nat]
    BY <2>1
  <2> QED  BY <2>2, Zenon
<1>7. ASSUME NEW a \in B
      PROVE  /\ total * cut[a] <= whole[a] /\ whole[a] <= total * cut[a] + (total - 1)
             /\ cut[a] * total = total * cut[a] /\ total * cut[a] \in Nat
  <2>1. PICK u \in Nat, v \in Nat : u = cut[a] /\ v = whole[a] /\ u = v \div total
    BY <1>6
  <2>2. total * u <= v /\ v <= total * u + (total - 1)
    BY <2>1, FlooredBy, Zenon
  <2>3. u * total = total * u /\ total * u \in Nat
    BY Products
  <2> QED  BY <2>1, <2>2, <2>3
<1>8. SumOver(cut) \in 0 .. gains
  <2>1. total \in Nat /\ total - 1 \in Nat
    OBVIOUS
  <2>2. SumOver(cut) \in Nat /\ total * SumOver(cut) <= SumOver(whole)
    BY <1>2, <1>7, <2>1, FlooredSumOf, Zenon
  <2>3. SumOver(whole) = gains * total
    <3>1. SumOver(whole) = gains * SumOver(h)
      BY <1>2, <1>3, <1>5, SumScaledOf
    <3> QED  BY <1>4, <3>1
  <2>4. PICK n \in Nat : n = SumOver(cut)
    BY <2>2
  <2>5. n <= gains
    <3>1. SUFFICES ASSUME gains + 1 <= n
                   PROVE  FALSE
      OBVIOUS
    <3>2. total * (gains + 1) <= total * n
      BY <3>1, TimesMore
    <3>3. total * (gains + 1) = gains * total + total /\ gains * total \in Nat
      BY Products
    <3> QED  BY <2>2, <2>3, <2>4, <3>2, <3>3
  <2> QED  BY <2>4, <2>5
<1>9. ASSUME NEW a \in B, NEW b \in B, h[a] <= h[b]
      PROVE  cut[a] <= cut[b]
  <2>1. whole[a] <= whole[b]
    <3>1. PICK x \in Nat, y \in Nat : x = h[a] /\ y = h[b]
      BY <1>2
    <3>2. gains * x <= gains * y
      BY <1>9, <3>1, TimesMore
    <3> QED  BY <1>5, <3>1, <3>2
  <2>2. whole[a] \in Nat /\ whole[b] \in Nat
    OBVIOUS
  <2>3. whole[a] \div total <= whole[b] \div total
    BY <2>1, <2>2, FloorsInOrder
  <2> QED  BY <1>6, <2>3
<1>10. \A a \in B : /\ cut[a] = (gains * held[a]) \div total
                    /\ gains * held[a] - total < cut[a] * total
  <2> SUFFICES ASSUME NEW a \in B
               PROVE  /\ cut[a] = (gains * held[a]) \div total
                      /\ gains * held[a] - total < cut[a] * total
    OBVIOUS
  <2>1. PICK w \in Nat, c \in Nat : w = whole[a] /\ c = cut[a]
    OBVIOUS
  <2>2. w = gains * held[a] /\ c = w \div total
    BY <1>1, <1>5, <1>6, <2>1
  <2>3. w <= c * total + (total - 1) /\ c * total \in Nat
    BY <1>7, <2>1
  <2>4. w - total < c * total
    BY <2>3
  <2> QED  BY <2>1, <2>2, <2>4
<1> QED  BY <1>1, <1>4, <1>8, <1>9, <1>10 DEF Cuts

LEMMA HoldersAreCut ==
    ASSUME NEW held, NEW B, Held(held, B), NEW gains \in Nat
    PROVE  \E cut, total : Cuts(cut, gains, held, B, total)
<1>1. PICK h \in [B -> Nat \ {0}] : h = held
  BY DEF Held
<1>2. IsFiniteSet(B) /\ B # {} /\ \A a \in B : h[a] \in Nat \ {0}
  BY DEF Held
<1>3. h \in [B -> Nat]
  OBVIOUS
<1>4. PICK total \in Nat \ {0} : total = SumOver(h)
  <2>1. PICK x \in B : TRUE
    BY <1>2
  <2>2. {x} \in SUBSET B
    OBVIOUS
  <2>3. SumOver(Only(h, {x})) = h[x]
    BY <1>2, <1>3, SumOfOne
  <2>4. SumOver(Only(h, {x})) <= SumOver(h) /\ SumOver(h) \in Nat
    BY <1>2, <1>3, <2>2, SumOfLess, SumType
  <2> QED  BY <1>2, <2>3, <2>4
<1>5. Shared(held, B)
  BY <1>1, <1>2, <1>3, <1>4 DEF Shared
<1> QED  BY <1>5, SharedIsCut

PaidInShares(ls, held, paid) ==
    /\ \A a \in DOMAIN held : CentsTo(ls, a) * SumOver(held) > paid * held[a] - SumOver(held)
    /\ \A a, b \in DOMAIN held : held[a] < held[b] => CentsTo(ls, a) <= CentsTo(ls, b)

\* Everybody's floored share, and what is left over for top.
WithRest(ls, cut, B, top, residue) == \A a \in B :
    CentsTo(ls, a) = IF a = top THEN cut[a] + residue ELSE cut[a]

LEMMA RestGoesToTheTop ==
    ASSUME NEW held, NEW B, Held(held, B), NEW gains \in Nat, NEW cut, NEW total,
           Cuts(cut, gains, held, B, total), NEW top \in B, NEW residue \in Nat,
           residue = 0 \/ \A b \in B : held[b] <= held[top],
           NEW ls, WithRest(ls, cut, B, top, residue)
    PROVE  PaidInShares(ls, held, gains)
<1>1. PICK h \in [B -> Nat] : h = held
  BY DEF Held
<1>2. PICK c \in [B -> Nat] : c = cut
  BY DEF Cuts
<1>3. DOMAIN held = B /\ total \in Nat \ {0} /\ total = SumOver(held)
  BY DEF Held, Cuts
<1>4. ASSUME NEW a \in B
      PROVE  CentsTo(ls, a) * total > gains * h[a] - total
  <2>1. PICK u \in Nat, v \in Nat : u = c[a] /\ v = CentsTo(ls, a) /\ u <= v
    BY <1>2 DEF WithRest
  <2>2. total * u <= total * v
    BY <1>3, <2>1, TimesMore
  <2>3. total * u = u * total /\ total * v = v * total /\ u * total \in Nat /\ v * total \in Nat
    BY <1>3, Products
  <2>4. PICK w \in Nat : w = gains * h[a]
    BY Products
  <2>5. w - total < u * total
    BY <1>1, <1>2, <2>1, <2>4 DEF Cuts
  <2> QED  BY <1>3, <2>1, <2>2, <2>3, <2>4, <2>5
<1>5. ASSUME NEW a \in B, NEW b \in B, h[a] < h[b]
      PROVE  CentsTo(ls, a) <= CentsTo(ls, b)
  <2>1. c[a] <= c[b] /\ c[a] \in Nat /\ c[b] \in Nat
    BY <1>1, <1>2, <1>5 DEF Cuts
  <2>2. CentsTo(ls, a) = c[a]
    <3>1. a # top \/ residue = 0
      BY <1>1, <1>5
    <3> QED  BY <1>2, <2>1, <3>1 DEF WithRest
  <2>3. CentsTo(ls, b) \in {c[b], c[b] + residue}
    BY <1>2 DEF WithRest
  <2> QED  BY <2>1, <2>2, <2>3
<1> QED  BY <1>1, <1>3, <1>4, <1>5 DEF PaidInShares

\* The floored legs, and who they go to.
FlooredFor(ls, cut, B, P, k, paid) ==
    /\ P = {a \in B : cut[a] > 0}
    /\ k \in Nat /\ paid = InOrder(P) /\ paid \in [1 .. k -> P]
    /\ \A x \in P : \E i \in 1 .. k : paid[i] = x
    /\ (P = {} => k = 0) /\ (P # {} => k >= 1)
    /\ ls = [i \in 1 .. k |-> Leg(paid[i], cut[paid[i]])]

LEMMA FloorsArePaid ==
    ASSUME NEW held, NEW B, Held(held, B), NEW gains \in Nat, NEW cut, NEW total,
           Cuts(cut, gains, held, B, total)
    PROVE  \E ls, P, k, paid :
              /\ FlooredFor(ls, cut, B, P, k, paid)
              /\ ls \in LegsFor(B) /\ CentsOf(ls) = SumOver(cut)
              /\ \A a \in B : CentsTo(ls, a) = cut[a]
<1>1. PICK c \in [B -> Nat] : c = cut
  BY DEF Cuts
<1>2. PICK P : P = {a \in B : c[a] > 0}
  BY Zenon
<1>3. P \in SUBSET B /\ IsFiniteSet(P) /\ P \subseteq Nat /\ IsFiniteSet(B)
  <2>1. P \subseteq B /\ IsFiniteSet(B) /\ B \subseteq Nat
    BY <1>2 DEF Held
  <2> QED  BY <2>1, FS_Subset, Zenon
<1>4. PICK k \in Nat : k = Cardinality(P)
  BY <1>3, FS_CardinalityType
<1>5. PICK paid \in [1 .. k -> P] :
          /\ paid = InOrder(P)
          /\ \A i, h \in 1 .. k : paid[i] = paid[h] => i = h
          /\ \A x \in P : \E i \in 1 .. k : paid[i] = x
          /\ P # {} => k >= 1
  <2>1. PICK q : q = InOrder(P)
    OBVIOUS
  <2>2. /\ q \in [1 .. k -> P]
        /\ \A i, h \in 1 .. k : q[i] = q[h] => i = h
        /\ \A x \in P : \E i \in 1 .. k : q[i] = x
        /\ P # {} => k >= 1
    BY <1>3, <1>4, <2>1, InOrderLists, Zenon
  <2> QED  BY <2>1, <2>2
<1>6. PICK N, ls : N = 1 .. k /\ ls = [i \in N |-> Leg(paid[i], c[paid[i]])]
  BY Zenon
<1>7. PaysParts(ls, B, c, P, N, paid)
  <2>1. \A a \in B \ P : c[a] = 0
    BY <1>2
  <2>2. /\ \A i, h \in N : paid[i] = paid[h] => i = h
        /\ \A x \in P : \E i \in N : paid[i] = x
    BY <1>5, <1>6
  <2>3. IsFiniteSet(1 .. k)
    BY UpToIsFinite
  <2>4. IsFiniteSet(N) /\ paid \in [N -> P]
    BY <1>6, <2>3
  <2>5. ls = [i \in N |-> Leg(paid[i], c[paid[i]])]
    BY <1>6
  <2>6. c \in [B -> Nat]
    OBVIOUS
  <2> QED  BY <1>3, <2>1, <2>2, <2>4, <2>5, <2>6 DEF PaysParts
<1>8. CentsOf(ls) = SumOver(c) /\ \A a \in B : CentsTo(ls, a) = c[a]
  BY <1>7, PartsArePaid
<1>9. ls \in LegsFor(B)
  <2>1. \A i \in 1 .. k : paid[i] \in B /\ c[paid[i]] \in Nat
    BY <1>3, Zenon
  <2>2. ls \in [1 .. k -> [account : B, cents : Nat]]
    BY <1>6, <2>1 DEF Leg
  <2> QED  BY <2>2, SeqFrom, Zenon DEF LegsFor
<1>10. P = {} => k = 0
  BY <1>4, FS_EmptySet
<1>11. FlooredFor(ls, cut, B, P, k, paid)
  <2>1. P = {a \in B : cut[a] > 0} /\ ls = [i \in 1 .. k |-> Leg(paid[i], cut[paid[i]])]
    BY <1>1, <1>2, <1>6
  <2> QED  BY <1>5, <1>10, <2>1, Zenon DEF FlooredFor
<1> QED  BY <1>1, <1>8, <1>9, <1>11

\* Nobody is above the largest holder with a leg.
LEMMA TopOfLegs ==
    ASSUME NEW held, NEW B, Held(held, B), NEW gains \in Nat, NEW cut, NEW total,
           Cuts(cut, gains, held, B, total), NEW ls, NEW P, NEW k, NEW paid,
           FlooredFor(ls, cut, B, P, k, paid), P # {}
    PROVE  LET x == LargestHolder(ls, held)
           IN  /\ x \in DOMAIN ls /\ ls[x].account \in B
               /\ \A b \in B : held[b] <= held[ls[x].account]
<1>1. PICK h \in [B -> Nat], c \in [B -> Nat] : h = held /\ c = cut
  BY DEF Held, Cuts
<1>2. PICK n \in Nat \ {0} : n = k
  BY DEF FlooredFor
<1>3. /\ P \subseteq B /\ \A a \in B : a \in P <=> c[a] > 0
      /\ paid \in [1 .. n -> P] /\ \A a \in P : \E i \in 1 .. n : paid[i] = a
      /\ DOMAIN ls = 1 .. n /\ \A i \in 1 .. n : ls[i].account = paid[i]
  BY <1>1, <1>2, Zenon DEF FlooredFor, Leg
<1>4. PICK s \in [1 .. n -> Nat] : /\ s = [i \in DOMAIN ls |-> held[ls[i].account]]
                                   /\ \A i \in 1 .. n : s[i] = h[paid[i]]
  <2>1. \A i \in 1 .. n : paid[i] \in B /\ h[paid[i]] \in Nat
    BY <1>3, Zenon
  <2>2. [i \in DOMAIN ls |-> held[ls[i].account]] = [i \in 1 .. n |-> h[paid[i]]]
    BY <1>1, <1>3, Zenon
  <2>3. [i \in 1 .. n |-> h[paid[i]]] \in [1 .. n -> Nat]
    BY <2>1
  <2> QED  BY <2>2, <2>3, Zenon
<1>5. PICK x \in 1 .. n : x = LargestHolder(ls, held) /\ \A i \in 1 .. n : s[i] <= s[x]
  BY <1>4, LargestIs, Zenon DEF LargestHolder
<1>6. PICK top \in P : top = paid[x] /\ top = ls[x].account
  BY <1>3, Zenon
<1>7. ASSUME NEW b \in B
      PROVE  h[b] <= h[top]
  <2>1. top \in B /\ c[top] > 0 /\ h[top] \in Nat /\ h[b] \in Nat
    BY <1>3
  <2>2. CASE b \in P
    <3>1. PICK i \in 1 .. n : paid[i] = b
      BY <1>3, <2>2
    <3> QED  BY <1>4, <1>5, <1>6, <3>1, Zenon
  <2>3. CASE b \notin P
    <3>1. ~(c[b] > 0)
      BY <1>3, <2>3
    <3>2. h[top] <= h[b] => c[top] <= c[b]
      BY <1>1, <2>1 DEF Cuts
    <3>3. c[top] \in Nat /\ c[b] \in Nat
      BY <2>1
    <3> QED  BY <2>1, <3>1, <3>2, <3>3
  <2> QED  BY <2>2, <2>3
<1> QED  BY <1>1, <1>3, <1>5, <1>6, <1>7, Zenon

\* Nor above the largest of all.
TopHolder(held) ==
    LET all == InOrder(DOMAIN held)
    IN  all[Largest([i \in DOMAIN all |-> held[all[i]]])]

LEMMA TopOfAll ==
    ASSUME NEW held, NEW B, Held(held, B)
    PROVE  TopHolder(held) \in B /\ \A b \in B : held[b] <= held[TopHolder(held)]
<1>1. PICK h \in [B -> Nat] : h = held
  BY DEF Held
<1>2. IsFiniteSet(B) /\ B \subseteq Nat /\ B # {}
  BY DEF Held
<1>3. PICK n \in Nat : n = Cardinality(B)
  BY <1>2, FS_CardinalityType
<1>4. PICK all : all = InOrder(B)
  OBVIOUS
<1>5. /\ all \in [1 .. n -> B] /\ n >= 1 /\ \A a \in B : \E i \in 1 .. n : all[i] = a
  BY <1>2, <1>3, <1>4, InOrderLists, Zenon
<1>6. n \in Nat \ {0}
  BY <1>5
<1>7. PICK s \in [1 .. n -> Nat] : /\ s = [i \in DOMAIN all |-> held[all[i]]]
                                   /\ \A i \in 1 .. n : s[i] = h[all[i]]
  <2>1. [i \in DOMAIN all |-> held[all[i]]] = [i \in 1 .. n |-> h[all[i]]]
    BY <1>1, <1>5
  <2>2. [i \in 1 .. n |-> h[all[i]]] \in [1 .. n -> Nat]
    BY <1>5
  <2> QED  BY <2>1, <2>2, Zenon
<1>8. PICK x \in 1 .. n : x = Largest(s) /\ \A i \in 1 .. n : s[i] <= s[x]
  BY <1>6, LargestIs, Zenon
<1>9. ASSUME NEW b \in B
      PROVE  h[b] <= h[all[x]]
  <2>1. PICK i \in 1 .. n : all[i] = b
    BY <1>5
  <2> QED  BY <1>7, <1>8, <2>1
<1>10. TopHolder(held) = all[x] /\ all[x] \in B
  <2>1. DOMAIN held = B
    BY DEF Held
  <2> QED  BY <1>4, <1>5, <1>7, <1>8, <2>1 DEF TopHolder
<1> QED  BY <1>1, <1>9, <1>10

LEMMA NoLegs ==
    /\ CentsOf(<<>>) = 0 /\ \A a : CentsTo(<<>>, a) = 0
    /\ \A B : <<>> \in LegsFor(B)
<1>1. PICK none \in [{} -> Nat] : TRUE
  <2>1. [i \in {} |-> 0] \in [{} -> Nat]
    OBVIOUS
  <2> QED  BY <2>1, Zenon
<1>2. IsFiniteSet({})
  BY FS_EmptySet
<1>3. SumOver(Only(none, {})) = 0 /\ Only(none, {}) = none
  <2>1. PICK S : S = {} /\ IsFiniteSet(S)
    BY <1>2
  <2>2. none \in [S -> Nat]
    BY <2>1
  <2>3. SumOver(Only(none, {})) = 0
    BY <2>1, <2>2, SumOfNone, Zenon
  <2> QED  BY <2>3 DEF Only
<1>4. [i \in DOMAIN <<>> |-> <<>>[i].cents] = none
  OBVIOUS
<1>5. ASSUME NEW a
      PROVE  CentsTo(<<>>, a) = 0
  <2>1. LegsTo(<<>>, a) = {}
    BY DEF LegsTo
  <2>2. [i \in LegsTo(<<>>, a) |-> <<>>[i].cents] = none
    BY <2>1
  <2> QED  BY <1>3, <2>2 DEF CentsTo
<1>6. \A B : <<>> \in LegsFor(B)
  BY EmptySeq DEF LegsFor
<1> QED  BY <1>3, <1>4, <1>5, <1>6 DEF CentsOf

\* InvestorLegs in terms of its parts.
FloorLegs(gains, held, sold) ==
    LET paid == InOrder({a \in DOMAIN held : (gains * held[a]) \div sold > 0})
    IN  [i \in DOMAIN paid |-> Leg(paid[i], (gains * held[paid[i]]) \div sold)]
LEMMA LegsByParts ==
    ASSUME NEW es, NEW gains
    PROVE  LET held == Holdings(es)
               floored == FloorLegs(gains, held, SumOver(held))
               residue == gains - CentsOf(floored)
           IN  InvestorLegs(es, gains) =
                   IF SumOver(held) = 0 \/ gains = 0 THEN <<>>
                   ELSE IF residue = 0 THEN floored
                   ELSE IF floored # <<>>
                        THEN [floored EXCEPT ![LargestHolder(floored, held)].cents = @ + residue]
                        ELSE <<Leg(TopHolder(held), residue)>>
BY DEF InvestorLegs, FloorLegs, TopHolder

\* The legs of a pool are the pool, and follow the holdings.
LEMMA PoolIsShared ==
    ASSUME NEW es, NEW B, Held(Holdings(es), B), NEW gains \in Nat
    PROVE  LET ls == InvestorLegs(es, gains)
           IN  ls \in LegsFor(B) /\ CentsOf(ls) = gains /\ PaidInShares(ls, Holdings(es), gains)
<1>1. PICK held : held = Holdings(es) /\ Held(held, B)
  OBVIOUS
<1>2. PICK cut, total : Cuts(cut, gains, held, B, total)
  BY <1>1, HoldersAreCut
<1>3. PICK floored, P, k, paid :
          /\ FlooredFor(floored, cut, B, P, k, paid)
          /\ floored \in LegsFor(B) /\ CentsOf(floored) = SumOver(cut)
          /\ \A a \in B : CentsTo(floored, a) = cut[a]
  BY <1>1, <1>2, FloorsArePaid
<1>4. /\ DOMAIN held = B /\ total \in Nat \ {0} /\ total = SumOver(held)
      /\ SumOver(cut) \in 0 .. gains /\ cut \in [B -> Nat]
      /\ \A a \in B : cut[a] = (gains * held[a]) \div total
  BY <1>1, <1>2 DEF Held, Cuts
<1>5. PICK residue \in Nat : residue = gains - CentsOf(floored)
  BY <1>3, <1>4
<1>6. /\ P \subseteq B /\ k \in Nat /\ paid = InOrder(P) /\ paid \in [1 .. k -> P]
      /\ P = {a \in DOMAIN held : (gains * held[a]) \div total > 0}
      /\ (P = {} => k = 0) /\ (P # {} => k >= 1)
      /\ floored = [i \in 1 .. k |-> Leg(paid[i], cut[paid[i]])]
  BY <1>3, <1>4 DEF FlooredFor
<1>7. /\ DOMAIN paid = 1 .. k /\ \A i \in 1 .. k : paid[i] \in B
      /\ floored = [i \in DOMAIN paid |-> Leg(paid[i], (gains * held[paid[i]]) \div total)]
  <2>1. DOMAIN paid = 1 .. k /\ \A i \in 1 .. k : paid[i] \in B
    BY <1>6, Zenon
  <2>2. \A i \in 1 .. k : cut[paid[i]] = (gains * held[paid[i]]) \div total
    BY <1>4, <2>1
  <2> QED  BY <1>6, <2>1, <2>2, Zenon
<1>8. PICK ls : ls = InvestorLegs(es, gains)
  OBVIOUS
<1>9. ls = IF gains = 0 THEN <<>>
           ELSE IF residue = 0 THEN floored
           ELSE IF floored # <<>>
                THEN [floored EXCEPT ![LargestHolder(floored, held)].cents = @ + residue]
                ELSE <<Leg(TopHolder(held), residue)>>
  <2>1. floored = FloorLegs(gains, held, total)
    BY <1>6, <1>7, Zenon DEF FloorLegs
  <2> QED  BY <1>1, <1>4, <1>5, <1>8, <2>1, LegsByParts
<1>10. PICK some \in B : TRUE
  BY <1>1, Zenon DEF Held
<1>11. ls \in LegsFor(B) /\ CentsOf(ls) = gains /\ PaidInShares(ls, held, gains)
  <2>1. CASE gains = 0
    <3>1. ls = <<>>
      BY <1>9, <2>1
    <3>2. WithRest(ls, cut, B, some, 0)
      <4>1. \A a \in B : cut[a] = 0
        <5>1. ASSUME NEW a \in B
              PROVE  cut[a] = 0
          <6>1. PICK h \in Nat : h = held[a]
            BY <1>1 DEF Held
          <6>2. gains * h = 0 /\ 0 \div total = 0
            BY <1>4, <2>1
          <6> QED  BY <1>4, <6>1, <6>2
        <5> QED  BY <5>1
      <4> QED  BY <3>1, <4>1, NoLegs DEF WithRest
    <3>3. PaidInShares(ls, held, gains)
      BY <1>1, <1>2, <3>2, RestGoesToTheTop
    <3> QED  BY <2>1, <3>1, <3>3, NoLegs
  <2>2. CASE gains # 0 /\ residue = 0
    <3>1. ls = floored
      BY <1>9, <2>2
    <3>2. WithRest(ls, cut, B, some, 0)
      BY <1>3, <1>4, <3>1 DEF WithRest
    <3>3. PaidInShares(ls, held, gains)
      BY <1>1, <1>2, <3>2, RestGoesToTheTop
    <3>4. CentsOf(ls) = gains
      BY <1>3, <1>4, <1>5, <2>2, <3>1
    <3> QED  BY <1>3, <3>1, <3>3, <3>4
  <2>3. CASE gains # 0 /\ residue # 0 /\ P # {}
    <3>1. floored # <<>>
      <4>1. DOMAIN floored = 1 .. k /\ 1 \in 1 .. k /\ DOMAIN <<>> = {}
        BY <1>6, <2>3
      <4> QED  BY <4>1, Zenon
    <3>2. PICK x : /\ x = LargestHolder(floored, held)
                   /\ x \in DOMAIN floored /\ floored[x].account \in B
                   /\ \A b \in B : held[b] <= held[floored[x].account]
      BY <1>1, <1>2, <1>3, <2>3, TopOfLegs
    <3>3. PICK top \in B : top = floored[x].account /\ \A b \in B : held[b] <= held[top]
      BY <3>2
    <3>4. Lifted(ls, floored, x, residue)
      BY <1>9, <2>3, <3>1, <3>2 DEF Lifted
    <3>5. /\ ls \in LegsFor(B) /\ CentsOf(ls) = CentsOf(floored) + residue
          /\ \A a : CentsTo(ls, a) = IF a = top THEN CentsTo(floored, a) + residue
                                     ELSE CentsTo(floored, a)
      BY <1>3, <3>2, <3>3, <3>4, LegIsLifted
    <3>6. WithRest(ls, cut, B, top, residue)
      BY <1>3, <3>5 DEF WithRest
    <3>7. PaidInShares(ls, held, gains)
      BY <1>1, <1>2, <3>3, <3>6, RestGoesToTheTop
    <3>8. CentsOf(ls) = gains
      BY <1>3, <1>4, <1>5, <3>5
    <3> QED  BY <3>5, <3>7, <3>8
  <2>4. CASE gains # 0 /\ residue # 0 /\ P = {}
    <3>1. floored = <<>>
      BY <1>6, <2>4
    <3>2. PICK top \in B : top = TopHolder(held) /\ \A b \in B : held[b] <= held[top]
      BY <1>1, TopOfAll
    <3>3. ls = <<Leg(top, residue)>>
      BY <1>9, <2>4, <3>1, <3>2
    <3>4. /\ ls \in LegsFor(B) /\ CentsOf(ls) = residue /\ CentsTo(ls, top) = residue
          /\ \A a : a # top => CentsTo(ls, a) = 0
      BY <3>3, OneLegPays
    <3>5. \A a \in B : cut[a] = 0
      <4>1. ASSUME NEW a \in B
            PROVE  cut[a] = 0
        <5>1. cut[a] \in Nat /\ CentsTo(floored, a) = cut[a] /\ CentsTo(<<>>, a) = 0
          BY <1>3, <1>4, NoLegs
        <5> QED  BY <3>1, <5>1
      <4> QED  BY <4>1
    <3>6. WithRest(ls, cut, B, top, residue)
      BY <3>4, <3>5 DEF WithRest
    <3>7. PaidInShares(ls, held, gains)
      BY <1>1, <1>2, <3>2, <3>6, RestGoesToTheTop
    <3>8. residue = gains
      BY <1>5, <3>1, NoLegs
    <3> QED  BY <3>4, <3>7, <3>8
  <2> QED  BY <2>1, <2>2, <2>3, <2>4
<1> QED  BY <1>1, <1>8, <1>11

\* What an entitlement on the running total grows by is within what came in.
LEMMA EntitlementGrows ==
    ASSUME NEW before \in Nat, NEW revenue \in Nat, NEW bps \in 1 .. Whole, NEW cap \in Nat
    PROVE  \E had \in Nat, has \in Nat :
              /\ had = Min({Part(before, bps), cap}) /\ has = Min({Part(before + revenue, bps), cap})
              /\ had <= has /\ has <= had + revenue
<1>1. PICK w \in Nat \ {0}, b \in Nat \ {0} : w = Whole /\ b = bps /\ b <= w
  BY WholeAssumption
<1>2. PICK more \in Nat : more = before + revenue
  OBVIOUS
<1>3. PICK p \in Nat, q \in Nat : p = Part(before, bps) /\ q = Part(more, bps)
  BY <1>1, PartBounds, Zenon
<1>4. /\ w * p <= before * b /\ before * b <= w * p + (w - 1)
      /\ w * q <= more * b /\ more * b <= w * q + (w - 1)
  BY <1>1, <1>3, PartBounds
<1>5. more * b = before * b + revenue * b /\ revenue * b \in Nat /\ before * b \in Nat
  BY <1>2, Products
<1>6. revenue * b <= revenue * w
  BY <1>1, TimesMore
<1>7. p <= q
  <2>1. SUFFICES ASSUME q + 1 <= p
                 PROVE  FALSE
    OBVIOUS
  <2>2. w * (q + 1) <= w * p
    BY <2>1, TimesMore
  <2>3. w * (q + 1) = w * q + w /\ w * q \in Nat /\ w * p \in Nat
    BY Products
  <2> QED  BY <1>4, <1>5, <2>2, <2>3
<1>8. q <= p + revenue
  <2>1. SUFFICES ASSUME p + revenue + 1 <= q
                 PROVE  FALSE
    OBVIOUS
  <2>2. w * (p + revenue + 1) <= w * q
    BY <2>1, TimesMore
  <2>3. /\ w * (p + revenue + 1) = w * p + revenue * w + w
        /\ w * p \in Nat /\ revenue * w \in Nat /\ w * q \in Nat
    BY Products
  <2> QED  BY <1>4, <1>5, <1>6, <2>2, <2>3
<1>9. PICK had \in Nat : had = Min({p, cap}) /\ had = IF p <= cap THEN p ELSE cap
  BY OfTwo
<1>10. PICK has \in Nat : has = Min({q, cap}) /\ has = IF q <= cap THEN q ELSE cap
  BY OfTwo
<1>11. had <= has /\ has <= had + revenue
  BY <1>7, <1>8, <1>9, <1>10
<1> QED  BY <1>2, <1>3, <1>9, <1>10, <1>11

\* t is s with e behind it.
Grown(t, s, e, k) ==
    /\ k \in Nat /\ DOMAIN s = 1 .. k /\ DOMAIN t = 1 .. (k + 1)
    /\ t[k + 1] = e /\ \A n \in 1 .. k : t[n] = s[n]
    /\ \A n \in 1 .. (k + 1) : SubSeq(t, 1, n - 1) = SubSeq(s, 1, n - 1)
    /\ SubSeq(s, 1, k) = s

\* The figures in the events are what their writers put in.
Figures(es) == \A n \in DOMAIN es :
    /\ es[n].type = "BUY" => es[n].data.shares \in Nat \ {0} /\ es[n].data.buyer \in Nat
    /\ es[n].type = "EARN" => es[n].data.revenue \in Nat /\ es[n].data.investors \in Nat

LEMMA SumWithOneMore ==
    ASSUME NEW S, IsFiniteSet(S), NEW x, x \notin S, NEW T, T = S \union {x},
           NEW f \in [S -> Nat], NEW g \in [T -> Nat], \A i \in S : g[i] = f[i]
    PROVE  SumOver(g) = SumOver(f) + g[x]
<1>1. PICK h \in [S \union {x} -> Nat] : h = g
  OBVIOUS
<1>2. SumOver(h) = h[x] + SumOver(Only(h, S))
  BY SumOneMore
<1>3. Only(h, S) = f
  BY <1>1 DEF Only
<1>4. h[x] \in Nat /\ SumOver(f) \in Nat
  BY SumType
<1> QED  BY <1>1, <1>2, <1>3, <1>4

LEMMA EventsGrow ==
    ASSUME NEW t, NEW s, NEW e, NEW k, Grown(t, s, e, k)
    PROVE  /\ Bought(t) = IF e.type = "BUY" THEN Bought(s) \union {k + 1} ELSE Bought(s)
           /\ Earned(t) = IF e.type = "EARN" THEN Earned(s) \union {k + 1} ELSE Earned(s)
           /\ Credited(t) = IF e.type = "EARN" /\ Bought(s) # {} THEN Credited(s) \union {k + 1}
                            ELSE Credited(s)
           /\ k + 1 \notin Bought(s) /\ k + 1 \notin Earned(s) /\ k + 1 \notin Credited(s)
           /\ IsFiniteSet(Bought(s)) /\ IsFiniteSet(Earned(s)) /\ IsFiniteSet(Credited(s))
           /\ \A n \in Bought(s) \union Earned(s) : t[n] = s[n]
<1>1. /\ k \in Nat /\ DOMAIN s = 1 .. k /\ DOMAIN t = 1 .. (k + 1)
      /\ t[k + 1] = e /\ \A n \in 1 .. k : t[n] = s[n]
  BY DEF Grown
<1>2. Bought(s) \subseteq 1 .. k /\ Earned(s) \subseteq 1 .. k /\ Credited(s) \subseteq Earned(s)
  BY <1>1 DEF Bought, Earned, Credited
<1>3. IsFiniteSet(1 .. k)
  BY <1>1, UpToIsFinite
<1>4. IsFiniteSet(Bought(s)) /\ IsFiniteSet(Earned(s)) /\ IsFiniteSet(Credited(s))
  <2>1. Credited(s) \subseteq 1 .. k
    BY <1>2
  <2> QED  BY <1>2, <1>3, <2>1, FS_Subset, Zenon
<1>5. Bought(t) = IF e.type = "BUY" THEN Bought(s) \union {k + 1} ELSE Bought(s)
  BY <1>1 DEF Bought
<1>6. Earned(t) = IF e.type = "EARN" THEN Earned(s) \union {k + 1} ELSE Earned(s)
  BY <1>1 DEF Earned
<1>7. \A n \in Earned(s) : (\E m \in Bought(t) : m < n) <=> \E m \in Bought(s) : m < n
  <2>1. \A n \in Earned(s) : n \in Nat /\ ~(k + 1 < n)
    BY <1>1, <1>2
  <2> QED  BY <1>5, <2>1
<1>8. (\E m \in Bought(t) : m < k + 1) <=> Bought(s) # {}
  <2>1. ~(k + 1 < k + 1) /\ \A m \in Bought(s) : m < k + 1
    BY <1>1, <1>2
  <2> QED  BY <1>5, <2>1
<1>9. Credited(t) = IF e.type = "EARN" /\ Bought(s) # {} THEN Credited(s) \union {k + 1}
                    ELSE Credited(s)
  <2>1. ASSUME NEW n
        PROVE  n \in Credited(t) <=> \/ n \in Credited(s)
                                     \/ n = k + 1 /\ e.type = "EARN" /\ Bought(s) # {}
    <3>1. k + 1 \notin Earned(s)
      BY <1>1, <1>2
    <3> QED  BY <1>6, <1>7, <1>8, <3>1 DEF Credited
  <2> QED  BY <2>1
<1>10. k + 1 \notin 1 .. k
  BY <1>1
<1> QED  BY <1>1, <1>2, <1>4, <1>5, <1>6, <1>9, <1>10

\* The totals grow with an earning only.
LEMMA TotalsGrow ==
    ASSUME NEW t, NEW s, NEW e, NEW k, Grown(t, s, e, k), Figures(s), Figures(t)
    PROVE  /\ CumulativePaid(s) \in Nat /\ CreditableRevenue(s) \in Nat
           /\ CumulativePaid(t) = CumulativePaid(s)
                 + IF e.type = "EARN" THEN e.data.investors ELSE 0
           /\ CreditableRevenue(t) = CreditableRevenue(s)
                 + IF e.type = "EARN" /\ Bought(s) # {} THEN e.data.revenue ELSE 0
<1>1. k \in Nat /\ DOMAIN s = 1 .. k /\ DOMAIN t = 1 .. (k + 1) /\ t[k + 1] = e
  BY DEF Grown
<1>2. PICK E, C, D : E = Earned(s) /\ C = Credited(s) /\ D = Earned(t)
  OBVIOUS
<1>3. /\ IsFiniteSet(E) /\ IsFiniteSet(C) /\ C \subseteq E
      /\ k + 1 \notin E /\ k + 1 \notin C /\ \A n \in E : t[n] = s[n]
  BY <1>2, EventsGrow DEF Credited
<1>4. \A n \in E : s[n].data.investors \in Nat /\ s[n].data.revenue \in Nat
  BY <1>2 DEF Figures, Earned
<1>5. PICK paid \in [E -> Nat], came \in [C -> Nat] :
          /\ paid = [n \in E |-> s[n].data.investors]
          /\ came = [n \in C |-> s[n].data.revenue]
  <2>1. [n \in E |-> s[n].data.investors] \in [E -> Nat]
    BY <1>4
  <2>2. [n \in C |-> s[n].data.revenue] \in [C -> Nat]
    BY <1>3, <1>4
  <2> QED  BY <2>1, <2>2, Zenon
<1>6. CumulativePaid(s) = SumOver(paid) /\ CreditableRevenue(s) = SumOver(came)
  BY <1>2, <1>5 DEF CumulativePaid, CreditableRevenue
<1>7. SumOver(paid) \in Nat /\ SumOver(came) \in Nat
  BY <1>3, SumType
<1>8. CASE e.type = "EARN"
  <2>1. D = E \union {k + 1}
    BY <1>2, <1>8, EventsGrow
  <2>2. e.data.investors \in Nat /\ e.data.revenue \in Nat
    BY <1>1, <1>8 DEF Figures
  <2>3. CumulativePaid(t) = SumOver(paid) + e.data.investors
    <3>1. PICK g \in [D -> Nat] : g = [n \in D |-> t[n].data.investors]
      <4>1. \A n \in D : t[n].data.investors \in Nat
        BY <1>1, <1>3, <1>4, <2>1, <2>2
      <4>2. [n \in D |-> t[n].data.investors] \in [D -> Nat]
        BY <4>1
      <4> QED  BY <4>2, Zenon
    <3>2. g[k + 1] = e.data.investors /\ \A n \in E : g[n] = paid[n]
      BY <1>1, <1>3, <1>5, <2>1, <3>1
    <3>3. SumOver(g) = SumOver(paid) + g[k + 1]
      BY <1>3, <2>1, <3>2, SumWithOneMore
    <3> QED  BY <1>2, <3>1, <3>2, <3>3 DEF CumulativePaid
  <2>4. CASE Bought(s) # {}
    <3>1. PICK F : F = Credited(t) /\ F = C \union {k + 1}
      BY <1>2, <1>8, <2>4, EventsGrow
    <3>2. PICK g \in [F -> Nat] : g = [n \in F |-> t[n].data.revenue]
      <4>1. \A n \in F : t[n].data.revenue \in Nat
        BY <1>1, <1>3, <1>4, <2>2, <3>1
      <4>2. [n \in F |-> t[n].data.revenue] \in [F -> Nat]
        BY <4>1
      <4> QED  BY <4>2, Zenon
    <3>3. g[k + 1] = e.data.revenue /\ \A n \in C : g[n] = came[n]
      BY <1>1, <1>3, <1>5, <3>1, <3>2
    <3>4. SumOver(g) = SumOver(came) + g[k + 1]
      BY <1>3, <3>1, <3>3, SumWithOneMore
    <3>5. CreditableRevenue(t) = SumOver(g)
      BY <3>1, <3>2 DEF CreditableRevenue
    <3> QED  BY <1>6, <1>7, <1>8, <2>3, <2>4, <3>3, <3>4, <3>5
  <2>5. CASE Bought(s) = {}
    <3>1. Credited(t) = C
      BY <1>2, <2>5, EventsGrow
    <3>2. [n \in C |-> t[n].data.revenue] = came
      BY <1>3, <1>5
    <3>3. CreditableRevenue(t) = SumOver(came)
      BY <3>1, <3>2 DEF CreditableRevenue
    <3> QED  BY <1>6, <1>7, <1>8, <2>3, <2>5, <3>3
  <2> QED  BY <2>4, <2>5
<1>9. CASE e.type # "EARN"
  <2>1. Earned(t) = E /\ Credited(t) = C
    BY <1>2, <1>9, EventsGrow
  <2>2. [n \in E |-> t[n].data.investors] = paid /\ [n \in C |-> t[n].data.revenue] = came
    BY <1>3, <1>5
  <2>3. CumulativePaid(t) = SumOver(paid) /\ CreditableRevenue(t) = SumOver(came)
    BY <2>1, <2>2 DEF CumulativePaid, CreditableRevenue
  <2> QED  BY <1>6, <1>7, <1>9, <2>3
<1> QED  BY <1>8, <1>9

\* Everybody who bought holds something.
LEMMA BuyersHold ==
    ASSUME NEW es, Figures(es), IsFiniteSet(Bought(es))
    PROVE  /\ DOMAIN Holdings(es) = Buyers(es)
           /\ Bought(es) # {} => Held(Holdings(es), Buyers(es))
           /\ Bought(es) = {} => Buyers(es) = {} /\ Credited(es) = {}
<1>1. PICK T, B : T = Bought(es) /\ B = Buyers(es)
  OBVIOUS
<1>2. \A n \in T : es[n].data.shares \in Nat \ {0} /\ es[n].data.buyer \in Nat
  BY <1>1 DEF Figures, Bought
<1>3. PICK key \in [T -> B] : (\A n \in T : key[n] = es[n].data.buyer)
                              /\ \A a \in B : \E n \in T : key[n] = a
  <2>1. B = {es[n].data.buyer : n \in T}
    BY <1>1 DEF Buyers
  <2>2. [n \in T |-> es[n].data.buyer] \in [T -> B]
    BY <2>1
  <2> QED  BY <2>1, <2>2, Zenon
<1>4. IsFiniteSet(B) /\ B \subseteq Nat
  <2>1. key \in Surjection(T, B)
    BY <1>3 DEF Surjection
  <2>2. IsFiniteSet(B)
    BY <1>1, <2>1, FS_Surjection
  <2> QED  BY <1>2, <1>3, <2>2
<1>5. PICK f \in [T -> Nat] : \A n \in T : f[n] = es[n].data.shares /\ f[n] > 0
  <2>1. [n \in T |-> es[n].data.shares] \in [T -> Nat]
    BY <1>2
  <2>2. \A n \in T : es[n].data.shares > 0
    BY <1>2
  <2> QED  BY <2>1, <2>2, Zenon
<1>6. Holdings(es) = [a \in B |-> SumOver(Only(f, {n \in T : key[n] = a}))]
  <2>1. ASSUME NEW a \in B
        PROVE  SumOver([n \in {m \in Bought(es) : es[m].data.buyer = a} |-> es[n].data.shares])
                   = SumOver(Only(f, {n \in T : key[n] = a}))
    <3>1. {m \in Bought(es) : es[m].data.buyer = a} = {n \in T : key[n] = a}
      BY <1>1, <1>3
    <3>2. [n \in {n \in T : key[n] = a} |-> es[n].data.shares] = Only(f, {n \in T : key[n] = a})
      BY <1>5 DEF Only
    <3> QED  BY <3>1, <3>2
  <2> QED  BY <1>1, <2>1 DEF Holdings
<1>7. ASSUME NEW a \in B
      PROVE  SumOver(Only(f, {n \in T : key[n] = a})) \in Nat \ {0}
  <2>1. PICK x \in T : key[x] = a
    BY <1>3
  <2>2. PICK U \in SUBSET T : U = {n \in T : key[n] = a}
    BY Zenon
  <2>3. {x} \in SUBSET U /\ IsFiniteSet(T)
    BY <1>1, <2>1, <2>2
  <2>4. SumOver(Only(f, {x})) <= SumOver(Only(f, U))
    BY <2>3, SumOfParts
  <2>5. SumOver(Only(f, {x})) = f[x] /\ SumOver(Only(f, U)) \in Nat
    BY <2>3, SumOfOne, SumOfPart
  <2>6. f[x] \in Nat /\ f[x] > 0
    BY <1>5
  <2> QED  BY <2>2, <2>4, <2>5, <2>6
<1>8. Holdings(es) \in [B -> Nat \ {0}] /\ DOMAIN Holdings(es) = B
  BY <1>6, <1>7
<1>9. T # {} => B # {}
  BY <1>3
<1>10. T = {} => B = {} /\ Credited(es) = {}
  BY <1>1, <1>3 DEF Credited
<1> QED  BY <1>1, <1>4, <1>8, <1>9, <1>10 DEF Held

\* An earning is paid out, in the shares held when it came in.
PaidOut(es, n) ==
    LET held == Holdings(SubSeq(es, 1, n - 1))
        paid == es[n].data
    IN  /\ CentsOf(paid.legs) = paid.investors
        /\ paid.investors + paid.operator = paid.revenue /\ paid.operator >= 0
        /\ PaidInShares(paid.legs, held, paid.investors)

Repaid(es) ==
    CumulativePaid(es) = Min({Part(CreditableRevenue(es), InvestorShare), RepaymentCap})

MachineInv ==
    /\ Chain(offering) /\ Figures(offering) /\ Repaid(offering)
    /\ \A n \in Earned(offering) : PaidOut(offering, n)

LEMMA MachineInvRepays == MachineInv => BackersAreRepaid
BY DEF MachineInv, Repaid, PaidOut, PaidInShares, BackersAreRepaid, Earned

LEMMA MachineStarts == MachineInit => MachineInv
<1> SUFFICES ASSUME offering = <<>>
             PROVE  MachineInv
  BY DEF MachineInit
<1>1. Chain(offering) /\ DOMAIN offering = {}
  BY EmptySeq DEF Chain
<1>2. Earned(offering) = {} /\ Credited(offering) = {}
  BY <1>1 DEF Earned, Credited
<1>3. CumulativePaid(offering) = 0 /\ CreditableRevenue(offering) = 0
  <2>1. SumOver([n \in {} |-> 0]) = 0
    BY FS_EmptySet, SumOfZeros, Zenon
  <2>2. /\ [n \in {} |-> offering[n].data.investors] = [n \in {} |-> 0]
        /\ [n \in {} |-> offering[n].data.revenue] = [n \in {} |-> 0]
    OBVIOUS
  <2> QED  BY <1>2, <2>1, <2>2, Zenon DEF CumulativePaid, CreditableRevenue
<1>4. Part(0, InvestorShare) = 0 /\ Min({0, RepaymentCap}) = 0
  <2>1. 0 * InvestorShare = 0 /\ 0 \div Whole = 0 /\ RepaymentCap \in Nat
    BY MachineAssumption, WholeAssumption
  <2>2. Part(0, InvestorShare) = 0
    BY <2>1 DEF Part
  <2>3. PICK cap \in Nat : cap = RepaymentCap
    BY <2>1
  <2>4. PICK none \in Nat : none = 0 /\ none <= cap
    OBVIOUS
  <2>5. Min({none, cap}) = none
    BY <2>4, OfTwo
  <2> QED  BY <2>2, <2>3, <2>4, <2>5
<1> QED  BY <1>1, <1>2, <1>3, <1>4 DEF MachineInv, Figures, Repaid

LEMMA WriteGrows ==
    ASSUME MachineInv, NEW actor, NEW type, NEW data, Write(actor, type, data)
    PROVE  /\ Chain(offering')
           /\ \E e, k : /\ Grown(offering', offering, e, k)
                        /\ e.type = type /\ e.data = data
<1>1. PICK e : e = Link(offering, actor, type, data) /\ offering' = Append(offering, e)
  BY DEF Write
<1>2. e.type = type /\ e.data = data
  BY <1>1 DEF Link
<1>3. Chain(offering') /\ Grown(offering', offering, e, Len(offering))
  BY <1>1, ChainAppend DEF MachineInv, Grown
<1> QED  BY <1>2, <1>3

LEMMA FiguresGrow ==
    ASSUME NEW t, NEW s, NEW e, NEW k, Grown(t, s, e, k), Figures(s),
           e.type = "BUY" => e.data.shares \in Nat \ {0} /\ e.data.buyer \in Nat,
           e.type = "EARN" => e.data.revenue \in Nat /\ e.data.investors \in Nat
    PROVE  Figures(t)
BY DEF Grown, Figures

\* What held of an earning still does.
LEMMA PaidOutStays ==
    ASSUME NEW t, NEW s, NEW e, NEW k, Grown(t, s, e, k), NEW n \in Earned(s), PaidOut(s, n)
    PROVE  PaidOut(t, n)
<1>1. t[n] = s[n] /\ SubSeq(t, 1, n - 1) = SubSeq(s, 1, n - 1)
  <2>1. n \in 1 .. k /\ n \in 1 .. (k + 1)
    BY DEF Grown, Earned
  <2> QED  BY <2>1 DEF Grown
<1> QED  BY <1>1, Zenon DEF PaidOut

\* What is neither an earning nor before one changes no total.
LEMMA OtherKeeps ==
    ASSUME MachineInv, NEW actor, NEW type, NEW data, Write(actor, type, data),
           type # "EARN",
           type = "BUY" => data.shares \in Nat \ {0} /\ data.buyer \in Nat
    PROVE  MachineInv'
<1>1. PICK e, k : Grown(offering', offering, e, k) /\ e.type = type /\ e.data = data
  BY WriteGrows
<1>2. PICK s, t : s = offering /\ t = offering'
  OBVIOUS
<1>3. Chain(t) /\ Figures(s) /\ Repaid(s) /\ \A n \in Earned(s) : PaidOut(s, n)
  BY <1>2, WriteGrows DEF MachineInv
<1>4. Grown(t, s, e, k) /\ Figures(t)
  BY <1>1, <1>2, <1>3, FiguresGrow
<1>5. Repaid(t)
  <2>1. /\ CumulativePaid(s) \in Nat /\ CumulativePaid(t) = CumulativePaid(s) + 0
        /\ CreditableRevenue(s) \in Nat /\ CreditableRevenue(t) = CreditableRevenue(s) + 0
    BY <1>1, <1>3, <1>4, TotalsGrow
  <2>2. CumulativePaid(t) = CumulativePaid(s) /\ CreditableRevenue(t) = CreditableRevenue(s)
    BY <2>1
  <2> QED  BY <1>3, <2>2 DEF Repaid
<1>6. \A n \in Earned(t) : PaidOut(t, n)
  <2>1. Earned(t) = Earned(s)
    BY <1>1, <1>4, EventsGrow
  <2> QED  BY <1>3, <1>4, <2>1, PaidOutStays
<1>7. Chain(offering') /\ Figures(offering') /\ Repaid(offering')
      /\ \A n \in Earned(offering') : PaidOut(offering', n)
  BY <1>2, <1>3, <1>4, <1>5, <1>6
<1> QED  BY <1>7 DEF MachineInv, Chain, Figures, Repaid, Earned, PaidOut, CumulativePaid,
                    CreditableRevenue, Credited, Bought

\* An earning before anybody bought is the operator's; after that the backers are
\* paid what their entitlement grew by.
Earning(d, s, revenue, after) ==
    /\ d.revenue = revenue /\ d.investors \in Nat /\ d.operator \in Nat
    /\ CentsOf(d.legs) = d.investors /\ d.investors + d.operator = revenue
    /\ PaidInShares(d.legs, Holdings(s), d.investors)
    /\ CumulativePaid(s) + d.investors = Min({Part(after, InvestorShare), RepaymentCap})

LEMMA EarningIsShared ==
    ASSUME NEW s, Figures(s), Repaid(s), IsFiniteSet(Bought(s)),
           CumulativePaid(s) \in Nat, CreditableRevenue(s) \in Nat,
           NEW revenue \in Nat, NEW ref, NEW d, d = Distribution(s, revenue, ref)
    PROVE  /\ Bought(s) = {} => Earning(d, s, revenue, CreditableRevenue(s))
           /\ Bought(s) # {} => Earning(d, s, revenue, CreditableRevenue(s) + revenue)
<1>2. PICK ls : ls = InvestorLegs(s, InvestorPool(s, revenue))
  OBVIOUS
<1>3. /\ d.revenue = revenue /\ d.legs = ls /\ d.investors = CentsOf(ls)
      /\ d.operator = revenue - CentsOf(ls)
  BY <1>2 DEF Distribution
<1>4. PICK before \in Nat, paid \in Nat : before = CreditableRevenue(s) /\ paid = CumulativePaid(s)
  OBVIOUS
<1>5. InvestorShare \in 1 .. Whole /\ RepaymentCap \in Nat
  BY MachineAssumption
<1>6. paid = Min({Part(before, InvestorShare), RepaymentCap})
  BY <1>4 DEF Repaid
<1>7. CASE Bought(s) = {}
  <2>1. DOMAIN Holdings(s) = {}
    BY <1>7, BuyersHold, Zenon
  <2>2. SumOver(Holdings(s)) = 0
    <3>1. Holdings(s) = [a \in {} |-> 0]
      BY <2>1 DEF Holdings
    <3>2. SumOver([a \in {} |-> 0]) = 0
      BY FS_EmptySet, SumOfZeros, Zenon
    <3> QED  BY <3>1, <3>2
  <2>3. ls = <<>>
    BY <1>2, <2>2, LegsByParts
  <2>4. CentsOf(ls) = 0
    BY <2>3, NoLegs
  <2>5. PaidInShares(ls, Holdings(s), 0)
    BY <2>1 DEF PaidInShares
  <2>6. paid + 0 = paid /\ revenue - 0 \in Nat /\ 0 + (revenue - 0) = revenue
    OBVIOUS
  <2>7. Earning(d, s, revenue, before)
    BY <1>3, <1>4, <1>6, <2>4, <2>5, <2>6 DEF Earning
  <2> QED  BY <1>4, <1>7, <2>7
<1>8. CASE Bought(s) # {}
  <2>1. PICK had \in Nat, has \in Nat :
            /\ had = Min({Part(before, InvestorShare), RepaymentCap})
            /\ has = Min({Part(before + revenue, InvestorShare), RepaymentCap})
            /\ had <= has /\ has <= had + revenue
    BY <1>5, EntitlementGrows
  <2>2. PICK gains \in Nat : gains = has - had /\ gains <= revenue
    BY <2>1
  <2>3. InvestorPool(s, revenue) = gains
    <3>1. had = paid
      BY <1>6, <2>1
    <3>2. InvestorPool(s, revenue) = Min({Max({0, has - paid}), revenue})
      BY <1>4, <2>1 DEF InvestorPool
    <3>3. PICK none \in Nat : none = 0
      OBVIOUS
    <3>4. Max({none, gains}) = gains
      <4>1. none \in Int /\ gains \in Int
        OBVIOUS
      <4>2. Max({none, gains}) = IF none >= gains THEN none ELSE gains
        BY <4>1, OfTwo, Zenon
      <4> QED  BY <3>3, <4>2
    <3>5. Min({gains, revenue}) = gains
      <4>1. gains \in Int /\ revenue \in Int
        OBVIOUS
      <4>2. Min({gains, revenue}) = IF gains <= revenue THEN gains ELSE revenue
        BY <4>1, OfTwo, Zenon
      <4> QED  BY <2>2, <4>2
    <3> QED  BY <2>2, <3>1, <3>2, <3>3, <3>4, <3>5, Zenon
  <2>4. Held(Holdings(s), Buyers(s))
    BY <1>8, BuyersHold
  <2>5. CentsOf(ls) = gains /\ PaidInShares(ls, Holdings(s), gains)
    BY <1>2, <2>3, <2>4, PoolIsShared
  <2>6. paid + gains = has /\ revenue - gains \in Nat /\ gains + (revenue - gains) = revenue
    BY <1>6, <2>1, <2>2
  <2>7. Earning(d, s, revenue, before + revenue)
    BY <1>3, <1>4, <2>1, <2>5, <2>6 DEF Earning
  <2> QED  BY <1>4, <1>8, <2>7
<1> QED  BY <1>7, <1>8

LEMMA EarnKeeps ==
    ASSUME MachineInv, NEW operator \in Operators, NEW revenue \in Revenues, NEW ref,
           Earn(operator, revenue, ref)
    PROVE  MachineInv'
<1>1. PICK s, t, d : s = offering /\ t = offering' /\ d = Distribution(s, revenue, ref)
  OBVIOUS
<1>2. revenue \in Nat
  BY MachineAssumption
<1>3. Write(operator, "EARN", d)
  BY <1>1 DEF Earn
<1>4. PICK e, k : Grown(t, s, e, k) /\ e.type = "EARN" /\ e.data = d
  BY <1>1, <1>3, WriteGrows
<1>5. Chain(t) /\ Figures(s) /\ Repaid(s) /\ \A n \in Earned(s) : PaidOut(s, n)
  BY <1>1, <1>3, WriteGrows DEF MachineInv
<1>6. IsFiniteSet(Bought(s)) /\ Earned(t) = Earned(s) \union {k + 1}
  BY <1>4, EventsGrow
<1>7. CumulativePaid(s) \in Nat /\ CreditableRevenue(s) \in Nat
  <2>1. PICK x : x = [type |-> "OTHER", data |-> d]
    BY Zenon
  <2>2. Chain(s)
    BY <1>1 DEF MachineInv
  <2>3. Grown(Append(s, x), s, x, Len(s))
    BY <2>2, ChainAppend DEF Grown
  <2>4. Figures(Append(s, x))
    BY <1>5, <2>1, <2>3, FiguresGrow
  <2> QED  BY <1>5, <2>3, <2>4, TotalsGrow
<1>8. PICK after \in Nat :
          /\ after = CreditableRevenue(s) + IF Bought(s) # {} THEN revenue ELSE 0
          /\ Earning(d, s, revenue, after)
  <2>1. CASE Bought(s) = {}
    <3>1. Earning(d, s, revenue, CreditableRevenue(s))
      BY <1>1, <1>2, <1>5, <1>6, <1>7, <2>1, EarningIsShared
    <3> QED  BY <1>7, <2>1, <3>1
  <2>2. CASE Bought(s) # {}
    <3>1. Earning(d, s, revenue, CreditableRevenue(s) + revenue)
      BY <1>1, <1>2, <1>5, <1>6, <1>7, <2>2, EarningIsShared
    <3> QED  BY <1>2, <1>7, <2>2, <3>1
  <2> QED  BY <2>1, <2>2
<1>9. Figures(t)
  BY <1>2, <1>4, <1>5, <1>8, FiguresGrow DEF Earning
<1>10. Repaid(t)
  <2>1. CumulativePaid(t) = CumulativePaid(s) + d.investors
    BY <1>4, <1>5, <1>9, TotalsGrow
  <2>2. CreditableRevenue(t) = after
    <3>1. CreditableRevenue(t)
              = CreditableRevenue(s) + IF Bought(s) # {} THEN revenue ELSE 0
      BY <1>4, <1>5, <1>8, <1>9, TotalsGrow DEF Earning
    <3> QED  BY <1>8, <3>1
  <2> QED  BY <1>8, <2>1, <2>2 DEF Repaid, Earning
<1>11. PaidOut(t, k + 1)
  <2>1. k \in Nat /\ t[k + 1] = e /\ SubSeq(s, 1, k) = s
        /\ \A n \in 1 .. (k + 1) : SubSeq(t, 1, n - 1) = SubSeq(s, 1, n - 1)
    BY <1>4 DEF Grown
  <2>2. PICK n \in 1 .. (k + 1) : n = k + 1 /\ n - 1 = k
    BY <2>1
  <2>3. t[n].data = d /\ SubSeq(t, 1, n - 1) = s
    <3>1. SubSeq(t, 1, n - 1) = SubSeq(s, 1, n - 1)
      BY <2>1
    <3> QED  BY <1>4, <2>1, <2>2, <3>1
  <2>4. d.operator >= 0
    BY <1>8 DEF Earning
  <2>5. PaidOut(t, n)
    BY <1>8, <2>3, <2>4, Zenon DEF PaidOut, Earning
  <2> QED  BY <2>2, <2>5
<1>12. \A n \in Earned(t) : PaidOut(t, n)
  BY <1>4, <1>5, <1>6, <1>11, PaidOutStays
<1>13. Chain(offering') /\ Figures(offering') /\ Repaid(offering')
       /\ \A n \in Earned(offering') : PaidOut(offering', n)
  BY <1>1, <1>5, <1>9, <1>10, <1>12
<1> QED  BY <1>13 DEF MachineInv, Chain, Figures, Repaid, Earned, PaidOut, CumulativePaid,
                     CreditableRevenue, Credited, Bought

LEMMA MachineKeeps == MachineInv /\ [MachineNext]_machineVars => MachineInv'
<1> SUFFICES ASSUME MachineInv, [MachineNext]_machineVars
             PROVE  MachineInv'
  OBVIOUS
<1>1. CASE Open
  BY <1>1, OtherKeeps DEF Open
<1>2. ASSUME NEW backer \in Backers, NEW n \in 1 .. TotalShares, Buy(backer, n)
      PROVE  MachineInv'
  <2>1. n \in Nat \ {0} /\ backer.account \in Nat
    BY MachineAssumption
  <2> DEFINE data == [buyer |-> backer.account, shares |-> n, capital |-> n * PriceCents]
  <2>2. data.shares \in Nat \ {0} /\ data.buyer \in Nat
    BY <2>1
  <2>3. Write(backer, "BUY", data)
    BY <1>2 DEF Buy
  <2> QED  BY <2>2, <2>3, OtherKeeps
<1>3. ASSUME NEW operator \in Operators, NEW revenue \in Revenues, NEW ref \in Refs,
             Earn(operator, revenue, ref)
      PROVE  MachineInv'
  BY <1>3, EarnKeeps
<1>4. CASE UNCHANGED machineVars
  BY <1>4 DEF machineVars, MachineInv, Chain, Figures, Repaid, Earned, PaidOut, CumulativePaid,
              CreditableRevenue, Credited, Bought
<1> QED  BY <1>1, <1>2, <1>3, <1>4 DEF MachineNext

\* However the revenue is cut into earnings, the backers are together paid exactly
\* their share of all that came in since the first of them bought, until they are
\* repaid, and each by what it holds (machine_rwa.py:59-114).
THEOREM BackersAlwaysRepaid == MachineSpec => []BackersAreRepaid
BY MachineStarts, MachineKeeps, MachineInvRepays, PTL DEF MachineSpec

-----------------------------------------------------------------------------
(***************************************************************************)
(* Training royalties: each asset's cut is paid out by its payees' parts   *)
(* or not at all, so that legs which add up to the pool pay every asset    *)
(* its whole cut; what a list of legs brings some of them is a sum over    *)
(* the lists it was put together from.                                     *)
(***************************************************************************)
TrainingLeg == [account : Teachers, corpus : DOMAIN Corpora, asset : Nat, cents : Nat]

CorpusLegs(c) == {l \in TrainingLeg : l.corpus = c}
GiftLegs(c, i) == {l \in CorpusLegs(c) : l.asset = i}

CentsAmong(some) == [l \in TrainingLeg |-> IF l \in some THEN l.cents ELSE 0]
Among(ls, some) == WeightOf(CentsAmong(some), ls)

LEMMA EachInSum ==
    ASSUME NEW S, IsFiniteSet(S), NEW f \in [S -> Nat], NEW x \in S
    PROVE  f[x] <= SumOver(f) /\ SumOver(f) \in Nat /\ f[x] \in Nat
<1>1. {x} \in SUBSET S
  OBVIOUS
<1>2. SumOver(Only(f, {x})) <= SumOver(f)
  BY <1>1, SumOfLess
<1>3. SumOver(Only(f, {x})) = f[x]
  BY SumOfOne
<1>4. SumOver(f) \in Nat
  BY SumType
<1> QED  BY <1>2, <1>3, <1>4

\* Addends that are no larger, and add up to as much.
LEMMA EqualSums ==
    ASSUME NEW S, IsFiniteSet(S), NEW f \in [S -> Nat], NEW g \in [S -> Nat],
           \A i \in S : f[i] <= g[i], SumOver(f) = SumOver(g)
    PROVE  \A i \in S : f[i] = g[i]
<1>1. PICK h \in [S -> Nat] : \A i \in S : h[i] = g[i] - f[i]
  <2>1. \A i \in S : g[i] - f[i] \in Nat
    OBVIOUS
  <2>2. [i \in S |-> g[i] - f[i]] \in [S -> Nat]
    BY <2>1
  <2> QED  BY <2>2, Zenon
<1>2. \A i \in S : g[i] = f[i] + h[i]
  BY <1>1
<1>3. SumOver(g) = SumOver(f) + SumOver(h)
  BY <1>2, SumPlusOf
<1>4. PICK all \in Nat, rest \in Nat : all = SumOver(f) /\ rest = SumOver(h)
  BY SumType
<1>5. SumOver(h) = 0
  <2>1. all = all + rest
    BY <1>3, <1>4
  <2>2. rest = 0
    BY <2>1
  <2> QED  BY <1>4, <2>2
<1>6. ASSUME NEW i \in S
      PROVE  f[i] = g[i]
  <2>1. h[i] <= SumOver(h) /\ h[i] \in Nat
    BY EachInSum
  <2> QED  BY <1>2, <1>5, <2>1
<1> QED  BY <1>6

LEMMA LegsAmong ==
    ASSUME NEW ls \in Seq(TrainingLeg), NEW some
    PROVE  /\ CentsAmong(some) \in [TrainingLeg -> Nat] /\ Among(ls, some) \in Nat
           /\ CentsIn(ls, {n \in DOMAIN ls : ls[n] \in some}) = Among(ls, some)
<1> DEFINE D == DOMAIN ls
           T == {n \in D : ls[n] \in some}
           f == [n \in D |-> CentsAmong(some)[ls[n]]]
           none == [n \in D \ T |-> 0]
<1>1. CentsAmong(some) \in [TrainingLeg -> Nat]
  BY DEF CentsAmong, TrainingLeg
<1>2. f \in [D -> Nat] /\ IsFiniteSet(D) /\ Among(ls, some) \in Nat
  BY <1>1, WeightType DEF Among
<1>3. \A n \in D : ls[n] \in TrainingLeg
  BY LenProperties, ElementOfSeq
<1>4. T \in SUBSET D /\ IsFiniteSet(D \ T)
  BY <1>2, FS_Subset
<1>5. Only(f, T) = [n \in T |-> ls[n].cents] /\ Only(f, D \ T) = none
  BY <1>3 DEF Only, CentsAmong
<1>6. Among(ls, some) = SumOver(f) /\ CentsIn(ls, T) = SumOver(Only(f, T))
  BY <1>5 DEF Among, WeightOf, CentsIn
<1> HIDE DEF f, T, D
<1>7. SumOver(f) = SumOver(Only(f, T)) + SumOver(Only(f, D \ T))
  BY <1>2, <1>4, SumSplit
<1>8. SumOver(none) = 0
  BY <1>4, SumOfZeros
<1> HIDE DEF none
<1>9. SumOver(Only(f, T)) \in Nat
  BY <1>2, <1>4, SumOfPart
<1>10. CentsIn(ls, T) = Among(ls, some)
  BY <1>5, <1>6, <1>7, <1>8, <1>9
<1> QED  BY <1>1, <1>2, <1>10 DEF T, D

\* Of legs that are all among some, or none of them.
LEMMA AllAmong ==
    ASSUME NEW those \in SUBSET TrainingLeg, NEW ls \in Seq(those), NEW some
    PROVE  /\ ls \in Seq(TrainingLeg) /\ CentsOf(ls) \in Nat
           /\ those \subseteq some => Among(ls, some) = CentsOf(ls)
           /\ those \intersect some = {} => Among(ls, some) = 0
<1>1. /\ ls \in Seq(TrainingLeg) /\ IsFiniteSet(DOMAIN ls)
      /\ \A n \in DOMAIN ls : ls[n] \in those
  BY SeqHas, SeqIsFinite
<1>2. \A n \in DOMAIN ls : ls[n] \in TrainingLeg /\ ls[n].cents \in Nat
  BY <1>1 DEF TrainingLeg
<1>3. PICK f \in [DOMAIN ls -> Nat] : f = [n \in DOMAIN ls |-> ls[n].cents]
  BY <1>2, Zenon
<1>4. CentsOf(ls) \in Nat
  BY <1>1, <1>3, SumType DEF CentsOf
<1>5. ASSUME those \subseteq some
      PROVE  Among(ls, some) = CentsOf(ls)
  <2>1. [n \in DOMAIN ls |-> CentsAmong(some)[ls[n]]] = [n \in DOMAIN ls |-> ls[n].cents]
    BY <1>1, <1>2, <1>5 DEF CentsAmong
  <2> QED  BY <2>1, Zenon DEF Among, WeightOf, CentsOf
<1>6. ASSUME those \intersect some = {}
      PROVE  Among(ls, some) = 0
  <2>1. [n \in DOMAIN ls |-> CentsAmong(some)[ls[n]]] = [n \in DOMAIN ls |-> 0]
    BY <1>1, <1>2, <1>6 DEF CentsAmong
  <2> QED  BY <1>1, <2>1, SumOfZeros DEF Among, WeightOf
<1> QED  BY <1>1, <1>4, <1>5, <1>6

\* The floored parts of an amount do not exceed it.
LEMMA PartsFit ==
    ASSUME NEW K, IsFiniteSet(K), NEW cents \in Nat, NEW bps \in [K -> Nat],
           SumOver(bps) = Whole, NEW part \in [K -> Nat],
           \A k \in K : part[k] = Part(cents, bps[k])
    PROVE  SumOver(part) \in 0 .. cents
<1>1. Whole \in Nat \ {0}
  BY WholeAssumption
<1>2. PICK exact \in [K -> Nat] : \A k \in K : exact[k] = cents * bps[k]
  <2>1. \A k \in K : cents * bps[k] \in Nat
    BY Products
  <2>2. [k \in K |-> cents * bps[k]] \in [K -> Nat]
    BY <2>1
  <2> QED  BY <2>2, Zenon
<1>3. \A k \in K : Whole * part[k] <= exact[k] /\ exact[k] <= Whole * part[k] + (Whole - 1)
  <2> SUFFICES ASSUME NEW k \in K
               PROVE  Whole * part[k] <= exact[k] /\ exact[k] <= Whole * part[k] + (Whole - 1)
    OBVIOUS
  <2>1. PICK b \in Nat : b = bps[k]
    OBVIOUS
  <2>2. /\ Whole * Part(cents, b) <= cents * b
        /\ cents * b <= Whole * Part(cents, b) + (Whole - 1)
    BY PartBounds, Zenon
  <2> QED  BY <1>2, <2>1, <2>2
<1>4. SumOver(part) \in Nat /\ Whole * SumOver(part) <= SumOver(exact)
  BY <1>1, <1>3, FlooredSum
<1>5. SumOver(exact) = cents * Whole
  BY <1>2, SumScaledOf
<1>6. PICK total \in Nat : total = SumOver(part)
  BY <1>4
<1>7. total <= cents
  <2>1. Whole * total <= Whole * cents
    BY <1>1, <1>4, <1>5, <1>6
  <2> QED  BY <1>1, <2>1
<1> QED  BY <1>6, <1>7

\* The payees of a contribution, with their parts of some cents.
Parts(c, i, cents, K, account, part) ==
    /\ K = DOMAIN Corpora[c].contributions[i].payees /\ IsFiniteSet(K) /\ K \subseteq Nat
    /\ account \in [K -> Teachers] /\ part \in [K -> Nat]
    /\ \A k \in K : /\ account[k] = Corpora[c].contributions[i].payees[k].account
                    /\ part[k] = Part(cents, Corpora[c].contributions[i].payees[k].bps)
    /\ BpsOf(Corpora[c].contributions[i].payees) = Whole => SumOver(part) \in 0 .. cents

LEMMA PayeesHaveParts ==
    ASSUME NEW c \in DOMAIN Corpora, NEW i \in DOMAIN Corpora[c].contributions, NEW cents \in Nat
    PROVE  \E K, account, part : Parts(c, i, cents, K, account, part)
<1>1. Corpora[c].contributions \in Seq([units : Nat, payees : SplitPayees])
  BY TrainingAssumption, Zenon
<1>2. Corpora[c].contributions[i] \in [units : Nat, payees : SplitPayees]
  BY <1>1, SeqHas, Zenon
<1>3. PICK payees : payees = Corpora[c].contributions[i].payees
                    /\ payees \in Seq([account : Teachers, bps : Nat])
  BY <1>2 DEF SplitPayees
<1>4. PICK n \in Nat : payees \in [1 .. n -> [account : Teachers, bps : Nat]]
  BY <1>3, SeqIs, Zenon
<1>5. PICK K : K = DOMAIN payees /\ IsFiniteSet(K) /\ K \subseteq Nat
  BY <1>4, UpToIsFinite
<1>6. \A k \in K : payees[k].account \in Teachers /\ payees[k].bps \in Nat
  BY <1>4, <1>5
<1>7. PICK account \in [K -> Teachers] : \A k \in K : account[k] = payees[k].account
  <2>1. [k \in K |-> payees[k].account] \in [K -> Teachers]
    BY <1>6
  <2> QED  BY <2>1, Zenon
<1>8. PICK bps \in [K -> Nat] : bps = [k \in K |-> payees[k].bps]
  BY <1>6, Zenon
<1>9. PICK part \in [K -> Nat] : \A k \in K : part[k] = Part(cents, bps[k])
  <2>1. \A k \in K : Part(cents, bps[k]) \in Nat
    BY PartBounds, Zenon
  <2>2. [k \in K |-> Part(cents, bps[k])] \in [K -> Nat]
    BY <2>1
  <2> QED  BY <2>2, Zenon
<1>10. ASSUME BpsOf(payees) = Whole
       PROVE  SumOver(part) \in 0 .. cents
  <2>1. SumOver(bps) = Whole
    BY <1>5, <1>8, <1>10 DEF BpsOf
  <2> QED  BY <1>5, <1>9, <2>1, PartsFit
<1>11. \A k \in K : part[k] = Part(cents, payees[k].bps)
  BY <1>8, <1>9
<1>12. Parts(c, i, cents, K, account, part)
  BY <1>3, <1>5, <1>7, <1>10, <1>11 DEF Parts
<1> QED  BY <1>12


\* Those who get any, in their order.
Listed(c, i, cents, K, part, P, m, paid) ==
    /\ P = {k \in K : part[k] > 0} /\ m \in Nat /\ paid \in [1 .. m -> P]
    /\ paid = InOrder({k \in DOMAIN Corpora[c].contributions[i].payees :
                          Part(cents, Corpora[c].contributions[i].payees[k].bps) > 0})
    /\ \A n, h \in 1 .. m : paid[n] = paid[h] => n = h
    /\ \A k \in P : \E n \in 1 .. m : paid[n] = k

LEMMA PayeesAreListed ==
    ASSUME NEW c, NEW i, NEW cents, NEW K, NEW account, NEW part,
           Parts(c, i, cents, K, account, part)
    PROVE  \E P, m, paid : Listed(c, i, cents, K, part, P, m, paid)
<1>1. PICK P : P = {k \in K : part[k] > 0}
  BY Zenon
<1>2. P \subseteq Nat /\ IsFiniteSet(P)
  BY <1>1, FS_Subset DEF Parts
<1>3. P = {k \in DOMAIN Corpora[c].contributions[i].payees :
              Part(cents, Corpora[c].contributions[i].payees[k].bps) > 0}
  BY <1>1 DEF Parts
<1>4. PICK q : q = InOrder(P)
  OBVIOUS
<1>5. PICK m \in Nat : m = Cardinality(P)
  BY <1>2, FS_CardinalityType
<1>6. /\ q \in [1 .. m -> P]
      /\ \A n, h \in 1 .. m : q[n] = q[h] => n = h
      /\ \A x \in P : \E n \in 1 .. m : q[n] = x
  BY <1>2, <1>4, <1>5, InOrderLists, Zenon
<1>7. Listed(c, i, cents, K, part, P, m, q)
  BY <1>1, <1>3, <1>4, <1>5, <1>6, Zenon DEF Listed
<1> QED  BY <1>7


\* The floored legs of an asset: its parts, of those who get any.
Floored(c, i, account, part, m, paid, floored) ==
    floored = [n \in 1 .. m |-> [account |-> account[paid[n]], corpus |-> c, asset |-> i,
                                 cents |-> part[paid[n]]]]

LEMMA PartsMakeLegs ==
    ASSUME NEW c \in DOMAIN Corpora, NEW i \in Nat, NEW cents, NEW K, NEW account, NEW part,
           Parts(c, i, cents, K, account, part), NEW P, NEW m, NEW paid,
           Listed(c, i, cents, K, part, P, m, paid),
           NEW floored, Floored(c, i, account, part, m, paid, floored)
    PROVE  /\ m \in Nat /\ floored \in [1 .. m -> GiftLegs(c, i)]
           /\ CentsOf(floored) = SumOver(part) /\ SumOver(part) \in Nat
           /\ \A k \in K : /\ part[k] \in Nat
                           /\ part[k] > 0 => \E n \in 1 .. m :
                                 /\ floored[n].account = account[k]
                                 /\ floored[n].cents = part[k]
<1>1. PICK a \in [K -> Teachers], p \in [K -> Nat] : a = account /\ p = part
  BY DEF Parts
<1>2. IsFiniteSet(K) /\ P = {k \in K : p[k] > 0} /\ m \in Nat /\ P \in SUBSET K
  BY <1>1, Zenon DEF Parts, Listed
<1>3. PICK l \in [1 .. m -> P] : l = paid
  BY Zenon DEF Listed
<1>4. (\A n, h \in 1 .. m : l[n] = l[h] => n = h) /\ (\A k \in P : \E n \in 1 .. m : l[n] = k)
  BY <1>3, Zenon DEF Listed
<1>5. PICK N : N = 1 .. m /\ IsFiniteSet(N)
  BY <1>2, UpToIsFinite
<1>6. PICK amt \in [N -> Nat] : \A n \in N : amt[n] = p[l[n]]
  <2>1. \A n \in N : p[l[n]] \in Nat
    BY <1>2, <1>5
  <2>2. [n \in N |-> p[l[n]]] \in [N -> Nat]
    BY <2>1
  <2> QED  BY <2>2, Zenon
<1>7. DOMAIN floored = N /\ \A n \in N : floored[n] = [account |-> a[l[n]], corpus |-> c,
                                                       asset |-> i, cents |-> amt[n]]
  BY <1>1, <1>3, <1>5, <1>6 DEF Floored
<1>8. CentsOf(floored) = SumOver(amt)
  <2>1. [n \in DOMAIN floored |-> floored[n].cents] = amt
    BY <1>7
  <2> QED  BY <2>1, Zenon DEF CentsOf
<1>9. SumOver(amt) = SumOver(p)
  <2>1. PICK parts : parts = [n \in N |-> Leg(l[n], p[l[n]])]
    BY Zenon
  <2>2. PaysParts(parts, K, p, P, N, l)
    <3>1. \A k \in K \ P : p[k] = 0
      BY <1>2
    <3>2. \A n, h \in N : l[n] = l[h] => n = h
      BY <1>4, <1>5
    <3>3. \A k \in P : \E n \in N : l[n] = k
      BY <1>4, <1>5
    <3>4. /\ IsFiniteSet(K) /\ IsFiniteSet(N) /\ P \in SUBSET K
          /\ l \in [N -> P] /\ p \in [K -> Nat]
      BY <1>2, <1>5
    <3> QED  BY <2>1, <3>1, <3>2, <3>3, <3>4 DEF PaysParts
  <2>3. CentsOf(parts) = SumOver(p)
    BY <2>2, PartsArePaid
  <2>4. [n \in DOMAIN parts |-> parts[n].cents] = amt
    BY <1>6, <2>1 DEF Leg
  <2> QED  BY <2>3, <2>4, Zenon DEF CentsOf
<1>10. SumOver(p) \in Nat
  BY <1>2, SumType
<1>11. floored \in [1 .. m -> GiftLegs(c, i)]
  <2>1. \A n \in N : a[l[n]] \in Teachers
    BY <1>2, <1>5
  <2>2. \A n \in N : floored[n] \in GiftLegs(c, i)
    BY <1>7, <2>1 DEF GiftLegs, CorpusLegs, TrainingLeg
  <2>3. floored = [n \in N |-> floored[n]]
    BY <1>1, <1>3, <1>5 DEF Floored
  <2> QED  BY <1>5, <2>2, <2>3
<1>12. ASSUME NEW k \in K, part[k] > 0
       PROVE  \E n \in 1 .. m : floored[n].account = account[k] /\ floored[n].cents = part[k]
  <2>1. PICK n \in N : l[n] = k
    BY <1>1, <1>2, <1>4, <1>5, <1>12
  <2> QED  BY <1>1, <1>5, <1>6, <1>7, <2>1
<1> QED  BY <1>1, <1>2, <1>8, <1>9, <1>10, <1>11, <1>12

\* What a leg brings an account is within what all do.
LEMMA OneOfLegs ==
    ASSUME NEW ls \in Seq(TrainingLeg), NEW n \in DOMAIN ls
    PROVE  ls[n].cents <= CentsTo(ls, ls[n].account) /\ CentsTo(ls, ls[n].account) \in Nat
           /\ ls[n].cents \in Nat
<1>1. PICK T : T = LegsTo(ls, ls[n].account)
  OBVIOUS
<1>2. IsFiniteSet(DOMAIN ls) /\ \A h \in DOMAIN ls : ls[h] \in TrainingLeg
  BY SeqHas, SeqIsFinite
<1>3. T \subseteq DOMAIN ls /\ n \in T /\ IsFiniteSet(T)
  <2>1. T \subseteq DOMAIN ls /\ n \in T
    BY <1>1 DEF LegsTo
  <2> QED  BY <1>2, <2>1, FS_Subset
<1>4. PICK f \in [T -> Nat] : f = [h \in T |-> ls[h].cents]
  BY <1>2, <1>3, Zenon DEF TrainingLeg
<1>5. f[n] <= SumOver(f) /\ SumOver(f) \in Nat /\ f[n] \in Nat
  BY <1>3, EachInSum
<1>6. CentsTo(ls, ls[n].account) = SumOver(f)
  BY <1>1, <1>4 DEF CentsTo
<1> QED  BY <1>3, <1>4, <1>5, <1>6

LEMMA CentsToType ==
    ASSUME NEW ls \in Seq(TrainingLeg), NEW a
    PROVE  CentsTo(ls, a) \in Nat
<1>1. PICK T : T = LegsTo(ls, a)
  OBVIOUS
<1>2. IsFiniteSet(DOMAIN ls) /\ \A h \in DOMAIN ls : ls[h] \in TrainingLeg
  BY SeqHas, SeqIsFinite
<1>3. T \subseteq DOMAIN ls /\ IsFiniteSet(T)
  <2>1. T \subseteq DOMAIN ls
    BY <1>1 DEF LegsTo
  <2> QED  BY <1>2, <2>1, FS_Subset
<1>4. PICK f \in [T -> Nat] : f = [h \in T |-> ls[h].cents]
  BY <1>2, <1>3, Zenon DEF TrainingLeg
<1>5. SumOver(f) \in Nat
  BY <1>3, SumType
<1> QED  BY <1>1, <1>4, <1>5 DEF CentsTo

\* PayeeLegs in terms of its parts.
PartsByBps(c, i, cents) ==
    LET payees == Corpora[c].contributions[i].payees
        paid == InOrder({k \in DOMAIN payees : Part(cents, payees[k].bps) > 0})
    IN  [n \in DOMAIN paid |->
            [account |-> payees[paid[n]].account, corpus |-> c, asset |-> i,
             cents |-> Part(cents, payees[paid[n]].bps)]]
LEMMA LegsByFloors ==
    ASSUME NEW c, NEW i, NEW cents
    PROVE  LET floored == PartsByBps(c, i, cents)
               residue == cents - CentsOf(floored)
           IN  PayeeLegs(c, i, cents) = IF floored # <<>> /\ residue > 0
                                        THEN [floored EXCEPT ![1].cents = @ + residue]
                                        ELSE floored
BY DEF PayeeLegs, PartsByBps

LEMMA LegsByPayees ==
    ASSUME NEW c, NEW i, NEW cents, NEW K, NEW account, NEW part,
           Parts(c, i, cents, K, account, part), NEW P, NEW m, NEW paid,
           Listed(c, i, cents, K, part, P, m, paid),
           NEW floored, Floored(c, i, account, part, m, paid, floored),
           NEW residue, residue = cents - CentsOf(floored)
    PROVE  PayeeLegs(c, i, cents) = IF floored # <<>> /\ residue > 0
                                    THEN [floored EXCEPT ![1].cents = @ + residue]
                                    ELSE floored
<1>1. PICK payees : payees = Corpora[c].contributions[i].payees
  OBVIOUS
<1>2. \A k \in K : account[k] = payees[k].account /\ part[k] = Part(cents, payees[k].bps)
  BY <1>1 DEF Parts
<1>3. /\ paid = InOrder({k \in DOMAIN payees : Part(cents, payees[k].bps) > 0})
      /\ paid \in [1 .. m -> P] /\ P \subseteq K
  BY <1>1, Zenon DEF Listed
<1>4. DOMAIN paid = 1 .. m /\ \A n \in 1 .. m : paid[n] \in K
  BY <1>3, Zenon
<1>5. floored = [n \in DOMAIN paid |->
                    [account |-> payees[paid[n]].account, corpus |-> c, asset |-> i,
                     cents |-> Part(cents, payees[paid[n]].bps)]]
  BY <1>2, <1>4 DEF Floored
<1>6. floored = PartsByBps(c, i, cents)
  BY <1>1, <1>3, <1>5, Zenon DEF PartsByBps
<1> QED  BY <1>6, LegsByFloors

\* Legs that are among those with any cents.
Closed(those) ==
    /\ those \in SUBSET TrainingLeg
    /\ \A l \in those : \A n \in Nat : [l EXCEPT !.cents = n] \in those

\* Each leg brings its account as much or more, and all bring cents.
Topped(ls, floored, those, m, cents) ==
    /\ ls \in [1 .. m -> those] /\ CentsOf(ls) = cents
    /\ \A n \in 1 .. m : /\ ls[n].account = floored[n].account
                         /\ ls[n].cents >= floored[n].cents

\* The first leg takes the residue.
LEMMA FirstIsLifted ==
    ASSUME NEW those, Closed(those), NEW m \in Nat, NEW floored \in [1 .. m -> those],
           floored # <<>>, NEW residue \in Nat, NEW ls, Lifted(ls, floored, 1, residue)
    PROVE  Topped(ls, floored, those, m, CentsOf(floored) + residue)
<1>0. PICK N : N = 1 .. m /\ IsFiniteSet(N)
  BY UpToIsFinite
<1>1. 1 \in 1 .. m
  <2>1. floored \in Seq(those)
    BY SeqFrom
  <2>2. m = Len(floored)
    BY <2>1, LenProperties
  <2>3. m # 0
    BY <2>1, <2>2, EmptySeq
  <2> QED  BY <2>3
<1>2. \A n \in 1 .. m : floored[n] \in TrainingLeg /\ floored[n].cents \in Nat
  BY DEF TrainingLeg, Closed
<1>3. PICK more \in those : more = [floored[1] EXCEPT !.cents = floored[1].cents + residue]
  <2>1. floored[1].cents + residue \in Nat
    BY <1>1, <1>2
  <2> QED  BY <1>1, <2>1, Zenon DEF Closed
<1>4. more.account = floored[1].account /\ more.cents = floored[1].cents + residue
  BY <1>1, <1>2, <1>3 DEF TrainingLeg
<1>5. /\ ls \in [1 .. m -> those] /\ ls[1] = more
      /\ \A n \in (1 .. m) \ {1} : ls[n] = floored[n]
  BY <1>1, <1>3 DEF Lifted
<1>6. PICK f \in [N -> Nat], g \in [N -> Nat] :
          /\ f = [n \in DOMAIN floored |-> floored[n].cents]
          /\ g = [n \in DOMAIN ls |-> ls[n].cents]
  <2>1. DOMAIN floored = 1 .. m /\ DOMAIN ls = 1 .. m
    BY <1>5
  <2>2. \A n \in 1 .. m : floored[n].cents \in Nat /\ ls[n].cents \in Nat
    BY <1>2, <1>5 DEF TrainingLeg, Closed
  <2> QED  BY <1>0, <2>1, <2>2, Zenon
<1>7. LiftedAt(g, f, N, 1, residue)
  BY <1>0, <1>1, <1>4, <1>5, <1>6 DEF LiftedAt
<1>8. SumOver(g) = SumOver(f) + residue
  <2>1. IsFiniteSet(N) /\ 1 \in N
    BY <1>0, <1>1
  <2> QED  BY <1>7, <2>1, SumLifted
<1>9. \A n \in 1 .. m : ls[n].account = floored[n].account /\ ls[n].cents >= floored[n].cents
  BY <1>1, <1>2, <1>4, <1>5
<1> QED  BY <1>5, <1>6, <1>8, <1>9 DEF CentsOf, Topped

\* An asset's cut goes to its payees, each at least its part.
AssetPaid(c, i, cents, ls) ==
    LET payees == Corpora[c].contributions[i].payees
    IN  /\ ls \in Seq(GiftLegs(c, i))
        /\ BpsOf(payees) = Whole => CentsOf(ls) <= cents
        /\ \A k \in DOMAIN payees :
              CentsTo(ls, payees[k].account) >= Part(cents, payees[k].bps)

LEMMA AssetIsPaid ==
    ASSUME NEW c \in DOMAIN Corpora, NEW i \in DOMAIN Corpora[c].contributions, NEW cents \in Nat
    PROVE  AssetPaid(c, i, cents, PayeeLegs(c, i, cents))
<1>1. PICK K, account, part : Parts(c, i, cents, K, account, part)
  BY PayeesHaveParts
<1>2. PICK P, m, paid : Listed(c, i, cents, K, part, P, m, paid)
  BY <1>1, PayeesAreListed
<1>3. PICK floored : Floored(c, i, account, part, m, paid, floored)
  BY Zenon DEF Floored
<1>4. i \in Nat
  <2>1. Corpora[c].contributions \in Seq([units : Nat, payees : SplitPayees])
    BY TrainingAssumption, Zenon
  <2>2. PICK n \in Nat : Corpora[c].contributions
                            \in [1 .. n -> [units : Nat, payees : SplitPayees]]
    BY <2>1, SeqIs, Zenon
  <2> QED  BY <2>2
<1>5. /\ m \in Nat /\ floored \in [1 .. m -> GiftLegs(c, i)]
      /\ CentsOf(floored) = SumOver(part) /\ SumOver(part) \in Nat
      /\ \A k \in K : /\ part[k] \in Nat
                      /\ part[k] > 0 => \E n \in 1 .. m :
                            /\ floored[n].account = account[k]
                            /\ floored[n].cents = part[k]
  BY <1>1, <1>2, <1>3, <1>4, PartsMakeLegs
<1>6. PICK residue \in Int : residue = cents - CentsOf(floored)
  BY <1>5
<1>7. PICK ls : ls = PayeeLegs(c, i, cents)
  OBVIOUS
<1>8. ls = IF floored # <<>> /\ residue > 0
           THEN [floored EXCEPT ![1].cents = @ + residue] ELSE floored
  BY <1>1, <1>2, <1>3, <1>6, <1>7, LegsByPayees
<1>9. Closed(GiftLegs(c, i)) /\ GiftLegs(c, i) \subseteq TrainingLeg
  BY DEF GiftLegs, CorpusLegs, TrainingLeg, Closed
<1>10. Topped(ls, floored, GiftLegs(c, i), m,
              IF floored # <<>> /\ residue > 0 THEN cents ELSE CentsOf(floored))
  <2>1. CASE floored # <<>> /\ residue > 0
    <3>1. Lifted(ls, floored, 1, residue) /\ residue \in Nat
      BY <1>8, <2>1 DEF Lifted
    <3>2. Topped(ls, floored, GiftLegs(c, i), m, CentsOf(floored) + residue)
      BY <1>5, <1>9, <2>1, <3>1, FirstIsLifted
    <3>3. CentsOf(floored) + residue = cents
      BY <1>5, <1>6
    <3> QED  BY <2>1, <3>2, <3>3
  <2>2. CASE ~(floored # <<>> /\ residue > 0)
    <3>1. ls = floored
      BY <1>8, <2>2
    <3>2. \A n \in 1 .. m : floored[n].cents \in Nat
      BY <1>5, <1>9 DEF TrainingLeg
    <3> QED  BY <1>5, <2>2, <3>1, <3>2 DEF Topped
  <2> QED  BY <2>1, <2>2
<1>11. ls \in Seq(GiftLegs(c, i)) /\ ls \in Seq(TrainingLeg) /\ DOMAIN ls = 1 .. m
  <2>1. ls \in [1 .. m -> TrainingLeg] /\ ls \in [1 .. m -> GiftLegs(c, i)]
    BY <1>9, <1>10 DEF Topped
  <2> QED  BY <1>5, <2>1, SeqFrom
<1>12. ASSUME BpsOf(Corpora[c].contributions[i].payees) = Whole
       PROVE  CentsOf(ls) <= cents
  <2>1. SumOver(part) \in 0 .. cents
    BY <1>1, <1>12 DEF Parts
  <2> QED  BY <1>5, <1>10, <2>1 DEF Topped
<1>13. ASSUME NEW k \in DOMAIN Corpora[c].contributions[i].payees
       PROVE  CentsTo(ls, Corpora[c].contributions[i].payees[k].account)
                  >= Part(cents, Corpora[c].contributions[i].payees[k].bps)
  <2>1. /\ k \in K /\ account[k] = Corpora[c].contributions[i].payees[k].account
        /\ part[k] = Part(cents, Corpora[c].contributions[i].payees[k].bps) /\ part[k] \in Nat
    BY <1>1, <1>5, <1>13 DEF Parts
  <2>2. CASE part[k] > 0
    <3>1. PICK n \in 1 .. m : floored[n].account = account[k] /\ floored[n].cents = part[k]
      BY <1>5, <2>1, <2>2
    <3>2. ls[n].account = account[k] /\ ls[n].cents >= part[k] /\ n \in DOMAIN ls
      BY <1>10, <1>11, <3>1 DEF Topped
    <3>3. /\ ls[n].cents <= CentsTo(ls, ls[n].account) /\ CentsTo(ls, ls[n].account) \in Nat
          /\ ls[n].cents \in Nat
      BY <1>11, <3>2, OneOfLegs, Zenon
    <3> QED  BY <2>1, <3>2, <3>3
  <2>3. CASE part[k] = 0
    <3>1. CentsTo(ls, account[k]) \in Nat
      BY <1>11, CentsToType
    <3> QED  BY <2>1, <2>3, <3>1
  <2> QED  BY <2>1, <2>2, <2>3
<1>14. AssetPaid(c, i, cents, ls)
  BY <1>11, <1>12, <1>13 DEF AssetPaid
<1> QED  BY <1>7, <1>14

\* The cut of each asset is its units' part of the cents, but for less than one.
AssetsCut(c, cents, cut) ==
    /\ cut \in [DOMAIN Given(c) -> Nat] /\ SumOver(cut) = cents
    /\ SumOver(Given(c)) \in Nat \ {0}
    /\ \A i \in DOMAIN Given(c) :
          cut[i] * SumOver(Given(c)) > cents * Given(c)[i] - SumOver(Given(c))

LEMMA ContributionsAre ==
    ASSUME NEW c \in DOMAIN Corpora
    PROVE  \E n \in Nat \ {0} :
              /\ DOMAIN Given(c) = 1 .. n /\ DOMAIN Corpora[c].contributions = 1 .. n
              /\ Given(c) \in [1 .. n -> Nat] /\ IsFiniteSet(1 .. n)
<1>1. PICK gifts : gifts = Corpora[c].contributions
  OBVIOUS
<1>2. gifts \in Seq([units : Nat, payees : SplitPayees]) /\ gifts # <<>>
  BY <1>1, TrainingAssumption, Zenon
<1>3. PICK n \in Nat \ {0} : n = Len(gifts) /\ DOMAIN gifts = 1 .. n
  BY <1>2, EmptySeq, LenProperties
<1>4. \A i \in 1 .. n : gifts[i].units \in Nat
  <2>1. \A i \in 1 .. n : gifts[i] \in [units : Nat, payees : SplitPayees]
    BY <1>2, <1>3, SeqHas, Zenon
  <2> QED  BY <2>1
<1>5. Given(c) = [i \in 1 .. n |-> gifts[i].units]
  BY <1>1, <1>3 DEF Given
<1>6. Given(c) \in [1 .. n -> Nat] /\ DOMAIN Given(c) = 1 .. n
  BY <1>4, <1>5
<1>7. IsFiniteSet(1 .. n)
  BY UpToIsFinite
<1> QED  BY <1>1, <1>3, <1>6, <1>7

\* A corpus that verifies has units.
LEMMA VerifiedHasUnits ==
    ASSUME NEW c \in DOMAIN Corpora, VerifyCorpus(c)
    PROVE  SumOver(Given(c)) \in Nat \ {0}
<1>1. PICK n \in Nat \ {0} : /\ DOMAIN Corpora[c].contributions = 1 .. n
                             /\ Given(c) \in [1 .. n -> Nat] /\ IsFiniteSet(1 .. n)
  BY ContributionsAre
<1>2. PICK N : N = 1 .. n
  OBVIOUS
<1>3. PICK units \in [N -> Nat] : units = Given(c)
  BY <1>1, <1>2
<1>4. 1 \in N /\ units[1] > 0
  BY <1>1, <1>2, <1>3 DEF VerifyCorpus, Given
<1>5. units[1] <= SumOver(units) /\ SumOver(units) \in Nat /\ units[1] \in Nat
  BY <1>1, <1>2, <1>4, EachInSum, Zenon
<1>6. PICK total \in Nat, first \in Nat : total = SumOver(units) /\ first = units[1]
  BY <1>5
<1> QED  BY <1>3, <1>4, <1>5, <1>6

LEMMA AssetsAreCut ==
    ASSUME NEW c \in DOMAIN Corpora, SumOver(Given(c)) \in Nat \ {0}, NEW cents \in Nat
    PROVE  AssetsCut(c, cents, AssetCents(c, cents))
<1>1. PICK n \in Nat \ {0} : /\ DOMAIN Given(c) = 1 .. n
                             /\ Given(c) \in [1 .. n -> Nat] /\ IsFiniteSet(1 .. n)
  BY ContributionsAre
<1>2. PICK units, B : units = Given(c) /\ B = 1 .. n
  OBVIOUS
<1>3. Shared(units, B) /\ DOMAIN units = B
  BY <1>1, <1>2 DEF Shared
<1>4. PICK floored, total : Cuts(floored, cents, units, B, total)
  BY <1>3, SharedIsCut
<1>5. /\ floored \in [B -> Nat] /\ total \in Nat \ {0} /\ total = SumOver(units)
      /\ SumOver(floored) \in 0 .. cents
      /\ \A i \in B : /\ floored[i] = (cents * units[i]) \div total
                      /\ cents * units[i] - total < floored[i] * total
  BY <1>4 DEF Cuts
<1>6. PICK top \in B : top = Largest(units)
  BY <1>1, <1>2, <1>3, LargestIs DEF Shared
<1>7. PICK residue \in Nat : residue = cents - SumOver(floored)
  BY <1>5
<1>8. PICK cut : cut = AssetCents(c, cents)
  OBVIOUS
<1>9. cut = [floored EXCEPT ![top] = @ + cents - SumOver(floored)]
  <2>1. floored = [i \in DOMAIN units |-> (cents * units[i]) \div SumOver(units)]
    BY <1>3, <1>5
  <2> QED  BY <1>2, <1>6, <1>8, <2>1 DEF AssetCents
<1>10. LiftedAt(cut, floored, B, top, residue)
  <2>1. floored[top] + cents - SumOver(floored) = floored[top] + residue
    BY <1>5, <1>7
  <2> QED  BY <1>5, <1>9, <2>1 DEF LiftedAt
<1>11. SumOver(cut) = cents
  <2>1. SumOver(cut) = SumOver(floored) + residue
    BY <1>3, <1>10, SumLifted DEF Shared
  <2> QED  BY <1>5, <1>7, <2>1
<1>12. ASSUME NEW i \in B
       PROVE  cut[i] * total > cents * units[i] - total
  <2>1. PICK u \in Nat, v \in Nat : u = floored[i] /\ v = cut[i] /\ u <= v
    BY <1>10 DEF LiftedAt
  <2>2. total * u <= total * v
    BY <1>5, <2>1, TimesMore
  <2>3. total * u = u * total /\ total * v = v * total /\ u * total \in Nat /\ v * total \in Nat
    BY <1>5, Products
  <2>4. PICK w \in Nat, x \in Nat : x = units[i] /\ w = cents * x
    <3>1. units[i] \in Nat
      BY <1>3 DEF Shared
    <3> QED  BY <3>1, Products
  <2>5. w - total < u * total
    BY <1>5, <2>1, <2>4
  <2> QED  BY <1>5, <2>1, <2>2, <2>3, <2>4, <2>5
<1>13. cut \in [B -> Nat]
  BY <1>10 DEF LiftedAt
<1> QED  BY <1>2, <1>3, <1>5, <1>8, <1>11, <1>12, <1>13, Zenon DEF AssetsCut

LEMMA OnlyOneCounts ==
    ASSUME NEW S, IsFiniteSet(S), NEW f \in [S -> Nat], NEW x \in S, \A i \in S \ {x} : f[i] = 0
    PROVE  SumOver(f) = f[x]
<1>1. {x} \in SUBSET S /\ f[x] \in Nat
  OBVIOUS
<1>2. SumOver(f) = SumOver(Only(f, {x})) + SumOver(Only(f, S \ {x}))
  BY <1>1, SumSplit
<1>3. SumOver(Only(f, {x})) = f[x]
  BY SumOfOne
<1>4. Only(f, S \ {x}) = [i \in S \ {x} |-> 0] /\ IsFiniteSet(S \ {x})
  BY FS_Subset DEF Only
<1>5. SumOver(Only(f, S \ {x})) = 0
  BY <1>4, SumOfZeros
<1> QED  BY <1>1, <1>2, <1>3, <1>5

\* The legs made of each asset's cut, put together in ls.
Made(c, cut, made, ls) ==
    /\ made = [i \in DOMAIN Given(c) |-> PayeeLegs(c, i, cut[i])]
    /\ ls = FlattenSeq(made)

LEMMA OwnAreMade ==
    ASSUME NEW c \in DOMAIN Corpora, NEW cents \in Nat
    PROVE  /\ SumOver(Given(c)) \in Nat
           /\ IF cents = 0 \/ SumOver(Given(c)) = 0 THEN OwnLegs(c, cents) = <<>>
              ELSE \E made : Made(c, AssetCents(c, cents), made, OwnLegs(c, cents))
<1>1. PICK n \in Nat \ {0} : Given(c) \in [1 .. n -> Nat] /\ IsFiniteSet(1 .. n)
  BY ContributionsAre
<1>2. PICK total \in Nat : total = SumOver(Given(c))
  BY <1>1, SumType
<1>3. cents <= 0 <=> cents = 0
  OBVIOUS
<1>4. total <= 0 <=> total = 0
  OBVIOUS
<1>5. CASE cents = 0 \/ total = 0
  BY <1>2, <1>3, <1>4, <1>5 DEF OwnLegs
<1>6. CASE ~(cents = 0 \/ total = 0)
  <2>1. PICK made : made = [i \in DOMAIN Given(c) |-> PayeeLegs(c, i, AssetCents(c, cents)[i])]
    BY Zenon
  <2>2. OwnLegs(c, cents) = FlattenSeq(made)
    BY <1>2, <1>3, <1>4, <1>6, <2>1 DEF OwnLegs
  <2> QED  BY <1>2, <1>6, <2>1, <2>2 DEF Made
<1> QED  BY <1>2, <1>5, <1>6

LEMMA MadeAreLegs ==
    ASSUME NEW c \in DOMAIN Corpora, NEW cut \in [DOMAIN Given(c) -> Nat], NEW made, NEW ls,
           Made(c, cut, made, ls)
    PROVE  /\ DOMAIN made = DOMAIN Given(c) /\ IsFiniteSet(DOMAIN made)
           /\ DOMAIN made = DOMAIN Corpora[c].contributions
           /\ \A i \in DOMAIN made : /\ AssetPaid(c, i, cut[i], made[i])
                                     /\ made[i] \in Seq(TrainingLeg)
           /\ ls \in Seq(CorpusLegs(c)) /\ ls \in Seq(TrainingLeg)
           /\ \A some : Among(ls, some) = SumOver([i \in DOMAIN made |-> Among(made[i], some)])
<1>1. PICK n \in Nat \ {0} : /\ DOMAIN Given(c) = 1 .. n /\ IsFiniteSet(1 .. n)
                             /\ DOMAIN Corpora[c].contributions = 1 .. n
  BY ContributionsAre
<1>2. DOMAIN made = 1 .. n /\ \A i \in 1 .. n : made[i] = PayeeLegs(c, i, cut[i])
  BY <1>1 DEF Made
<1>3. \A i \in 1 .. n : AssetPaid(c, i, cut[i], made[i])
  <2>1. ASSUME NEW i \in 1 .. n
        PROVE  AssetPaid(c, i, cut[i], made[i])
    <3>1. PICK own \in Nat : own = cut[i]
      BY <1>1
    <3>2. AssetPaid(c, i, own, PayeeLegs(c, i, own))
      BY <1>1, AssetIsPaid, Zenon
    <3> QED  BY <1>2, <3>1, <3>2
  <2> QED  BY <2>1
<1>4. \A i \in 1 .. n : made[i] \in Seq(CorpusLegs(c)) /\ made[i] \in Seq(TrainingLeg)
  <2> SUFFICES ASSUME NEW i \in 1 .. n
               PROVE  made[i] \in Seq(CorpusLegs(c)) /\ made[i] \in Seq(TrainingLeg)
    OBVIOUS
  <2>1. made[i] \in Seq(GiftLegs(c, i))
    BY <1>3 DEF AssetPaid
  <2>2. PICK k \in Nat : made[i] \in [1 .. k -> GiftLegs(c, i)]
    BY <2>1, SeqIs
  <2>3. made[i] \in [1 .. k -> CorpusLegs(c)] /\ made[i] \in [1 .. k -> TrainingLeg]
    BY <2>2 DEF GiftLegs, CorpusLegs
  <2> QED  BY <2>3, SeqFrom
<1>5. made = [i \in 1 .. n |-> made[i]]
  BY <1>1 DEF Made
<1>6. made \in Seq(Seq(CorpusLegs(c))) /\ made \in Seq(Seq(TrainingLeg)) /\ made # <<>>
  <2>1. made \in [1 .. n -> Seq(CorpusLegs(c))] /\ made \in [1 .. n -> Seq(TrainingLeg)]
    BY <1>4, <1>5
  <2>2. made \in Seq(Seq(CorpusLegs(c))) /\ made \in Seq(Seq(TrainingLeg))
    BY <2>1, SeqFrom
  <2>3. made # <<>>
    <3>1. 1 \in DOMAIN made /\ DOMAIN <<>> = {}
      BY <1>2
    <3> QED  BY <3>1
  <2> QED  BY <2>2, <2>3
<1>7. ls \in Seq(CorpusLegs(c))
  <2>1. PICK L : L = CorpusLegs(c)
    OBVIOUS
  <2>3. PICK w \in [L -> Nat] : TRUE
    <3>1. [l \in L |-> 0] \in [L -> Nat]
      OBVIOUS
    <3> QED  BY <3>1, Zenon
  <2>2. FlattenSeq(made) \in Seq(L)
    BY <1>6, <2>1, <2>3, WeightOfFlat, Zenon
  <2> QED  BY <2>1, <2>2 DEF Made
<1>8. ls \in Seq(TrainingLeg)
  BY <1>7, AllAmong DEF CorpusLegs
<1>9. ASSUME NEW some
      PROVE  Among(ls, some) = SumOver([i \in DOMAIN made |-> Among(made[i], some)])
  <2>1. PICK w \in [TrainingLeg -> Nat] : w = CentsAmong(some)
    BY <1>8, LegsAmong, Zenon
  <2>2. WeightOf(w, FlattenSeq(made)) = SumOver([i \in DOMAIN made |-> WeightOf(w, made[i])])
    <3>1. PICK L, seqs : L = TrainingLeg /\ seqs = made
      OBVIOUS
    <3>2. seqs \in Seq(Seq(L)) /\ seqs # <<>> /\ w \in [L -> Nat]
      BY <1>6, <3>1
    <3>3. WeightOf(w, FlattenSeq(seqs)) = SumOver([i \in DOMAIN seqs |-> WeightOf(w, seqs[i])])
      BY <3>2, WeightOfFlat
    <3> QED  BY <3>1, <3>3
  <2> QED  BY <2>1, <2>2 DEF Made, Among
<1> QED  BY <1>1, <1>2, <1>3, <1>4, <1>7, <1>8, <1>9

\* A payee's legs of an asset.
PayeesLegs(c, i, a) == {l \in GiftLegs(c, i) : l.account = a}

\* Legs that add up to what was to be shared bring each asset its cut, and each
\* payee its part of that.
GiftPaid(c, i, cents, ls) ==
    LET payees == Corpora[c].contributions[i].payees
        got == Among(ls, GiftLegs(c, i))
        total == SumOver(Given(c))
    IN  /\ got * total > cents * Given(c)[i] - total
        /\ \A k \in DOMAIN payees :
              Among(ls, PayeesLegs(c, i, payees[k].account)) >= Part(got, payees[k].bps)

LEMMA OneAssetIsPaid ==
    ASSUME NEW c \in DOMAIN Corpora, NEW cut \in [DOMAIN Given(c) -> Nat], NEW made, NEW ls,
           Made(c, cut, made, ls), NEW i \in DOMAIN Given(c)
    PROVE  /\ \A some \in SUBSET GiftLegs(c, i) : Among(ls, some) = Among(made[i], some)
           /\ Among(ls, GiftLegs(c, i)) = CentsOf(made[i]) /\ CentsOf(made[i]) \in Nat
           /\ Among(made[i], TrainingLeg) = CentsOf(made[i])
           /\ \A a : Among(ls, PayeesLegs(c, i, a)) = CentsTo(made[i], a)
<1>1. PICK D : /\ D = DOMAIN made /\ D = DOMAIN Given(c) /\ IsFiniteSet(D)
               /\ \A j \in D : made[j] \in Seq(GiftLegs(c, j)) /\ made[j] \in Seq(TrainingLeg)
  BY MadeAreLegs DEF AssetPaid
<1>2. \A some : Among(ls, some) = SumOver([j \in D |-> Among(made[j], some)])
  BY <1>1, MadeAreLegs
<1>3. ASSUME NEW some \in SUBSET GiftLegs(c, i)
      PROVE  Among(ls, some) = Among(made[i], some)
  <2>1. \A j \in D : Among(made[j], some) \in Nat
    BY <1>1, LegsAmong, Zenon
  <2>2. PICK f \in [D -> Nat] : f = [j \in D |-> Among(made[j], some)]
    BY <2>1, Zenon
  <2>3. ASSUME NEW j \in D \ {i}
        PROVE  f[j] = 0
    <3>1. PICK those \in SUBSET TrainingLeg : those = GiftLegs(c, j)
      BY Zenon DEF GiftLegs, CorpusLegs
    <3>2. those \intersect some = {} /\ made[j] \in Seq(those)
      BY <1>1, <3>1, Zenon DEF GiftLegs
    <3>3. Among(made[j], some) = 0
      BY <3>2, AllAmong
    <3> QED  BY <2>2, <3>3
  <2>4. i \in D
    BY <1>1
  <2>5. SumOver(f) = f[i]
    BY <1>1, <2>3, <2>4, OnlyOneCounts
  <2> QED  BY <1>2, <2>2, <2>4, <2>5
<1>4. PICK those \in SUBSET TrainingLeg : those = GiftLegs(c, i)
  BY Zenon DEF GiftLegs, CorpusLegs
<1>5. PICK l : l = made[i] /\ l \in Seq(those) /\ l \in Seq(TrainingLeg)
  BY <1>1, <1>4
<1>6. CentsOf(l) \in Nat /\ \A some : those \subseteq some => Among(l, some) = CentsOf(l)
  BY <1>5, AllAmong, Zenon
<1>7. Among(l, those) = CentsOf(l) /\ Among(l, TrainingLeg) = CentsOf(l)
  BY <1>6
<1>8. ASSUME NEW a
      PROVE  Among(ls, PayeesLegs(c, i, a)) = CentsTo(l, a)
  <2>1. \A n \in DOMAIN l : l[n] \in those
    BY <1>5, SeqHas
  <2>2. LegsTo(l, a) = {n \in DOMAIN l : l[n] \in PayeesLegs(c, i, a)}
    BY <1>4, <2>1 DEF LegsTo, PayeesLegs
  <2>3. CentsIn(l, {n \in DOMAIN l : l[n] \in PayeesLegs(c, i, a)})
            = Among(l, PayeesLegs(c, i, a))
    BY <1>5, LegsAmong, Zenon
  <2>4. CentsTo(l, a) = CentsIn(l, LegsTo(l, a))
    BY DEF CentsTo, CentsIn
  <2>5. Among(ls, PayeesLegs(c, i, a)) = Among(l, PayeesLegs(c, i, a))
    <3>1. PayeesLegs(c, i, a) \in SUBSET GiftLegs(c, i)
      BY DEF PayeesLegs
    <3> QED  BY <1>3, <1>5, <3>1
  <2> QED  BY <2>2, <2>3, <2>4, <2>5
<1>9. Among(ls, GiftLegs(c, i)) = Among(l, those)
  BY <1>3, <1>4, <1>5
<1> QED  BY <1>3, <1>5, <1>6, <1>7, <1>8, <1>9

LEMMA WhoIsOwedIsPaid ==
    ASSUME NEW c \in DOMAIN Corpora, VerifyCorpus(c), NEW cents \in Nat \ {0}, NEW ls,
           ls = OwnLegs(c, cents), CentsOf(ls) = cents
    PROVE  \A i \in DOMAIN Given(c) : GiftPaid(c, i, cents, ls)
<1>1. SumOver(Given(c)) \in Nat \ {0}
  BY VerifiedHasUnits
<1>2. PICK cut : cut = AssetCents(c, cents) /\ AssetsCut(c, cents, cut)
  BY <1>1, AssetsAreCut
<1>3. PICK D : D = DOMAIN Given(c)
  OBVIOUS
<1>4. /\ cut \in [D -> Nat] /\ SumOver(cut) = cents
      /\ \A i \in D : cut[i] * SumOver(Given(c)) > cents * Given(c)[i] - SumOver(Given(c))
  BY <1>2, <1>3 DEF AssetsCut
<1>5. PICK made : Made(c, cut, made, ls)
  BY <1>1, <1>2, OwnAreMade
<1>6. /\ D = DOMAIN made /\ D = DOMAIN Corpora[c].contributions /\ IsFiniteSet(D)
      /\ \A i \in D : AssetPaid(c, i, cut[i], made[i])
      /\ Among(ls, TrainingLeg) = SumOver([i \in D |-> Among(made[i], TrainingLeg)])
      /\ ls \in Seq(CorpusLegs(c))
  BY <1>3, <1>4, <1>5, MadeAreLegs
<1>7. \A i \in D : /\ Among(ls, GiftLegs(c, i)) = CentsOf(made[i]) /\ CentsOf(made[i]) \in Nat
                   /\ Among(made[i], TrainingLeg) = CentsOf(made[i])
                   /\ \A a : Among(ls, PayeesLegs(c, i, a)) = CentsTo(made[i], a)
  BY <1>3, <1>4, <1>5, OneAssetIsPaid
<1>8. PICK f \in [D -> Nat] : f = [i \in D |-> Among(made[i], TrainingLeg)]
                              /\ \A i \in D : f[i] = CentsOf(made[i])
  <2>1. [i \in D |-> Among(made[i], TrainingLeg)] \in [D -> Nat]
    BY <1>7
  <2> QED  BY <1>7, <2>1, Zenon
<1>9. SumOver(f) = cents
  <2>1. Among(ls, TrainingLeg) = CentsOf(ls)
    <3>1. PICK those \in SUBSET TrainingLeg : those = CorpusLegs(c)
      BY Zenon DEF CorpusLegs
    <3> QED  BY <1>6, <3>1, AllAmong
  <2> QED  BY <1>6, <1>8, <2>1
<1>10. \A i \in D : f[i] <= cut[i]
  <2> SUFFICES ASSUME NEW i \in D
               PROVE  f[i] <= cut[i]
    OBVIOUS
  <2>1. BpsOf(Corpora[c].contributions[i].payees) = Whole
    BY <1>6 DEF VerifyCorpus
  <2> QED  BY <1>6, <1>8, <2>1, Zenon DEF AssetPaid
<1>11. \A i \in D : f[i] = cut[i]
  <2>1. SumOver(f) = SumOver(cut)
    BY <1>4, <1>9
  <2>2. PICK g \in [D -> Nat] : g = cut
    BY <1>4
  <2>3. SumOver(f) = SumOver(g) /\ \A i \in D : f[i] <= g[i]
    BY <1>10, <2>1, <2>2
  <2>4. IsFiniteSet(D)
    BY <1>6
  <2>5. \A i \in D : f[i] = g[i]
    BY <2>3, <2>4, EqualSums
  <2> QED  BY <2>2, <2>5
<1>12. ASSUME NEW i \in D
       PROVE  GiftPaid(c, i, cents, ls)
  <2>1. Among(ls, GiftLegs(c, i)) = cut[i]
    BY <1>7, <1>8, <1>11
  <2>2. \A k \in DOMAIN Corpora[c].contributions[i].payees :
            Among(ls, PayeesLegs(c, i, Corpora[c].contributions[i].payees[k].account))
                >= Part(cut[i], Corpora[c].contributions[i].payees[k].bps)
    BY <1>6, <1>7 DEF AssetPaid
  <2> QED  BY <1>4, <2>1, <2>2 DEF GiftPaid
<1> QED  BY <1>3, <1>12

LEMMA OwnLegsAre ==
    ASSUME NEW c \in DOMAIN Corpora, NEW cents \in Nat
    PROVE  OwnLegs(c, cents) \in Seq(CorpusLegs(c))
<1>1. CASE cents = 0 \/ SumOver(Given(c)) = 0
  <2>1. OwnLegs(c, cents) = <<>>
    BY <1>1, OwnAreMade
  <2> QED  BY <2>1, EmptySeq
<1>2. CASE ~(cents = 0 \/ SumOver(Given(c)) = 0)
  <2>1. SumOver(Given(c)) \in Nat \ {0}
    BY <1>2, OwnAreMade
  <2>2. PICK cut \in [DOMAIN Given(c) -> Nat] : cut = AssetCents(c, cents)
    BY <2>1, AssetsAreCut DEF AssetsCut
  <2>3. PICK made : Made(c, cut, made, OwnLegs(c, cents))
    BY <1>2, <2>2, OwnAreMade
  <2> QED  BY <2>3, MadeAreLegs
<1> QED  BY <1>1, <1>2

\* The base's share reaches the base, and is less than the pool.
LEMMA BaseIsPaid ==
    ASSUME NEW c \in DOMAIN Corpora, NEW cents \in Nat \ {0},
           NEW base \in DOMAIN Corpora \union {NoBase}, CanDistribute(c, cents, base)
    PROVE  LET u == BaseLegs(c, cents)
           IN  /\ u \in Seq(CorpusLegs(Corpora[c].base))
               /\ CentsOf(u) = Part(cents, Corpora[c].share)
               /\ CentsOf(u) \in Nat /\ CentsOf(u) < cents
<1>1. PICK share \in Nat, whole \in Nat \ {0} :
          share = Corpora[c].share /\ whole = Whole /\ share + 1 <= whole
  BY TrainingAssumption, WholeAssumption
<1>2. PICK part \in Nat : part = Part(cents, share) /\ part < cents
  <2>1. PICK p \in Nat : p = Part(cents, share) /\ whole * p <= cents * share
    BY <1>1, PartBounds, Zenon
  <2>2. SUFFICES ASSUME cents <= p
                 PROVE  FALSE
    BY <2>1
  <2>3. whole * cents <= whole * p
    BY <2>2, TimesMore
  <2>4. cents * (share + 1) <= cents * whole
    BY <1>1, TimesMore
  <2>5. /\ cents * (share + 1) = cents * share + cents /\ cents * share \in Nat
        /\ whole * p \in Nat /\ cents * whole = whole * cents /\ cents * whole \in Nat
    BY Products
  <2> QED  BY <2>1, <2>3, <2>4, <2>5
<1>3. BaseCents(c, cents) = part
  BY <1>1, <1>2 DEF BaseCents
<1>4. PICK u : u = BaseLegs(c, cents)
  OBVIOUS
<1>5. CASE share = 0
  <2>1. u = <<>>
    BY <1>1, <1>4, <1>5 DEF BaseLegs
  <2>2. part = 0
    <3>1. cents * 0 = 0 /\ 0 \div whole = 0
      OBVIOUS
    <3> QED  BY <1>1, <1>2, <1>5, <3>1 DEF Part
  <2>3. u \in Seq(CorpusLegs(Corpora[c].base)) /\ CentsOf(u) = 0
    BY <2>1, EmptySeq, NoLegs
  <2> QED  BY <1>1, <1>2, <1>4, <2>2, <2>3
<1>6. CASE share # 0
  <2>1. base \in DOMAIN Corpora /\ base = Corpora[c].base
    BY <1>1, <1>6 DEF CanDistribute
  <2>2. u = OwnLegs(base, part)
    BY <1>1, <1>3, <1>4, <1>6, <2>1 DEF BaseLegs
  <2>3. u \in Seq(CorpusLegs(base))
    BY <2>1, <2>2, OwnLegsAre
  <2>4. CentsOf(u) = part
    <3>1. CASE part = 0
      <4>1. u = <<>>
        BY <2>1, <2>2, <3>1, OwnAreMade
      <4> QED  BY <3>1, <4>1, NoLegs
    <3>2. CASE part # 0
      BY <1>1, <1>3, <1>4, <1>6, <3>2 DEF CanDistribute, Conserved
    <3> QED  BY <3>1, <3>2
  <2> QED  BY <1>1, <1>2, <1>4, <2>1, <2>3, <2>4
<1> QED  BY <1>5, <1>6

\* Where the legs of a corpus, an asset and a payee of it are.
LEMMA LegsByKind ==
    ASSUME NEW ls \in Seq(TrainingLeg), NEW c, NEW i, NEW a
    PROVE  /\ CentsIn(ls, OfCorpus(ls, c)) = Among(ls, CorpusLegs(c))
           /\ CentsIn(ls, OfAsset(ls, c, i)) = Among(ls, GiftLegs(c, i))
           /\ CentsIn(ls, OfAsset(ls, c, i) \intersect LegsTo(ls, a))
                  = Among(ls, PayeesLegs(c, i, a))
<1>1. \A n \in DOMAIN ls : ls[n] \in TrainingLeg
  BY SeqHas
<1>2. /\ OfCorpus(ls, c) = {n \in DOMAIN ls : ls[n] \in CorpusLegs(c)}
      /\ OfAsset(ls, c, i) = {n \in DOMAIN ls : ls[n] \in GiftLegs(c, i)}
  BY <1>1 DEF OfCorpus, OfAsset, CorpusLegs, GiftLegs
<1>3. OfAsset(ls, c, i) \intersect LegsTo(ls, a)
          = {n \in DOMAIN ls : ls[n] \in PayeesLegs(c, i, a)}
  BY <1>1 DEF OfCorpus, OfAsset, CorpusLegs, GiftLegs, LegsTo, PayeesLegs
<1> QED  BY <1>2, <1>3, LegsAmong, Zenon

LEMMA AmongBoth ==
    ASSUME NEW u \in Seq(TrainingLeg), NEW v \in Seq(TrainingLeg), NEW some
    PROVE  /\ u \o v \in Seq(TrainingLeg)
           /\ Among(u \o v, some) = Among(u, some) + Among(v, some)
           /\ Among(u, some) \in Nat /\ Among(v, some) \in Nat
<1>1. PICK w \in [TrainingLeg -> Nat] : w = CentsAmong(some)
  BY LegsAmong, Zenon
<1>2. u \o v \in Seq(TrainingLeg)
      /\ WeightOf(w, u \o v) = WeightOf(w, u) + WeightOf(w, v)
  BY WeightOfConcat, Zenon
<1> QED  BY <1>1, <1>2, LegsAmong, Zenon DEF Among

LEMMA PoolReachesTeachers ==
    ASSUME NEW c \in DOMAIN Corpora, VerifyCorpus(c), NEW cents \in Nat \ {0},
           NEW base \in DOMAIN Corpora \union {NoBase}, CanDistribute(c, cents, base)
    PROVE  LET ls == Distributed(c, cents)
           IN  /\ ls \in Seq(TrainingLeg) /\ CentsOf(ls) = cents
               /\ TeachersArePaid(c, cents, ls)
<1>1. PICK u : u = BaseLegs(c, cents)
  OBVIOUS
<1>2. PICK b : b = Corpora[c].base /\ b # c
  BY TrainingAssumption
<1>3. /\ u \in Seq(CorpusLegs(b)) /\ CentsOf(u) = Part(cents, Corpora[c].share)
      /\ CentsOf(u) \in Nat /\ CentsOf(u) < cents
  BY <1>1, <1>2, BaseIsPaid
<1>4. PICK own \in Nat \ {0} : own = cents - CentsOf(u)
  BY <1>3
<1>5. PICK v : v = OwnLegs(c, own) /\ v \in Seq(CorpusLegs(c))
  BY OwnLegsAre
<1>6. PICK ls : ls = u \o v /\ ls = Distributed(c, cents)
  BY <1>1, <1>4, <1>5, Zenon DEF Distributed
<1>7. PICK B \in SUBSET TrainingLeg, C \in SUBSET TrainingLeg :
          B = CorpusLegs(b) /\ C = CorpusLegs(c) /\ B \intersect C = {} /\ C \intersect B = {}
  <2>1. CorpusLegs(b) \in SUBSET TrainingLeg /\ CorpusLegs(c) \in SUBSET TrainingLeg
    BY DEF CorpusLegs
  <2>2. /\ CorpusLegs(b) \intersect CorpusLegs(c) = {}
        /\ CorpusLegs(c) \intersect CorpusLegs(b) = {}
    BY <1>2 DEF CorpusLegs
  <2> QED  BY <2>1, <2>2
<1>8. u \in Seq(B) /\ v \in Seq(C)
  BY <1>3, <1>5, <1>7
<1>9. /\ u \in Seq(TrainingLeg) /\ v \in Seq(TrainingLeg) /\ CentsOf(v) \in Nat
      /\ \A some : B \subseteq some => Among(u, some) = CentsOf(u)
      /\ \A some : B \intersect some = {} => Among(u, some) = 0
      /\ \A some : C \subseteq some => Among(v, some) = CentsOf(v)
      /\ \A some : C \intersect some = {} => Among(v, some) = 0
  BY <1>8, AllAmong
<1>10. /\ ls \in Seq(TrainingLeg)
       /\ \A some : /\ Among(ls, some) = Among(u, some) + Among(v, some)
                    /\ Among(u, some) \in Nat /\ Among(v, some) \in Nat
  <2>1. u \in Seq(TrainingLeg) /\ v \in Seq(TrainingLeg)
    BY <1>9
  <2>2. ASSUME NEW some
        PROVE  /\ u \o v \in Seq(TrainingLeg)
               /\ Among(u \o v, some) = Among(u, some) + Among(v, some)
               /\ Among(u, some) \in Nat /\ Among(v, some) \in Nat
    BY <2>1, AmongBoth
  <2> QED  BY <1>6, <2>2
<1>11. CentsOf(ls) = cents
  BY <1>6 DEF CanDistribute, Conserved
<1>12. CentsOf(v) = own
  <2>1. Among(ls, TrainingLeg) = CentsOf(ls)
    BY <1>10, AllAmong
  <2>2. Among(ls, TrainingLeg) = Among(u, TrainingLeg) + Among(v, TrainingLeg)
    BY <1>10
  <2>3. Among(u, TrainingLeg) = CentsOf(u) /\ Among(v, TrainingLeg) = CentsOf(v)
    BY <1>7, <1>9
  <2> QED  BY <1>3, <1>4, <1>9, <1>11, <2>1, <2>2, <2>3
<1>13. CentsIn(ls, OfCorpus(ls, b)) = CentsOf(u)
  <2>1. CentsIn(ls, OfCorpus(ls, b)) = Among(ls, B)
    BY <1>7, <1>10, LegsByKind, Zenon
  <2>2. Among(ls, B) = Among(u, B) + Among(v, B)
    BY <1>10
  <2>3. Among(u, B) = CentsOf(u) /\ Among(v, B) = 0
    BY <1>7, <1>9
  <2> QED  BY <1>3, <2>1, <2>2, <2>3
<1>14. \A i \in DOMAIN Given(c) : GiftPaid(c, i, own, v)
  BY <1>5, <1>12, WhoIsOwedIsPaid
<1>15. ASSUME NEW i \in DOMAIN Given(c)
       PROVE  /\ CentsIn(ls, OfAsset(ls, c, i)) = Among(v, GiftLegs(c, i))
              /\ \A a : CentsIn(ls, OfAsset(ls, c, i) \intersect LegsTo(ls, a))
                            = Among(v, PayeesLegs(c, i, a))
  <2>1. ASSUME NEW some, some \subseteq C
        PROVE  Among(ls, some) = Among(v, some)
    <3>1. Among(u, some) = 0
      BY <1>7, <1>9, <2>1
    <3>2. Among(ls, some) = Among(u, some) + Among(v, some) /\ Among(v, some) \in Nat
      BY <1>10
    <3> QED  BY <3>1, <3>2
  <2>2. GiftLegs(c, i) \subseteq C /\ \A a : PayeesLegs(c, i, a) \subseteq C
    BY <1>7 DEF GiftLegs, PayeesLegs
  <2>3. CentsIn(ls, OfAsset(ls, c, i)) = Among(ls, GiftLegs(c, i))
        /\ \A a : CentsIn(ls, OfAsset(ls, c, i) \intersect LegsTo(ls, a))
                      = Among(ls, PayeesLegs(c, i, a))
    <3>1. ls \in Seq(TrainingLeg)
      BY <1>10
    <3>2. CentsIn(ls, OfAsset(ls, c, i)) = Among(ls, GiftLegs(c, i))
      BY <3>1, LegsByKind, Zenon
    <3>3. ASSUME NEW a
          PROVE  CentsIn(ls, OfAsset(ls, c, i) \intersect LegsTo(ls, a))
                     = Among(ls, PayeesLegs(c, i, a))
      BY <3>1, LegsByKind
    <3> QED  BY <3>2, <3>3
  <2> QED  BY <2>1, <2>2, <2>3
<1>16. ASSUME NEW i \in DOMAIN Given(c)
       PROVE  LET got == CentsIn(ls, OfAsset(ls, c, i))
                  payees == Corpora[c].contributions[i].payees
              IN  /\ got * SumOver(Given(c)) > own * Given(c)[i] - SumOver(Given(c))
                  /\ \A k \in DOMAIN payees :
                        CentsIn(ls, OfAsset(ls, c, i) \intersect LegsTo(ls, payees[k].account))
                            >= Part(got, payees[k].bps)
  BY <1>14, <1>15 DEF GiftPaid
<1>17. TeachersArePaid(c, cents, ls)
  BY <1>2, <1>3, <1>4, <1>13, <1>16, Zenon DEF TeachersArePaid
<1> QED  BY <1>6, <1>10, <1>11, <1>17

\* What the legs bring the accounts is what they carry.
LEMMA LegsByAccount ==
    ASSUME NEW ls \in Seq(TrainingLeg)
    PROVE  /\ SumOver([a \in Teachers |-> CentsTo(ls, a)]) = CentsOf(ls)
           /\ [a \in Teachers |-> CentsTo(ls, a)] \in [Teachers -> Nat]
<1>1. PICK m \in Nat : ls \in [1 .. m -> TrainingLeg]
  BY SeqIs
<1>2. IsFiniteSet(DOMAIN ls)
  BY <1>1, FS_Interval
<1>3. \A n \in DOMAIN ls : ls[n].account \in Teachers /\ ls[n].cents \in Nat
  BY <1>1 DEF TrainingLeg
<1>4. /\ SumOver([a \in Teachers |-> CentsTo(ls, a)]) = CentsOf(ls)
      /\ \A a \in Teachers : CentsTo(ls, a) \in Nat
  BY <1>2, <1>3, PaidInAccounts, TrainingAssumption
<1> QED  BY <1>4

TrainingInv ==
    /\ pool \in [Models -> Nat] /\ earned \in [Models -> Nat] /\ disbursed \in [Models -> Nat]
    /\ credited \in [Teachers -> Nat]
    /\ RoyaltiesReachTeachers

LEMMA TrainingStarts == TrainingInit => TrainingInv
<1> SUFFICES ASSUME TrainingInit
             PROVE  TrainingInv
  OBVIOUS
<1>1. /\ pool = [m \in Models |-> 0] /\ earned = [m \in Models |-> 0]
      /\ disbursed = [m \in Models |-> 0] /\ credited = [a \in Teachers |-> 0]
  BY DEF TrainingInit
<1>2. SumOver(credited) = 0 /\ SumOver(disbursed) = 0
  BY <1>1, SumOfZeros, TrainingAssumption
<1>3. RoyaltiesReachTeachers
  BY <1>1, <1>2 DEF RoyaltiesReachTeachers, TrainingInit
<1> QED  BY <1>1, <1>3 DEF TrainingInv

LEMMA UsageKeeps ==
    ASSUME TrainingInv, NEW m \in Models, NEW use, NEW fee \in UseFees,
           NEW share \in TrainingShares, RecordUsage(m, use, fee, share)
    PROVE  TrainingInv'
<1>1. PICK accrued \in Nat : accrued = Part(fee, share)
  <2>1. fee \in Nat /\ share \in Nat
    BY TrainingAssumption, WholeAssumption
  <2> QED  BY <2>1, PartBounds
<1>2. /\ pool' = [pool EXCEPT ![m] = @ + accrued] /\ earned' = [earned EXCEPT ![m] = @ + accrued]
      /\ disbursed' = disbursed /\ credited' = credited /\ settled' = settled
  BY <1>1 DEF RecordUsage
<1>3. /\ pool' \in [Models -> Nat] /\ earned' \in [Models -> Nat]
      /\ disbursed' \in [Models -> Nat] /\ credited' \in [Teachers -> Nat]
      /\ \A n \in Models : earned'[n] = pool'[n] + disbursed'[n]
  BY <1>2 DEF TrainingInv, RoyaltiesReachTeachers
<1> QED  BY <1>2, <1>3 DEF TrainingInv, RoyaltiesReachTeachers

LEMMA SettlingKeeps ==
    ASSUME TrainingInv, NEW c \in DOMAIN Corpora, NEW base \in DOMAIN Corpora \union {NoBase},
           SettleModel(c, base)
    PROVE  TrainingInv'
<1>1. PICK m \in Models, cents \in Nat \ {0} : m = Corpora[c].model /\ cents = pool[m]
  <2>1. Corpora[c].model \in Models
    BY TrainingAssumption
  <2> QED  BY <2>1 DEF SettleModel, TrainingInv
<1>2. VerifyCorpus(c) /\ CanDistribute(c, cents, base)
  BY <1>1 DEF SettleModel
<1>3. PICK ls : ls = Distributed(c, cents)
  OBVIOUS
<1>4. ls \in Seq(TrainingLeg) /\ CentsOf(ls) = cents /\ TeachersArePaid(c, cents, ls)
  BY <1>2, <1>3, PoolReachesTeachers
<1>5. /\ settled' = [corpus |-> c, cents |-> cents, legs |-> ls]
      /\ credited' = [a \in Teachers |-> credited[a] + CentsTo(ls, a)]
      /\ disbursed' = [disbursed EXCEPT ![m] = @ + cents]
      /\ pool' = [pool EXCEPT ![m] = 0] /\ earned' = earned
  BY <1>1, <1>3 DEF SettleModel
<1>6. PICK got \in [Teachers -> Nat] : /\ got = [a \in Teachers |-> CentsTo(ls, a)]
                                       /\ SumOver(got) = cents
  BY <1>4, LegsByAccount, Zenon
<1>7. credited' \in [Teachers -> Nat] /\ \A a \in Teachers : credited'[a] = credited[a] + got[a]
  BY <1>5, <1>6 DEF TrainingInv
<1>8. SumOver(credited') = SumOver(credited) + cents
  <2>1. PICK f \in [Teachers -> Nat], h \in [Teachers -> Nat] : f = credited /\ h = credited'
    BY <1>7 DEF TrainingInv
  <2>2. SumOver(h) = SumOver(f) + SumOver(got)
    <3>1. PICK T : T = Teachers /\ IsFiniteSet(T)
      BY TrainingAssumption
    <3>2. \A a \in T : h[a] = f[a] + got[a]
      BY <1>7, <2>1, <3>1
    <3> QED  BY <3>1, <3>2, SumPlusOf
  <2> QED  BY <1>6, <2>1, <2>2
<1>9. SumOver(disbursed') = SumOver(disbursed) + cents
  <2>1. LiftedAt(disbursed', disbursed, Models, m, cents)
    BY <1>5 DEF LiftedAt, TrainingInv
  <2> QED  BY <2>1, SumLifted, TrainingAssumption
<1>10. /\ pool' \in [Models -> Nat] /\ earned' \in [Models -> Nat]
       /\ disbursed' \in [Models -> Nat]
       /\ \A n \in Models : earned'[n] = pool'[n] + disbursed'[n]
  <2>1. /\ pool \in [Models -> Nat] /\ earned \in [Models -> Nat]
        /\ disbursed \in [Models -> Nat]
        /\ \A n \in Models : earned[n] = pool[n] + disbursed[n]
    BY DEF TrainingInv, RoyaltiesReachTeachers
  <2> QED  BY <1>1, <1>5, <2>1
<1>11. TeachersArePaid(settled'.corpus, settled'.cents, settled'.legs)
  BY <1>4, <1>5
<1> QED  BY <1>7, <1>8, <1>9, <1>10, <1>11 DEF TrainingInv, RoyaltiesReachTeachers

LEMMA TrainingKeeps == TrainingInv /\ [TrainingNext]_trainingVars => TrainingInv'
<1> SUFFICES ASSUME TrainingInv, [TrainingNext]_trainingVars
             PROVE  TrainingInv'
  OBVIOUS
<1>1. ASSUME NEW m \in Models, NEW use \in Uses, NEW fee \in UseFees,
             NEW share \in TrainingShares, RecordUsage(m, use, fee, share)
      PROVE  TrainingInv'
  BY <1>1, UsageKeeps
<1>2. ASSUME NEW c \in DOMAIN Corpora, NEW base \in DOMAIN Corpora \union {NoBase},
             SettleModel(c, base)
      PROVE  TrainingInv'
  BY <1>2, SettlingKeeps
<1>3. CASE UNCHANGED trainingVars
  BY <1>3 DEF trainingVars, TrainingInv, RoyaltiesReachTeachers
<1> QED  BY <1>1, <1>2, <1>3 DEF TrainingNext

\* Whatever corpora there are, and however often models are used and settled: a
\* model's pool and what it disbursed is what it earned, what was disbursed was
\* credited, and each settlement brought the base its share, each asset its part
\* and each payee its bps of that (training.py:222, 264, 300).
THEOREM TeachersAlwaysPaid == TrainingSpec => []RoyaltiesReachTeachers
<1>1. TrainingInv => RoyaltiesReachTeachers
  BY DEF TrainingInv
<1> QED  BY <1>1, TrainingStarts, TrainingKeeps, PTL DEF TrainingSpec

-----------------------------------------------------------------------------
(***************************************************************************)
(* Earnings: what was paid, summed up by account and by asset.             *)
(***************************************************************************)
LEMMA SameCents ==
    ASSUME NEW p, NEW q, DOMAIN p = DOMAIN q,
           \A n \in DOMAIN p : p[n].account = q[n].account /\ p[n].cents = q[n].cents
    PROVE  CentsOf(p) = CentsOf(q) /\ \A a : CentsTo(p, a) = CentsTo(q, a)
<1>1. CentsOf(p) = CentsOf(q)
  <2>1. [n \in DOMAIN p |-> p[n].cents] = [n \in DOMAIN q |-> q[n].cents]
    OBVIOUS
  <2> QED  BY <2>1 DEF CentsOf
<1>2. ASSUME NEW a
      PROVE  CentsTo(p, a) = CentsTo(q, a)
  <2>1. LegsTo(p, a) = LegsTo(q, a)
    BY DEF LegsTo
  <2>2. [n \in LegsTo(p, a) |-> p[n].cents] = [n \in LegsTo(q, a) |-> q[n].cents]
    BY <2>1 DEF LegsTo
  <2> QED  BY <2>2 DEF CentsTo
<1> QED  BY <1>1, <1>2

LEMMA ByAccountPays ==
    ASSUME NEW ls, IsFiniteSet(DOMAIN ls), \A i \in DOMAIN ls : ls[i].cents \in Nat
    PROVE  SumOver(ByAccount(ls)) = CentsOf(ls)
<1> DEFINE to == [i \in DOMAIN ls |-> ls[i].account]
<1>1. PICK K : K = {ls[i].account : i \in DOMAIN ls}
  OBVIOUS
<1>2. to \in Surjection(DOMAIN ls, K)
  BY <1>1 DEF Surjection
<1> HIDE DEF to
<1>3. IsFiniteSet(K)
  BY <1>2, FS_Surjection
<1>4. \A i \in DOMAIN ls : ls[i].account \in K /\ ls[i].cents \in Nat
  BY <1>1
<1>5. SumOver([a \in K |-> CentsTo(ls, a)]) = CentsOf(ls)
  BY <1>3, <1>4, PaidInAccounts
<1> QED  BY <1>1, <1>5 DEF ByAccount

\* A creator's designs add up to what the creator got.
LEMMA ByAssetPays ==
    ASSUME NEW ls, IsFiniteSet(DOMAIN ls), \A i \in DOMAIN ls : ls[i].cents \in Nat, NEW a
    PROVE  SumOver(CreatorEarnings(ls, a)) = CentsTo(ls, a)
<1> DEFINE to == [n \in LegsTo(ls, a) |-> ls[n].asset]
           f == [n \in LegsTo(ls, a) |-> ls[n].cents]
<1>1. PICK S, K : S = LegsTo(ls, a) /\ K = {ls[n].asset : n \in S}
  OBVIOUS
<1>2. S \subseteq DOMAIN ls
  BY <1>1 DEF LegsTo
<1>3. IsFiniteSet(S) /\ f \in [S -> Nat] /\ \A n \in S : f[n] = ls[n].cents
  BY <1>1, <1>2, FS_Subset
<1>4. to \in Surjection(S, K) /\ to \in [S -> K] /\ \A n \in S : to[n] = ls[n].asset
  BY <1>1 DEF Surjection
<1>5. CentsTo(ls, a) = SumOver(f)
  BY DEF CentsTo
<1> HIDE DEF to, f
<1>6. IsFiniteSet(K)
  BY <1>3, <1>4, FS_Surjection
<1>7. SumOver([k \in K |-> SumOver(Only(f, {n \in S : to[n] = k}))]) = SumOver(f)
  BY <1>3, <1>4, <1>6, SumByKey
<1>8. ASSUME NEW k
      PROVE  Only(f, {n \in S : to[n] = k}) = [n \in {m \in S : ls[m].asset = k} |-> ls[n].cents]
  <2>1. {n \in S : to[n] = k} = {m \in S : ls[m].asset = k}
    BY <1>4
  <2> QED  BY <1>3, <2>1 DEF Only
<1>9. CreatorEarnings(ls, a) = [k \in K |-> SumOver(Only(f, {n \in S : to[n] = k}))]
  <2>1. CreatorEarnings(ls, a)
            = [k \in K |-> SumOver([n \in {m \in S : ls[m].asset = k} |-> ls[n].cents])]
    BY <1>1 DEF CreatorEarnings
  <2> QED  BY <1>8, <2>1
<1> QED  BY <1>5, <1>7, <1>9

\* The legs of a line by the split of its asset, and what a job brings an account
\* in them: the journal's legs, which are made again whenever somebody looks.
LineLegsBy(split, line) ==
    LET paid == InOrder({a \in Accounts : Part(line.cents, split[a]) > 0})
        floored == [i \in DOMAIN paid |-> Leg(paid[i], Part(line.cents, split[paid[i]]))]
        residue == line.cents - CentsOf(floored)
    IN  IF residue = 0 THEN floored
        ELSE IF floored # <<>> THEN [floored EXCEPT ![1].cents = @ + residue]
        ELSE <<Leg(Min(Payees(split)), residue)>>
Brought(all, jb, a) == SumOver([i \in DOMAIN jb.lines |->
    CentsTo(LineLegsBy(all[jb.lines[i].asset].split, jb.lines[i]), a)])
Journal(all, jb, ls) == jb # Nothing =>
    \A a \in Accounts : CentsTo(ls, a) = Brought(all, jb, a)
JournalInv == JobInv /\ Journal(assets, job, legs)

LEMMA LineLegsAsMade == \A line : LineLegs(line) = LineLegsBy(assets[line.asset].split, line)
BY DEF LineLegs, FlooredLegs, LineLegsBy

LEMMA JournalStays ==
    ASSUME NEW old, NEW more, NEW jb, NEW ls, Journal(old, jb, ls),
           jb # Nothing => \A i \in DOMAIN jb.lines : more[jb.lines[i].asset] = old[jb.lines[i].asset]
    PROVE  Journal(more, jb, ls)
<1> SUFFICES ASSUME jb # Nothing
             PROVE  Journal(more, jb, ls)
  BY DEF Journal
<1>1. ASSUME NEW a
      PROVE  Brought(more, jb, a) = Brought(old, jb, a)
  <2>1. \A i \in DOMAIN jb.lines :
            CentsTo(LineLegsBy(more[jb.lines[i].asset].split, jb.lines[i]), a)
                = CentsTo(LineLegsBy(old[jb.lines[i].asset].split, jb.lines[i]), a)
    OBVIOUS
  <2>2. [i \in DOMAIN jb.lines |->
            CentsTo(LineLegsBy(more[jb.lines[i].asset].split, jb.lines[i]), a)]
            = [i \in DOMAIN jb.lines |->
                  CentsTo(LineLegsBy(old[jb.lines[i].asset].split, jb.lines[i]), a)]
    BY <2>1
  <2> QED  BY <2>2 DEF Brought
<1> QED  BY <1>1 DEF Journal

LEMMA JournalKeeps ==
    ASSUME JournalInv, [RoutingNext]_routingVars
    PROVE  JournalInv'
<1>1. JobInv'
  BY AssetsKeep, JobKeeps DEF JournalInv, JobInv
<1>2. Journal(assets', job', legs')
  <2>1. ASSUME NEW declared \in Declared, NEW ds \in Derivations, Register(declared, ds)
        PROVE  Journal(assets', job', legs')
    <3>1. PICK k \in Nat : DOMAIN assets = 1 .. k /\ \A n \in 1 .. k : assets'[n] = assets[n]
      BY <2>1, AssetsStay DEF JournalInv, JobInv
    <3>2. job # Nothing =>
              \A i \in DOMAIN job.lines : assets'[job.lines[i].asset] = assets[job.lines[i].asset]
      <4> SUFFICES ASSUME job # Nothing, NEW i \in DOMAIN job.lines
                   PROVE  assets'[job.lines[i].asset] = assets[job.lines[i].asset]
        OBVIOUS
      <4>1. job.lines \in Seq([asset : DOMAIN assets, cents : Nat])
        BY DEF JournalInv, JobInv
      <4>2. job.lines[i] \in [asset : DOMAIN assets, cents : Nat]
        BY <4>1, LenProperties, ElementOfSeq, Zenon
      <4> QED  BY <3>1, <4>2
    <3>3. Journal(assets', job, legs)
      BY <3>2, JournalStays DEF JournalInv
    <3>4. job' = job /\ legs' = legs
      BY <2>1 DEF Register
    <3> QED  BY <3>3, <3>4
  <2>2. ASSUME NEW base \in BaseCosts, NEW lines \in SomeLines, Settle(base, lines)
        PROVE  Journal(assets', job', legs')
    <3>1. PICK jb : jb = [make |-> base.make, logistics |-> base.logistics, fee |-> base.fee,
                          lines |-> lines]
      BY Zenon
    <3>2. /\ job' = jb /\ legs' = SettlementLegs(jb) /\ assets' = assets
      BY <2>2, <3>1 DEF Settle
    <3>3. Billable(jb) /\ SplitsShareTheWhole
      BY <3>1, LinesAreBillable, AssetsShareTheWhole DEF JournalInv, JobInv
    <3>4. \A a \in Accounts : CentsTo(SettlementLegs(jb), a)
              = SumOver([i \in DOMAIN jb.lines |-> CentsTo(LineLegs(jb.lines[i]), a)])
      BY <3>3, JobIsPaid
    <3>5. \A a : [i \in DOMAIN jb.lines |-> CentsTo(LineLegs(jb.lines[i]), a)]
              = [i \in DOMAIN jb.lines |->
                    CentsTo(LineLegsBy(assets[jb.lines[i].asset].split, jb.lines[i]), a)]
      BY LineLegsAsMade
    <3>6. Journal(assets, jb, SettlementLegs(jb))
      BY <3>4, <3>5 DEF Journal, Brought
    <3> QED  BY <3>2, <3>6
  <2>3. CASE UNCHANGED routingVars
    BY <2>3 DEF routingVars, JournalInv
  <2> QED  BY <2>1, <2>2, <2>3 DEF RoutingNext
<1>3. JournalInv' <=> JobInv' /\ Journal(assets', job', legs')
  BY DEF JournalInv, Journal, Brought, LineLegsBy, CentsTo, CentsOf, LegsTo, InOrder, Part,
         Leg, Payees
<1> QED  BY <1>1, <1>2, <1>3

RoyaltyLeg == [account : Accounts, cents : Nat, asset : Nat]
WithAsset(made, asset) == [k \in DOMAIN made |->
    [account |-> made[k].account, cents |-> made[k].cents, asset |-> asset]]

LEMMA NamedLegs ==
    ASSUME NEW made \in LegsFor(Accounts), NEW asset \in Nat
    PROVE  /\ WithAsset(made, asset) \in Seq(RoyaltyLeg)
           /\ CentsOf(WithAsset(made, asset)) = CentsOf(made)
           /\ \A a : CentsTo(WithAsset(made, asset), a) = CentsTo(made, a)
<1>1. PICK named : named = WithAsset(made, asset)
  OBVIOUS
<1>2. PICK m \in Nat : DOMAIN made = 1 .. m
  BY LegsAreSummed
<1>3. \A k \in DOMAIN made : made[k].account \in Accounts /\ made[k].cents \in Nat
  BY LegsAreSummed
<1>4. named \in [1 .. m -> RoyaltyLeg]
  BY <1>1, <1>2, <1>3 DEF WithAsset, RoyaltyLeg
<1>5. named \in Seq(RoyaltyLeg)
  BY <1>4, SeqFrom
<1>6. DOMAIN named = DOMAIN made
      /\ \A k \in DOMAIN named : named[k].account = made[k].account /\ named[k].cents = made[k].cents
  BY <1>1 DEF WithAsset
<1>7. CentsOf(named) = CentsOf(made) /\ \A a : CentsTo(named, a) = CentsTo(made, a)
  BY <1>6, SameCents
<1> QED  BY <1>1, <1>5, <1>7

\* The journal's royalty legs are the lines of the job, and the job's own legs.
LEMMA RoyaltiesAreShown ==
    ASSUME JournalInv
    PROVE  /\ RoyaltyLegs \in Seq(RoyaltyLeg)
           /\ job = Nothing => RoyaltyLegs = <<>>
           /\ job # Nothing =>
                 /\ CentsOf(RoyaltyLegs) = SumOver([i \in DOMAIN job.lines |-> job.lines[i].cents])
                 /\ \A a \in Accounts : CentsTo(RoyaltyLegs, a) = CentsTo(legs, a)
<1>1. CASE job = Nothing
  BY <1>1, EmptySeq DEF RoyaltyLegs
<1>2. CASE job # Nothing
  <2>1. PICK lines : lines = job.lines /\ lines \in Seq([asset : DOMAIN assets, cents : Nat])
    BY <1>2 DEF JournalInv, JobInv
  <2>2. PICK m \in Nat : DOMAIN lines = 1 .. m
    BY <2>1, LenProperties
  <2>3. SplitsShareTheWhole
    BY AssetsShareTheWhole DEF JournalInv, JobInv
  <2> DEFINE rl == [i \in DOMAIN lines |-> WithAsset(LineLegs(lines[i]), lines[i].asset)]
  <2>4. ASSUME NEW i \in DOMAIN lines
        PROVE  /\ rl[i] \in Seq(RoyaltyLeg) /\ CentsOf(rl[i]) = lines[i].cents
               /\ \A a : CentsTo(rl[i], a) = CentsTo(LineLegs(lines[i]), a)
    <3>1. lines[i] \in [asset : DOMAIN assets, cents : Nat]
      BY <2>1, ElementOfSeq, LenProperties, Zenon
    <3>2. PICK line : line = lines[i]
      OBVIOUS
    <3>3. line.cents \in Nat /\ line.asset \in DOMAIN assets
      BY <3>1, <3>2
    <3>4. LineLegs(line) \in LegsFor(Accounts) /\ CentsOf(LineLegs(line)) = line.cents
      BY <2>3, <3>3, LineIsPaid
    <3>5. line.asset \in Nat
      <4>1. assets \in Seq(Asset)
        BY DEF JournalInv, JobInv, AssetsInv
      <4>2. DOMAIN assets = 1 .. Len(assets)
        BY <4>1, LenProperties
      <4> QED  BY <3>3, <4>2
    <3>6. PICK made \in LegsFor(Accounts), asset \in Nat : made = LineLegs(line) /\ asset = line.asset
      BY <3>4, <3>5
    <3>7. rl[i] = WithAsset(made, asset)
      BY <3>2, <3>6
    <3> HIDE DEF rl
    <3> QED  BY <3>2, <3>4, <3>6, <3>7, NamedLegs
  <2>5. rl \in Seq(Seq(RoyaltyLeg))
    <3>1. rl \in [1 .. m -> Seq(RoyaltyLeg)]
      BY <2>2, <2>4, Zenon
    <3> QED  BY <3>1, SeqFrom
  <2>6. RoyaltyLegs = FlattenSeq(rl)
    BY <1>2, <2>1 DEF RoyaltyLegs, WithAsset
  <2>7. DOMAIN rl = DOMAIN lines
    OBVIOUS
  <2>8. Pays(RoyaltyLeg)
    BY DEF Pays, RoyaltyLeg
  <2> HIDE DEF rl
  <2>9. RoyaltyLegs \in Seq(RoyaltyLeg)
    BY <2>5, <2>6, <2>8, FlatPays, Zenon
  <2>10. CentsOf(RoyaltyLegs) = SumOver([i \in DOMAIN job.lines |-> job.lines[i].cents])
    <3>1. CentsOf(RoyaltyLegs) = SumOver([i \in DOMAIN rl |-> CentsOf(rl[i])])
      BY <2>5, <2>6, <2>8, FlatPays, Zenon
    <3>2. [i \in DOMAIN rl |-> CentsOf(rl[i])] = [i \in DOMAIN job.lines |-> job.lines[i].cents]
      BY <2>1, <2>4, <2>7
    <3> QED  BY <3>1, <3>2, Zenon
  <2>11. ASSUME NEW a \in Accounts
         PROVE  CentsTo(RoyaltyLegs, a) = CentsTo(legs, a)
    <3>1. CentsTo(RoyaltyLegs, a) = SumOver([i \in DOMAIN rl |-> CentsTo(rl[i], a)])
      BY <2>5, <2>6, <2>8, FlatPays, Zenon
    <3>2. \A i \in DOMAIN rl : CentsTo(rl[i], a)
              = CentsTo(LineLegsBy(assets[job.lines[i].asset].split, job.lines[i]), a)
      BY <2>1, <2>4, <2>7, LineLegsAsMade
    <3>3. [i \in DOMAIN rl |-> CentsTo(rl[i], a)]
              = [i \in DOMAIN job.lines |->
                    CentsTo(LineLegsBy(assets[job.lines[i].asset].split, job.lines[i]), a)]
      BY <2>1, <2>7, <3>2
    <3>4. CentsTo(legs, a) = Brought(assets, job, a)
      BY <1>2 DEF JournalInv, Journal
    <3> QED  BY <3>1, <3>3, <3>4 DEF Brought
  <2> QED  BY <1>2, <2>9, <2>10, <2>11
<1> QED  BY <1>1, <1>2

LEMMA JobEarningsArePaid ==
    ASSUME JournalInv
    PROVE  LET byAccount == ByAccount(RoyaltyLegs)
               lines == IF job = Nothing THEN <<>> ELSE job.lines
           IN  /\ SumOver(byAccount) = SumOver([i \in DOMAIN lines |-> lines[i].cents])
               /\ \A a \in DOMAIN byAccount :
                     /\ byAccount[a] = CentsTo(legs, a)
                     /\ SumOver(CreatorEarnings(RoyaltyLegs, a)) = byAccount[a]
<1> DEFINE byAccount == ByAccount(RoyaltyLegs)
           lines == IF job = Nothing THEN <<>> ELSE job.lines
<1>1. PICK rl \in Seq(RoyaltyLeg) : rl = RoyaltyLegs
  BY RoyaltiesAreShown
<1>2. PICK m \in Nat : DOMAIN rl = 1 .. m /\ \A i \in DOMAIN rl : rl[i] \in RoyaltyLeg
  BY LenProperties, ElementOfSeq
<1>3. /\ IsFiniteSet(DOMAIN rl)
      /\ \A i \in DOMAIN rl : rl[i].account \in Accounts /\ rl[i].cents \in Nat
  <2>1. IsFiniteSet(DOMAIN rl)
    BY <1>2, FS_Interval
  <2> QED  BY <1>2, <2>1 DEF RoyaltyLeg
<1>4. SumOver(byAccount) = CentsOf(rl)
  BY <1>1, <1>3, ByAccountPays
<1>5. CentsOf(rl) = SumOver([i \in DOMAIN lines |-> lines[i].cents])
  <2>1. CASE job = Nothing
    <3>1. rl = <<>> /\ lines = <<>>
      BY <1>1, <2>1, RoyaltiesAreShown
    <3>2. CentsOf(<<>>) = SumOver([i \in DOMAIN <<>> |-> <<>>[i].cents])
      BY DEF CentsOf
    <3> HIDE DEF lines
    <3> QED  BY <3>1, <3>2
  <2>2. CASE job # Nothing
    <3>1. CentsOf(rl) = SumOver([i \in DOMAIN job.lines |-> job.lines[i].cents])
      BY <1>1, <2>2, RoyaltiesAreShown
    <3>2. lines = job.lines
      BY <2>2
    <3> HIDE DEF lines
    <3> QED  BY <3>1, <3>2
  <2> QED  BY <2>1, <2>2
<1>6. ASSUME NEW a \in DOMAIN byAccount
      PROVE  /\ byAccount[a] = CentsTo(legs, a)
             /\ SumOver(CreatorEarnings(RoyaltyLegs, a)) = byAccount[a]
  <2>1. byAccount[a] = CentsTo(rl, a) /\ \E i \in DOMAIN rl : rl[i].account = a
    BY <1>1 DEF ByAccount
  <2>2. a \in Accounts
    BY <1>3, <2>1
  <2>3. job # Nothing
    <3> SUFFICES ASSUME job = Nothing
                 PROVE  FALSE
      OBVIOUS
    <3>1. rl = <<>>
      BY <1>1, RoyaltiesAreShown
    <3> QED  BY <2>1, <3>1, EmptySeq
  <2>4. CentsTo(rl, a) = CentsTo(legs, a)
    BY <1>1, <2>2, <2>3, RoyaltiesAreShown
  <2>5. SumOver(CreatorEarnings(rl, a)) = CentsTo(rl, a)
    BY <1>3, ByAssetPays
  <2> QED  BY <1>1, <2>1, <2>4, <2>5
<1> QED  BY <1>4, <1>5, <1>6

\* h lists what f is of K, by key, each once.
Listing(h, f, key, S, K) ==
    /\ f \in [K -> Nat] /\ key \in [S -> K] /\ h \in [S -> Nat]
    /\ \A k \in K : \E i \in S : key[i] = k
    /\ \A i, j \in S : key[i] = key[j] => i = j
    /\ \A i \in S : h[i] = f[key[i]]

LEMMA SumOfListing ==
    ASSUME NEW S, IsFiniteSet(S), NEW K, IsFiniteSet(K), NEW f, NEW key, NEW h,
           Listing(h, f, key, S, K)
    PROVE  SumOver(h) = SumOver(f)
<1>1. ASSUME f \in [K -> Nat], key \in [S -> K], h \in [S -> Nat],
             \A k \in K : \E i \in S : key[i] = k,
             \A i, j \in S : key[i] = key[j] => i = j,
             \A i \in S : h[i] = f[key[i]]
      PROVE  SumOver(h) = SumOver(f)
  BY <1>1, SumRenamedOf
<1> QED  BY <1>1 DEF Listing

\* The legs of all sales of shares come to their prices.
LEMMA TokenEarningsArePaid ==
    ASSUME SalesInv
    PROVE  SumOver(ByAccount(TokenLegs)) = SumOver([n \in Sold(ledger) |-> ledger[n].data.price])
<1> DEFINE price == [n \in Sold(ledger) |-> ledger[n].data.price]
<1>1. PICK S : S = Sold(ledger)
  OBVIOUS
<1>2. PICK m \in Nat : DOMAIN ledger = 1 .. m
  BY LenProperties DEF SalesInv, Chain
<1>3. IsFiniteSet(S) /\ S \subseteq Nat
  <2>1. PICK N : N = 1 .. m /\ IsFiniteSet(N)
    BY FS_Interval
  <2>2. S \in SUBSET N
    BY <1>1, <1>2, <2>1 DEF Sold
  <2>3. IsFiniteSet(S)
    BY <2>1, <2>2, FS_Subset
  <2> QED  BY <2>1, <2>2, <2>3
<1>4. PICK L : L = [account : Beneficiaries \union Wallets, cents : Nat]
  OBVIOUS
<1>5. \A n \in S : /\ ledger[n].data.price \in Nat /\ ledger[n].data.legs \in Seq(L)
                   /\ CentsOf(ledger[n].data.legs) = ledger[n].data.price
  BY <1>1, <1>4 DEF SalesInv, SalePaid, Sold, LegsFor
<1>0. PICK sales : sales = InOrder(S)
  OBVIOUS
<1>6. PICK k \in Nat : /\ sales \in [1 .. k -> S]
                       /\ \A i, h \in 1 .. k : sales[i] = sales[h] => i = h
                       /\ \A x \in S : \E i \in 1 .. k : sales[i] = x
  <2>1. PICK k : k = Cardinality(S)
    OBVIOUS
  <2>2. /\ k \in Nat /\ sales \in [1 .. k -> S]
        /\ \A i, h \in 1 .. k : sales[i] = sales[h] => i = h
        /\ \A x \in S : \E i \in 1 .. k : sales[i] = x
    BY <1>0, <1>3, <2>1, InOrderLists
  <2> QED  BY <2>2
<1> DEFINE sl == [i \in 1 .. k |-> ledger[sales[i]].data.legs]
           paid == [i \in 1 .. k |-> ledger[sales[i]].data.price]
<1>7. sl \in Seq(Seq(L))
  <2>1. sl \in [1 .. k -> Seq(L)]
    BY <1>5, <1>6
  <2> QED  BY <2>1, SeqFrom
<1>8. TokenLegs = FlattenSeq(sl)
  BY <1>0, <1>1, <1>6 DEF TokenLegs
<1>9. DOMAIN sl = 1 .. k /\ \A i \in 1 .. k : CentsOf(sl[i]) = paid[i]
  BY <1>5, <1>6
<1>10. Pays(L)
  BY <1>4 DEF Pays
<1>11. /\ paid \in [1 .. k -> Nat] /\ price \in [S -> Nat]
       /\ \A i \in 1 .. k : paid[i] = price[sales[i]]
  BY <1>1, <1>5, <1>6
<1> HIDE DEF sl, paid, price
<1>12. PICK ls \in Seq(L) : ls = TokenLegs /\ CentsOf(ls) = SumOver([i \in DOMAIN sl |-> CentsOf(sl[i])])
  BY <1>7, <1>8, <1>10, FlatPays, Zenon
<1>13. [i \in DOMAIN sl |-> CentsOf(sl[i])] = paid
  BY <1>9, <1>11
<1>14. SumOver(paid) = SumOver(price)
  <2>1. IsFiniteSet(1 .. k)
    BY FS_Interval
  <2>2. Listing(paid, price, sales, 1 .. k, S)
    BY <1>6, <1>11 DEF Listing
  <2> QED  BY <1>3, <2>1, <2>2, SumOfListing
<1>15. SumOver(ByAccount(ls)) = CentsOf(ls)
  <2>1. PICK j \in Nat : ls \in [1 .. j -> L]
    BY SeqIs
  <2>2. IsFiniteSet(DOMAIN ls) /\ \A i \in DOMAIN ls : ls[i].cents \in Nat
    BY <1>10, <2>1, FS_Interval DEF Pays
  <2> QED  BY <2>2, ByAccountPays
<1> QED  BY <1>12, <1>13, <1>14, <1>15 DEF price

\* The money of a passport is that of its last sale.  What a sale is divided by is
\* what verify_passport asks of a split, or less: record_sale does not look.
DivisionsHold ==
    /\ Prices \subseteq Nat
    /\ \A split \in Splits : split # <<>> => \E accounts : Divides(split, accounts)
Proceeds(ls, amount) == \E accounts : ls \in LegsFor(accounts) /\ CentsOf(ls) = amount
LastSale(es) == IF Sold(es) = {} THEN 0 ELSE es[Max(Sold(es))].data.price
PassportInv == Chain(links) /\ Proceeds(settlement, LastSale(links))

SoldAfter(old, new, e) ==
    /\ Chain(new)
    /\ e.type # "SALE" => LastSale(new) = LastSale(old)
    /\ e.type = "SALE" => LastSale(new) = e.data.price

LEMMA LinkAdded ==
    ASSUME NEW old, Chain(old), NEW new, NEW e, new = Append(old, e)
    PROVE  SoldAfter(old, new, e)
<1>1. PICK m \in Nat : /\ Chain(new) /\ DOMAIN old = 1 .. m /\ DOMAIN new = 1 .. (m + 1)
                       /\ new[m + 1] = e /\ \A n \in 1 .. m : new[n] = old[n]
  BY ChainAppend
<1>2. CASE e.type # "SALE"
  <2>1. Sold(new) = Sold(old)
    BY <1>1, <1>2 DEF Sold
  <2>2. PICK S : S = Sold(old) /\ S \in SUBSET (1 .. m)
    BY <1>1 DEF Sold
  <2>3. S # {} => Max(S) \in 1 .. m
    BY <2>2, MaxOfPositions
  <2>4. S # {} => new[Max(S)] = old[Max(S)]
    BY <1>1, <2>3
  <2> QED  BY <1>1, <1>2, <2>1, <2>2, <2>4, Zenon DEF LastSale, SoldAfter
<1>3. CASE e.type = "SALE"
  <2>1. PICK S : S = Sold(new) /\ S \in SUBSET (1 .. (m + 1)) /\ m + 1 \in S
    <3>1. Sold(new) \subseteq 1 .. (m + 1)
      BY <1>1 DEF Sold
    <3>2. m + 1 \in DOMAIN new
      BY <1>1
    <3>3. m + 1 \in Sold(new)
      BY <1>1, <1>3, <3>2 DEF Sold
    <3> QED  BY <3>1, <3>3, Zenon
  <2>2. m + 1 \in Nat
    OBVIOUS
  <2>3. Max(S) \in S /\ \A x \in S : Max(S) >= x
    BY <2>1, <2>2, MaxOfPositions
  <2>4. Max(S) = m + 1
    BY <2>1, <2>3
  <2> QED  BY <1>1, <1>3, <2>1, <2>4 DEF LastSale, SoldAfter
<1> QED  BY <1>2, <1>3

LEMMA PassportStarts == PassportInit => PassportInv
<1> SUFFICES ASSUME PassportInit
             PROVE  PassportInv
  OBVIOUS
<1>1. links = <<>> /\ settlement = <<>> /\ DOMAIN <<>> = {}
  BY EmptySeq DEF PassportInit
<1>2. Chain(<<>>) /\ <<>> \in LegsFor({})
  BY EmptySeq DEF Chain, LegsFor
<1>3. Sold(links) = {}
  BY <1>1 DEF Sold
<1>4. CentsOf(<<>>) = SumOver([i \in {} |-> 0])
  BY <1>1 DEF CentsOf
<1>5. SumOver([i \in {} |-> 0]) = 0
  BY SumOfZeros, FS_EmptySet, Zenon
<1> QED  BY <1>1, <1>2, <1>3, <1>4, <1>5 DEF PassportInv, Proceeds, LastSale

LEMMA PassportKeeps ==
    ASSUME DivisionsHold, PassportInv, [PassportNext \/ Deliver]_passportVars
    PROVE  PassportInv'
<1>1. ASSUME NEW actor, NEW type \in {"HARVEST", "CUSTODY"}, Vouch(actor, type)
      PROVE  Chain(links') /\ Proceeds(settlement', LastSale(links'))
  <2>1. PICK e : e.type = type /\ links' = Append(links, e)
    BY <1>1 DEF Vouch, Attest, Link
  <2>2. Chain(links') /\ LastSale(links') = LastSale(links)
    <3>1. PICK old, new : old = links /\ new = links'
      OBVIOUS
    <3>2. Chain(old) /\ new = Append(old, e)
      BY <2>1, <3>1 DEF PassportInv
    <3>3. SoldAfter(old, new, e)
      BY <3>2, LinkAdded
    <3> QED  BY <2>1, <3>1, <3>3 DEF SoldAfter
  <2>3. settlement' = settlement
    BY <1>1 DEF Vouch
  <2> QED  BY <2>2, <2>3 DEF PassportInv
<1>2. ASSUME NEW actor, NEW price \in Prices, NEW split \in Splits, RecordSale(actor, price, split)
      PROVE  Chain(links') /\ Proceeds(settlement', LastSale(links'))
  <2>1. PICK e : e.type = "SALE" /\ e.data.price = price /\ links' = Append(links, e)
    BY <1>2 DEF RecordSale, Attest, Link
  <2>2. Chain(links') /\ LastSale(links') = price
    <3>1. PICK old, new : old = links /\ new = links'
      OBVIOUS
    <3>2. Chain(old) /\ new = Append(old, e)
      BY <2>1, <3>1 DEF PassportInv
    <3>3. SoldAfter(old, new, e)
      BY <3>2, LinkAdded
    <3> QED  BY <2>1, <3>1, <3>3 DEF SoldAfter
  <2>3. PICK accounts : Divides(split, accounts)
    BY <1>2 DEF RecordSale, DivisionsHold
  <2>4. price \in Nat
    BY DEF DivisionsHold
  <2>5. Route(price, split) \in LegsFor(accounts) /\ CentsOf(Route(price, split)) = price
    BY <2>3, <2>4, RouteConserves
  <2>6. settlement' = Route(price, split)
    BY <1>2 DEF RecordSale
  <2> QED  BY <2>2, <2>5, <2>6 DEF Proceeds
<1>3. ASSUME UNCHANGED passportVars
      PROVE  Chain(links') /\ Proceeds(settlement', LastSale(links'))
  BY <1>3 DEF passportVars, PassportInv
<1>4. Chain(links') /\ Proceeds(settlement', LastSale(links'))
  BY <1>1, <1>2, <1>3 DEF PassportNext, Deliver
<1>5. PassportInv' <=> Chain(links') /\ Proceeds(settlement', LastSale(links'))
  BY DEF PassportInv, Proceeds, LastSale, Sold, LegsFor, CentsOf, Chain
<1> QED  BY <1>4, <1>5

LEMMA PassportEarningsArePaid ==
    ASSUME PassportInv
    PROVE  SumOver(ByAccount(settlement)) = LastSale(links)
<1>1. PICK accounts : settlement \in LegsFor(accounts)
  BY DEF PassportInv, Proceeds
<1>2. IsFiniteSet(DOMAIN settlement) /\ \A i \in DOMAIN settlement : settlement[i].cents \in Nat
  BY <1>1, LegsAreSummed
<1>3. CentsOf(settlement) = LastSale(links)
  BY DEF PassportInv, Proceeds
<1> QED  BY <1>2, <1>3, ByAccountPays

EarningsInv == JournalInv /\ PassportInv /\ SalesInv /\ TrainingInv

LEMMA EarningsKeep ==
    ASSUME SplitHolds, DivisionsHold, EarningsInv,
           [EarningsNext]_<<routingVars, trainingVars, passportVars, tokenVars>>
    PROVE  EarningsInv'
<1>1. JournalInv'
  <2>1. [RoutingNext]_routingVars
    BY DEF EarningsNext
  <2> QED  BY <2>1, JournalKeeps DEF EarningsInv
<1>2. TrainingInv'
  <2>1. [TrainingNext]_trainingVars
    BY DEF EarningsNext
  <2> QED  BY <2>1, TrainingKeeps DEF EarningsInv
<1>3. PassportInv'
  <2>1. [PassportNext \/ Deliver]_passportVars
    BY DEF EarningsNext, TokenNext
  <2> QED  BY <2>1, PassportKeeps DEF EarningsInv
<1>4. SalesInv'
  <2>1. CASE TokenNext \/ UNCHANGED tokenVars
    <3>1. CASE TokenNext
      BY <3>1, SalesKeep DEF EarningsInv
    <3>2. CASE UNCHANGED tokenVars
      BY <3>2 DEF tokenVars, SalesInv, EarningsInv
    <3> QED  BY <2>1, <3>1, <3>2
  <2>2. TokenNext \/ UNCHANGED tokenVars
    BY DEF EarningsNext
  <2> QED  BY <2>1, <2>2
<1> QED  BY <1>1, <1>2, <1>3, <1>4 DEF EarningsInv

\* Whatever jobs, sales and uses there are, in whatever order: what is shown of a
\* source was paid, and what was paid is shown, once; for sales divided by splits
\* of at most the whole (earnings.py:60-62, earnings_rollup.py:15-19).
THEOREM EarningsAlwaysPaid ==
    ASSUME SplitHolds, DivisionsHold
    PROVE  EarningsSpec => []EarningsArePaid
<1>1. EarningsInit => EarningsInv
  <2> SUFFICES ASSUME EarningsInit
               PROVE  EarningsInv
    OBVIOUS
  <2>1. JournalInv
    <3>1. JobInv
      BY EmptySeq DEF EarningsInit, RoutingInit, JobInv, AssetsInv, SharesAreFair, RoyaltiesFollowSplits
    <3>2. Journal(assets, job, legs)
      BY DEF EarningsInit, RoutingInit, Journal
    <3> QED  BY <3>1, <3>2 DEF JournalInv
  <2>2. SalesInv
    <3>1. ledger = <<>> /\ Chain(<<>>) /\ DOMAIN <<>> = {}
      BY EmptySeq DEF EarningsInit, Unissued, Chain
    <3> QED  BY <3>1 DEF SalesInv
  <2> QED  BY <2>1, <2>2, PassportStarts, TrainingStarts DEF EarningsInit, EarningsInv
<1>2. EarningsInv /\ [EarningsNext]_<<routingVars, trainingVars, passportVars, tokenVars>>
          => EarningsInv'
  BY EarningsKeep
<1>3. EarningsInv => EarningsArePaid
  <2> SUFFICES ASSUME EarningsInv
               PROVE  EarningsArePaid
    OBVIOUS
  <2>1. SumOver(ByAccount(TokenLegs)) = SumOver([n \in Sold(ledger) |-> ledger[n].data.price])
    BY TokenEarningsArePaid DEF EarningsInv
  <2>2. SumOver(ByAccount(settlement))
            = IF Sold(links) = {} THEN 0 ELSE links[Max(Sold(links))].data.price
    BY PassportEarningsArePaid DEF EarningsInv, LastSale
  <2>3. SumOver(credited) = SumOver(disbursed)
    BY DEF EarningsInv, TrainingInv, RoyaltiesReachTeachers
  <2> QED  BY <2>1, <2>2, <2>3, JobEarningsArePaid DEF EarningsInv, EarningsArePaid
<1> QED  BY <1>1, <1>2, <1>3, PTL DEF EarningsSpec
=============================================================================
