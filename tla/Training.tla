------------------------------ MODULE Training ------------------------------
(***************************************************************************)
(* Royalties of training material, v3/bingo/training.py: each use of a     *)
(* model accrues a share of its fee to the model's pool, once, and settle  *)
(* drains the pool to the contributors of a corpus, the teachers of the    *)
(* base model first.  Whatever cannot be paid out to the cent raises, and  *)
(* leaves the pool as it was.                                              *)
(***************************************************************************)
EXTENDS Apportion, FiniteSetsExt

CONSTANTS Models, Teachers,
          Corpora,     \* corpora by their ids; "sound" if id and signature match
          NoBase,      \* the id of no corpus
          Uses,        \* ids of usage events
          UseFees, TrainingShares

\* A corpus has contributions, as build_corpus checks, and its id is the hash of a
\* body that names its base.  Only settle looks further, and not at the base.
SplitPayees == Seq([account : Teachers, bps : Nat])

ASSUME TrainingAssumption ==
    /\ IsFiniteSet(Models) /\ IsFiniteSet(Teachers)
    /\ NoBase \notin DOMAIN Corpora
    /\ \A c \in DOMAIN Corpora :
          /\ Corpora[c].model \in Models
          /\ Corpora[c].contributions \in Seq([units : Nat, payees : SplitPayees])
          /\ Corpora[c].contributions # <<>>
          /\ Corpora[c].base # c
          /\ Corpora[c].share \in 0 .. (Whole - 1)
    /\ UseFees \subseteq Nat
    /\ TrainingShares \subseteq 0 .. Whole

VARIABLES metered,          \* _seen
          pool, earned, disbursed, \* _pool, _earned and _paid of each model
          credited,         \* what the legs brought each payee, training_legs
          settled           \* the corpus settled last, its pool and the legs

trainingVars == <<metered, pool, earned, disbursed, credited, settled>>

Unsettled == [corpus |-> NoBase, cents |-> 0, legs |-> <<>>]

TrainingInit ==
    /\ metered = {}
    /\ pool = [m \in Models |-> 0] /\ earned = pool /\ disbursed = pool
    /\ credited = [a \in Teachers |-> 0]
    /\ settled = Unsettled

\* record_usage
RecordUsage(m, use, fee, share) ==
    /\ use \notin metered
    /\ metered' = metered \union {use}
    /\ pool' = [pool EXCEPT ![m] = @ + Part(fee, share)]
    /\ earned' = [earned EXCEPT ![m] = @ + Part(fee, share)]
    /\ UNCHANGED <<disbursed, credited, settled>>

-----------------------------------------------------------------------------
\* verify_corpus
VerifyCorpus(c) ==
    /\ Corpora[c].sound
    /\ \A i \in DOMAIN Corpora[c].contributions :
          /\ Corpora[c].contributions[i].units > 0
          /\ BpsOf(Corpora[c].contributions[i].payees) = Whole

\* _distribute_own: by units, the residue to the largest contribution; then each
\* asset's cents by its payees' bps, the residue to the first who gets any.
Given(c) == [i \in DOMAIN Corpora[c].contributions |-> Corpora[c].contributions[i].units]

AssetCents(c, cents) ==
    LET units == Given(c)
        floored == [i \in DOMAIN units |-> (cents * units[i]) \div SumOver(units)]
    IN  [floored EXCEPT ![Largest(units)] = @ + cents - SumOver(floored)]

PayeeLegs(c, i, cents) ==
    LET payees == Corpora[c].contributions[i].payees
        paid == InOrder({k \in DOMAIN payees : Part(cents, payees[k].bps) > 0})
        legs == [n \in DOMAIN paid |->
                    [account |-> payees[paid[n]].account, corpus |-> c, asset |-> i,
                     cents |-> Part(cents, payees[paid[n]].bps)]]
        residue == cents - CentsOf(legs)
    IN  IF legs # <<>> /\ residue > 0 THEN [legs EXCEPT ![1].cents = @ + residue] ELSE legs

OwnLegs(c, cents) ==
    IF cents <= 0 \/ SumOver(Given(c)) <= 0 THEN <<>>
    ELSE FlattenSeq([i \in DOMAIN Given(c) |-> PayeeLegs(c, i, AssetCents(c, cents)[i])])

\* distribute: the base's share to the base, what did not reach it to its own.
\* The call for the base passes no base on, so one that has a base raises.
Conserved(legs, cents) == CentsOf(legs) = cents
BaseCents(c, cents) == Part(cents, Corpora[c].share)
BaseLegs(c, cents) ==
    IF Corpora[c].share = 0 THEN <<>> ELSE OwnLegs(Corpora[c].base, BaseCents(c, cents))

Distributed(c, cents) ==
    BaseLegs(c, cents) \o OwnLegs(c, cents - CentsOf(BaseLegs(c, cents)))

CanDistribute(c, cents, base) ==
    /\ Corpora[c].share > 0 =>
          /\ base # NoBase /\ base = Corpora[c].base
          /\ BaseCents(c, cents) > 0 =>
                /\ Corpora[base].share = 0
                /\ Conserved(BaseLegs(c, cents), BaseCents(c, cents))
    /\ Conserved(Distributed(c, cents), cents)

\* A settlement that leaves the pool as it was.
BugSettleModel(c, base) ==
    LET m == Corpora[c].model
    IN  /\ VerifyCorpus(c)
        /\ pool[m] > 0
        /\ CanDistribute(c, pool[m], base)
        /\ settled' = [corpus |-> c, cents |-> pool[m], legs |-> Distributed(c, pool[m])]
        /\ credited' = [a \in Teachers |->
                            credited[a] + CentsTo(Distributed(c, pool[m]), a)]
        /\ disbursed' = [disbursed EXCEPT ![m] = @ + pool[m]]
        /\ UNCHANGED <<metered, earned, pool>>

\* settle, with or without a base corpus.
SettleModel(c, base) ==
    LET m == Corpora[c].model
    IN  /\ VerifyCorpus(c)
        /\ pool[m] > 0
        /\ CanDistribute(c, pool[m], base)
        /\ settled' = [corpus |-> c, cents |-> pool[m], legs |-> Distributed(c, pool[m])]
        /\ credited' = [a \in Teachers |->
                            credited[a] + CentsTo(Distributed(c, pool[m]), a)]
        /\ disbursed' = [disbursed EXCEPT ![m] = @ + pool[m]]
        /\ pool' = [pool EXCEPT ![m] = 0]
        /\ UNCHANGED <<metered, earned>>

TrainingNext ==
    \/ \E m \in Models, use \in Uses, fee \in UseFees, share \in TrainingShares :
          RecordUsage(m, use, fee, share)
    \/ \E c \in DOMAIN Corpora, base \in DOMAIN Corpora \union {NoBase} : SettleModel(c, base)

TrainingSpec == TrainingInit /\ [][TrainingNext]_trainingVars

-----------------------------------------------------------------------------
CentsIn(legs, some) == SumOver([n \in some |-> legs[n].cents])
OfCorpus(legs, c) == {n \in DOMAIN legs : legs[n].corpus = c}
OfAsset(legs, c, i) == {n \in OfCorpus(legs, c) : legs[n].asset = i}

TeachersArePaid(c, cents, legs) ==
    LET toBase == CentsIn(legs, OfCorpus(legs, Corpora[c].base))
        total == SumOver(Given(c))
    IN  /\ toBase = Part(cents, Corpora[c].share)
        /\ \A i \in DOMAIN Given(c) :
              LET got == CentsIn(legs, OfAsset(legs, c, i))
                  payees == Corpora[c].contributions[i].payees
              IN  /\ got * total > (cents - toBase) * Given(c)[i] - total
                  /\ \A k \in DOMAIN payees :
                        CentsIn(legs, OfAsset(legs, c, i) \intersect LegsTo(legs, payees[k].account))
                            >= Part(got, payees[k].bps)

\* Every cent that the uses of a model accrued is in its pool or with payees,
\* once; a settlement brings the base's contributors their share and not a cent
\* more, each asset its part by units up to the residue, and each payee its part
\* of that (training.py:222, 264, 300).
RoyaltiesReachTeachers ==
    /\ \A m \in Models : earned[m] = pool[m] + disbursed[m]
    /\ SumOver(credited) = SumOver(disbursed)
    /\ settled # Unsettled => TeachersArePaid(settled.corpus, settled.cents, settled.legs)
=============================================================================
