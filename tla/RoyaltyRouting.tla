--------------------------- MODULE RoyaltyRouting ---------------------------
(***************************************************************************)
(* Who is paid how much: the effective split that AssetRegistry.register   *)
(* composes for a derived asset (v3/bingo/registry.py) and the legs that   *)
(* compute_settlement_legs makes of a job (v3/bingo/settlement.py).        *)
(*                                                                         *)
(* An asset is registered once and frozen, so a chain of derivations is a  *)
(* sequence of registrations.  Accounts are numbers, in the order of their *)
(* names: an effective split lists its payees in that order.               *)
(*                                                                         *)
(* An operator named Bug... is a plausible mistake in the definition after *)
(* it.  RoutingNext never uses one: they show which property catches it.   *)
(***************************************************************************)
EXTENDS Apportion

CONSTANTS Accounts,  \* a set of numbers
          Declared,  \* the splits that creators declare
          Shares,    \* the parent shares that they grant
          MaxAssets, \* bound: assets registered
          MaxTerms,  \* bound: parents of an asset, and royalty lines of a job
          Costs,     \* what a royalty line may be, in cents
          BaseCosts, \* what else a job may cost
          node, carrier, network, \* the accounts that are no royalty payees
          Nothing    \* no job was settled yet

\* Split.validate, for what a creator declares.
ASSUME RoutingAssumption ==
    /\ Accounts \subseteq Nat /\ IsFiniteSet(Accounts)
    /\ {node, carrier, network} \intersect Accounts = {}
    /\ \A d \in Declared :
           /\ d \in Seq([account : Accounts, bps : Nat \ {0}])
           /\ d # <<>> /\ BpsOf(d) = Whole
    /\ Shares \subseteq Nat /\ MaxTerms \in Nat
    /\ Costs \subseteq Nat /\ BaseCosts \subseteq [make : Nat, logistics : Nat, fee : Nat]

VARIABLES assets, \* what was registered, oldest first
          job,    \* the job settled last
          legs    \* the legs it was settled with

routingVars == <<assets, job, legs>>

-----------------------------------------------------------------------------
Granted(ds) == SumOver([i \in DOMAIN ds |-> ds[i].share])

\* What the parents' effective splits bring to an account, and what the declared
\* payees keep of the remainder; every term is floored on its own.
Inherited(ds, a) ==
    SumOver([i \in DOMAIN ds |-> Part(assets[ds[i].parent].split[a], ds[i].share)])
Kept(declared, ds, a) ==
    SumOver([i \in LegsTo(declared, a) |-> Part(declared[i].bps, Whole - Granted(ds))])

FlooredSplit(declared, ds) ==
    [a \in Accounts |-> Inherited(ds, a) + Kept(declared, ds, a)]

\* A composition whose rounding repair favours the heaviest payee.
BugComposeHeaviest(declared, ds) ==
    LET floored == FlooredSplit(declared, ds)
        heaviest == CHOOSE a \in Accounts :
                        \A b \in Accounts : floored[a] >= floored[b]
    IN  [floored EXCEPT ![heaviest] = @ + Whole - SumOver(floored)]

\* _compose_split: the rounding residue goes to the first declared payee.
Compose(declared, ds) ==
    LET floored == FlooredSplit(declared, ds)
    IN  [floored EXCEPT ![declared[1].account] = @ + Whole - SumOver(floored)]

Payees(split) == {a \in Accounts : split[a] > 0}

Derivations == SeqOf([parent : DOMAIN assets, share : Shares], MaxTerms)

\* register: it raises on parent shares of the whole, and records nothing.
Register(declared, ds) ==
    /\ Len(assets) < MaxAssets
    /\ Granted(ds) < Whole
    /\ assets' = Append(assets, [declared |-> declared,
                                 derives_from |-> ds,
                                 split |-> Compose(declared, ds)])
    /\ UNCHANGED <<job, legs>>

-----------------------------------------------------------------------------
FlooredLegs(line) ==
    LET split == assets[line.asset].split
        paid == InOrder({a \in Accounts : Part(line.cents, split[a]) > 0})
    IN  [i \in DOMAIN paid |-> Leg(paid[i], Part(line.cents, split[paid[i]]))]

\* One royalty line: each payee's floored share, the residue to the first of
\* the legs, or to the first payee when every share floors to nothing.
LineLegs(line) ==
    LET floored == FlooredLegs(line)
        residue == line.cents - CentsOf(floored)
        first == Min(Payees(assets[line.asset].split))
    IN  IF residue = 0 THEN floored
        ELSE IF floored # <<>> THEN [floored EXCEPT ![1].cents = @ + residue]
        ELSE <<Leg(first, residue)>>

JobTotal(jb) ==
    jb.make + jb.logistics + jb.fee
    + SumOver([i \in DOMAIN jb.lines |-> jb.lines[i].cents])

\* compute_settlement_legs; it raises, and makes no legs, if they miss the total.
SettlementLegs(jb) ==
    LET made == <<Leg(node, jb.make), Leg(carrier, jb.logistics)>>
                \o FlattenSeq([i \in DOMAIN jb.lines |-> LineLegs(jb.lines[i])])
                \o <<Leg(network, jb.fee)>>
    IN  IF CentsOf(made) = JobTotal(jb) THEN made ELSE <<>>

\* A job in which some assets earn a royalty is settled.
SomeLines == SeqOf([asset : DOMAIN assets, cents : Costs], MaxTerms) \ {<<>>}

Settle(base, lines) ==
    /\ job' = [make |-> base.make, logistics |-> base.logistics, fee |-> base.fee,
               lines |-> lines]
    /\ legs' = SettlementLegs(job')
    /\ UNCHANGED assets

RoutingInit == assets = <<>> /\ job = Nothing /\ legs = <<>>

RoutingNext ==
    \/ \E declared \in Declared, ds \in Derivations : Register(declared, ds)
    \/ job = Nothing /\ \E base \in BaseCosts, lines \in SomeLines : Settle(base, lines)

RoutingSpec == RoutingInit /\ [][RoutingNext]_routingVars

-----------------------------------------------------------------------------
(***************************************************************************)
(* Properties.                                                             *)
(***************************************************************************)

\* The share an account is owed exactly, in Whole-ths of a basis point.
Exact(as, a) ==
    SumOver([i \in DOMAIN as.derives_from |->
                assets[as.derives_from[i].parent].split[a] * as.derives_from[i].share])
    + SumOver([i \in LegsTo(as.declared, a) |->
                as.declared[i].bps * (Whole - Granted(as.derives_from))])
Terms(as) == Len(as.derives_from) + Len(as.declared)

\* Every effective split, however deep its ancestry, shares out the whole and
\* nothing but it, so that register never refuses one; only the first declared
\* payee of an asset gains by rounding, and nobody loses a basis point or more
\* for each term of the composition (registry.py:136, ASSET-GRAPH.md:59).
SharesAreFair == \A n \in DOMAIN assets :
    /\ SumOver(assets[n].split) = Whole
    /\ \A a \in Accounts :
          LET as == assets[n]
          IN  /\ as.split[a] >= 0
              /\ as.split[a] * Whole > Exact(as, a) - Whole * Terms(as)
              /\ a # as.declared[1].account => as.split[a] * Whole <= Exact(as, a)

DueTo(a) == SumOver([i \in DOMAIN job.lines |->
    Part(job.lines[i].cents, assets[job.lines[i].asset].split[a])])
FirstOf(line) ==
    LET split == assets[line.asset].split
        paid == {a \in Accounts : Part(line.cents, split[a]) > 0}
    IN  Min(IF paid = {} THEN Payees(split) ELSE paid)

\* The legs of a job add up to its total, so its own check never refuses one, and
\* every royalty line reaches its asset's payees in full, in the proportion of
\* its frozen split up to the residue, which only the first of them keeps
\* (settlement.py:64-92, SETTLEMENT.md invariant 2).
RoyaltiesFollowSplits == job # Nothing =>
    /\ legs # <<>> /\ CentsOf(legs) = JobTotal(job)
    /\ \A a \in Accounts :
          LET paid == CentsTo(legs, a)
          IN  /\ paid >= DueTo(a)
              /\ paid > DueTo(a) => \E i \in DOMAIN job.lines : a = FirstOf(job.lines[i])
              /\ paid > 0 => \E i \in DOMAIN job.lines :
                                 a \in Payees(assets[job.lines[i].asset].split)

RoyaltiesAreFair == SharesAreFair /\ RoyaltiesFollowSplits
=============================================================================
