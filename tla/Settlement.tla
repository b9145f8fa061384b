----------------------------- MODULE Settlement -----------------------------
(***************************************************************************)
(* The job pipeline of v3/bingo/orchestrator.py with the ledger it settles *)
(* through (ledger.py) and the node agents that make and attest the goods  *)
(* (node/agent.py): an order is placed and its escrow funded, and          *)
(* execute_order takes its jobs one by one through offer, fabrication,     *)
(* shipment, delivery, the proof-of-fabrication gate, release of the job's *)
(* share of the escrow, payout and evidence file.                          *)
(*                                                                         *)
(* The server runs place_order and execute_order under one lock            *)
(* (server.py:57, 270) and the command lines run them in one thread, so    *)
(* one execution runs at a time; it ends early where a driver, a delivery  *)
(* hook, the gate, the rail or the disk raises, and may be called again.   *)
(*                                                                         *)
(* Abstracted: a job's evidence chain is the number of its events of the   *)
(* three types that decide anything; the agent alone appends to it, so its *)
(* hashes, signatures and identity fields verify.  Rejected orders leave   *)
(* no trace and are not actions.  A payout engine and an evidence          *)
(* directory are configured.                                               *)
(*                                                                         *)
(* An operator named Bug... is a plausible mistake in the definition after *)
(* it.  Next never uses one: they show which property would catch it.      *)
(***************************************************************************)
EXTENDS Sums, Sequences

CONSTANTS Orders,
          Jobs,
          Plan,     \* the jobs of an order, in the order they are executed
          OrderOf,  \* the order of a job
          Qty,      \* the units of a job
          Cents,    \* the total of a job (job_total_cents)
          Total,    \* what the buyer pays for an order (total_cents)
          Batch,    \* the jobs whose driver has run_batch
          MaxRuns   \* a bound on the executions of one order

JobsOf(o) == {j \in Jobs : OrderOf[j] = o}

ASSUME SettlementAssumption ==
    /\ IsFiniteSet(Jobs)
    /\ OrderOf \in [Jobs -> Orders]
    /\ Plan \in [Orders -> Seq(Jobs)]
    /\ \A o \in Orders : \A i \in 1 .. Len(Plan[o]) : OrderOf[Plan[o][i]] = o
    /\ Qty \in [Jobs -> Nat \ {0}]
    /\ Cents \in [Jobs -> Nat]
    /\ Total \in [Orders -> Nat]
    /\ Batch \subseteq Jobs
    /\ MaxRuns \in Nat

\* Order.total_cents is the sum of the totals quoted for its jobs.
ASSUME TotalAssumption ==
    \A o \in Orders : Total[o] = SumOver([j \in JobsOf(o) |-> Cents[j]])

-----------------------------------------------------------------------------
VARIABLES placed,    \* the orders placed
          escrow,    \* Ledger.escrow
          released,  \* how often the ledger settled each job
          state,     \* Job.state
          accepted,  \* JOB_ACCEPTED events in each job's evidence
          units,     \* UNIT_COMPLETE events
          delivered, \* DELIVERY_CONFIRMED events
          book,      \* the outcomes the reputation book holds of each job
          handed,    \* the jobs whose legs the payout engine was given
          filed,     \* the jobs whose evidence file is on disk
          runs,      \* how often each order was executed
          left,      \* the running execution: its job and those after it
          phase,     \* where in execute_order it is
          made       \* the units of its job made in this execution

money == <<escrow, released>>
chain == <<accepted, units, delivered>>
outcome == <<book, handed, filed>>
vars == <<placed, money, state, chain, outcome, runs, left, phase, made>>

States == {"OFFERED", "ACCEPTED", "PREPARING", "RUNNING", "COMPLETE",
           "SHIPPED", "DELIVERED", "SETTLED", "FAILED"}
Phases == {"idle", "offer", "prepare", "make", "ship", "confirm", "gate",
           "pay", "file"}

MoneyType ==
    /\ placed \in SUBSET Orders
    /\ escrow \in [Orders -> Nat]
    /\ released \in [Jobs -> Nat]
ChainType ==
    /\ accepted \in [Jobs -> Nat]
    /\ units \in [Jobs -> Nat]
    /\ delivered \in [Jobs -> Nat]
OutcomeType ==
    /\ state \in [Jobs -> States]
    /\ book \in [Jobs -> [completed : Nat, failed : Nat]]
    /\ handed \in SUBSET Jobs
    /\ filed \in SUBSET Jobs
RunType ==
    /\ runs \in [Orders -> 0 .. MaxRuns]
    /\ left \in Seq(Jobs)
    /\ phase \in Phases
    /\ phase # "idle" => left # <<>>
    /\ made \in Nat
TypeOK == MoneyType /\ ChainType /\ OutcomeType /\ RunType

Init ==
    /\ placed = {}
    /\ escrow = [o \in Orders |-> 0]
    /\ released = [j \in Jobs |-> 0]
    /\ state = [j \in Jobs |-> "OFFERED"]
    /\ accepted = [j \in Jobs |-> 0]
    /\ units = [j \in Jobs |-> 0]
    /\ delivered = [j \in Jobs |-> 0]
    /\ book = [j \in Jobs |-> [completed |-> 0, failed |-> 0]]
    /\ handed = {}
    /\ filed = {}
    /\ runs = [o \in Orders |-> 0]
    /\ left = <<>>
    /\ phase = "idle"
    /\ made = 0

job == Head(left)

\* An exception leaves execute_order: the jobs after this one are not reached.
Raises == phase' = "idle" /\ left' = <<>> /\ made' = 0

\* The loop goes on with the next job, or execute_order returns.
NextJob ==
    /\ left' = Tail(left)
    /\ phase' = IF Tail(left) = <<>> THEN "idle" ELSE "offer"
    /\ made' = 0

\* The same job goes on.
Goto(p) == phase' = p /\ UNCHANGED <<left, made>>

-----------------------------------------------------------------------------
\* An order id that is used again funds its escrow again.
BugPlaceAgain(o) ==
    /\ phase = "idle"
    /\ placed' = placed \union {o}
    /\ escrow' = [escrow EXCEPT ![o] = Total[o]]
    /\ UNCHANGED <<released, state, chain, outcome, runs, left, phase, made>>

\* place_order, when nothing rejects the order: its jobs are built and the
\* buyer funds the whole total.
Place(o) ==
    /\ phase = "idle"
    /\ o \notin placed
    /\ placed' = placed \union {o}
    /\ escrow' = [escrow EXCEPT ![o] = Total[o]]
    /\ UNCHANGED <<released, state, chain, outcome, runs, left, phase, made>>

\* execute_order is called.  Nothing in it asks whether it ran before.
Execute(o) ==
    /\ phase = "idle"
    /\ o \in placed
    /\ runs[o] < MaxRuns
    /\ Plan[o] # <<>>
    /\ runs' = [runs EXCEPT ![o] = @ + 1]
    /\ left' = Plan[o]
    /\ phase' = "offer"
    /\ made' = 0
    /\ UNCHANGED <<placed, money, state, chain, outcome>>

\* offer: the agent can load the material, whatever the state of the job.
Accept ==
    /\ phase = "offer"
    /\ state' = [state EXCEPT ![job] = "ACCEPTED"]
    /\ accepted' = [accepted EXCEPT ![job] = @ + 1]
    /\ Goto("prepare")
    /\ UNCHANGED <<placed, money, units, delivered, outcome, runs>>

\* offer: it cannot; the orchestrator marks the job FAILED and goes on.
Decline ==
    /\ phase = "offer"
    /\ state' = [state EXCEPT ![job] = "FAILED"]
    /\ book' = [book EXCEPT ![job].failed = @ + 1]
    /\ NextJob
    /\ UNCHANGED <<placed, money, chain, handed, filed, runs>>

\* fabricate, up to the first unit: the driver took the file.
Prepare ==
    /\ phase = "prepare"
    /\ state' = [state EXCEPT ![job] = "RUNNING"]
    /\ Goto("make")
    /\ UNCHANGED <<placed, money, chain, outcome, runs>>

\* driver.prepare raises: no printer, printer not ready, upload refused.
PrepareRaises ==
    /\ phase = "prepare"
    /\ state' = [state EXCEPT ![job] = "PREPARING"]
    /\ Raises
    /\ UNCHANGED <<placed, money, chain, outcome, runs>>

\* run_unit: one more unit is made; after the last the job is COMPLETE.
MakeUnit ==
    /\ phase = "make"
    /\ job \notin Batch
    /\ units' = [units EXCEPT ![job] = @ + 1]
    /\ made' = made + 1
    /\ IF made' = Qty[job]
         THEN state' = [state EXCEPT ![job] = "COMPLETE"] /\ phase' = "ship"
         ELSE UNCHANGED <<state, phase>>
    /\ UNCHANGED <<placed, money, accepted, delivered, outcome, runs, left>>

\* run_batch: the operator attests good units, and the agent compares all the
\* UNIT_COMPLETE events of the job with its quantity.
MakeBatch ==
    /\ phase = "make"
    /\ job \in Batch
    /\ \E good \in 0 .. Qty[job] :
           units' = [units EXCEPT ![job] = @ + good]
    /\ IF units'[job] = Qty[job]
         THEN state' = [state EXCEPT ![job] = "COMPLETE"] /\ Goto("ship")
         ELSE state' = [state EXCEPT ![job] = "FAILED"] /\ Raises
    /\ UNCHANGED <<placed, money, accepted, delivered, outcome, runs>>

\* The driver raises between two units or in the middle of one.
DriverRaises ==
    /\ phase = "make"
    /\ Raises
    /\ UNCHANGED <<placed, money, state, chain, outcome, runs>>

\* Settlement on shipment, without waiting for the delivery.
BugSettleOnShipment ==
    /\ phase = "ship"
    /\ state' = [state EXCEPT ![job] = "SHIPPED"]
    /\ Goto("gate")
    /\ UNCHANGED <<placed, money, chain, outcome, runs>>

Ship ==
    /\ phase = "ship"
    /\ state' = [state EXCEPT ![job] = "SHIPPED"]
    /\ Goto("confirm")
    /\ UNCHANGED <<placed, money, chain, outcome, runs>>

\* The delivery hook names a confirmer, and the node attests the delivery.
ConfirmDelivery ==
    /\ phase = "confirm"
    /\ state' = [state EXCEPT ![job] = "DELIVERED"]
    /\ delivered' = [delivered EXCEPT ![job] = @ + 1]
    /\ Goto("gate")
    /\ UNCHANGED <<placed, money, accepted, units, outcome, runs>>

\* The hook raises: the operator interrupts the prompt.
ConfirmRaises ==
    /\ phase = "confirm"
    /\ Raises
    /\ UNCHANGED <<placed, money, state, chain, outcome, runs>>

-----------------------------------------------------------------------------
\* A gate content with at least the units bought.
BugAtLeast(j) == accepted[j] > 0 /\ units[j] >= Qty[j]

\* verify_chain: an identified job, and as many units attested as were bought.
Verified(j) == accepted[j] > 0 /\ units[j] = Qty[j]

\* settle_job's own guard.
Funded(j) == escrow[OrderOf[j]] >= Cents[j]

\* The gate opens: the job's total leaves the escrow along its legs.
Release ==
    /\ phase = "gate"
    /\ Verified(job)
    /\ Funded(job)
    /\ escrow' = [escrow EXCEPT ![OrderOf[job]] = @ - Cents[job]]
    /\ released' = [released EXCEPT ![job] = @ + 1]
    /\ state' = [state EXCEPT ![job] = "SETTLED"]
    /\ book' = [book EXCEPT ![job].completed = @ + 1]
    /\ Goto("pay")
    /\ UNCHANGED <<placed, chain, handed, filed, runs>>

\* A gate whose check is stripped: the payout follows all the same.
BugStrippedGate ==
    /\ phase = "gate"
    /\ ~(Verified(job) /\ Funded(job))
    /\ Goto("pay")
    /\ UNCHANGED <<placed, money, state, chain, outcome, runs>>

\* The gate stays shut, or the escrow is short: execute_order raises.
Refuse ==
    /\ phase = "gate"
    /\ ~(Verified(job) /\ Funded(job))
    /\ Raises
    /\ UNCHANGED <<placed, money, state, chain, outcome, runs>>

\* pay_legs returns, or raises with some of the legs driven.
Pay ==
    /\ phase = "pay"
    /\ handed' = handed \union {job}
    /\ \/ Goto("file")
       \/ Raises
    /\ UNCHANGED <<placed, money, state, chain, book, filed, runs>>

\* evidence.save, and the loop goes on.
File ==
    /\ phase = "file"
    /\ filed' = filed \union {job}
    /\ NextJob
    /\ UNCHANGED <<placed, money, state, chain, book, handed, runs>>

FileRaises ==
    /\ phase = "file"
    /\ Raises
    /\ UNCHANGED <<placed, money, state, chain, outcome, runs>>

Fabricate ==
    \/ Prepare \/ PrepareRaises \/ MakeUnit \/ MakeBatch \/ DriverRaises

Deliver == Ship \/ ConfirmDelivery \/ ConfirmRaises

Settle == Release \/ Refuse \/ Pay \/ File \/ FileRaises

Step == Accept \/ Decline \/ Fabricate \/ Deliver \/ Settle

Next ==
    \/ \E o \in Orders : Place(o) \/ Execute(o)
    \/ Step

Spec == Init /\ [][Next]_vars

-----------------------------------------------------------------------------
(***************************************************************************)
(* Properties.                                                             *)
(***************************************************************************)
PaidFor(o) == SumOver([j \in JobsOf(o) |-> released[j] * Cents[j]])

\* No cent is created or destroyed however executions fail and repeat: what
\* the escrow of an order holds and what its jobs were paid is what its buyer
\* paid (ledger.py:53-87, SETTLEMENT.md invariant 1).
EscrowBalanced == \A o \in placed : escrow[o] + PaidFor(o) = Total[o]

\* No job is paid for that was not made in full and delivered, whatever earlier
\* executions left in its evidence (agent.py:74-81, orchestrator.py:163-172).
PaidForWork == \A j \in Jobs :
    released[j] > 0 => units[j] >= Qty[j] /\ delivered[j] > 0

\* Real money is driven only for jobs the ledger settled, and the reputation
\* book credits a job as often as the ledger paid it (orchestrator.py:171-182).
LedgerLeads ==
    /\ \A j \in handed \union filed : released[j] > 0
    /\ \A j \in Jobs : book[j].completed = released[j]

\* A job is settled at most once (SETTLEMENT.md, "one atomic transaction"; the
\* comment at orchestrator.py:180-181 counts on re-runs being harmless).
SettledOnce == \A j \in Jobs : released[j] <= 1

\* The pipeline implements the promise of module Escrow.
Account == INSTANCE Escrow WITH
    funded <- placed,
    remaining <- escrow,
    settled <- {j \in Jobs : released[j] > 0}
KeepsEscrow == Account!Spec
=============================================================================
