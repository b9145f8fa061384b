-------------------------- MODULE SettlementProofs --------------------------
(***************************************************************************)
(* Theorems about Settlement, for every set of orders and jobs, every plan,*)
(* every quantity and any number of executions.                            *)
(*                                                                         *)
(* Types come first, then one inductive invariant for each property, which *)
(* adds to it what is known at the phases before the step that matters.    *)
(* That no cent is lost (EscrowBalanced) rests on the sums of SumsProofs.  *)
(***************************************************************************)
EXTENDS Settlement, SumsProofs, SequenceTheorems

\* What is known of the job that is executed.
LEMMA JobType ==
    ASSUME TypeOK, phase # "idle"
    PROVE  /\ job \in Jobs
           /\ OrderOf[job] \in Orders
           /\ Tail(left) \in Seq(Jobs)
BY SettlementAssumption, HeadTailProperties DEF TypeOK, RunType, job

LEMMA BoundType == MaxRuns \in Nat
BY SettlementAssumption

LEMMA QtyType == \A j \in Jobs : Qty[j] \in Nat /\ Qty[j] > 0
BY SettlementAssumption
-----------------------------------------------------------------------------
LEMMA TypeStep == TypeOK /\ [Next]_vars => TypeOK'
<1> SUFFICES ASSUME TypeOK, [Next]_vars
             PROVE  TypeOK'
  OBVIOUS
<1>1. CASE UNCHANGED vars
  BY <1>1 DEF vars, money, chain, outcome, TypeOK, MoneyType, ChainType, OutcomeType, RunType
<1>2. ASSUME NEW o \in Orders, Place(o)
      PROVE  TypeOK'
  <2>1. MoneyType'
    <3>1. Total[o] \in Nat
      BY SettlementAssumption
    <3> QED  BY <1>2, <3>1 DEF TypeOK, MoneyType, Place
  <2>2. ChainType'
    BY <1>2 DEF TypeOK, ChainType, Place, chain, outcome
  <2>3. OutcomeType'
    BY <1>2 DEF TypeOK, OutcomeType, States, Place, chain, outcome
  <2>4. RunType'
    BY <1>2 DEF TypeOK, RunType, Phases, Place, chain, outcome
  <2> QED  BY <2>1, <2>2, <2>3, <2>4 DEF TypeOK
<1>3. ASSUME NEW o \in Orders, Execute(o)
      PROVE  TypeOK'
  <2>1. MoneyType'
    BY <1>3 DEF TypeOK, MoneyType, Execute, money, chain, outcome
  <2>2. ChainType'
    BY <1>3 DEF TypeOK, ChainType, Execute, money, chain, outcome
  <2>3. OutcomeType'
    BY <1>3 DEF TypeOK, OutcomeType, States, Execute, money, chain, outcome
  <2>4. RunType'
    <3>1. Plan[o] \in Seq(Jobs)
      BY SettlementAssumption
    <3>2. runs[o] + 1 \in 0 .. MaxRuns
      BY <1>3, BoundType DEF TypeOK, RunType, Execute
    <3> QED  BY <1>3, <3>1, <3>2 DEF TypeOK, RunType, Phases, Execute
  <2> QED  BY <2>1, <2>2, <2>3, <2>4 DEF TypeOK
<1>4. ASSUME Accept
      PROVE  TypeOK'
  <2>1. MoneyType'
    BY <1>4, JobType DEF TypeOK, MoneyType, Accept, Goto, money, outcome
  <2>2. ChainType'
    BY <1>4, JobType DEF TypeOK, ChainType, Accept, Goto, money, outcome
  <2>3. OutcomeType'
    BY <1>4, JobType DEF TypeOK, OutcomeType, States, Accept, Goto, money, outcome
  <2>4. RunType'
    BY <1>4, JobType DEF TypeOK, RunType, Phases, Accept, Goto, money, outcome
  <2> QED  BY <2>1, <2>2, <2>3, <2>4 DEF TypeOK
<1>5. ASSUME Decline
      PROVE  TypeOK'
  <2>1. MoneyType'
    BY <1>5, JobType DEF TypeOK, MoneyType, Decline, NextJob, money, chain
  <2>2. ChainType'
    BY <1>5, JobType DEF TypeOK, ChainType, Decline, NextJob, money, chain
  <2>3. OutcomeType'
    <3>1. job \in Jobs
      BY <1>5, JobType DEF Decline
    <3>2. book' \in [Jobs -> [completed : Nat, failed : Nat]]
      BY <1>5, <3>1 DEF TypeOK, OutcomeType, Decline
    <3> QED  BY <1>5, <3>1, <3>2 DEF TypeOK, OutcomeType, States, Decline
  <2>4. RunType'
    BY <1>5, JobType DEF TypeOK, RunType, Phases, Decline, NextJob, money, chain
  <2> QED  BY <2>1, <2>2, <2>3, <2>4 DEF TypeOK
<1>6. ASSUME Prepare
      PROVE  TypeOK'
  <2>1. MoneyType'
    BY <1>6, JobType DEF TypeOK, MoneyType, Prepare, Goto, money, chain, outcome
  <2>2. ChainType'
    BY <1>6, JobType DEF TypeOK, ChainType, Prepare, Goto, money, chain, outcome
  <2>3. OutcomeType'
    BY <1>6, JobType DEF TypeOK, OutcomeType, States, Prepare, Goto, money, chain, outcome
  <2>4. RunType'
    BY <1>6, JobType DEF TypeOK, RunType, Phases, Prepare, Goto, money, chain, outcome
  <2> QED  BY <2>1, <2>2, <2>3, <2>4 DEF TypeOK
<1>7. ASSUME PrepareRaises
      PROVE  TypeOK'
  <2>1. MoneyType'
    BY <1>7, JobType DEF TypeOK, MoneyType, PrepareRaises, Raises, money, chain, outcome
  <2>2. ChainType'
    BY <1>7, JobType DEF TypeOK, ChainType, PrepareRaises, Raises, money, chain, outcome
  <2>3. OutcomeType'
    BY <1>7, JobType DEF TypeOK, OutcomeType, States, PrepareRaises, Raises, money, chain, outcome
  <2>4. RunType'
    BY <1>7, JobType DEF TypeOK, RunType, Phases, PrepareRaises, Raises, money, chain, outcome
  <2> QED  BY <2>1, <2>2, <2>3, <2>4 DEF TypeOK
<1>8. ASSUME MakeUnit
      PROVE  TypeOK'
  <2>1. MoneyType'
    BY <1>8, JobType DEF TypeOK, MoneyType, MakeUnit, money, outcome
  <2>2. ChainType'
    BY <1>8, JobType, SMTT(30) DEF TypeOK, ChainType, MakeUnit, money, outcome
  <2>3. OutcomeType'
    BY <1>8, JobType DEF TypeOK, OutcomeType, States, MakeUnit, money, outcome
  <2>4. RunType'
    BY <1>8, JobType DEF TypeOK, RunType, Phases, MakeUnit, money, outcome
  <2> QED  BY <2>1, <2>2, <2>3, <2>4 DEF TypeOK
<1>9. ASSUME MakeBatch
      PROVE  TypeOK'
  <2>1. MoneyType'
    BY <1>9, JobType DEF TypeOK, MoneyType, MakeBatch, Goto, Raises, money, outcome
  <2>2. ChainType'
    BY <1>9, JobType, SMTT(30) DEF TypeOK, ChainType, MakeBatch, Goto, Raises, money, outcome
  <2>3. OutcomeType'
    BY <1>9, JobType DEF TypeOK, OutcomeType, States, MakeBatch, Goto, Raises, money, outcome
  <2>4. RunType'
    <3>1. \/ phase' = "ship" /\ UNCHANGED <<left, made>>
          \/ phase' = "idle" /\ left' = <<>> /\ made' = 0
      BY <1>9 DEF MakeBatch, Goto, Raises
    <3>2. phase = "make" /\ UNCHANGED runs
      BY <1>9 DEF MakeBatch
    <3>3. CASE phase' = "ship" /\ UNCHANGED <<left, made>>
      BY <3>2, <3>3 DEF TypeOK, RunType, Phases
    <3>4. CASE phase' = "idle" /\ left' = <<>> /\ made' = 0
      BY <3>2, <3>4 DEF TypeOK, RunType, Phases
    <3> QED  BY <3>1, <3>3, <3>4
  <2> QED  BY <2>1, <2>2, <2>3, <2>4 DEF TypeOK
<1>10. ASSUME DriverRaises
      PROVE  TypeOK'
  <2>1. MoneyType'
    BY <1>10, JobType DEF TypeOK, MoneyType, DriverRaises, Raises, money, chain, outcome
  <2>2. ChainType'
    BY <1>10, JobType DEF TypeOK, ChainType, DriverRaises, Raises, money, chain, outcome
  <2>3. OutcomeType'
    BY <1>10, JobType DEF TypeOK, OutcomeType, States, DriverRaises, Raises, money, chain, outcome
  <2>4. RunType'
    BY <1>10, JobType DEF TypeOK, RunType, Phases, DriverRaises, Raises, money, chain, outcome
  <2> QED  BY <2>1, <2>2, <2>3, <2>4 DEF TypeOK
<1>11. ASSUME Ship
      PROVE  TypeOK'
  <2>1. MoneyType'
    BY <1>11, JobType DEF TypeOK, MoneyType, Ship, Goto, money, chain, outcome
  <2>2. ChainType'
    BY <1>11, JobType DEF TypeOK, ChainType, Ship, Goto, money, chain, outcome
  <2>3. OutcomeType'
    BY <1>11, JobType DEF TypeOK, OutcomeType, States, Ship, Goto, money, chain, outcome
  <2>4. RunType'
    BY <1>11, JobType DEF TypeOK, RunType, Phases, Ship, Goto, money, chain, outcome
  <2> QED  BY <2>1, <2>2, <2>3, <2>4 DEF TypeOK
<1>12. ASSUME ConfirmDelivery
      PROVE  TypeOK'
  <2>1. MoneyType'
    BY <1>12, JobType DEF TypeOK, MoneyType, ConfirmDelivery, Goto, money, outcome
  <2>2. ChainType'
    BY <1>12, JobType, SMTT(30) DEF TypeOK, ChainType, ConfirmDelivery, Goto, money, outcome
  <2>3. OutcomeType'
    BY <1>12, JobType DEF TypeOK, OutcomeType, States, ConfirmDelivery, Goto, money, outcome
  <2>4. RunType'
    BY <1>12, JobType DEF TypeOK, RunType, Phases, ConfirmDelivery, Goto, money, outcome
  <2> QED  BY <2>1, <2>2, <2>3, <2>4 DEF TypeOK
<1>13. ASSUME ConfirmRaises
      PROVE  TypeOK'
  <2>1. MoneyType'
    BY <1>13, JobType DEF TypeOK, MoneyType, ConfirmRaises, Raises, money, chain, outcome
  <2>2. ChainType'
    BY <1>13, JobType DEF TypeOK, ChainType, ConfirmRaises, Raises, money, chain, outcome
  <2>3. OutcomeType'
    BY <1>13, JobType DEF TypeOK, OutcomeType, States, ConfirmRaises, Raises, money, chain, outcome
  <2>4. RunType'
    BY <1>13, JobType DEF TypeOK, RunType, Phases, ConfirmRaises, Raises, money, chain, outcome
  <2> QED  BY <2>1, <2>2, <2>3, <2>4 DEF TypeOK
<1>14. ASSUME Release
      PROVE  TypeOK'
  <2>1. MoneyType'
    <3>1. job \in Jobs /\ OrderOf[job] \in Orders
      BY <1>14, JobType DEF Release
    <3>2. Cents[job] \in Nat
      BY <3>1, SettlementAssumption
    <3>3. escrow' \in [Orders -> Nat]
      BY <1>14, <3>1, <3>2 DEF TypeOK, MoneyType, Release, Funded
    <3> QED  BY <1>14, <3>1, <3>3 DEF TypeOK, MoneyType, Release
  <2>2. ChainType'
    BY <1>14, JobType DEF TypeOK, ChainType, Release, Goto, Verified, Funded, chain
  <2>3. OutcomeType'
    <3>1. job \in Jobs
      BY <1>14, JobType DEF Release
    <3>2. book' \in [Jobs -> [completed : Nat, failed : Nat]]
      BY <1>14, <3>1 DEF TypeOK, OutcomeType, Release
    <3> QED  BY <1>14, <3>1, <3>2 DEF TypeOK, OutcomeType, States, Release
  <2>4. RunType'
    BY <1>14, JobType DEF TypeOK, RunType, Phases, Release, Goto, Verified, Funded, chain
  <2> QED  BY <2>1, <2>2, <2>3, <2>4 DEF TypeOK
<1>15. ASSUME Refuse
      PROVE  TypeOK'
  <2>1. MoneyType'
    BY <1>15, JobType DEF TypeOK, MoneyType, Refuse, Raises, Verified, Funded, money, chain, outcome
  <2>2. ChainType'
    BY <1>15, JobType DEF TypeOK, ChainType, Refuse, Raises, Verified, Funded, money, chain, outcome
  <2>3. OutcomeType'
    BY <1>15, JobType DEF TypeOK, OutcomeType, States, Refuse, Raises, Verified, Funded, money, chain, outcome
  <2>4. RunType'
    BY <1>15, JobType DEF TypeOK, RunType, Phases, Refuse, Raises, Verified, Funded, money, chain, outcome
  <2> QED  BY <2>1, <2>2, <2>3, <2>4 DEF TypeOK
<1>16. ASSUME Pay
      PROVE  TypeOK'
  <2>1. MoneyType'
    BY <1>16, JobType DEF TypeOK, MoneyType, Pay, Goto, Raises, money, chain
  <2>2. ChainType'
    BY <1>16, JobType DEF TypeOK, ChainType, Pay, Goto, Raises, money, chain
  <2>3. OutcomeType'
    BY <1>16, JobType DEF TypeOK, OutcomeType, States, Pay, Goto, Raises, money, chain
  <2>4. RunType'
    <3>1. \/ phase' = "file" /\ UNCHANGED <<left, made>>
          \/ phase' = "idle" /\ left' = <<>> /\ made' = 0
      BY <1>16 DEF Pay, Goto, Raises
    <3>2. phase = "pay" /\ UNCHANGED runs
      BY <1>16 DEF Pay
    <3>3. CASE phase' = "file" /\ UNCHANGED <<left, made>>
      BY <3>2, <3>3 DEF TypeOK, RunType, Phases
    <3>4. CASE phase' = "idle" /\ left' = <<>> /\ made' = 0
      BY <3>2, <3>4 DEF TypeOK, RunType, Phases
    <3> QED  BY <3>1, <3>3, <3>4
  <2> QED  BY <2>1, <2>2, <2>3, <2>4 DEF TypeOK
<1>17. ASSUME File
      PROVE  TypeOK'
  <2>1. MoneyType'
    BY <1>17, JobType DEF TypeOK, MoneyType, File, NextJob, money, chain
  <2>2. ChainType'
    BY <1>17, JobType DEF TypeOK, ChainType, File, NextJob, money, chain
  <2>3. OutcomeType'
    BY <1>17, JobType DEF TypeOK, OutcomeType, States, File, NextJob, money, chain
  <2>4. RunType'
    BY <1>17, JobType DEF TypeOK, RunType, Phases, File, NextJob, money, chain
  <2> QED  BY <2>1, <2>2, <2>3, <2>4 DEF TypeOK
<1>18. ASSUME FileRaises
      PROVE  TypeOK'
  <2>1. MoneyType'
    BY <1>18, JobType DEF TypeOK, MoneyType, FileRaises, Raises, money, chain, outcome
  <2>2. ChainType'
    BY <1>18, JobType DEF TypeOK, ChainType, FileRaises, Raises, money, chain, outcome
  <2>3. OutcomeType'
    BY <1>18, JobType DEF TypeOK, OutcomeType, States, FileRaises, Raises, money, chain, outcome
  <2>4. RunType'
    BY <1>18, JobType DEF TypeOK, RunType, Phases, FileRaises, Raises, money, chain, outcome
  <2> QED  BY <2>1, <2>2, <2>3, <2>4 DEF TypeOK
<1> QED  BY <1>1, <1>2, <1>3, <1>4, <1>5, <1>6, <1>7, <1>8, <1>9, <1>10,
            <1>11, <1>12, <1>13, <1>14, <1>15, <1>16, <1>17, <1>18
            DEF Next, Step, Fabricate, Deliver, Settle

\* Every reachable state is well typed: no escrow is ever overdrawn, no phase
\* is reached without a job (ledger.py:68-72).
THEOREM TypeCorrect == Spec => []TypeOK
<1>1. Init => TypeOK
  BY BoundType DEF Init, TypeOK, MoneyType, ChainType, OutcomeType,
                      RunType, States, Phases
<1> QED  BY <1>1, TypeStep, PTL DEF Spec

-----------------------------------------------------------------------------
(***************************************************************************)
(* What a job was paid for.  At the gate its delivery is attested already; *)
(* the gate itself counts its units.                                       *)
(***************************************************************************)
PaidInv == PaidForWork /\ (phase = "gate" => delivered[job] > 0)

LEMMA PaidStep == TypeOK /\ PaidInv /\ [Next]_vars => PaidInv'
<1> SUFFICES ASSUME TypeOK, PaidInv, [Next]_vars
             PROVE  PaidInv'
  OBVIOUS
<1> USE DEF PaidInv, PaidForWork, TypeOK, MoneyType, ChainType, job
<1>1. CASE UNCHANGED vars
  BY <1>1 DEF vars, money, chain, outcome
<1>2. ASSUME NEW o \in Orders, Place(o)
      PROVE  PaidInv'
  BY <1>2, JobType DEF Place, chain, outcome
<1>3. ASSUME NEW o \in Orders, Execute(o)
      PROVE  PaidInv'
  BY <1>3, JobType DEF Execute, money, chain, outcome
<1>4. ASSUME Accept
      PROVE  PaidInv'
  BY <1>4, JobType DEF Accept, Goto, money, outcome
<1>5. ASSUME Decline
      PROVE  PaidInv'
  BY <1>5, JobType DEF Decline, NextJob, money, chain
<1>6. ASSUME Prepare
      PROVE  PaidInv'
  BY <1>6, JobType DEF Prepare, Goto, money, chain, outcome
<1>7. ASSUME PrepareRaises
      PROVE  PaidInv'
  BY <1>7, JobType DEF PrepareRaises, Raises, money, chain, outcome
<1>8. ASSUME MakeUnit
      PROVE  PaidInv'
  <2>1. job \in Jobs
    BY <1>8, JobType DEF MakeUnit
  <2>2. /\ units' = [units EXCEPT ![job] = @ + 1]
        /\ UNCHANGED <<released, delivered>>
    BY <1>8 DEF MakeUnit, money
  <2>3. \A j \in Jobs : units'[j] >= units[j] /\ units'[j] \in Nat
    BY <2>1, <2>2
  <2>4. phase' # "gate"
    BY <1>8 DEF MakeUnit
  <2> QED  BY <2>2, <2>3, <2>4, QtyType
<1>9. ASSUME MakeBatch
      PROVE  PaidInv'
  <2>1. job \in Jobs
    BY <1>9, JobType DEF MakeBatch
  <2>2. PICK good \in 0 .. Qty[job] : units' = [units EXCEPT ![job] = @ + good]
    BY <1>9 DEF MakeBatch
  <2>3. \A j \in Jobs : units'[j] >= units[j] /\ units'[j] \in Nat
    BY <2>1, <2>2, QtyType
  <2>4. phase' # "gate" /\ UNCHANGED <<released, delivered>>
    BY <1>9 DEF MakeBatch, Goto, Raises, money
  <2> QED  BY <2>3, <2>4, QtyType
<1>10. ASSUME DriverRaises
      PROVE  PaidInv'
  BY <1>10, JobType DEF DriverRaises, Raises, money, chain, outcome
<1>11. ASSUME Ship
      PROVE  PaidInv'
  BY <1>11, JobType DEF Ship, Goto, money, chain, outcome
<1>12. ASSUME ConfirmDelivery
      PROVE  PaidInv'
  BY <1>12, JobType DEF ConfirmDelivery, Goto, money, outcome
<1>13. ASSUME ConfirmRaises
      PROVE  PaidInv'
  BY <1>13, JobType DEF ConfirmRaises, Raises, money, chain, outcome
<1>14. ASSUME Release
      PROVE  PaidInv'
  <2>1. job \in Jobs /\ Qty[job] \in Nat
    BY <1>14, JobType, QtyType DEF Release
  <2>2. delivered[job] > 0 /\ units[job] >= Qty[job]
    BY <1>14, <2>1 DEF Release, Verified
  <2>3. /\ released' = [released EXCEPT ![job] = @ + 1]
        /\ UNCHANGED <<units, delivered>>
        /\ phase' # "gate"
    BY <1>14 DEF Release, Goto, chain
  <2> QED  BY <2>1, <2>2, <2>3
<1>15. ASSUME Refuse
      PROVE  PaidInv'
  BY <1>15, JobType DEF Refuse, Raises, Verified, Funded, money, chain, outcome
<1>16. ASSUME Pay
      PROVE  PaidInv'
  BY <1>16, JobType DEF Pay, Goto, Raises, money, chain
<1>17. ASSUME File
      PROVE  PaidInv'
  BY <1>17, JobType DEF File, NextJob, money, chain
<1>18. ASSUME FileRaises
      PROVE  PaidInv'
  BY <1>18, JobType DEF FileRaises, Raises, money, chain, outcome
<1> QED  BY <1>1, <1>2, <1>3, <1>4, <1>5, <1>6, <1>7, <1>8, <1>9, <1>10,
            <1>11, <1>12, <1>13, <1>14, <1>15, <1>16, <1>17, <1>18
            DEF Next, Step, Fabricate, Deliver, Settle

\* No job is ever paid for that was not made in full and delivered
\* (agent.py:74-81, orchestrator.py:163-172).
THEOREM WorkComesFirst == Spec => []PaidForWork
<1>1. Init => PaidInv
  BY DEF Init, PaidInv, PaidForWork
<1>2. PaidInv => PaidForWork
  BY DEF PaidInv
<1> QED  BY TypeCorrect, <1>1, PaidStep, <1>2, PTL DEF Spec

-----------------------------------------------------------------------------
(***************************************************************************)
(* The ledger before the rail.  From the release to the end of a job, the  *)
(* ledger has settled it.                                                  *)
(***************************************************************************)
LedgerInv == LedgerLeads /\ (phase \in {"pay", "file"} => released[job] > 0)

LEMMA LedgerStep == TypeOK /\ LedgerInv /\ [Next]_vars => LedgerInv'
<1> SUFFICES ASSUME TypeOK, LedgerInv, [Next]_vars
             PROVE  LedgerInv'
  OBVIOUS
<1> USE DEF LedgerInv, LedgerLeads, TypeOK, MoneyType, job
<1>1. CASE UNCHANGED vars
  BY <1>1 DEF vars, money, chain, outcome
<1>2. ASSUME NEW o \in Orders, Place(o)
      PROVE  LedgerInv'
  BY <1>2, JobType DEF Place, chain, outcome
<1>3. ASSUME NEW o \in Orders, Execute(o)
      PROVE  LedgerInv'
  BY <1>3, JobType DEF Execute, money, chain, outcome
<1>4. ASSUME Accept
      PROVE  LedgerInv'
  BY <1>4, JobType DEF Accept, Goto, money, outcome
<1>5. ASSUME Decline
      PROVE  LedgerInv'
  BY <1>5, JobType DEF Decline, NextJob, money, chain
<1>6. ASSUME Prepare
      PROVE  LedgerInv'
  BY <1>6, JobType DEF Prepare, Goto, money, chain, outcome
<1>7. ASSUME PrepareRaises
      PROVE  LedgerInv'
  BY <1>7, JobType DEF PrepareRaises, Raises, money, chain, outcome
<1>8. ASSUME MakeUnit
      PROVE  LedgerInv'
  BY <1>8, JobType DEF MakeUnit, money, outcome
<1>9. ASSUME MakeBatch
      PROVE  LedgerInv'
  BY <1>9, JobType DEF MakeBatch, Goto, Raises, money, outcome
<1>10. ASSUME DriverRaises
      PROVE  LedgerInv'
  BY <1>10, JobType DEF DriverRaises, Raises, money, chain, outcome
<1>11. ASSUME Ship
      PROVE  LedgerInv'
  BY <1>11, JobType DEF Ship, Goto, money, chain, outcome
<1>12. ASSUME ConfirmDelivery
      PROVE  LedgerInv'
  BY <1>12, JobType DEF ConfirmDelivery, Goto, money, outcome
<1>13. ASSUME ConfirmRaises
      PROVE  LedgerInv'
  BY <1>13, JobType DEF ConfirmRaises, Raises, money, chain, outcome
<1>14. ASSUME Release
      PROVE  LedgerInv'
  <2>1. job \in Jobs
    BY <1>14, JobType DEF Release
  <2>2. /\ released' = [released EXCEPT ![job] = @ + 1]
        /\ UNCHANGED <<left, handed, filed>>
        /\ book' = [book EXCEPT ![job].completed = @ + 1]
    BY <1>14 DEF Release, Goto
  <2>3. \A j \in Jobs : book'[j].completed = released'[j]
    BY <2>1, <2>2 DEF OutcomeType
  <2> QED  BY <2>1, <2>2, <2>3
<1>15. ASSUME Refuse
      PROVE  LedgerInv'
  BY <1>15, JobType DEF Refuse, Raises, Verified, Funded, money, chain, outcome
<1>16. ASSUME Pay
      PROVE  LedgerInv'
  BY <1>16, JobType DEF Pay, Goto, Raises, money, chain
<1>17. ASSUME File
      PROVE  LedgerInv'
  BY <1>17, JobType DEF File, NextJob, money, chain
<1>18. ASSUME FileRaises
      PROVE  LedgerInv'
  BY <1>18, JobType DEF FileRaises, Raises, money, chain, outcome
<1> QED  BY <1>1, <1>2, <1>3, <1>4, <1>5, <1>6, <1>7, <1>8, <1>9, <1>10,
            <1>11, <1>12, <1>13, <1>14, <1>15, <1>16, <1>17, <1>18
            DEF Next, Step, Fabricate, Deliver, Settle

\* Real money is driven only for jobs the ledger settled, and the reputation
\* book credits a job as often as the ledger paid it (orchestrator.py:171-182).
THEOREM LedgerComesFirst == Spec => []LedgerLeads
<1>1. Init => LedgerInv
  BY DEF Init, LedgerInv, LedgerLeads
<1>2. LedgerInv => LedgerLeads
  BY DEF LedgerInv
<1> QED  BY TypeCorrect, <1>1, LedgerStep, <1>2, PTL DEF Spec

-----------------------------------------------------------------------------
(***************************************************************************)
(* Settled once.  A job that is made unit by unit attests all its units    *)
(* again when its order is executed again: a job that was settled before   *)
(* comes to the gate with at least twice its quantity, and the gate wants  *)
(* it exact.  Of a batch no such thing holds (the run Settlement_twice).   *)
(***************************************************************************)
OnceInv ==
    /\ \A j \in Jobs \ Batch : released[j] <= 1
    /\ phase \in {"offer", "prepare"} => made = 0
    /\ phase = "make" /\ job \notin Batch /\ released[job] > 0 =>
           units[job] >= Qty[job] + made
    /\ phase \in {"ship", "confirm", "gate"} /\ job \notin Batch /\ released[job] > 0 =>
           units[job] >= Qty[job] + Qty[job]

LEMMA OnceStep == TypeOK /\ PaidInv /\ OnceInv /\ [Next]_vars => OnceInv'
<1> SUFFICES ASSUME TypeOK, PaidInv, OnceInv, [Next]_vars
             PROVE  OnceInv'
  OBVIOUS
<1> USE QtyType DEF OnceInv, PaidInv, PaidForWork, TypeOK, MoneyType,
           ChainType, RunType, job
<1>1. CASE UNCHANGED vars
  BY <1>1 DEF vars, money, chain, outcome
<1>2. ASSUME NEW o \in Orders, Place(o)
      PROVE  OnceInv'
  BY <1>2, JobType DEF Place, chain, outcome
<1>3. ASSUME NEW o \in Orders, Execute(o)
      PROVE  OnceInv'
  BY <1>3, JobType DEF Execute, money, chain, outcome
<1>4. ASSUME Accept
      PROVE  OnceInv'
  BY <1>4, JobType DEF Accept, Goto, money, outcome
<1>5. ASSUME Decline
      PROVE  OnceInv'
  BY <1>5, JobType DEF Decline, NextJob, money, chain
<1>6. ASSUME Prepare
      PROVE  OnceInv'
  BY <1>6, JobType DEF Prepare, Goto, money, chain, outcome
<1>7. ASSUME PrepareRaises
      PROVE  OnceInv'
  BY <1>7, JobType DEF PrepareRaises, Raises, money, chain, outcome
<1>8. ASSUME MakeUnit
      PROVE  OnceInv'
  <2>1. job \in Jobs /\ units[job] \in Nat
    BY <1>8, JobType DEF MakeUnit
  <2>2. /\ units' = [units EXCEPT ![job] = @ + 1]
        /\ made' = made + 1
        /\ UNCHANGED <<released, left>>
        /\ phase = "make" /\ phase' \in {"make", "ship"}
        /\ phase' = "ship" => made' = Qty[job]
    BY <1>8 DEF MakeUnit, money
  <2>3. units'[job] = units[job] + 1 /\ made \in Nat /\ Qty[job] \in Nat
    BY <2>1, <2>2, QtyType
  <2>4. job \notin Batch /\ released[job] > 0 => units[job] >= Qty[job] + made
    BY <2>2
  <2>5. job \notin Batch /\ released[job] > 0 => units'[job] >= Qty[job] + made'
    BY <2>1, <2>2, <2>3, <2>4, SMTT(30)
  <2>6. phase' = "ship" /\ job \notin Batch /\ released[job] > 0 =>
            units'[job] >= Qty[job] + Qty[job]
    BY <2>2, <2>5
  <2> QED  BY <2>1, <2>2, <2>5, <2>6
<1>9. ASSUME MakeBatch
      PROVE  OnceInv'
  <2>1. phase' \in {"idle", "ship"} /\ UNCHANGED released
    BY <1>9 DEF MakeBatch, Goto, Raises, money
  <2>2. phase' = "ship" => UNCHANGED left /\ job \in Batch
    BY <1>9 DEF MakeBatch, Goto, Raises
  <2> QED  BY <2>1, <2>2
<1>10. ASSUME DriverRaises
      PROVE  OnceInv'
  BY <1>10, JobType DEF DriverRaises, Raises, money, chain, outcome
<1>11. ASSUME Ship
      PROVE  OnceInv'
  BY <1>11, JobType DEF Ship, Goto, money, chain, outcome
<1>12. ASSUME ConfirmDelivery
      PROVE  OnceInv'
  BY <1>12, JobType DEF ConfirmDelivery, Goto, money, outcome
<1>13. ASSUME ConfirmRaises
      PROVE  OnceInv'
  BY <1>13, JobType DEF ConfirmRaises, Raises, money, chain, outcome
<1>14. ASSUME Release
      PROVE  OnceInv'
  <2>1. job \in Jobs /\ units[job] = Qty[job]
    BY <1>14, JobType DEF Release, Verified
  <2>2. job \notin Batch => released[job] = 0
    BY <1>14, <2>1, QtyType DEF Release
  <2>3. released' = [released EXCEPT ![job] = @ + 1] /\ phase' = "pay"
    BY <1>14 DEF Release, Goto
  <2> QED  BY <2>1, <2>2, <2>3
<1>15. ASSUME Refuse
      PROVE  OnceInv'
  BY <1>15, JobType DEF Refuse, Raises, Verified, Funded, money, chain, outcome
<1>16. ASSUME Pay
      PROVE  OnceInv'
  BY <1>16, JobType DEF Pay, Goto, Raises, money, chain
<1>17. ASSUME File
      PROVE  OnceInv'
  BY <1>17, JobType DEF File, NextJob, money, chain
<1>18. ASSUME FileRaises
      PROVE  OnceInv'
  BY <1>18, JobType DEF FileRaises, Raises, money, chain, outcome
<1> QED  BY <1>1, <1>2, <1>3, <1>4, <1>5, <1>6, <1>7, <1>8, <1>9, <1>10,
            <1>11, <1>12, <1>13, <1>14, <1>15, <1>16, <1>17, <1>18
            DEF Next, Step, Fabricate, Deliver, Settle

\* A job that is made unit by unit is settled at most once, however often its
\* order is executed and wherever the executions before it broke off
\* (orchestrator.py:180-181).
THEOREM UnitJobsSettleOnce == Spec => [](\A j \in Jobs \ Batch : released[j] <= 1)
<1>1. Init => OnceInv
  BY DEF Init, OnceInv
<1>2. Init => PaidInv
  BY DEF Init, PaidInv, PaidForWork
<1>3. OnceInv => \A j \in Jobs \ Batch : released[j] <= 1
  BY DEF OnceInv
<1> QED  BY TypeCorrect, <1>1, <1>2, PaidStep, OnceStep, <1>3, PTL DEF Spec

\* With no batch jobs, every job is settled at most once.
THEOREM SettledOnceWithoutBatches == ASSUME Batch = {} PROVE Spec => []SettledOnce
<1>1. (\A j \in Jobs \ Batch : released[j] <= 1) => SettledOnce
  BY DEF SettledOnce
<1> QED  BY UnitJobsSettleOnce, <1>1, PTL

-----------------------------------------------------------------------------
(***************************************************************************)
(* Refinement.  Only orders that were placed are executed, so every        *)
(* release is out of an escrow that was funded.                            *)
(***************************************************************************)
OfPlaced == \A i \in 1 .. Len(left) : OrderOf[left[i]] \in placed

LEMMA PlacedStep == TypeOK /\ OfPlaced /\ [Next]_vars => OfPlaced'
<1> SUFFICES ASSUME TypeOK, OfPlaced, [Next]_vars
             PROVE  OfPlaced'
  OBVIOUS
<1> USE DEF OfPlaced, TypeOK, RunType, job
<1>1. CASE UNCHANGED vars
  BY <1>1 DEF vars, money, chain, outcome
<1>2. ASSUME NEW o \in Orders, Place(o)
      PROVE  OfPlaced'
  BY <1>2, JobType DEF Place, chain, outcome
<1>3. ASSUME NEW o \in Orders, Execute(o)
      PROVE  OfPlaced'
  <2>1. \A i \in 1 .. Len(Plan[o]) : OrderOf[Plan[o][i]] = o
    BY SettlementAssumption
  <2> QED  BY <1>3, <2>1 DEF Execute
<1>4. ASSUME Accept
      PROVE  OfPlaced'
  BY <1>4, JobType DEF Accept, Goto, money, outcome
<1>5. ASSUME Decline
      PROVE  OfPlaced'
  BY <1>5, JobType DEF Decline, NextJob, money, chain
<1>6. ASSUME Prepare
      PROVE  OfPlaced'
  BY <1>6, JobType DEF Prepare, Goto, money, chain, outcome
<1>7. ASSUME PrepareRaises
      PROVE  OfPlaced'
  BY <1>7, JobType DEF PrepareRaises, Raises, money, chain, outcome
<1>8. ASSUME MakeUnit
      PROVE  OfPlaced'
  BY <1>8, JobType DEF MakeUnit, money, outcome
<1>9. ASSUME MakeBatch
      PROVE  OfPlaced'
  BY <1>9, JobType DEF MakeBatch, Goto, Raises, money, outcome
<1>10. ASSUME DriverRaises
      PROVE  OfPlaced'
  BY <1>10, JobType DEF DriverRaises, Raises, money, chain, outcome
<1>11. ASSUME Ship
      PROVE  OfPlaced'
  BY <1>11, JobType DEF Ship, Goto, money, chain, outcome
<1>12. ASSUME ConfirmDelivery
      PROVE  OfPlaced'
  BY <1>12, JobType DEF ConfirmDelivery, Goto, money, outcome
<1>13. ASSUME ConfirmRaises
      PROVE  OfPlaced'
  BY <1>13, JobType DEF ConfirmRaises, Raises, money, chain, outcome
<1>14. ASSUME Release
      PROVE  OfPlaced'
  BY <1>14, JobType DEF Release, Goto, Verified, Funded, chain
<1>15. ASSUME Refuse
      PROVE  OfPlaced'
  BY <1>15, JobType DEF Refuse, Raises, Verified, Funded, money, chain, outcome
<1>16. ASSUME Pay
      PROVE  OfPlaced'
  BY <1>16, JobType DEF Pay, Goto, Raises, money, chain
<1>17. ASSUME File
      PROVE  OfPlaced'
  BY <1>17, JobType DEF File, NextJob, money, chain
<1>18. ASSUME FileRaises
      PROVE  OfPlaced'
  BY <1>18, JobType DEF FileRaises, Raises, money, chain, outcome
<1> QED  BY <1>1, <1>2, <1>3, <1>4, <1>5, <1>6, <1>7, <1>8, <1>9, <1>10,
            <1>11, <1>12, <1>13, <1>14, <1>15, <1>16, <1>17, <1>18
            DEF Next, Step, Fabricate, Deliver, Settle

(***************************************************************************)
(* The escrow.  A release takes from the escrow of the job's order what it *)
(* adds to what the job was paid; and no job of an order was paid before   *)
(* the order is placed and its escrow funded.                              *)
(***************************************************************************)
NonePaidBefore == \A j \in Jobs : released[j] > 0 => OrderOf[j] \in placed

BalanceInv == EscrowBalanced /\ NonePaidBefore

\* The addends of PaidFor.
Pays(o) == [j \in JobsOf(o) |-> released[j] * Cents[j]]

LEMMA PaysType ==
    ASSUME TypeOK, NEW o \in Orders
    PROVE  IsFiniteSet(JobsOf(o)) /\ JobsOf(o) \subseteq Jobs /\ Pays(o) \in [JobsOf(o) -> Nat]
<1>1. JobsOf(o) \subseteq Jobs /\ IsFiniteSet(Jobs)
  BY SettlementAssumption DEF JobsOf
<1>2. \A j \in Jobs : released[j] \in Nat /\ Cents[j] \in Nat
  BY SettlementAssumption DEF TypeOK, MoneyType
<1>3. \A m, n \in Nat : m * n \in Nat
  OBVIOUS
<1> QED  BY <1>1, <1>2, <1>3, FS_Subset DEF Pays

\* At the gate the running job is one of an order that was placed.
LEMMA GateIsPlaced ==
    ASSUME TypeOK, OfPlaced, phase # "idle"
    PROVE  OrderOf[job] \in placed
<1>1. left \in Seq(Jobs) /\ left # <<>>
  BY DEF TypeOK, RunType
<1>2. job = left[1] /\ 1 \in 1 .. Len(left)
  BY <1>1 DEF job
<1> QED  BY <1>2 DEF OfPlaced

LEMMA BalanceStep == TypeOK /\ OfPlaced /\ BalanceInv /\ [Next]_vars => BalanceInv'
<1> SUFFICES ASSUME TypeOK, OfPlaced, BalanceInv, [Next]_vars
             PROVE  BalanceInv'
  OBVIOUS
<1> USE DEF BalanceInv, NonePaidBefore
<1>1. CASE UNCHANGED <<placed, money>>
  BY <1>1 DEF money, EscrowBalanced, PaidFor, JobsOf
<1>2. ASSUME NEW o \in Orders, Place(o)
      PROVE  BalanceInv'
  <2>1. /\ placed' = placed \union {o} /\ o \notin placed
        /\ escrow' = [escrow EXCEPT ![o] = Total[o]] /\ released' = released
    BY <1>2 DEF Place
  <2>2. PaidFor(o)' = 0
    <3>1. \A j \in JobsOf(o) : released[j] * Cents[j] = 0
      <4>1. \A j \in JobsOf(o) : j \in Jobs /\ OrderOf[j] = o
        BY DEF JobsOf
      <4>2. \A j \in JobsOf(o) : released[j] = 0 /\ Cents[j] \in Nat
        BY <2>1, <4>1, SettlementAssumption DEF TypeOK, MoneyType
      <4> QED  BY <4>2
    <3>2. Pays(o) = [j \in JobsOf(o) |-> 0]
      BY <3>1 DEF Pays
    <3>3. PaidFor(o)' = SumOver(Pays(o))
      BY <2>1 DEF PaidFor, Pays, JobsOf
    <3> QED  BY <3>2, <3>3, PaysType, SumOfZeros
  <2>3. escrow'[o] = Total[o] /\ Total[o] \in Nat
    BY <2>1, SettlementAssumption DEF TypeOK, MoneyType
  <2>4. ASSUME NEW q \in placed
        PROVE  escrow'[q] + PaidFor(q)' = Total[q]
    <3>1. q \in Orders /\ q # o
      BY <2>1 DEF TypeOK, MoneyType
    <3>2. escrow'[q] = escrow[q]
      BY <2>1, <3>1 DEF TypeOK, MoneyType
    <3>3. PaidFor(q)' = PaidFor(q)
      BY <2>1 DEF PaidFor, JobsOf
    <3> QED  BY <3>2, <3>3 DEF EscrowBalanced
  <2> QED  BY <2>1, <2>2, <2>3, <2>4 DEF EscrowBalanced
<1>3. ASSUME Release
      PROVE  BalanceInv'
  <2>0. PICK k \in Jobs, o \in Orders : k = job /\ o = OrderOf[k]
    BY <1>3, JobType DEF Release
  <2>1. /\ o \in placed /\ k \in JobsOf(o)
        /\ Cents[k] \in Nat /\ released[k] \in Nat
    BY <1>3, <2>0, GateIsPlaced, SettlementAssumption
       DEF Release, JobsOf, TypeOK, MoneyType
  <2>2. /\ placed' = placed
        /\ escrow' = [escrow EXCEPT ![o] = @ - Cents[k]]
        /\ released' = [released EXCEPT ![k] = @ + 1]
    BY <1>3, <2>0 DEF Release
  <2>3. PaidFor(o)' = PaidFor(o) + Cents[k] /\ PaidFor(o) \in Nat
    <3> DEFINE v == (released[k] + 1) * Cents[k]
    <3>1. PaidFor(o) = SumOver(Pays(o))
      BY DEF PaidFor, Pays
    <3>2. Pays(o)' = [Pays(o) EXCEPT ![k] = v]
      <4>1. \A j \in Jobs : released'[j] = IF j = k THEN released[j] + 1 ELSE released[j]
        BY <2>2 DEF TypeOK, MoneyType
      <4>2. \A j \in JobsOf(o) : j \in Jobs
        BY DEF JobsOf
      <4>3. \A j \in JobsOf(o) : released'[j] * Cents[j] =
                IF j = k THEN v ELSE released[j] * Cents[j]
        BY <4>1, <4>2
      <4>4. Pays(o)' = [j \in JobsOf(o) |-> released'[j] * Cents[j]]
        BY DEF Pays, JobsOf
      <4> HIDE DEF v
      <4> QED  BY <4>3, <4>4 DEF Pays
    <3>3. PaidFor(o)' = SumOver(Pays(o)')
      <4>1. PaidFor(o)' = SumOver([j \in JobsOf(o) |-> released'[j] * Cents[j]])
        BY DEF PaidFor, JobsOf
      <4>2. Pays(o)' = [j \in JobsOf(o) |-> released'[j] * Cents[j]]
        BY DEF Pays, JobsOf
      <4> QED  BY <4>1, <4>2
    <3>4. v = released[k] * Cents[k] + Cents[k] /\ v \in Nat
      <4>1. \A m, n \in Nat : (m + 1) * n = m * n + n /\ (m + 1) * n \in Nat
        OBVIOUS
      <4> QED  BY <2>1, <4>1
    <3>5. Pays(o)[k] = released[k] * Cents[k]
      BY <2>1 DEF Pays
    <3>6. SumOver([Pays(o) EXCEPT ![k] = v]) + Pays(o)[k] = SumOver(Pays(o)) + v
      <4>1. v \in Nat
        BY <3>4
      <4>2. Pays(o) \in [JobsOf(o) -> Nat] /\ IsFiniteSet(JobsOf(o))
        BY PaysType
      <4> HIDE DEF v, Pays
      <4> QED  BY <2>1, <4>1, <4>2, SumExcept, ZenonT(30)
    <3>7. /\ SumOver(Pays(o)) \in Nat /\ SumOver([Pays(o) EXCEPT ![k] = v]) \in Nat
          /\ Pays(o)[k] \in Nat
      <4>1. [Pays(o) EXCEPT ![k] = v] \in [JobsOf(o) -> Nat]
        BY <2>1, <3>4, PaysType
      <4>2. Pays(o) \in [JobsOf(o) -> Nat] /\ IsFiniteSet(JobsOf(o))
        BY PaysType
      <4>3. Pays(o)[k] \in Nat
        BY <2>1, <4>2
      <4> HIDE DEF v, Pays
      <4>4. SumOver(Pays(o)) \in Nat
        BY <4>2, SumType
      <4>5. SumOver([Pays(o) EXCEPT ![k] = v]) \in Nat
        BY <4>1, <4>2, SumType
      <4> QED  BY <4>3, <4>4, <4>5
    <3> HIDE DEF v
    <3> QED  BY <2>1, <3>1, <3>2, <3>3, <3>4, <3>5, <3>6, <3>7
  <2>4. ASSUME NEW q \in placed
        PROVE  escrow'[q] + PaidFor(q)' = Total[q]
    <3>1. q \in Orders
      BY DEF TypeOK, MoneyType
    <3>2. CASE q = o
      <4>1. escrow'[q] = escrow[q] - Cents[k] /\ escrow[q] \in Nat
        BY <2>1, <2>2, <3>1, <3>2 DEF TypeOK, MoneyType
      <4>2. escrow[q] + PaidFor(q) = Total[q]
        BY DEF EscrowBalanced
      <4>3. PaidFor(q)' = PaidFor(q) + Cents[k] /\ PaidFor(q) \in Nat
        BY <2>3, <3>2
      <4> QED  BY <2>1, <4>1, <4>2, <4>3
    <3>3. CASE q # o
      <4>1. escrow'[q] = escrow[q]
        BY <2>2, <3>1, <3>3 DEF TypeOK, MoneyType
      <4>2. \A j \in JobsOf(q) : released'[j] = released[j]
        BY <2>0, <2>2, <3>3 DEF JobsOf, TypeOK, MoneyType
      <4>3. Pays(q)' = Pays(q)
        <5>1. Pays(q)' = [j \in JobsOf(q) |-> released'[j] * Cents[j]]
          BY DEF Pays, JobsOf
        <5> QED  BY <4>2, <5>1 DEF Pays
      <4>4. PaidFor(q)' = SumOver(Pays(q)') /\ PaidFor(q) = SumOver(Pays(q))
        <5>1. PaidFor(q)' = SumOver([j \in JobsOf(q) |-> released'[j] * Cents[j]])
          BY DEF PaidFor, JobsOf
        <5>2. Pays(q)' = [j \in JobsOf(q) |-> released'[j] * Cents[j]]
          BY DEF Pays, JobsOf
        <5> QED  BY <5>1, <5>2 DEF PaidFor, Pays
      <4> QED  BY <4>1, <4>3, <4>4 DEF EscrowBalanced
    <3> QED  BY <3>2, <3>3
  <2>5. NonePaidBefore'
    BY <2>0, <2>1, <2>2 DEF TypeOK, MoneyType
  <2> QED  BY <2>2, <2>4, <2>5 DEF EscrowBalanced
<1> QED  BY <1>1, <1>2, <1>3 DEF Next, Step, Fabricate, Deliver, Settle, vars,
         Execute, Accept, Decline, Prepare, PrepareRaises, MakeUnit, MakeBatch,
         DriverRaises, Ship, ConfirmDelivery, ConfirmRaises, Refuse, Pay, File,
         FileRaises

\* No cent is created or destroyed, however executions fail and repeat
\* (ledger.py:53-87, SETTLEMENT.md invariant 1).
THEOREM NoCentIsLost == Spec => []EscrowBalanced
<1>1. Init => OfPlaced /\ BalanceInv
  BY DEF Init, OfPlaced, BalanceInv, NonePaidBefore, EscrowBalanced
<1>2. BalanceInv => EscrowBalanced
  BY DEF BalanceInv
<1> QED  BY TypeCorrect, <1>1, PlacedStep, BalanceStep, <1>2, PTL DEF Spec

\* The order's total is enough for every job to be paid once: an escrow that
\* never holds less than nothing has paid its jobs no more than the buyer paid
\* for them together (ledger.py:68-72, Order.total_cents).
THEOREM JobsArePaidTheirTotal ==
    Spec => [](\A o \in placed : PaidFor(o) <= SumOver([j \in JobsOf(o) |-> Cents[j]]))
<1>1. TypeOK /\ EscrowBalanced =>
          \A o \in placed : PaidFor(o) <= SumOver([j \in JobsOf(o) |-> Cents[j]])
  <2> SUFFICES ASSUME TypeOK, EscrowBalanced, NEW o \in placed
               PROVE  PaidFor(o) <= SumOver([j \in JobsOf(o) |-> Cents[j]])
    OBVIOUS
  <2>1. o \in Orders /\ escrow[o] \in Nat
    BY DEF TypeOK, MoneyType
  <2>2. SumOver([j \in JobsOf(o) |-> Cents[j]]) = Total[o]
    BY <2>1, TotalAssumption
  <2>3. PaidFor(o) \in Nat
    BY <2>1, PaysType, SumType DEF PaidFor, Pays
  <2> QED  BY <2>1, <2>2, <2>3 DEF EscrowBalanced
<1> QED  BY TypeCorrect, NoCentIsLost, <1>1, PTL

-----------------------------------------------------------------------------
\* What settled stands for in Escrow.
Settled == {j \in Jobs : released[j] > 0}

\* With no batch jobs the pipeline implements the abstract account of module
\* Escrow: funded once, and every job takes exactly its total out of it, once
\* (SETTLEMENT.md, "Atomic per-job release").
THEOREM PipelineKeepsEscrow == ASSUME Batch = {} PROVE Spec => KeepsEscrow
<1> DEFINE Inv == TypeOK /\ PaidInv /\ OnceInv /\ OfPlaced
<1>1. Spec => []Inv
  <2>1. Init => PaidInv /\ OnceInv /\ OfPlaced
    BY DEF Init, PaidInv, PaidForWork, OnceInv, OfPlaced
  <2> QED  BY <2>1, TypeCorrect, PaidStep, OnceStep, PlacedStep, PTL DEF Spec
<1>2. Init => Account!Init
  BY DEF Init, Account!Init
<1>3. Inv /\ [Next]_vars => [Account!Next]_(Account!account)
  <2> SUFFICES ASSUME Inv, [Next]_vars
               PROVE  Account!Next \/ UNCHANGED <<placed, escrow, Settled>>
    BY DEF Account!account, Settled
  <2>1. CASE UNCHANGED <<placed, money>>
    BY <2>1 DEF money, Settled
  <2>2. ASSUME NEW o \in Orders, Place(o)
        PROVE  Account!Next
    BY <2>2 DEF Place, Account!Next, Account!Fund
  <2>3. ASSUME Release
        PROVE  Account!Next
    <3>1. job \in Jobs /\ OrderOf[job] \in Orders
      BY <2>3, JobType DEF Release
    <3>2. OrderOf[job] \in placed
      <4>1. left \in Seq(Jobs) /\ left # <<>>
        BY <2>3 DEF TypeOK, RunType, Release
      <4>2. job = left[1] /\ 1 \in 1 .. Len(left)
        BY <4>1 DEF job
      <4> QED  BY <4>2 DEF OfPlaced
    <3>3. released[job] = 0
      <4>1. units[job] = Qty[job] /\ phase = "gate"
        BY <2>3 DEF Release, Verified
      <4>2. ~(released[job] > 0)
        BY <3>1, <4>1, QtyType DEF OnceInv
      <4> QED  BY <3>1, <4>2 DEF TypeOK, MoneyType
    <3>4. Settled' = Settled \union {job} /\ job \notin Settled
      BY <2>3, <3>1, <3>3 DEF Settled, Release, TypeOK, MoneyType
    <3> QED  BY <2>3, <3>1, <3>2, <3>4
             DEF Account!Next, Account!Release, Release, Funded, Settled
  <2> QED  BY <2>1, <2>2, <2>3 DEF Next, Step, Fabricate, Deliver, Settle, vars,
           Execute, Accept, Decline, Prepare, PrepareRaises, MakeUnit, MakeBatch,
           DriverRaises, Ship, ConfirmDelivery, ConfirmRaises, Refuse, Pay, File,
           FileRaises
<1> QED  BY <1>1, <1>2, <1>3, PTL DEF Spec, KeepsEscrow, Account!Spec
=============================================================================
