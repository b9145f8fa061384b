------------------------------- MODULE Escrow -------------------------------
(***************************************************************************)
(* What settlement promises of an order's escrow, with nothing said of     *)
(* nodes, drivers, evidence or re-runs (v3/specs/SETTLEMENT.md, "Atomic    *)
(* per-job release"; v3/bingo/ledger.py): it is funded once, each job      *)
(* takes exactly its own total out of it, and no job takes it twice.       *)
(***************************************************************************)
EXTENDS Integers

CONSTANTS Orders,
          Jobs,
          OrderOf,  \* the order of a job
          Total,    \* what the buyer of an order pays
          Cents     \* the total of a job

VARIABLES funded,    \* the orders whose escrow was funded
          remaining, \* the cents left in each escrow
          settled    \* the jobs that took their share

account == <<funded, remaining, settled>>

Init == /\ funded = {}
        /\ remaining = [o \in Orders |-> 0]
        /\ settled = {}

Fund(o) == /\ o \notin funded
           /\ funded' = funded \union {o}
           /\ remaining' = [remaining EXCEPT ![o] = Total[o]]
           /\ UNCHANGED settled

Release(j) == /\ OrderOf[j] \in funded
              /\ j \notin settled
              /\ remaining[OrderOf[j]] >= Cents[j]
              /\ remaining' = [remaining EXCEPT ![OrderOf[j]] = @ - Cents[j]]
              /\ settled' = settled \union {j}
              /\ UNCHANGED funded

Next == \/ \E o \in Orders : Fund(o)
        \/ \E j \in Jobs : Release(j)

Spec == Init /\ [][Next]_account
=============================================================================
