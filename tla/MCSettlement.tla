---------------------------- MODULE MCSettlement ----------------------------
(***************************************************************************)
(* Instances of Settlement for TLC.  Order o1 has two jobs, so that one    *)
(* may fail after the other was settled, of different quantities and       *)
(* totals; o2 has one, and its driver is manual.  Settlement_twice gives   *)
(* both jobs of o1 a manual driver instead.                                *)
(***************************************************************************)
EXTENDS Settlement

CONSTANTS o1, o2, a, b, c

TwoOrders == [o \in {o1, o2} |-> IF o = o1 THEN <<a, b>> ELSE <<c>>]
OneOrder == [o \in {o1} |-> <<a, b>>]
OrderIn == [j \in Jobs |-> IF j = c THEN o2 ELSE o1]
Units == [j \in Jobs |-> IF j = a THEN 2 ELSE 1]
Price == [j \in Jobs |-> IF j = b THEN 7 ELSE 5]
Paid == [o \in Orders |-> IF o = o1 THEN 12 ELSE 5]
=============================================================================
