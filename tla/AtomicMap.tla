----------------------------- MODULE AtomicMap -----------------------------
(***************************************************************************)
(* The contract of the Store interface (v3/bingo/store.py, class Store),   *)
(* for records that count their own writes: the writes of a transaction    *)
(* land together on what the table holds at that moment and are            *)
(* acknowledged, or none of them ever lands.                               *)
(***************************************************************************)
EXTENDS Integers

CONSTANT Keys

VARIABLES table,       \* the durable records
          acknowledged \* the writes that callers were told are durable

Init == /\ table = [k \in Keys |-> 0]
        /\ acknowledged = [k \in Keys |-> 0]

Plus(f, S) == [k \in Keys |-> IF k \in S THEN f[k] + 1 ELSE f[k]]

Write(S) == /\ table' = Plus(table, S)
            /\ acknowledged' = Plus(acknowledged, S)

Next == \E S \in SUBSET Keys : Write(S)

Spec == Init /\ [][Next]_<<table, acknowledged>>
=============================================================================
