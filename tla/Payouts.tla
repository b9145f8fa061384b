------------------------------ MODULE Payouts ------------------------------
(***************************************************************************)
(* What the payout layer of BINGO promises about money, with nothing said  *)
(* of processes, journals, retries or crashes (v3/bingo/payout.py, module  *)
(* docstring): a payout is intended before it is disbursed, disbursed at   *)
(* most once, reported as paid only after it was disbursed, and none of    *)
(* these is ever taken back.                                               *)
(***************************************************************************)
CONSTANT Due         \* the payouts that the settled jobs owe

VARIABLES intended,  \* payouts with a durable intent
          disbursed, \* payouts whose money has left
          confirmed  \* payouts durably reported as paid

books == <<intended, disbursed, confirmed>>

Init == /\ intended = {}
        /\ disbursed = {}
        /\ confirmed = {}

\* Money leaves for one intended payout that has not been disbursed yet.
Disburse(k) == /\ k \in intended \ disbursed
               /\ disbursed' = disbursed \union {k}
               /\ UNCHANGED <<intended, confirmed>>

\* The durable books grow: new intents, and confirmations of money that left.
Book(new, known) == /\ intended' = intended \union new
                    /\ confirmed' = confirmed \union known
                    /\ UNCHANGED disbursed

Next == \/ \E k \in Due : Disburse(k)
        \/ \E new \in SUBSET Due, known \in SUBSET disbursed : Book(new, known)

Spec == Init /\ [][Next]_books
=============================================================================
