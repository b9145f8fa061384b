---------------------------- MODULE PayoutEngine ----------------------------
(***************************************************************************)
(* The payout engine of v3/bingo/payout.py: processes that drive the legs  *)
(* of settled jobs through a payout rail, journaling each payout before    *)
(* and after the rail is called.                                           *)
(*                                                                         *)
(* A process keeps the journal in memory (PayoutEngine._journal), loaded   *)
(* once when it starts, and writes through it: the JSONL journal is        *)
(* rewritten whole from that memory, a SqliteStore is updated one record   *)
(* at a time.  Processes crash and restart, a write may raise, a rail call *)
(* may raise, its answer may be lost, and the provider behind the rail is  *)
(* idempotent per key.  Abstracted: attempt counts, error texts, external  *)
(* references, the audit record (only that appending it may raise), and    *)
(* the order in which a call drives its keys (any order here).             *)
(*                                                                         *)
(* An operator named Bug... is a plausible mistake in the definition after *)
(* it.  Next never uses one: they show which property would catch it.      *)
(***************************************************************************)
EXTENDS Sums, Sequences, FiniteSets

CONSTANTS Procs,      \* settlement processes sharing one journal
          Jobs,       \* settled jobs
          Legs,       \* leg identities: account, amount and memo
          Receipt,    \* the settlement legs of each job, in order
          MaxLegs,    \* a bound on the length of a receipt
          Amount,     \* the cents of each leg
          Backend,    \* "jsonl" or "sqlite"
          NoRec       \* no record for this key

Statuses == {"PENDING", "PAID", "FAILED"}

ASSUME PayoutAssumption ==
    /\ MaxLegs \in Nat
    /\ Receipt \in [Jobs -> Seq(Legs)]
    /\ \A j \in Jobs : Len(Receipt[j]) <= MaxLegs
    /\ Amount \in [Legs -> Nat]
    /\ Backend \in {"jsonl", "sqlite"}
    /\ NoRec \notin Statuses

(***************************************************************************)
(* Idempotency keys.  A key stands for the economic identity of a leg and  *)
(* for its occurrence among the identical legs of its job; never for its   *)
(* position, so a rearranged receipt has the same keys.                    *)
(***************************************************************************)
Keys == [job : Jobs, leg : Legs, n : 0 .. MaxLegs]

Occurrence(ls, i) == Cardinality({h \in 1 .. (i - 1) : ls[h] = ls[i]})

\* Keys bound to the position of a leg in the receipt.
BugPositionKeys(j, ls) ==
    {[job |-> j, leg |-> ls[i], n |-> i - 1] : i \in 1 .. Len(ls)}

LegKeys(j, ls) ==
    {[job |-> j, leg |-> ls[i], n |-> Occurrence(ls, i)] : i \in 1 .. Len(ls)}

\* The same legs in any order: what a caller may hand to pay_legs for a job.
Arrangements(j) ==
    LET I == 1 .. Len(Receipt[j])
        Bijections == {f \in [I -> I] : \A a, b \in I : f[a] = f[b] => a = b}
    IN  {[i \in I |-> Receipt[j][f[i]]] : f \in Bijections}

Copies(j, l) == Cardinality({i \in 1 .. Len(Receipt[j]) : Receipt[j][i] = l})

Owed(j) == {k \in Keys : k.job = j /\ k.n < Copies(j, k.leg)}

AllOwed == UNION {Owed(j) : j \in Jobs}

-----------------------------------------------------------------------------
VARIABLES journal, \* the durable journal: key -> status or NoRec
          mem,     \* each process's _journal
          pc,      \* "down", "loop", "send" (intent written), "record" (answer in)
          todo,    \* the keys the running pay_legs or retry_pending still drives
          cur,     \* the key being driven
          answer,  \* what the rail answered for it
          moved,   \* provider side: the keys whose transfer exists
          called   \* history: the jobs pay_legs was ever called for

vars == <<journal, mem, pc, todo, cur, answer, moved, called>>

Blank == [k \in Keys |-> NoRec]

Free(p) == pc[p] = "loop" /\ todo[p] = {}

TypeOK ==
    /\ journal \in [Keys -> Statuses \union {NoRec}]
    /\ mem \in [Procs -> [Keys -> Statuses \union {NoRec}]]
    /\ pc \in [Procs -> {"down", "loop", "send", "record"}]
    /\ todo \in [Procs -> SUBSET Keys]
    /\ cur \in [Procs -> Keys \union {NoRec}]
    /\ answer \in [Procs -> Statuses \union {NoRec}]
    /\ moved \in SUBSET Keys
    /\ called \in SUBSET Jobs

Init ==
    /\ journal = Blank
    /\ mem = [p \in Procs |-> Blank]
    /\ pc = [p \in Procs |-> "down"]
    /\ todo = [p \in Procs |-> {}]
    /\ cur = [p \in Procs |-> NoRec]
    /\ answer = [p \in Procs |-> NoRec]
    /\ moved = {}
    /\ called = {}

\* A restart that does not load the journal.
BugAmnesia(p) ==
    /\ pc[p] = "down"
    /\ pc' = [pc EXCEPT ![p] = "loop"]
    /\ UNCHANGED <<journal, mem, todo, cur, answer, moved, called>>

\* PayoutEngine(...): the journal on disk becomes this process's memory.
Start(p) ==
    /\ pc[p] = "down"
    /\ mem' = [mem EXCEPT ![p] = journal]
    /\ pc' = [pc EXCEPT ![p] = "loop"]
    /\ UNCHANGED <<journal, todo, cur, answer, moved, called>>

\* The process dies between any two steps; only disk and provider remember.
Crash(p) ==
    /\ pc[p] # "down"
    /\ pc' = [pc EXCEPT ![p] = "down"]
    /\ mem' = [mem EXCEPT ![p] = Blank]
    /\ todo' = [todo EXCEPT ![p] = {}]
    /\ cur' = [cur EXCEPT ![p] = NoRec]
    /\ answer' = [answer EXCEPT ![p] = NoRec]
    /\ UNCHANGED <<journal, moved, called>>

\* pay_legs: the caller passes the job's legs in some order.  A key that is
\* PAID in memory is skipped; nothing but this loop changes the memory until
\* it ends, so the skip is decided here for every leg.
PayLegs(p, j) ==
    /\ Free(p)
    /\ \E ls \in Arrangements(j) :
           todo' = [todo EXCEPT ![p] = {k \in LegKeys(j, ls) : mem[p][k] # "PAID"}]
    /\ called' = called \union {j}
    /\ UNCHANGED <<journal, mem, pc, cur, answer, moved>>

\* A retry of the refused payouts only.
BugRetryFailed(p) ==
    /\ Free(p)
    /\ todo' = [todo EXCEPT ![p] = {k \in Keys : mem[p][k] = "FAILED"}]
    /\ UNCHANGED <<journal, mem, pc, cur, answer, moved, called>>

\* retry_pending: every payout that is PENDING or FAILED in memory.
RetryPending(p) ==
    /\ Free(p)
    /\ todo' = [todo EXCEPT ![p] = {k \in Keys : mem[p][k] \in {"PENDING", "FAILED"}}]
    /\ UNCHANGED <<journal, mem, pc, cur, answer, moved, called>>

\* _persist(rec): the whole JSONL file is replaced by this process's memory; a
\* store takes the one record.
Persisted(m, k) ==
    IF Backend = "jsonl" THEN m ELSE [journal EXCEPT ![k] = m[k]]

\* An intent that stays in memory until the outcome is known.
BugIntendInMemory(p, k) ==
    /\ pc[p] = "loop"
    /\ k \in todo[p]
    /\ mem' = [mem EXCEPT ![p][k] = "PENDING"]
    /\ pc' = [pc EXCEPT ![p] = "send"]
    /\ cur' = [cur EXCEPT ![p] = k]
    /\ todo' = [todo EXCEPT ![p] = @ \ {k}]
    /\ UNCHANGED <<journal, answer, moved, called>>

\* _drive, first phase: the PENDING intent is durable before the rail is called.
Intend(p, k) ==
    /\ pc[p] = "loop"
    /\ k \in todo[p]
    /\ mem' = [mem EXCEPT ![p][k] = "PENDING"]
    /\ journal' = Persisted(mem'[p], k)
    /\ pc' = [pc EXCEPT ![p] = "send"]
    /\ cur' = [cur EXCEPT ![p] = k]
    /\ todo' = [todo EXCEPT ![p] = @ \ {k}]
    /\ UNCHANGED <<answer, moved, called>>

\* The write of the intent raises: the memory has it, the disk does not, and
\* the exception ends pay_legs or retry_pending before the rail is called.
IntendFails(p, k) ==
    /\ pc[p] = "loop"
    /\ k \in todo[p]
    /\ mem' = [mem EXCEPT ![p][k] = "PENDING"]
    /\ todo' = [todo EXCEPT ![p] = {}]
    /\ UNCHANGED <<journal, pc, cur, answer, moved, called>>

-----------------------------------------------------------------------------
(***************************************************************************)
(* rail.send: the provider creates at most one transfer per key.           *)
(***************************************************************************)
Answered(p, status) ==
    /\ pc[p] = "send"
    /\ answer' = [answer EXCEPT ![p] = status]
    /\ pc' = [pc EXCEPT ![p] = "record"]
    /\ UNCHANGED <<journal, mem, todo, cur, called>>

\* 2xx: the transfer exists, created now or by an earlier call with this key.
Confirmed(p) == Answered(p, "PAID") /\ moved' = moved \union {cur[p]}

\* A time-out taken for success.
BugTimeoutIsPaid(p) ==
    /\ Answered(p, "PAID")
    /\ \/ moved' = moved \union {cur[p]}
       \/ UNCHANGED moved

\* No response reached us, a 429 or a 5xx: retryable.  The transfer may exist.
Unanswered(p) ==
    /\ Answered(p, "PENDING")
    /\ \/ moved' = moved \union {cur[p]}
       \/ UNCHANGED moved

\* No credentials, no connected account, or a 4xx.
Refused(p) == Answered(p, "FAILED") /\ UNCHANGED moved

\* The call raises (a 2xx whose body is not JSON, a rail that is not wired):
\* nothing catches it, so the record stays PENDING and the loop is over.
SendRaises(p) ==
    /\ pc[p] = "send"
    /\ pc' = [pc EXCEPT ![p] = "loop"]
    /\ todo' = [todo EXCEPT ![p] = {}]
    /\ cur' = [cur EXCEPT ![p] = NoRec]
    /\ \/ moved' = moved \union {cur[p]}
       \/ UNCHANGED moved
    /\ UNCHANGED <<journal, mem, answer, called>>

Returned(p) ==
    /\ pc[p] = "record"
    /\ mem' = [mem EXCEPT ![p][cur[p]] = answer[p]]
    /\ pc' = [pc EXCEPT ![p] = "loop"]
    /\ cur' = [cur EXCEPT ![p] = NoRec]
    /\ answer' = [answer EXCEPT ![p] = NoRec]
    /\ UNCHANGED <<moved, called>>

\* _drive, second phase: the outcome is durable.  The audit append after it
\* may raise, and then the loop is over.
Record(p) ==
    /\ Returned(p)
    /\ journal' = Persisted(mem'[p], cur[p])
    /\ todo' \in {todo, [todo EXCEPT ![p] = {}]}

\* The write of the outcome raises: memory and disk disagree until the next
\* write of the key (or, with JSONL, of any key) or until a restart.
RecordFails(p) ==
    /\ Returned(p)
    /\ todo' = [todo EXCEPT ![p] = {}]
    /\ UNCHANGED journal

Step(p) ==
    \/ \E k \in Keys : Intend(p, k)
    \/ Confirmed(p)
    \/ Record(p)

Trouble(p) ==
    \/ Crash(p)
    \/ \E k \in Keys : IntendFails(p, k)
    \/ Unanswered(p)
    \/ Refused(p)
    \/ SendRaises(p)
    \/ RecordFails(p)

Next == \E p \in Procs :
    \/ Start(p)
    \/ \E j \in Jobs : PayLegs(p, j)
    \/ RetryPending(p)
    \/ Step(p)
    \/ Trouble(p)

Spec == Init /\ [][Next]_vars

(***************************************************************************)
(* Fairness, for the liveness properties only.  A process that is started  *)
(* runs; the operator, told by v3/bingo/node/watch.py that a payout on     *)
(* disk is FAILED or still PENDING, runs retry_pending again and again,    *)
(* and relaunches a process whose memory no longer agrees with the disk (a *)
(* failed write of PAID leaves a record that process would never retry);   *)
(* outages end, so a payout that is sent again and again is at last        *)
(* confirmed, and its confirmation recorded.  Nothing is assumed of        *)
(* PayLegs: the caller may never call it again.                            *)
(***************************************************************************)
RetrySomething(p) == RetryPending(p) /\ todo'[p] # {}
Relaunch(p) == Free(p) /\ mem[p] # journal /\ Crash(p)
ConfirmedFor(p, k) == cur[p] = k /\ Confirmed(p)
RecordPaid(p, k) == cur[p] = k /\ answer[p] = "PAID" /\ Record(p)

Fairness == \A p \in Procs :
    /\ WF_vars(Start(p)) /\ WF_vars(Record(p)) /\ WF_vars(Relaunch(p))
    /\ SF_vars(RetrySomething(p))
    /\ \A k \in AllOwed : /\ SF_vars(Intend(p, k))
                          /\ SF_vars(ConfirmedFor(p, k))
                          /\ SF_vars(RecordPaid(p, k))

FairSpec == Spec /\ Fairness

-----------------------------------------------------------------------------
(***************************************************************************)
(* Properties.                                                             *)
(***************************************************************************)

\* Money has left only for payouts the journal on disk knows of: whatever
\* crashes between the two phases, a restarted engine still sees the payout
\* and re-drives it under the same key (payout.py:11-15).
IntentBeforeMoney == \A k \in moved : journal[k] # NoRec

\* Neither the disk nor any process ever takes a payout for PAID unless the
\* provider made the transfer: a lost answer, a refusal or a stale memory
\* never turns into a payee who is told they were paid (payout.py:16-18).
PaidMeansMoved ==
    /\ \A k \in Keys : journal[k] = "PAID" => k \in moved
    /\ \A p \in Procs, k \in Keys : mem[p][k] = "PAID" => k \in moved

\* However often, in whatever order and by whichever process a job's legs are
\* paid, retried or replayed, the provider makes no more transfers for a leg
\* than the receipt has copies of it (payout.py:7-10, 50-56).
TransfersOf(j, l) == Cardinality({k \in moved : k.job = j /\ k.leg = l})
NoOverpay == \A j \in Jobs, l \in Legs : TransfersOf(j, l) <= Copies(j, l)

\* Once the journal on disk says PAID no step takes it back, so a key that was
\* paid is never driven again (payout.py:320-323, 344).
PaidIsFinal ==
    [][\A k \in Keys : journal[k] = "PAID" => journal'[k] = "PAID"]_vars

\* reconcile_job over one process's memory: the books of job j tie out, and
\* every owed cent is PAID.
CentsOf(S) == SumOver([k \in S |-> Amount[k.leg]])
Expected(j) == LegKeys(j, Receipt[j])
Records(p, j) == {k \in Keys : k.job = j /\ mem[p][k] # NoRec}
BugCountsPending(p, j) == {k \in Records(p, j) : mem[p][k] # "FAILED"}
PaidRecords(p, j) == {k \in Records(p, j) : mem[p][k] = "PAID"}
Consistent(p, j) ==
    Records(p, j) = Expected(j) /\ CentsOf(Records(p, j)) = CentsOf(Expected(j))
FullySettled(p, j) ==
    Consistent(p, j) /\ CentsOf(PaidRecords(p, j)) = CentsOf(Expected(j))

\* reconcile_with_rail: the PAID records of job j that the provider does not
\* confirm, when it answers retrieve for the keys in heard only.
Retrieved(heard) == moved \intersect heard
Drift(p, j, heard) == PaidRecords(p, j) \ Retrieved(heard)

\* When reconcile_job calls a job fully settled, the transfers at the provider
\* add up to exactly what the job owes, whatever was lost, retried or replayed
\* on the way (payout.py:19-22, 369-406); and a provider that answers never
\* gives reconcile_with_rail a drift to report (payout.py:408-425).
ReconcileSound == \A p \in Procs, j \in Jobs :
    /\ FullySettled(p, j) =>
           CentsOf({k \in moved : k.job = j}) = CentsOf(Expected(j))
    /\ Drift(p, j, Keys) = {}

\* What the journal, the provider and the disk show of this engine is the
\* promise of module Payouts.
Promise == INSTANCE Payouts WITH
    Due <- AllOwed,
    intended <- {k \in Keys : journal[k] # NoRec},
    disbursed <- moved,
    confirmed <- {k \in Keys : journal[k] = "PAID"}
KeepsPromise == Promise!Spec

\* A payout that reached the journal is paid in the end, through crashes, lost
\* answers, refusals and failing writes (payout.py:11-15, 358-362).
RecordedIsPaid == \A k \in AllOwed : (journal[k] # NoRec) ~> (journal[k] = "PAID")

=============================================================================
