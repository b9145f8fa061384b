------------------------------ MODULE AuditLog ------------------------------
(***************************************************************************)
(* The audit log of v3/bingo/audit.py: processes append to one hash-chained*)
(* file through the storage seam (store.py).  An append is a transaction:  *)
(* it reads the head, extends it by one record and commits; it never       *)
(* raises into its caller, a failure is noted in errors instead.           *)
(*                                                                         *)
(* A SqliteStore gives the transaction the write lock; a JsonStore reads   *)
(* the file when the transaction begins and replaces it at the end, with   *)
(* no lock between processes.  Within a process, appends take turns        *)
(* (AuditLog._lock).                                                       *)
(*                                                                         *)
(* Abstracted: the hash of a record is the sequence of entries up to it,   *)
(* which it pins; the identity of a log is the process that began it; what *)
(* a record says is an entry.  Signatures are optional and left out.       *)
(***************************************************************************)
EXTENDS Integers, Sequences, SequencesExt, FiniteSetsExt

CONSTANTS Writers, \* the processes that append
          Idle,    \* no entry
          Backend, \* "json" or "sqlite"
          MaxErrors \* a bound on the appends that fail

ASSUME AuditAssumption == Backend \in {"json", "sqlite"} /\ MaxErrors \in Nat

VARIABLES records, \* the file, by sequence number
          seen,    \* what each writer's transaction read
          pending, \* the entry it is appending, or Idle
          acked,   \* history: the entries whose append returned a record
          errors   \* the entries whose append failed

audit == <<records, seen, pending, acked, errors>>

Hash(rec) == Append(rec.prev, rec.entry)

\* The record that extends a chain, by its last: the log's identity is minted
\* with the first record and carried on.
NextRecord(w, chain, e) ==
    [log |-> IF chain = <<>> THEN w ELSE Last(chain).log,
     seq |-> Len(chain),
     entry |-> e,
     prev |-> IF chain = <<>> THEN <<>> ELSE Hash(Last(chain))]

VerifyAudit(chain) ==
    \A i \in DOMAIN chain :
        /\ chain[i].log = chain[1].log
        /\ chain[i].seq = i - 1
        /\ chain[i].prev = IF i = 1 THEN <<>> ELSE Hash(chain[i - 1])

Failed(e) == Cardinality(errors) < MaxErrors /\ errors' = errors \union {e}
Recorded(chain) == {chain[i].entry : i \in DOMAIN chain}

AuditInit ==
    /\ records = <<>>
    /\ seen = [w \in Writers |-> <<>>]
    /\ pending = [w \in Writers |-> Idle]
    /\ acked = {}
    /\ errors = {}

\* A transaction that takes no lock.
BugBeginAppend(w, e) ==
    /\ pending[w] = Idle
    /\ pending' = [pending EXCEPT ![w] = e]
    /\ seen' = [seen EXCEPT ![w] = records]
    /\ UNCHANGED <<records, acked, errors>>

\* The transaction begins, and reads the head.
BeginAppend(w, e) ==
    /\ pending[w] = Idle
    /\ Backend = "sqlite" => \A v \in Writers : pending[v] = Idle
    /\ pending' = [pending EXCEPT ![w] = e]
    /\ seen' = [seen EXCEPT ![w] = records]
    /\ UNCHANGED <<records, acked, errors>>

\* The transaction cannot begin: the file is locked for too long, or is gone.
RefuseAppend(w, e) ==
    /\ pending[w] = Idle
    /\ Failed(e)
    /\ UNCHANGED <<records, seen, pending, acked>>

\* It commits, or raises and leaves the file as it was.
EndAppend(w) ==
    /\ pending[w] # Idle
    /\ pending' = [pending EXCEPT ![w] = Idle]
    /\ \/ /\ records' = Append(seen[w], NextRecord(w, seen[w], pending[w]))
          /\ acked' = acked \union {pending[w]}
          /\ UNCHANGED <<seen, errors>>
       \/ /\ Failed(pending[w])
          /\ UNCHANGED <<records, seen, acked>>

\* Its process dies.
AbandonAppend(w) ==
    /\ pending' = [pending EXCEPT ![w] = Idle]
    /\ UNCHANGED <<records, seen, acked, errors>>

-----------------------------------------------------------------------------
\* The file verifies at every moment, whatever the interleaving of its
\* writers: no reader ever finds a cut or forked chain (audit.py:251).
LogVerifies == VerifyAudit(records)

\* An append that returned its record is in the file for good.
AckedIsRecorded == acked \subseteq Recorded(records)

=============================================================================
