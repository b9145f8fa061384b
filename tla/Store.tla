------------------------------- MODULE Store -------------------------------
(***************************************************************************)
(* The storage seam of v3/bingo/store.py under its two backends: processes *)
(* that share one file and use it through get, put, transaction and        *)
(* backup.                                                                 *)
(*                                                                         *)
(* A JsonStore keeps the file in memory (_data), reads it again when a     *)
(* transaction begins, and replaces the whole file whenever it writes; it  *)
(* has no lock between processes.  A SqliteStore takes the write lock when *)
(* a transaction begins and commits record by record.                      *)
(*                                                                         *)
(* A record's value is the number of times it was written, so a write that *)
(* is lost, or that lands after its caller was told it failed, shows.  A   *)
(* record with an owner is written by put alone, as the payout journal is; *)
(* the others are read, modified and written inside transactions.  Delete  *)
(* behaves as put.  Nested transactions join the outermost and are not     *)
(* modelled, nor is restore, which is run on a node that is stopped.       *)
(*                                                                         *)
(* An operator named Bug... is a plausible mistake in the definition after *)
(* it.  Next never uses one: they show which property would catch it.      *)
(***************************************************************************)
EXTENDS Integers

CONSTANTS Procs,
          Keys,
          Owner,    \* the process that puts a record, or Nobody
          Nobody,
          Backend,  \* "json" or "sqlite"
          MaxWrites \* a bound on the writes of one record

ASSUME StoreAssumption ==
    /\ Nobody \notin Procs
    /\ Owner \in [Keys -> Procs \union {Nobody}]
    /\ Backend \in {"json", "sqlite"}
    /\ MaxWrites \in Nat

Json == Backend = "json"
Sqlite == Backend = "sqlite"

VARIABLES disk,  \* the file
          view,  \* each process's _data, or its uncommitted transaction
                 \* (unused by an idle SqliteStore)
          mode,  \* "closed", "open" or "txn"
          dirty, \* the records the running transaction has written
          lock,  \* SQLite's write lock: a process or Nobody
          acked, \* history: the writes of each record that returned
          copy   \* the latest backup

vars == <<disk, view, mode, dirty, lock, acked, copy>>

Tables == [Keys -> Nat]
Empty == [k \in Keys |-> 0]

TypeOK ==
    /\ disk \in Tables
    /\ view \in [Procs -> Tables]
    /\ mode \in [Procs -> {"closed", "open", "txn"}]
    /\ dirty \in [Procs -> SUBSET Keys]
    /\ lock \in Procs \union {Nobody}
    /\ acked \in Tables
    /\ copy \in Tables

Init ==
    /\ disk = Empty
    /\ view = [p \in Procs |-> Empty]
    /\ mode = [p \in Procs |-> "closed"]
    /\ dirty = [p \in Procs |-> {}]
    /\ lock = Nobody
    /\ acked = Empty
    /\ copy = Empty

Plus(f, S) == [k \in Keys |-> IF k \in S THEN f[k] + 1 ELSE f[k]]

\* open_store: a JsonStore reads the file, a SqliteStore connects to it.
Open(p) ==
    /\ mode[p] = "closed"
    /\ mode' = [mode EXCEPT ![p] = "open"]
    /\ view' = [view EXCEPT ![p] = disk]
    /\ UNCHANGED <<disk, dirty, lock, acked, copy>>

\* The process ends, or dies: an open transaction is gone, its lock with it.
Close(p) ==
    /\ mode[p] # "closed"
    /\ mode' = [mode EXCEPT ![p] = "closed"]
    /\ view' = [view EXCEPT ![p] = Empty]
    /\ dirty' = [dirty EXCEPT ![p] = {}]
    /\ lock' = IF lock = p THEN Nobody ELSE lock
    /\ UNCHANGED <<disk, acked, copy>>

-----------------------------------------------------------------------------
\* BEGIN without IMMEDIATE: the lock is not taken before the first read.
BugBeginDeferred(p) ==
    /\ mode[p] = "open"
    /\ mode' = [mode EXCEPT ![p] = "txn"]
    /\ view' = [view EXCEPT ![p] = disk]
    /\ UNCHANGED <<disk, dirty, lock, acked, copy>>

\* The transaction sees the file as it is now.  BEGIN IMMEDIATE waits for the
\* lock, and is an error on a connection that still has a transaction.
Begin(p) ==
    /\ mode[p] = "open"
    /\ Sqlite => lock = Nobody
    /\ mode' = [mode EXCEPT ![p] = "txn"]
    /\ view' = [view EXCEPT ![p] = disk]
    /\ lock' = IF Sqlite THEN p ELSE lock
    /\ UNCHANGED <<disk, dirty, acked, copy>>

\* get and put of a shared record, inside a transaction.
Modify(p, k) ==
    /\ mode[p] = "txn"
    /\ Owner[k] = Nobody
    /\ k \notin dirty[p]
    /\ view[p][k] < MaxWrites
    /\ view' = [view EXCEPT ![p][k] = @ + 1]
    /\ dirty' = [dirty EXCEPT ![p] = @ \union {k}]
    /\ UNCHANGED <<disk, mode, lock, acked, copy>>

Ended(p) ==
    /\ mode[p] = "txn"
    /\ mode' = [mode EXCEPT ![p] = "open"]
    /\ dirty' = [dirty EXCEPT ![p] = {}]

\* The acknowledgement comes before the records are durable.
BugAckFirst(p) ==
    /\ Ended(p)
    /\ acked' = Plus(acked, dirty[p])
    /\ lock' = IF lock = p THEN Nobody ELSE lock
    /\ UNCHANGED <<disk, view, copy>>

\* The transaction's end: the whole file, or the records it wrote.
Commit(p) ==
    /\ Ended(p)
    /\ disk' = IF Json THEN view[p]
                       ELSE [k \in Keys |-> IF k \in dirty[p] THEN view[p][k]
                                                              ELSE disk[k]]
    /\ acked' = Plus(acked, dirty[p])
    /\ lock' = IF lock = p THEN Nobody ELSE lock
    /\ UNCHANGED <<view, copy>>

\* The write at the end raises.  The memory of a JsonStore keeps the records;
\* SQLite has rolled the transaction back, or leaves it open with its lock.
CommitRaises(p) ==
    /\ Ended(p)
    /\ lock' \in {lock, IF lock = p THEN Nobody ELSE lock}
    /\ UNCHANGED <<disk, view, acked, copy>>

\* The body of the transaction raises: back to what is on disk.
Abort(p) ==
    /\ Ended(p)
    /\ view' = [view EXCEPT ![p] = disk]
    /\ lock' = IF lock = p THEN Nobody ELSE lock
    /\ UNCHANGED <<disk, acked, copy>>

-----------------------------------------------------------------------------
\* put outside a transaction, of a record that only this process writes: the
\* caller counts its own successful writes.
Put(p, k) ==
    /\ mode[p] = "open"
    /\ Owner[k] = p
    /\ acked[k] < MaxWrites
    /\ Sqlite => lock = Nobody
    /\ view' = [view EXCEPT ![p][k] = acked[k] + 1]
    /\ disk' = IF Json THEN view'[p] ELSE [disk EXCEPT ![k] = acked[k] + 1]
    /\ acked' = Plus(acked, {k})
    /\ UNCHANGED <<mode, dirty, lock, copy>>

\* Its write raises; the memory of a JsonStore has the record all the same.
PutRaises(p, k) ==
    /\ mode[p] = "open"
    /\ Owner[k] = p
    /\ acked[k] < MaxWrites
    /\ Sqlite => lock = Nobody
    /\ view' = [view EXCEPT ![p][k] = acked[k] + 1]
    /\ UNCHANGED <<disk, mode, dirty, lock, acked, copy>>

\* A snapshot of SQLite that includes what this process has not committed.
BugBackupView(p) ==
    /\ mode[p] = "txn"
    /\ copy' = view[p]
    /\ UNCHANGED <<disk, view, mode, dirty, lock, acked>>

\* backup: a JsonStore first writes its memory over the file, then copies it.
Backup(p) ==
    /\ mode[p] = "open"
    /\ disk' = IF Json THEN view[p] ELSE disk
    /\ copy' = disk'
    /\ UNCHANGED <<view, mode, dirty, lock, acked>>

Next == \E p \in Procs :
    \/ Open(p) \/ Close(p) \/ Backup(p)
    \/ Begin(p) \/ Commit(p) \/ CommitRaises(p) \/ Abort(p)
    \/ \E k \in Keys : Modify(p, k) \/ Put(p, k) \/ PutRaises(p, k)

Spec == Init /\ [][Next]_vars

-----------------------------------------------------------------------------
(***************************************************************************)
(* Properties.                                                             *)
(***************************************************************************)

\* A write that returned is on disk and stays there, whatever other processes
\* write, fail to write, or back up (store.py:108-109).
AckedIsDurable == \A k \in Keys : disk[k] >= acked[k]

\* A backup is the file as it stands when it is taken: every write that returned
\* by then and no other, though transactions are open (store.py:373-376).
BackupIsReal == [][\A p \in Procs : Backup(p) => copy' = acked]_vars

\* The backend honours the contract of module AtomicMap.
Contract == INSTANCE AtomicMap WITH table <- disk, acknowledged <- acked
KeepsContract == Contract!Spec
=============================================================================
