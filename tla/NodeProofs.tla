----------------------------- MODULE NodeProofs -----------------------------
(***************************************************************************)
(* Theorems about what a node does with its own disk and its own printer,  *)
(* the components that MCNode checks side by side: the storage seam, the   *)
(* files of a collection, the stored keys, the registry's files and the    *)
(* printer's driver; and about the alerts of its watch.  Each is for every *)
(* value of its constants.                                                 *)
(***************************************************************************)
EXTENDS Store, NodeFiles, KeyCustody, Catalog, K2Printer, AlertWatch, SumsProofs

-----------------------------------------------------------------------------
(***************************************************************************)
(* Store, for every set of processes and records.                          *)
(*                                                                         *)
(* The contract of the storage seam is SQLite's: a JsonStore does not keep *)
(* it once two processes share a file. The argument is the write lock: it  *)
(* is held from the first read of a transaction to its end, so what the    *)
(* transaction read is still there when its records land.                  *)
(***************************************************************************)

\* What a transaction holds: the lock, and the file with its own writes.
Locked == \A p \in Procs :
    /\ mode[p] = "txn" => lock = p /\ view[p] = Plus(disk, dirty[p])
    /\ mode[p] # "txn" => dirty[p] = {}

\* No record is put that a transaction may write.
Shared == \A p \in Procs : \A k \in dirty[p] : Owner[k] = Nobody

StoreInv == TypeOK /\ Locked /\ Shared /\ disk = acked

LEMMA StoreTypeStep == TypeOK /\ [Next]_vars => TypeOK'
<1> SUFFICES ASSUME TypeOK, [Next]_vars
             PROVE  TypeOK'
  OBVIOUS
<1> USE StoreAssumption DEF TypeOK, Tables, Plus, Empty
<1>1. CASE UNCHANGED vars
  BY <1>1 DEF vars
<1>2. ASSUME NEW p \in Procs, Open(p)
      PROVE  TypeOK'
  BY <1>2 DEF Open
<1>3. ASSUME NEW p \in Procs, Close(p)
      PROVE  TypeOK'
  BY <1>3 DEF Close
<1>4. ASSUME NEW p \in Procs, Begin(p)
      PROVE  TypeOK'
  BY <1>4 DEF Begin
<1>5. ASSUME NEW p \in Procs, NEW k \in Keys, Modify(p, k)
      PROVE  TypeOK'
  BY <1>5 DEF Modify
<1>6. ASSUME NEW p \in Procs, Commit(p)
      PROVE  TypeOK'
  BY <1>6 DEF Commit, Ended
<1>7. ASSUME NEW p \in Procs, CommitRaises(p)
      PROVE  TypeOK'
  BY <1>7 DEF CommitRaises, Ended
<1>8. ASSUME NEW p \in Procs, Abort(p)
      PROVE  TypeOK'
  BY <1>8 DEF Abort, Ended
<1>9. ASSUME NEW p \in Procs, NEW k \in Keys, Put(p, k)
      PROVE  TypeOK'
  BY <1>9 DEF Put
<1>10. ASSUME NEW p \in Procs, NEW k \in Keys, PutRaises(p, k)
       PROVE  TypeOK'
  BY <1>10 DEF PutRaises
<1>11. ASSUME NEW p \in Procs, Backup(p)
       PROVE  TypeOK'
  BY <1>11 DEF Backup
<1> QED  BY <1>1, <1>2, <1>3, <1>4, <1>5, <1>6, <1>7, <1>8, <1>9, <1>10,
            <1>11 DEF Next

\* Every reachable state is well typed, under both backends.
THEOREM StoreTypeCorrect == Spec => []TypeOK
<1>1. Init => TypeOK
  BY DEF Init, TypeOK, Tables, Empty
<1> QED  BY <1>1, StoreTypeStep, PTL DEF Spec

-----------------------------------------------------------------------------
\* What the steps of an SqliteStore do to the file and to what callers were
\* told: the same writes to both, or none.
Grows == \E S \in SUBSET Keys : disk' = Plus(disk, S) /\ acked' = Plus(acked, S)

LEMMA LockStep == ASSUME Sqlite, StoreInv, [Next]_vars
                  PROVE  /\ StoreInv'
                         /\ Grows \/ UNCHANGED <<disk, acked>>
<1> USE StoreAssumption DEF StoreInv, TypeOK, Tables, Plus, Empty, Locked, Shared,
                            Sqlite, Json
<1> DEFINE Goal == (Locked /\ Shared /\ disk = acked)'
                   /\ (Grows \/ UNCHANGED <<disk, acked>>)
<1>0. TypeOK'
  BY StoreTypeStep
<1>1. CASE UNCHANGED vars
  BY <1>1 DEF vars
<1>2. ASSUME NEW p \in Procs, Open(p)
      PROVE  Goal
  BY <1>2 DEF Open
<1>3. ASSUME NEW p \in Procs, Close(p)
      PROVE  Goal
  BY <1>3 DEF Close
<1>4. ASSUME NEW p \in Procs, Begin(p)
      PROVE  Goal
  BY <1>4 DEF Begin
<1>5. ASSUME NEW p \in Procs, NEW k \in Keys, Modify(p, k)
      PROVE  Goal
  <2>1. view'[p] = Plus(disk, dirty'[p])
    <3>1. view[p] = Plus(disk, dirty[p]) /\ k \notin dirty[p]
      BY <1>5 DEF Modify
    <3>2. /\ view'[p] = [view[p] EXCEPT ![k] = @ + 1]
          /\ dirty'[p] = dirty[p] \union {k}
      BY <1>5 DEF Modify
    <3>3. \A i \in Keys : view'[p][i] = IF i \in dirty'[p] THEN disk[i] + 1 ELSE disk[i]
      BY <3>1, <3>2
    <3> QED  BY <3>2, <3>3
  <2>2. \A q \in Procs : mode[q] = "txn" => q = p
    BY <1>5 DEF Modify
  <2> QED  BY <1>5, <2>1, <2>2 DEF Modify
<1>6. ASSUME NEW p \in Procs, Commit(p)
      PROVE  Goal
  <2>1. disk' = Plus(disk, dirty[p]) /\ acked' = Plus(acked, dirty[p])
    BY <1>6 DEF Commit, Ended
  <2>2. Grows
    BY <2>1, <1>6 DEF Grows
  <2> QED  BY <1>6, <2>1, <2>2 DEF Commit, Ended
<1>7. ASSUME NEW p \in Procs, CommitRaises(p)
      PROVE  Goal
  BY <1>7 DEF CommitRaises, Ended
<1>8. ASSUME NEW p \in Procs, Abort(p)
      PROVE  Goal
  BY <1>8 DEF Abort, Ended
<1>9. ASSUME NEW p \in Procs, NEW k \in Keys, Put(p, k)
      PROVE  Goal
  <2>1. disk' = [disk EXCEPT ![k] = acked[k] + 1] /\ acked' = Plus(acked, {k})
    BY <1>9 DEF Put
  <2>2. disk' = Plus(disk, {k})
    BY <2>1
  <2>3. Grows
    <3> HIDE DEF Plus
    <3> QED  BY <2>1, <2>2, ZenonT(30) DEF Grows
  <2>4. \A q \in Procs : mode[q] # "txn"
    BY <1>9 DEF Put
  <2>5. UNCHANGED <<mode, dirty, lock, copy>>
    BY <1>9 DEF Put
  <2>6. (disk = acked)'
    <3> HIDE DEF Plus
    <3> QED  BY <2>1, <2>2
  <2>7. (Locked /\ Shared)'
    BY <2>4, <2>5
  <2> QED  BY <2>3, <2>6, <2>7
<1>10. ASSUME NEW p \in Procs, NEW k \in Keys, PutRaises(p, k)
       PROVE  Goal
  BY <1>10 DEF PutRaises
<1>11. ASSUME NEW p \in Procs, Backup(p)
       PROVE  Goal
  BY <1>11 DEF Backup
<1> QED  BY <1>0, <1>1, <1>2, <1>3, <1>4, <1>5, <1>6, <1>7, <1>8, <1>9, <1>10,
            <1>11 DEF Next

LEMMA StoreInvAlways == ASSUME Sqlite PROVE Spec => []StoreInv
<1>1. Init => StoreInv
  BY DEF Init, StoreInv, TypeOK, Tables, Empty, Locked, Shared
<1> QED  BY <1>1, LockStep, PTL DEF Spec

\* With SQLite, a write that returned is on disk and stays there, for any
\* number of processes (store.py:108-109).
THEOREM AckedStaysOnDisk == ASSUME Sqlite PROVE Spec => []AckedIsDurable
<1>1. StoreInv => AckedIsDurable
  BY DEF StoreInv, AckedIsDurable, TypeOK, Tables
<1> QED  BY StoreInvAlways, <1>1, PTL

\* With SQLite, a backup has every write that had returned when it was taken,
\* and no other, whatever other processes have open (store.py:373-376).
THEOREM BackupsAreReal == ASSUME Sqlite PROVE Spec => BackupIsReal
<1>1. StoreInv /\ [Next]_vars => [\A p \in Procs : Backup(p) => copy' = acked]_vars
  BY DEF StoreInv, Sqlite, Json, Backup
<1> QED  BY StoreInvAlways, <1>1, PTL DEF Spec, BackupIsReal

\* With SQLite, any number of processes sharing a file implement the contract
\* of the Store interface (store.py, class Store).
THEOREM StoreKeepsContract == ASSUME Sqlite PROVE Spec => KeepsContract
<1>1. Init => Contract!Init
  BY DEF Init, Contract!Init, Empty
<1>2. StoreInv /\ [Next]_vars => [Contract!Next]_<<disk, acked>>
  <2> SUFFICES ASSUME StoreInv, [Next]_vars
               PROVE  Contract!Next \/ UNCHANGED <<disk, acked>>
    OBVIOUS
  <2>1. CASE Grows
    BY <2>1 DEF Grows, Plus, Contract!Next, Contract!Write, Contract!Plus
  <2> QED  BY <2>1, LockStep
<1> QED  BY StoreInvAlways, <1>1, <1>2, PTL DEF Spec, KeepsContract, Contract!Spec

-----------------------------------------------------------------------------
(***************************************************************************)
(* NodeFiles, for every set of records, when backup and drill are not run  *)
(* beside a node on JSON (what they do to one that runs is the run         *)
(* Node_drill).                                                            *)
(*                                                                         *)
(* A record can only be lost where a file is replaced by less than it      *)
(* holds. There are three such places: the clearing of a forced migration, *)
(* the rewrite of the JSON file by a node and the rewrite by a backup. The *)
(* first puts what it may cost at risk; the invariant says why the others  *)
(* have all there is, until a file is removed from under a node.           *)
(***************************************************************************)

Migrations == [does : {"clear", "open", "write", "verify", "verified"},
               to : Backends, force : BOOLEAN, read : SUBSET Entries]
Copies == [does : {"copy", "compare", "passed"},
           of : Backends, read : SUBSET Entries, drills : BOOLEAN]

FilesTypes ==
    /\ files \in [Backends -> (SUBSET Entries) \union {Absent}]
    /\ setting \in Backends
    /\ node \in {Stopped} \union [runs : Backends \union {"removed"}, data : SUBSET Entries]
    /\ answered \in SUBSET Entries /\ risked \in SUBSET Entries
    /\ task \in {NoTask} \union Migrations \union Copies

\* No file was removed from under a node, or nothing is promised.
Undisturbed == risked # Entries

\* The node's database is there, and _data is what its JSON file holds, which
\* is there once the node has a record.
NodeHasItsFile ==
    /\ node.runs = "sqlite" => files["sqlite"] # Absent
    /\ node.runs = "removed" => ~Undisturbed
    /\ node.runs = "json" /\ Undisturbed =>
          /\ node.data = Held("json")
          /\ files["json"] = Absent => files["sqlite"] = Absent

\* The source of a migration stays, and nobody makes the JSON file it is to
\* write before it does.
MigrationIsAlone ==
    task \in Migrations =>
        /\ files[Other(task.to)] # Absent
        /\ Undisturbed /\ task.to = "json"
              /\ (task.does \in {"open", "write"} \/ (task.does = "clear" /\ ~task.force))
           => node.runs # "json" /\ files["json"] = Absent

\* What a backup rewrites is what it read, and it is there to be copied.
CopyIsCurrent ==
    task.does = "copy" =>
        /\ files[task.of] # Absent
        /\ task.of = "json" => node = Stopped /\ files["json"] = task.read

\* No file holds a record whose put did not return.
HeldWasAnswered ==
    /\ \A b \in Backends : Held(b) \subseteq answered
    /\ node.data \subseteq answered
    /\ task.does \in {"clear", "open", "write", "verify", "verified"} => task.read \subseteq answered

FilesInv ==
    FilesTypes /\ NodeHasItsFile /\ MigrationIsAlone /\ CopyIsCurrent
    /\ HeldWasAnswered /\ NothingIsForgotten

LEMMA TwoBackends ==
    /\ Backends = {"json", "sqlite"}
    /\ Other("json") = "sqlite" /\ Other("sqlite") = "json"
BY DEF Backends, Other

LEMMA AbsentIsNoFile == \A S \in SUBSET Entries : S # Absent
BY FilesAssumption DEF Absent

LEMMA TaskShapes ==
    /\ NoTask.does = "nothing" /\ NoTask \notin Migrations
    /\ \A m \in Migrations :
          /\ m.does \in {"clear", "open", "write", "verify", "verified"}
          /\ m.to \in Backends /\ m.force \in BOOLEAN /\ m.read \in SUBSET Entries
    /\ \A c \in Copies :
          /\ c.does \in {"copy", "compare", "passed"} /\ c \notin Migrations
          /\ c.of \in Backends /\ c.read \in SUBSET Entries
BY DEF NoTask, Migrations, Copies

\* A task that goes on keeps what it was called with.
LEMMA MigrationGoes ==
    ASSUME NEW m \in Migrations, NEW does \in {"open", "write", "verify", "verified"}
    PROVE  LET t == [m EXCEPT !.does = does]
           IN  t \in Migrations /\ t.does = does /\ t.to = m.to
               /\ t.force = m.force /\ t.read = m.read
BY DEF Migrations

LEMMA CopyGoes ==
    ASSUME NEW c \in Copies, NEW does \in {"compare", "passed"}
    PROVE  LET t == [c EXCEPT !.does = does]
           IN  t \in Copies /\ t.does = does
BY DEF Copies

LEMMA FilesStep ==
    ASSUME ~LiveTools, FilesInv, [FilesNext]_fileVars
    PROVE  FilesInv'
<1> USE TwoBackends, AbsentIsNoFile, TaskShapes
    DEF FilesInv, FilesTypes, NodeHasItsFile, MigrationIsAlone, CopyIsCurrent,
        HeldWasAnswered, NothingIsForgotten, Held, Undisturbed
<1>1. CASE UNCHANGED fileVars
  BY <1>1 DEF fileVars
<1>2. ASSUME StartNode
      PROVE  FilesInv'
  <2>1. FilesTypes'
    BY <1>2 DEF StartNode, Stopped, Refuses, HasData, CopiesJson, Opened
  <2>2. NodeHasItsFile'
    BY <1>2 DEF StartNode, Stopped, Refuses, HasData, CopiesJson, Opened
  <2>3. MigrationIsAlone'
    BY <1>2 DEF StartNode, Stopped, Refuses, HasData, CopiesJson, Opened
  <2>4. CopyIsCurrent'
    BY <1>2 DEF StartNode, Stopped, Refuses, HasData, CopiesJson, Opened
  <2>5. HeldWasAnswered'
    BY <1>2 DEF StartNode, Stopped, Refuses, HasData, CopiesJson, Opened
  <2>6. NothingIsForgotten'
    BY <1>2 DEF StartNode, Stopped, Refuses, HasData, CopiesJson, Opened
  <2> QED  BY <2>1, <2>2, <2>3, <2>4, <2>5, <2>6
<1>3. ASSUME StopNode
      PROVE  FilesInv'
  <2>1. FilesTypes'
    BY <1>3 DEF StopNode, Stopped
  <2>2. NodeHasItsFile'
    BY <1>3 DEF StopNode, Stopped
  <2>3. MigrationIsAlone'
    BY <1>3 DEF StopNode, Stopped
  <2>4. CopyIsCurrent'
    BY <1>3 DEF StopNode, Stopped
  <2>5. HeldWasAnswered'
    BY <1>3 DEF StopNode, Stopped
  <2>6. NothingIsForgotten'
    BY <1>3 DEF StopNode, Stopped
  <2> QED  BY <2>1, <2>2, <2>3, <2>4, <2>5, <2>6
<1>4. ASSUME NEW r \in Entries, AddRecord(r)
      PROVE  FilesInv'
  <2>1. FilesTypes'
    BY <1>4 DEF AddRecord, Stopped
  <2>2. NodeHasItsFile'
    BY <1>4 DEF AddRecord, Stopped
  <2>3. MigrationIsAlone'
    BY <1>4 DEF AddRecord, Stopped
  <2>4. CopyIsCurrent'
    BY <1>4 DEF AddRecord, Stopped
  <2>5. HeldWasAnswered'
    BY <1>4 DEF AddRecord, Stopped
  <2>6. NothingIsForgotten'
    <3>1. CASE node.runs = "removed"
      BY <1>4, <3>1 DEF AddRecord, Stopped
    <3>2. CASE node.runs = "sqlite"
      BY <1>4, <3>2 DEF AddRecord, Stopped
    <3>3. CASE node.runs = "json"
      BY <1>4, <3>3 DEF AddRecord, Stopped
    <3> QED  BY <3>1, <3>2, <3>3, <1>4 DEF AddRecord, Stopped
  <2> QED  BY <2>1, <2>2, <2>3, <2>4, <2>5, <2>6
<1>5. ASSUME NEW to \in Backends, NEW force \in BOOLEAN, MigrateRead(to, force)
      PROVE  FilesInv'
  <2>1. /\ task' \in Migrations /\ task'.does = "clear" /\ task'.to = to
        /\ task'.force = force /\ task'.read = files[Other(to)]
    BY <1>5 DEF MigrateRead, Migrations
  <2>2. FilesTypes'
    BY <1>5, <2>1 DEF MigrateRead
  <2>3. NodeHasItsFile'
    BY <1>5, <2>1 DEF MigrateRead
  <2>4. MigrationIsAlone'
    BY <1>5, <2>1 DEF MigrateRead
  <2>5. CopyIsCurrent'
    BY <1>5, <2>1 DEF MigrateRead
  <2>6. HeldWasAnswered'
    BY <1>5, <2>1 DEF MigrateRead
  <2>7. NothingIsForgotten'
    BY <1>5, <2>1 DEF MigrateRead
  <2> QED  BY <2>2, <2>3, <2>4, <2>5, <2>6, <2>7
<1>6. ASSUME MigrateClear
      PROVE  FilesInv'
  <2>1. task \in Migrations
    BY <1>6 DEF MigrateClear
  <2>2. /\ task' \in Migrations /\ task'.does = "open" /\ task'.to = task.to
        /\ task'.force = task.force /\ task'.read = task.read
    BY <1>6, <2>1, MigrationGoes DEF MigrateClear, Goes
  <2>3. FilesTypes'
    <3>1. task.to \in Backends /\ task.force \in BOOLEAN
      BY <2>1
    <3>2. files' \in [Backends -> (SUBSET Entries) \union {Absent}]
      <4>1. files' = [files EXCEPT ![task.to] = Absent] \/ files' = files
        BY <1>6 DEF MigrateClear
      <4>2. files \in [Backends -> (SUBSET Entries) \union {Absent}]
        OBVIOUS
      <4> HIDE DEF FilesInv
      <4> QED  BY <3>1, <4>1, <4>2
    <3>3. /\ risked' \in SUBSET Entries
          /\ node' \in {Stopped} \union
                 [runs : Backends \union {"removed"}, data : SUBSET Entries]
      BY <1>6, <3>1 DEF MigrateClear, Stopped
    <3> QED  BY <1>6, <2>2, <3>2, <3>3 DEF MigrateClear
  <2>4. NodeHasItsFile'
    <3>1. CASE task.force
      <4>1. CASE node.runs = task.to
        <5>1. risked' = Entries
          <6>1. risked' = risked \union Entries
            BY <1>6, <3>1, <4>1 DEF MigrateClear
          <6>2. risked \subseteq Entries
            OBVIOUS
          <6> HIDE DEF FilesInv
          <6> QED  BY <6>1, <6>2
        <5>2. node'.runs # "sqlite"
          BY <1>6, <2>1, <3>1, <4>1 DEF MigrateClear, Stopped
        <5> QED  BY <5>1, <5>2
      <4>2. CASE node.runs # task.to
        <5>1. node' = node /\ files' = [files EXCEPT ![task.to] = Absent]
          BY <1>6, <3>1, <4>2 DEF MigrateClear
        <5>2. risked \subseteq risked' /\ risked' \subseteq Entries
          BY <1>6, <2>3, <3>1, <4>2 DEF MigrateClear
        <5>3. Undisturbed' => Undisturbed
          BY <5>2
        <5> QED  BY <2>1, <4>2, <5>1, <5>3
      <4> QED  BY <4>1, <4>2
    <3>2. CASE ~task.force
      BY <1>6, <2>1, <2>2, <3>2 DEF MigrateClear
    <3> QED  BY <3>1, <3>2
  <2>5. MigrationIsAlone'
    BY <1>6, <2>1, <2>2 DEF MigrateClear
  <2>6. CopyIsCurrent'
    BY <1>6, <2>1, <2>2 DEF MigrateClear
  <2>7. HeldWasAnswered'
    <3>1. CASE task.force
      <4>1. /\ files' = [files EXCEPT ![task.to] = Absent] /\ answered' = answered
            /\ node'.data = node.data
        BY <1>6, <2>1, <2>2, <3>1 DEF MigrateClear, Stopped
      <4>2. \A b \in Backends : Held(b)' \subseteq Held(b)
        BY <4>1, <2>1
      <4> QED  BY <4>1, <4>2, <2>1, <2>2
    <3>2. CASE ~task.force
      BY <1>6, <2>1, <2>2, <3>2 DEF MigrateClear
    <3> QED  BY <3>1, <3>2
  <2>8. NothingIsForgotten'
    BY <1>6, <2>1, <2>2 DEF MigrateClear
  <2> QED  BY <2>3, <2>4, <2>5, <2>6, <2>7, <2>8
<1>7. ASSUME MigrateOpen
      PROVE  FilesInv'
  <2>1. task \in Migrations
    BY <1>7 DEF MigrateOpen
  <2>2. /\ task' \in Migrations /\ task'.does = "write" /\ task'.to = task.to
        /\ task'.force = task.force /\ task'.read = task.read
    BY <1>7, <2>1, MigrationGoes DEF MigrateOpen, Goes
  <2>3. FilesTypes'
    BY <1>7, <2>1, <2>2 DEF MigrateOpen, Opened
  <2>4. NodeHasItsFile'
    BY <1>7, <2>1, <2>2 DEF MigrateOpen, Opened
  <2>5. MigrationIsAlone'
    BY <1>7, <2>1, <2>2 DEF MigrateOpen, Opened
  <2>6. CopyIsCurrent'
    BY <1>7, <2>1, <2>2 DEF MigrateOpen, Opened
  <2>7. HeldWasAnswered'
    BY <1>7, <2>1, <2>2 DEF MigrateOpen, Opened
  <2>8. NothingIsForgotten'
    BY <1>7, <2>1, <2>2 DEF MigrateOpen, Opened
  <2> QED  BY <2>3, <2>4, <2>5, <2>6, <2>7, <2>8
<1>8. ASSUME MigrateWrite
      PROVE  FilesInv'
  <2>1. task \in Migrations
    BY <1>8 DEF MigrateWrite
  <2>2. /\ task' \in Migrations /\ task'.does = "verify" /\ task'.to = task.to
        /\ task'.force = task.force /\ task'.read = task.read
    BY <1>8, <2>1, MigrationGoes DEF MigrateWrite, Goes
  <2>3. FilesTypes'
    BY <1>8, <2>1, <2>2 DEF MigrateWrite
  <2>4. NodeHasItsFile'
    BY <1>8, <2>1, <2>2 DEF MigrateWrite
  <2>5. MigrationIsAlone'
    BY <1>8, <2>1, <2>2 DEF MigrateWrite
  <2>6. CopyIsCurrent'
    BY <1>8, <2>1, <2>2 DEF MigrateWrite
  <2>7. HeldWasAnswered'
    BY <1>8, <2>1, <2>2 DEF MigrateWrite
  <2>8. NothingIsForgotten'
    BY <1>8, <2>1, <2>2 DEF MigrateWrite
  <2> QED  BY <2>3, <2>4, <2>5, <2>6, <2>7, <2>8
<1>9. ASSUME MigrateVerify
      PROVE  FilesInv'
  <2>1. task \in Migrations
    BY <1>9 DEF MigrateVerify
  <2>2. \/ task' = NoTask
        \/ /\ task' \in Migrations /\ task'.does = "verified" /\ task'.to = task.to
           /\ task'.force = task.force /\ task'.read = task.read
           /\ files[task.to] = task.read
    <3>1. CASE files[task.to] = task.read
      <4>1. task' = [task EXCEPT !.does = "verified"]
        BY <1>9, <3>1 DEF MigrateVerify, Goes
      <4> QED  BY <2>1, <3>1, <4>1, MigrationGoes
    <3>2. CASE files[task.to] # task.read
      BY <1>9, <3>2 DEF MigrateVerify
    <3> QED  BY <3>1, <3>2
  <2>3. FilesTypes'
    BY <1>9, <2>1, <2>2 DEF MigrateVerify
  <2>4. NodeHasItsFile'
    BY <1>9, <2>1, <2>2 DEF MigrateVerify
  <2>5. MigrationIsAlone'
    BY <1>9, <2>1, <2>2 DEF MigrateVerify
  <2>6. CopyIsCurrent'
    BY <1>9, <2>1, <2>2 DEF MigrateVerify
  <2>7. HeldWasAnswered'
    BY <1>9, <2>1, <2>2 DEF MigrateVerify
  <2>8. NothingIsForgotten'
    BY <1>9, <2>1, <2>2 DEF MigrateVerify
  <2> QED  BY <2>3, <2>4, <2>5, <2>6, <2>7, <2>8
<1>10. ASSUME NEW drills \in BOOLEAN, BackupOpen(drills)
      PROVE  FilesInv'
  <2>1. /\ task' \in Copies /\ task'.does = "copy" /\ task'.of = setting
        /\ task'.read = files[setting]
    BY <1>10 DEF BackupOpen, Copies
  <2>2. FilesTypes'
    BY <1>10, <2>1 DEF BackupOpen, MayRead
  <2>3. NodeHasItsFile'
    BY <1>10, <2>1 DEF BackupOpen, MayRead
  <2>4. MigrationIsAlone'
    BY <1>10, <2>1 DEF BackupOpen, MayRead
  <2>5. CopyIsCurrent'
    BY <1>10, <2>1 DEF BackupOpen, MayRead
  <2>6. HeldWasAnswered'
    BY <1>10, <2>1 DEF BackupOpen, MayRead
  <2>7. NothingIsForgotten'
    BY <1>10, <2>1 DEF BackupOpen, MayRead
  <2> QED  BY <2>2, <2>3, <2>4, <2>5, <2>6, <2>7
<1>11. ASSUME BackupCopy
      PROVE  FilesInv'
  <2>1. task \in Copies
    BY <1>11 DEF BackupCopy
  <2>2. \/ task' = NoTask
        \/ task' \in Copies /\ task'.does # "copy"
    BY <1>11, <2>1, CopyGoes, ZenonT(30) DEF BackupCopy, Goes
  <2>3. FilesTypes'
    BY <1>11, <2>1, <2>2 DEF BackupCopy
  <2>4. NodeHasItsFile'
    BY <1>11, <2>1, <2>2 DEF BackupCopy
  <2>5. MigrationIsAlone'
    BY <1>11, <2>1, <2>2 DEF BackupCopy
  <2>6. CopyIsCurrent'
    BY <1>11, <2>1, <2>2 DEF BackupCopy
  <2>7. HeldWasAnswered'
    BY <1>11, <2>1, <2>2 DEF BackupCopy
  <2>8. NothingIsForgotten'
    BY <1>11, <2>1, <2>2 DEF BackupCopy
  <2> QED  BY <2>3, <2>4, <2>5, <2>6, <2>7, <2>8
<1>12. ASSUME Compare
      PROVE  FilesInv'
  <2>1. task \in Copies
    BY <1>12 DEF Compare
  <2>2. \/ task' = NoTask
        \/ task' \in Copies /\ task'.does # "copy"
    BY <1>12, <2>1, CopyGoes, ZenonT(30) DEF Compare, Goes
  <2>3. FilesTypes'
    BY <1>12, <2>1, <2>2 DEF Compare
  <2>4. NodeHasItsFile'
    BY <1>12, <2>1, <2>2 DEF Compare
  <2>5. MigrationIsAlone'
    BY <1>12, <2>1, <2>2 DEF Compare
  <2>6. CopyIsCurrent'
    BY <1>12, <2>1, <2>2 DEF Compare
  <2>7. HeldWasAnswered'
    BY <1>12, <2>1, <2>2 DEF Compare
  <2>8. NothingIsForgotten'
    BY <1>12, <2>1, <2>2 DEF Compare
  <2> QED  BY <2>3, <2>4, <2>5, <2>6, <2>7, <2>8
<1>13. ASSUME EndTask
      PROVE  FilesInv'
  <2>1. FilesTypes'
    BY <1>13 DEF EndTask
  <2>2. NodeHasItsFile'
    BY <1>13 DEF EndTask
  <2>3. MigrationIsAlone'
    BY <1>13 DEF EndTask
  <2>4. CopyIsCurrent'
    BY <1>13 DEF EndTask
  <2>5. HeldWasAnswered'
    BY <1>13 DEF EndTask
  <2>6. NothingIsForgotten'
    BY <1>13 DEF EndTask
  <2> QED  BY <2>1, <2>2, <2>3, <2>4, <2>5, <2>6
<1> QED  BY <1>1, <1>2, <1>3, <1>4, <1>5, <1>6, <1>7, <1>8, <1>9, <1>10, <1>11,
            <1>12, <1>13 DEF FilesNext

\* Whatever is migrated, backed up or interrupted, a record whose put returned is
\* in one of the files unless a forced migration put it at risk, and what is
\* verified as migrated is all there (migrate_store.py:20-24).
THEOREM RecordsSurvive == ASSUME ~LiveTools PROVE FilesSpec => []NothingIsForgotten
<1>1. FilesInit => FilesInv
  <2> SUFFICES ASSUME FilesInit
               PROVE  FilesInv
    OBVIOUS
  <2> USE TwoBackends, TaskShapes DEF FilesInit, Held, Stopped
  <2>1. FilesTypes /\ \A b \in Backends : Held(b) = {}
    <3>1. files \in [Backends -> (SUBSET Entries) \union {Absent}] /\ setting \in Backends
      OBVIOUS
    <3>2. /\ node = Stopped /\ task = NoTask
          /\ answered \in SUBSET Entries /\ risked \in SUBSET Entries
      OBVIOUS
    <3>3. \A b \in Backends : Held(b) = {}
      OBVIOUS
    <3> QED  BY <3>1, <3>2, <3>3 DEF FilesTypes
  <2>2. NodeHasItsFile /\ HeldWasAnswered /\ NothingIsForgotten
    BY <2>1 DEF NodeHasItsFile, HeldWasAnswered, NothingIsForgotten, Undisturbed
  <2>3. MigrationIsAlone /\ CopyIsCurrent
    BY DEF MigrationIsAlone, CopyIsCurrent
  <2> QED  BY <2>1, <2>2, <2>3 DEF FilesInv
<1>2. FilesInv => NothingIsForgotten
  BY DEF FilesInv
<1> QED  BY <1>1, FilesStep, <1>2, PTL DEF FilesSpec

-----------------------------------------------------------------------------
(***************************************************************************)
(* KeyCustody, for every set of identities, every mapping of identities to *)
(* files and any number of keys and deaths.                                *)
(***************************************************************************)

Words == Passphrases \union {NoPassphrase}
Envelopes == {Envelope(seed, passphrase) : seed \in Nat, passphrase \in Words}
Files == {NoFile, Torn} \union Envelopes
Places == {"unlock", "create", "write", "fill", "replace"}
Sessions == {NoSession} \union
    {Session(place, identity, passphrase, seed) :
        place \in Places, identity \in Identities, passphrase \in Words, seed \in Nat}

CustodyTypes ==
    /\ keyfile \in [Paths -> Files]
    /\ tmpfile \in [Paths -> Files]
    /\ minted \in Nat
    /\ plain \in BOOLEAN
    /\ session \in Sessions
    /\ given \in [Identities -> SUBSET Nat]

\* A program that is storing a key found no file, and what it is about to put
\* there is whole.
Storing ==
    /\ session.at \in {"write", "fill", "replace"} =>
           keyfile[PathOf[session.identity]] = NoFile
    /\ session.at = "replace" =>
           tmpfile[PathOf[session.identity]] = Envelope(session.seed, session.passphrase)

CustodyInv == CustodyTypes /\ Storing /\ KeyStays

\* The three states a file can be in are told apart by their kind.
LEMMA FileShapes ==
    /\ NoFile # Torn /\ NoFile.kind = "none" /\ Torn.kind = "torn"
    /\ \A seed, passphrase :
          LET e == Envelope(seed, passphrase)
          IN  e.kind = "sealed" /\ e.seed = seed /\ e.passphrase = passphrase
    /\ \A e \in Envelopes : e.kind = "sealed" /\ e.seed \in Nat /\ e # NoFile /\ e # Torn
BY DEF NoFile, Torn, Envelope, Envelopes

LEMMA SessionShapes ==
    /\ NoSession.at = "idle"
    /\ \A place, identity, passphrase, seed :
          LET s == Session(place, identity, passphrase, seed)
          IN  /\ s.at = place /\ s.identity = identity
              /\ s.passphrase = passphrase /\ s.seed = seed
    /\ \A s \in Sessions : s # NoSession =>
          /\ s.at \in Places /\ s.identity \in Identities
          /\ s.passphrase \in Words /\ s.seed \in Nat
BY DEF NoSession, Session, Sessions

\* A session whose place is changed is a session, and so is one with a key.
LEMMA SessionMoves ==
    ASSUME NEW s \in Sessions, s # NoSession, NEW place \in Places, NEW seed \in Nat
    PROVE  /\ [s EXCEPT !.at = place] = Session(place, s.identity, s.passphrase, s.seed)
           /\ Session(place, s.identity, s.passphrase, seed) \in Sessions
<1>1. PICK before \in Places, identity \in Identities, passphrase \in Words, n \in Nat :
          s = Session(before, identity, passphrase, n)
  BY DEF Sessions
<1>2. s.identity = identity /\ s.passphrase = passphrase /\ s.seed = n
  BY <1>1 DEF Session
<1>3. [s EXCEPT !.at = place] = Session(place, identity, passphrase, n)
  BY <1>1 DEF Session
<1>4. Session(place, identity, passphrase, seed) \in Sessions
  BY <1>1 DEF Sessions
<1> QED  BY <1>2, <1>3, <1>4

LEMMA PathType == \A i \in Identities : PathOf[i] \in Paths
BY DEF Paths

LEMMA CustodyStep == CustodyInv /\ [CustodyNext]_custodyVars => CustodyInv'
<1> SUFFICES ASSUME CustodyInv, [CustodyNext]_custodyVars
             PROVE  CustodyInv'
  OBVIOUS
<1> USE FileShapes, SessionShapes, PathType
    DEF CustodyInv, CustodyTypes, Storing, KeyStays, Files, FilesStay
<1>1. CASE UNCHANGED custodyVars
  BY <1>1 DEF custodyVars
<1>2. ASSUME NEW i \in Identities, NEW w \in Words, LoadOrCreate(i, w)
      PROVE  CustodyInv'
  <2>1. PICK place \in {"unlock", "create"} : session' = Session(place, i, w, 0)
    BY <1>2 DEF LoadOrCreate
  <2>2. session' \in Sessions
    BY <2>1 DEF Sessions, Places
  <2> QED  BY <1>2, <2>1, <2>2 DEF LoadOrCreate
<1>3. ASSUME Ephemeral
      PROVE  CustodyInv'
  BY <1>3 DEF Ephemeral
<1>4. ASSUME DeletePlain
      PROVE  CustodyInv'
  BY <1>4, ZenonT(30) DEF DeletePlain
<1>5. ASSUME Unlock
      PROVE  CustodyInv'
  BY <1>5, SMTT(30) DEF Unlock, Opens, Give, Sessions
<1>6. ASSUME Create
      PROVE  CustodyInv'
  <2>1. session # NoSession /\ minted + 1 \in Nat
    BY <1>6 DEF Create
  <2>2. session' = Session("write", session.identity, session.passphrase, minted + 1)
    BY <1>6 DEF Create
  <2>3. session' \in Sessions
    BY <2>1, <2>2, SessionMoves DEF Places
  <2> QED  BY <1>6, <2>1, <2>2, <2>3 DEF Create, Has
<1>7. ASSUME OpenTmp
      PROVE  CustodyInv'
  <2>1. session # NoSession
    BY <1>7 DEF OpenTmp
  <2>2. session' = Session("fill", session.identity, session.passphrase, session.seed)
    BY <1>7, <2>1, SessionMoves DEF OpenTmp, Places
  <2>3. session' \in Sessions
    BY <2>1, <2>2, SessionMoves DEF Places
  <2> QED  BY <1>7, <2>1, <2>2, <2>3 DEF OpenTmp
<1>8. ASSUME FillTmp
      PROVE  CustodyInv'
  <2>1. session # NoSession
    BY <1>8 DEF FillTmp
  <2>2. session' = Session("replace", session.identity, session.passphrase, session.seed)
    BY <1>8, <2>1, SessionMoves DEF FillTmp, Places
  <2>3. session' \in Sessions
    BY <2>1, <2>2, SessionMoves DEF Places
  <2>4. Envelope(session.seed, session.passphrase) \in Envelopes
    BY <2>1 DEF Envelopes
  <2> QED  BY <1>8, <2>1, <2>2, <2>3, <2>4 DEF FillTmp
<1>9. ASSUME Replace
      PROVE  CustodyInv'
  <2> DEFINE path == PathOf[session.identity]
             e == Envelope(session.seed, session.passphrase)
  <2>1. session # NoSession /\ session.identity \in Identities /\ path \in Paths
    BY <1>9 DEF Replace
  <2>2. keyfile' = [keyfile EXCEPT ![path] = e] /\ e \in Envelopes
    <3>1. session.seed \in Nat /\ session.passphrase \in Words
      BY <2>1
    <3>2. e \in Envelopes
      BY <3>1 DEF Envelopes
    <3> QED  BY <1>9, <3>2 DEF Replace
  <2>3. /\ given' = [given EXCEPT ![session.identity] = @ \union {session.seed}]
        /\ session' = NoSession
    BY <1>9 DEF Replace, Give
  \* Whoever was given a key of this file was given it when it was there.
  <2>4. \A i \in Identities : PathOf[i] = path => given[i] = {}
    BY <1>9, <2>1 DEF Replace
  <2>5. KeyStays'
    <3>1. ASSUME NEW i \in Identities, NEW seed \in given'[i]
          PROVE  keyfile'[PathOf[i]].kind = "sealed" /\ keyfile'[PathOf[i]].seed = seed
      <4>1. CASE PathOf[i] = path
        <5>1. i = session.identity /\ seed = session.seed
          BY <4>1, <3>1, <2>1, <2>3, <2>4
        <5>2. keyfile'[PathOf[i]] = e
          BY <4>1, <2>1, <2>2
        <5> QED  BY <5>1, <5>2
      <4>2. CASE PathOf[i] # path
        <5>1. seed \in given[i]
          BY <4>2, <3>1, <2>1, <2>3
        <5>2. keyfile'[PathOf[i]] = keyfile[PathOf[i]]
          BY <4>2, <2>1, <2>2
        <5> QED  BY <5>1, <5>2
      <4> QED  BY <4>1, <4>2
    <3>2. \A p \in Paths : keyfile'[p] # Torn
      <4>1. e # Torn
        BY <2>2
      <4> QED  BY <4>1, <2>1, <2>2
    <3> QED  BY <3>1, <3>2
  <2> QED  BY <1>9, <2>1, <2>2, <2>3, <2>5 DEF Replace, Sessions
<1>10. ASSUME DieWithKey
       PROVE  CustodyInv'
  BY <1>10 DEF DieWithKey, Sessions
<1> QED  BY <1>1, <1>2, <1>3, <1>4, <1>5, <1>6, <1>7, <1>8, <1>9, <1>10
         DEF CustodyNext, Words

\* An identity that was given a stored key is given that key for ever or none
\* at all, and no file is ever left that cannot be opened, wherever the program
\* died (keys.py:386-394, 409-412).
THEOREM StoredKeysStay == CustodySpec => []KeyStays
<1>1. CustodyInit => CustodyInv
  BY FileShapes, SessionShapes
  DEF CustodyInit, CustodyInv, CustodyTypes, Storing, KeyStays, Files, Sessions
<1>2. CustodyInv => KeyStays
  BY DEF CustodyInv
<1> QED  BY <1>1, CustodyStep, <1>2, PTL DEF CustodySpec

-----------------------------------------------------------------------------
(***************************************************************************)
(* Catalog: with SQLite, the registry's files hold every registration that *)
(* succeeded, with its content and its ancestors, for any processes,       *)
(* assets and contents.                                                    *)
(*                                                                         *)
(* The invariant says why: a transaction has read no less than is there    *)
(* when it commits, since it is alone; what a process has in memory is     *)
(* closed under derivation; and from the commit on, what it entered is     *)
(* there.                                                                  *)
(***************************************************************************)

CatalogType ==
    /\ manifests \subseteq Assets
    /\ memory \in [Tools -> SUBSET Assets]
    /\ held \in [Tools -> SUBSET Contents]
    /\ entered \in [Tools -> SUBSET Assets]
    /\ read \in [Tools -> SUBSET Assets]
    /\ at \in [Tools -> {"idle", "loaded", "registered", "saving", "blobs"}]

\* Only one process is in its transaction, and it has read all there is.
Alone ==
    /\ \A t, u \in Tools : at[t] = "saving" /\ at[u] = "saving" => t = u
    /\ \A t \in Tools : at[t] = "saving" => read[t] = manifests

\* What a process entered is in its memory with its content, and in the file
\* once its transaction is over.
Entered == \A t \in Tools :
    /\ entered[t] \subseteq memory[t]
    /\ \A a \in entered[t] : ContentOf[a] \in held[t]
    /\ at[t] = "blobs" => entered[t] \subseteq manifests
    /\ at[t] = "idle" => entered[t] = {}

Ancestral(assets) == \A a \in assets : Parents[a] \subseteq assets

CatalogInv ==
    /\ CatalogType
    /\ Alone
    /\ Entered
    /\ \A t \in Tools : Ancestral(memory[t])
    /\ CatalogHolds

LEMMA CatalogStarts == CatalogInit => CatalogInv
  BY DEF CatalogInit, CatalogInv, CatalogType, Alone, Entered, Ancestral, CatalogHolds

\* A process that ends leaves the files as they are.
LEMMA EndsKeep ==
  ASSUME CatalogInv, NEW t \in Tools, Ends(t),
         registered' \subseteq manifests, \A a \in registered' : ContentOf[a] \in blobs
  PROVE  CatalogInv'
<1>1. CatalogType'
  BY DEF CatalogInv, CatalogType, Ends
<1>2. Alone'
  BY DEF CatalogInv, CatalogType, Alone, Ends
<1>3. Entered'
  BY DEF CatalogInv, CatalogType, Entered, Ends
<1>4. \A u \in Tools : Ancestral(memory'[u])
  BY DEF CatalogInv, CatalogType, Ancestral, Ends
<1>5. CatalogHolds'
  BY DEF CatalogInv, CatalogHolds, Ends
<1> QED  BY <1>1, <1>2, <1>3, <1>4, <1>5 DEF CatalogInv

LEMMA CatalogSteps ==
  ASSUME Seam = "sqlite", CatalogInv, [CatalogNext]_catalogVars
  PROVE  CatalogInv'
<1>0. /\ ContentOf \in [Assets -> Contents]
      /\ Parents \in [Assets -> SUBSET Assets]
  BY CatalogAssumption
<1>1. CASE UNCHANGED catalogVars
  BY <1>1 DEF CatalogInv, CatalogType, Alone, Entered, Ancestral, CatalogHolds,
              catalogVars, tool
<1>2. ASSUME NEW t \in Tools, Load(t)
      PROVE  CatalogInv'
  <2>1. CatalogType'
    BY <1>0, <1>2 DEF CatalogInv, CatalogType, Load
  <2>2. Alone'
    BY <1>2 DEF CatalogInv, CatalogType, Alone, Load
  <2>3. Entered'
    BY <1>2 DEF CatalogInv, CatalogType, Entered, Load
  <2>4. \A u \in Tools : Ancestral(memory'[u])
    BY <1>2 DEF CatalogInv, CatalogType, Ancestral, CatalogHolds, Load
  <2>5. CatalogHolds'
    BY <1>2 DEF CatalogInv, CatalogType, Alone, Ancestral, CatalogHolds, Load
  <2> QED  BY <2>1, <2>2, <2>3, <2>4, <2>5 DEF CatalogInv
<1>3. ASSUME NEW t \in Tools, NEW a \in Assets, Enter(t, a)
      PROVE  CatalogInv'
  <2>1. CatalogType'
    BY <1>0, <1>3 DEF CatalogInv, CatalogType, Enter
  <2>2. Alone'
    BY <1>3 DEF CatalogInv, CatalogType, Alone, Enter
  <2>3. Entered'
    BY <1>3 DEF CatalogInv, CatalogType, Entered, Enter
  <2>4. \A u \in Tools : Ancestral(memory'[u])
    BY <1>3 DEF CatalogInv, CatalogType, Ancestral, CatalogHolds, Enter
  <2>5. CatalogHolds'
    BY <1>3 DEF CatalogInv, CatalogType, Alone, Ancestral, CatalogHolds, Enter
  <2> QED  BY <2>1, <2>2, <2>3, <2>4, <2>5 DEF CatalogInv
<1>4. ASSUME NEW t \in Tools, BeginSave(t)
      PROVE  CatalogInv'
  <2>1. CatalogType'
    BY <1>0, <1>4 DEF CatalogInv, CatalogType, BeginSave
  <2>2. Alone'
    BY <1>4 DEF CatalogInv, CatalogType, Alone, BeginSave
  <2>3. Entered'
    BY <1>4 DEF CatalogInv, CatalogType, Entered, BeginSave
  <2>4. \A u \in Tools : Ancestral(memory'[u])
    BY <1>4 DEF CatalogInv, CatalogType, Ancestral, CatalogHolds, BeginSave
  <2>5. CatalogHolds'
    BY <1>4 DEF CatalogInv, CatalogType, Alone, Ancestral, CatalogHolds, BeginSave
  <2> QED  BY <2>1, <2>2, <2>3, <2>4, <2>5 DEF CatalogInv
<1>5. ASSUME NEW t \in Tools, CommitSave(t)
      PROVE  CatalogInv'
  <2>1. CatalogType'
    BY <1>0, <1>5 DEF CatalogInv, CatalogType, CommitSave
  <2>2. Alone'
    BY <1>5 DEF CatalogInv, CatalogType, Alone, CommitSave
  <2>3. Entered'
    BY <1>5 DEF CatalogInv, CatalogType, Alone, Entered, CommitSave
  <2>4. \A u \in Tools : Ancestral(memory'[u])
    BY <1>5 DEF CatalogInv, CatalogType, Ancestral, CatalogHolds, CommitSave
  <2>5. CatalogHolds'
    BY <1>5 DEF CatalogInv, CatalogType, Alone, Ancestral, CatalogHolds, CommitSave
  <2> QED  BY <2>1, <2>2, <2>3, <2>4, <2>5 DEF CatalogInv
<1>6. ASSUME NEW t \in Tools, NEW c \in Contents, WriteBlob(t, c)
      PROVE  CatalogInv'
  <2>1. CatalogType'
    BY <1>0, <1>6 DEF CatalogInv, CatalogType, WriteBlob, tool
  <2>2. Alone'
    BY <1>6 DEF CatalogInv, CatalogType, Alone, WriteBlob, tool
  <2>3. Entered'
    BY <1>6 DEF CatalogInv, CatalogType, Entered, WriteBlob, tool
  <2>4. \A u \in Tools : Ancestral(memory'[u])
    BY <1>6 DEF CatalogInv, CatalogType, Ancestral, CatalogHolds, WriteBlob, tool
  <2>5. CatalogHolds'
    BY <1>6 DEF CatalogInv, CatalogType, Alone, Ancestral, CatalogHolds, WriteBlob, tool
  <2> QED  BY <2>1, <2>2, <2>3, <2>4, <2>5 DEF CatalogInv
<1>7. ASSUME NEW t \in Tools, Saved(t)
      PROVE  CatalogInv'
  BY <1>7, EndsKeep DEF CatalogInv, CatalogType, Entered, CatalogHolds, Saved
<1>8. ASSUME NEW t \in Tools, DieSaving(t)
      PROVE  CatalogInv'
  BY <1>8, EndsKeep DEF CatalogInv, CatalogHolds, DieSaving
<1> QED
  BY <1>1, <1>2, <1>3, <1>4, <1>5, <1>6, <1>7, <1>8 DEF CatalogNext

\* A design that was registered is there with its content and with all that it
\* derives from for every later load, however many processes register and die
\* (registry.py:24-74, with SQLite).
THEOREM RegistrationsStay ==
  ASSUME Seam = "sqlite" PROVE CatalogSpec => []CatalogHolds
<1>1. CatalogInv /\ [CatalogNext]_catalogVars => CatalogInv'
  BY CatalogSteps
<1>2. CatalogInv => CatalogHolds
  BY DEF CatalogInv
<1> QED  BY CatalogStarts, <1>1, <1>2, PTL DEF CatalogSpec

-----------------------------------------------------------------------------
(***************************************************************************)
(* K2Printer, for any number of units, milestones and prints.              *)
(*                                                                         *)
(* A unit is claimed when a poll found the printer's print over. The       *)
(* argument is that starting a file sets the printer back: a print that is *)
(* over after that was finished after that. A frame is taken of what the   *)
(* last poll saw, and what that had told last falls short of it by less    *)
(* than the threshold; the milestones are taken once each.                 *)
(***************************************************************************)

Prints == [state : {"standby", "printing", "complete", "error", "cancelled"},
           progress : 0 .. Steps, prints : Nat]
Watches == [at : {"idle", "start", "poll", "frames"}, unit : Nat,
            reported : {-Steps} \union (0 .. Steps), taken : 0 .. Len(Milestones),
            seen : 0 .. Steps, done : BOOLEAN, before : Nat]
Events == [type : {"TELEMETRY", "FRAME"}, at : 0 .. Steps]
Claims == [before : Nat, after : Nat]

PrinterTypes ==
    /\ printer \in Prints
    /\ finished \in Nat
    /\ driver \in Watches
    /\ evidence \in Seq(Events)
    /\ claims \in Seq(Claims)

\* run_unit is running.
Watching == driver.at \in {"poll", "frames"}

ClaimsInOrder(list) ==
    \A i \in DOMAIN list :
        /\ list[i].before < list[i].after
        /\ i > 1 => list[i - 1].after <= list[i].before

FramesInOrder(list) ==
    \A i \in DOMAIN list : list[i].type = "FRAME" =>
        /\ \A n \in 1 .. (i - 1) : list[n].type = "FRAME" => list[n].at < list[i].at
        /\ \E n \in 1 .. (i - 1) : /\ list[n].type = "TELEMETRY"
                /\ list[i].at - list[n].at < MinDelta

\* A print that is over was finished, and finished since the unit was started
\* if the driver watches it; what was claimed was finished before.
ClaimsAreOfThePast ==
    /\ Complete => printer.progress = Steps
    /\ Watching /\ (Complete \/ driver.done) => driver.before < finished
    /\ Watching => driver.before <= finished
    /\ driver.done => driver.at = "frames" /\ driver.seen = Steps
    /\ \A i \in DOMAIN claims : /\ claims[i].after <= finished
                                /\ Watching => claims[i].after <= driver.before
    /\ ClaimsInOrder(claims)

\* What the last poll saw was told but for the threshold, what was told is in the
\* evidence, and every
\* frame there is comes before those of the milestones to come.
SeenSince(list, progress) ==
    \E n \in DOMAIN list : list[n].type = "TELEMETRY" /\ list[n].at = progress
BehindOf(list, taken) ==
    \A i \in DOMAIN list : list[i].type = "FRAME" =>
        /\ list[i].at < Steps
        /\ \A m \in (taken + 1) .. Len(Milestones) : list[i].at < Milestones[m]
EvidenceIsTold ==
    /\ driver.at = "frames" => driver.reported >= 0 /\ driver.seen - driver.reported < MinDelta
    /\ Watching /\ driver.reported >= 0 => SeenSince(evidence, driver.reported)
    /\ Watching => BehindOf(evidence, driver.taken)
    /\ FramesInOrder(evidence)

PrinterInv == PrinterTypes /\ ClaimsAreOfThePast /\ EvidenceIsTold

LEMMA PrinterConstants ==
    /\ Steps \in Nat /\ JobUnits \in Nat \ {0} /\ MaxPrints \in Nat
    /\ MinDelta \in Nat /\ 0 < MinDelta /\ MinDelta <= Steps
    /\ Len(Milestones) \in Nat /\ DOMAIN Milestones = 1 .. Len(Milestones)
    /\ \A i \in 1 .. Len(Milestones) : Milestones[i] \in 0 .. Steps /\ Milestones[i] < Steps
    /\ \A i, j \in 1 .. Len(Milestones) : i < j => Milestones[i] < Milestones[j]
<1>1. Milestones \in Seq(0 .. (Steps - 1)) /\ Steps \in Nat
  BY PrinterAssumption
<1>2. Len(Milestones) \in Nat /\ DOMAIN Milestones = 1 .. Len(Milestones)
  BY <1>1
<1>3. ASSUME NEW i \in 1 .. Len(Milestones)
      PROVE  Milestones[i] \in 0 .. Steps /\ Milestones[i] < Steps
  <2>1. Milestones[i] \in 0 .. (Steps - 1)
    BY <1>1, <1>2, ElementOfSeq
  <2> QED  BY <1>1, <2>1
<1>4. \A i, j \in 1 .. Len(Milestones) : i < j => Milestones[i] < Milestones[j]
  BY <1>2, PrinterAssumption
<1>5. JobUnits \in Nat \ {0} /\ MaxPrints \in Nat
  BY PrinterAssumption
<1>6. MinDelta \in Nat /\ 0 < MinDelta /\ MinDelta <= Steps
  BY PrinterAssumption
<1> QED  BY <1>1, <1>2, <1>3, <1>4, <1>5, <1>6

LEMMA IdleType ==
    /\ Idle \in Watches /\ Idle.at = "idle" /\ Idle.done = FALSE
    /\ \A u \in Nat : LET d == [Idle EXCEPT !.at = "start", !.unit = u]
                      IN  d \in Watches /\ d.at = "start" /\ d.done = FALSE
<1>1. -Steps \in {-Steps} \union (0 .. Steps) /\ 0 \in 0 .. Len(Milestones) /\ 0 \in 0 .. Steps /\ FALSE \in BOOLEAN
  BY PrinterConstants
<1>2. Idle \in Watches
  BY <1>1 DEF Idle, Watches
<1> QED  BY <1>2 DEF Idle, Watches

\* A list with one element more.
LEMMA OneMore ==
    ASSUME NEW S, NEW s \in Seq(S), NEW e \in S
    PROVE  LET t == Append(s, e)
           IN  /\ t \in Seq(S) /\ Len(s) \in Nat
               /\ DOMAIN s = 1 .. Len(s) /\ DOMAIN t = 1 .. (Len(s) + 1)
               /\ t[Len(s) + 1] = e /\ \A i \in 1 .. Len(s) : t[i] = s[i]
OBVIOUS

\* A step of the printer or of the people at its panel.
LEMMA PanelStep ==
    ASSUME PrinterInv, PrintOn \/ Finish \/ Spoil \/ StartAtPanel
    PROVE  PrinterInv'
<1>0. Steps \in Nat
  BY PrinterConstants
<1>1. printer' \in Prints /\ finished' \in Nat
  <2>1. /\ printer \in Prints /\ finished \in Nat /\ printer.progress \in 0 .. Steps
        /\ printer.prints \in Nat
    BY DEF PrinterInv, PrinterTypes, Prints
  <2>2. CASE PrintOn
    <3>1. printer.progress + 1 \in 0 .. Steps
      BY <1>0, <2>1, <2>2 DEF PrintOn
    <3> QED  BY <2>1, <2>2, <3>1 DEF PrintOn, Prints
  <2>3. CASE Finish
    BY <2>1, <2>3 DEF Finish, Prints
  <2>4. CASE Spoil
    BY <2>1, <2>4 DEF Spoil, Prints
  <2>5. CASE StartAtPanel
    BY <1>0, <2>1, <2>5 DEF StartAtPanel, Begun, Prints
  <2> QED  BY <2>2, <2>3, <2>4, <2>5
<1>2. UNCHANGED <<driver, evidence, claims>>
  BY DEF PrintOn, Finish, Spoil, StartAtPanel, DriverStays
<1>3. \/ UNCHANGED finished /\ ~Complete'
      \/ finished' = finished + 1 /\ printer'.progress = Steps
  <2>1. printer \in Prints
    BY DEF PrinterInv, PrinterTypes
  <2>2. CASE PrintOn
    BY <2>1, <2>2 DEF PrintOn, Prints, Complete
  <2>3. CASE Finish
    BY <2>1, <2>3 DEF Finish, Prints
  <2>4. CASE Spoil
    BY <2>1, <2>4 DEF Spoil, Prints, Complete
  <2>5. CASE StartAtPanel
    BY <2>5 DEF StartAtPanel, Begun, Complete
  <2> QED  BY <2>2, <2>3, <2>4, <2>5
<1>4. ClaimsAreOfThePast'
  <2>1. finished \in Nat /\ driver.before \in Nat
    BY DEF PrinterInv, PrinterTypes, Watches
  <2>2. \A i \in DOMAIN claims : claims[i].after \in Nat
    <3>1. claims \in Seq(Claims)
      BY DEF PrinterInv, PrinterTypes
    <3>2. \A i \in DOMAIN claims : claims[i] \in Claims
      BY <3>1
    <3> QED  BY <3>2 DEF Claims
  <2> QED  BY <1>2, <1>3, <2>1, <2>2 DEF PrinterInv, ClaimsAreOfThePast, Watching
<1> QED  BY <1>1, <1>2, <1>4 DEF PrinterInv, PrinterTypes, EvidenceIsTold, Watching

\* The job is given up, or begins, or its unit is started: nothing is watched,
\* or nothing was observed yet.
LEMMA StartStep ==
    ASSUME PrinterInv, PrepareFile \/ StartUnit \/ StartFails \/ PollFails \/ PollSpoilt
    PROVE  PrinterInv'
<1> USE DEF PrinterInv
<1>0. Steps \in Nat /\ Len(Milestones) \in Nat
  BY PrinterConstants
<1>1. /\ printer' = printer \/ printer' = Begun
      /\ finished' = finished
  BY DEF PrepareFile, StartUnit, StartFails, PollFails, PollSpoilt
<1>2. printer' \in Prints /\ (Complete' => Complete /\ UNCHANGED printer)
  BY <1>0, <1>1 DEF PrinterTypes, Prints, Begun, Complete
<1>3. CASE /\ driver' = [Idle EXCEPT !.at = "poll", !.unit = driver.unit, !.before = finished]
           /\ evidence' = <<>> /\ claims' = claims /\ printer' = Begun
  <2>1. driver' \in Watches
    BY <1>0, <1>3, IdleType DEF PrinterTypes, Watches, Idle
  <2>2. /\ driver'.at = "poll" /\ driver'.before = finished /\ ~driver'.done
        /\ driver'.reported = -Steps
    BY <1>3 DEF Idle
  <2>3. ~Complete'
    BY <1>3 DEF Begun, Complete
  <2>4. ClaimsAreOfThePast'
    BY <1>1, <1>3, <2>2, <2>3 DEF ClaimsAreOfThePast, Watching, PrinterTypes
  <2>5. EvidenceIsTold'
    <3>1. ~(driver'.reported >= 0)
      BY <2>2, PrinterConstants
    <3> QED  BY <1>3, <2>2, <3>1 DEF EvidenceIsTold, Watching, BehindOf, FramesInOrder
  <2> QED  BY <1>1, <1>2, <1>3, <2>1, <2>4, <2>5 DEF PrinterTypes
<1>4. CASE /\ driver' = Idle \/ driver' = [Idle EXCEPT !.at = "start", !.unit = 1]
           /\ \/ evidence' = <<>> /\ claims' = <<>>
              \/ UNCHANGED <<evidence, claims>>
  <2>1. driver' \in Watches
    BY <1>4, IdleType
  <2>2. driver'.at \in {"idle", "start"} /\ ~driver'.done
    BY <1>4, IdleType
  <2>3. ClaimsAreOfThePast'
    BY <1>1, <1>2, <1>4, <2>2 DEF ClaimsAreOfThePast, Watching, ClaimsInOrder
  <2>4. EvidenceIsTold'
    BY <1>4, <2>2 DEF EvidenceIsTold, Watching, FramesInOrder
  <2>5. evidence' \in Seq(Events) /\ claims' \in Seq(Claims)
    <3>1. evidence \in Seq(Events) /\ claims \in Seq(Claims)
      BY DEF PrinterTypes
    <3>2. \A S : <<>> \in Seq(S)
      OBVIOUS
    <3> QED  BY <1>4, <3>1, <3>2
  <2> QED  BY <1>1, <1>2, <2>1, <2>3, <2>4, <2>5 DEF PrinterTypes
<1> QED  BY <1>3, <1>4 DEF PrepareFile, StartUnit, StartFails, PollFails, PollSpoilt, Halted

\* A poll tells what it sees, or has told as much.
LEMMA PollStep == ASSUME PrinterInv, Poll PROVE PrinterInv'
<1> USE DEF PrinterInv
<1>1. /\ Steps \in Nat /\ Len(Milestones) \in Nat
      /\ driver \in Watches /\ printer \in Prints
      /\ driver.at = "poll" /\ printer.progress \in 0 .. Steps
      /\ driver.reported \in {-Steps} \union (0 .. Steps) /\ driver.before \in Nat
      /\ finished \in Nat
  BY PrinterConstants DEF Poll, PrinterTypes, Prints, Watches
<1>2. /\ driver' \in Watches /\ driver'.at = "frames"
      /\ driver'.seen = printer.progress /\ driver'.done = Complete
      /\ driver'.before = driver.before /\ driver'.taken = driver.taken
      /\ driver'.reported = IF Told THEN printer.progress ELSE driver.reported
  <2>1. PICK done \in BOOLEAN : done = Complete
    BY DEF Complete
  <2>2. PICK told \in {-Steps} \union (0 .. Steps) : told = IF Told THEN printer.progress ELSE driver.reported
    BY <1>1
  <2>3. driver' = [driver EXCEPT !.at = "frames", !.seen = printer.progress,
                                 !.done = done, !.reported = told]
    BY <2>1, <2>2 DEF Poll
  <2> QED  BY <1>1, <2>1, <2>2, <2>3 DEF Watches
<1>3. UNCHANGED <<printer, finished, claims>> /\ (Complete' <=> Complete)
  BY DEF Poll, Complete
<1>4. ClaimsAreOfThePast'
  BY <1>1, <1>2, <1>3 DEF ClaimsAreOfThePast, Watching
<1>5. CASE ~Told
  <2>1. evidence' = evidence /\ driver'.reported = driver.reported
    BY <1>2, <1>5 DEF Poll
  <2>2. printer.progress - driver.reported < MinDelta /\ driver.reported >= 0
    BY <1>1, <1>5, PrinterConstants DEF Told
  <2>3. EvidenceIsTold'
    BY <1>1, <1>2, <2>1, <2>2 DEF EvidenceIsTold, Watching
  <2> QED  BY <1>2, <1>3, <1>4, <2>1, <2>3 DEF PrinterTypes
<1>6. CASE Told
  <2> DEFINE e == [type |-> "TELEMETRY", at |-> printer.progress]
  <2>1. evidence' = Append(evidence, e) /\ evidence \in Seq(Events) /\ e \in Events
    BY <1>1, <1>6 DEF Poll, PrinterTypes, Events
  <2>2. /\ evidence' \in Seq(Events) /\ Len(evidence) \in Nat
        /\ DOMAIN evidence = 1 .. Len(evidence)
        /\ DOMAIN evidence' = 1 .. (Len(evidence) + 1)
        /\ evidence'[Len(evidence) + 1] = e
        /\ \A i \in 1 .. Len(evidence) : evidence'[i] = evidence[i]
    BY <2>1, OneMore
  <2>3. SeenSince(evidence', printer.progress)
    BY <2>2 DEF SeenSince
  <2>4. BehindOf(evidence', driver.taken)
    BY <1>1, <2>2 DEF BehindOf, EvidenceIsTold, Watching
  <2>5. FramesInOrder(evidence')
    <3>1. FramesInOrder(evidence)
      BY DEF EvidenceIsTold
    <3>2. ASSUME NEW i \in DOMAIN evidence', evidence'[i].type = "FRAME"
          PROVE  /\ i \in 1 .. Len(evidence)
                 /\ \A n \in 1 .. (i - 1) : n \in 1 .. Len(evidence)
      BY <2>2, <3>2
    <3> QED  BY <2>2, <3>1, <3>2 DEF FramesInOrder
  <2>6. EvidenceIsTold'
    BY <1>1, <1>2, <1>6, <2>3, <2>4, <2>5, PrinterConstants DEF EvidenceIsTold, Watching
  <2> QED  BY <1>2, <1>3, <1>4, <2>2, <2>6 DEF PrinterTypes
<1> QED  BY <1>5, <1>6

\* A frame that is taken of what was told, behind those there are.
LEMMA CapturedInOrder ==
    ASSUME PrinterInv, driver.at = "frames", NEW progress \in 0 .. Steps, NEW camera,
           progress <= driver.seen,
           \A i \in DOMAIN evidence : evidence[i].type = "FRAME" => evidence[i].at < progress
    PROVE  LET list == Captured(progress, camera)
           IN  /\ list \in Seq(Events)
               /\ FramesInOrder(list)
               /\ driver.reported >= 0 => SeenSince(list, driver.reported)
               /\ \A i \in DOMAIN list : list[i].type = "FRAME" =>
                     list[i].at = progress \/ (i \in DOMAIN evidence /\ list[i] = evidence[i])
<1> USE DEF PrinterInv
<1>1. /\ evidence \in Seq(Events) /\ FramesInOrder(evidence)
      /\ driver.seen \in 0 .. Steps /\ driver.reported \in 0 .. Steps
      /\ driver.seen - driver.reported < MinDelta /\ Steps \in Nat /\ MinDelta \in Nat
  BY PrinterConstants DEF PrinterTypes, Watches, EvidenceIsTold
<1>2. driver.reported >= 0 /\ SeenSince(evidence, driver.reported)
  BY <1>1 DEF EvidenceIsTold, Watching
<1>3. CASE ~camera
  BY <1>1, <1>2, <1>3 DEF Captured
<1>4. CASE camera
  <2> DEFINE e == [type |-> "FRAME", at |-> progress]
             list == Append(evidence, e)
             n == Len(evidence)
  <2>1. Captured(progress, camera) = list /\ e \in Events
    BY <1>1, <1>4 DEF Captured, Events
  <2>2. /\ list \in Seq(Events) /\ n \in Nat
        /\ DOMAIN evidence = 1 .. n /\ DOMAIN list = 1 .. (n + 1)
        /\ list[n + 1] = e /\ \A i \in 1 .. n : list[i] = evidence[i]
    BY <1>1, <2>1, OneMore
  <2>3. e.type = "FRAME" /\ e.at = progress
    OBVIOUS
  <2> HIDE DEF list, e, n
  <2>4. PICK k \in 1 .. n : evidence[k].type = "TELEMETRY" /\ evidence[k].at = driver.reported
    BY <1>2, <2>2 DEF SeenSince
  <2>5. FramesInOrder(list)
    <3> SUFFICES ASSUME NEW i \in 1 .. (n + 1), list[i].type = "FRAME"
                 PROVE  /\ \A m \in 1 .. (i - 1) :
                              list[m].type = "FRAME" => list[m].at < list[i].at
                        /\ \E m \in 1 .. (i - 1) :
                              /\ list[m].type = "TELEMETRY"
                              /\ list[i].at - list[m].at < MinDelta
      BY <2>2 DEF FramesInOrder
    <3>1. CASE i = n + 1
      <4>1. progress - driver.reported < MinDelta
        BY <1>1
      <4>2. k \in 1 .. (i - 1) /\ list[k] = evidence[k] /\ list[i] = e
        BY <2>2, <2>4, <3>1
      <4>3. \A m \in 1 .. (i - 1) : m \in 1 .. n
        BY <2>2, <3>1
      <4> QED  BY <2>2, <2>3, <2>4, <4>1, <4>2, <4>3
    <3>2. CASE i \in 1 .. n
      <4>1. list[i] = evidence[i] /\ \A m \in 1 .. (i - 1) : list[m] = evidence[m]
        BY <2>2, <3>2
      <4> QED  BY <1>1, <2>2, <3>2, <4>1 DEF FramesInOrder
    <3> QED  BY <2>2, <3>1, <3>2
  <2>6. SeenSince(list, driver.reported)
    BY <2>2, <2>4 DEF SeenSince
  <2>7. \A i \in DOMAIN list : list[i].type = "FRAME" =>
           list[i].at = progress \/ (i \in DOMAIN evidence /\ list[i] = evidence[i])
    BY <2>2, <2>3
  <2> QED  BY <2>1, <2>2, <2>5, <2>6, <2>7
<1> QED  BY <1>3, <1>4

LEMMA FrameStep == ASSUME PrinterInv, NEW camera, TakeFrame(camera) PROVE PrinterInv'
<1> USE DEF PrinterInv
<1> DEFINE m == driver.taken + 1
<1>1. /\ driver.at = "frames" /\ driver \in Watches
      /\ m \in 1 .. Len(Milestones) /\ Milestones[m] <= driver.seen
      /\ Milestones[m] \in 0 .. Steps /\ Milestones[m] < Steps
      /\ BehindOf(evidence, driver.taken)
  BY PrinterConstants DEF TakeFrame, Reached, PrinterTypes, Watches, EvidenceIsTold, Watching
<1>2. \A i \in DOMAIN evidence : evidence[i].type = "FRAME" => evidence[i].at < Milestones[m]
  BY <1>1 DEF BehindOf
<1>3. evidence' = Captured(Milestones[m], camera)
  BY DEF TakeFrame
<1>4. /\ evidence' \in Seq(Events) /\ FramesInOrder(evidence')
      /\ driver.reported >= 0 => SeenSince(evidence', driver.reported)
      /\ \A i \in DOMAIN evidence' : evidence'[i].type = "FRAME" =>
            \/ evidence'[i].at = Milestones[m]
            \/ i \in DOMAIN evidence /\ evidence'[i] = evidence[i]
  BY <1>1, <1>2, <1>3, CapturedInOrder
<1>5. /\ driver' \in Watches /\ driver'.at = "frames" /\ driver'.taken = m
      /\ driver'.seen = driver.seen /\ driver'.reported = driver.reported
      /\ driver'.done = driver.done /\ driver'.before = driver.before
      /\ UNCHANGED <<printer, finished, claims>>
  BY <1>1, PrinterConstants, SMTT(30) DEF TakeFrame, Watches
<1>6. BehindOf(evidence', m)
  <2> SUFFICES ASSUME NEW i \in DOMAIN evidence', evidence'[i].type = "FRAME"
               PROVE  /\ evidence'[i].at < Steps
                      /\ \A j \in (m + 1) .. Len(Milestones) : evidence'[i].at < Milestones[j]
    BY DEF BehindOf
  <2>1. \A j \in (m + 1) .. Len(Milestones) :
           /\ j \in 1 .. Len(Milestones) /\ j \in m .. Len(Milestones)
           /\ Milestones[m] < Milestones[j]
    BY <1>1, PrinterConstants
  <2>2. CASE evidence'[i].at = Milestones[m]
    BY <1>1, <2>1, <2>2
  <2>3. CASE i \in DOMAIN evidence /\ evidence'[i] = evidence[i]
    BY <1>1, <2>1, <2>3 DEF BehindOf
  <2> QED  BY <1>4, <2>2, <2>3
<1>7. ClaimsAreOfThePast'
  BY <1>1, <1>5 DEF ClaimsAreOfThePast, Watching, Complete
<1>8. EvidenceIsTold'
  BY <1>1, <1>4, <1>5, <1>6 DEF EvidenceIsTold, Watching
<1> QED  BY <1>4, <1>5, <1>7, <1>8 DEF PrinterTypes

LEMMA ClaimStep == ASSUME PrinterInv, NEW camera, ClaimUnit(camera) PROVE PrinterInv'
<1> USE DEF PrinterInv
<1>1. /\ driver.at = "frames" /\ driver.done /\ driver.seen = Steps /\ Steps \in 0 .. Steps
      /\ driver \in Watches /\ finished \in Nat /\ driver.before \in Nat
      /\ driver.before < finished /\ driver.unit \in Nat
      /\ BehindOf(evidence, driver.taken)
  BY PrinterConstants
  DEF ClaimUnit, PrinterTypes, Watches, ClaimsAreOfThePast, EvidenceIsTold, Watching
<1>2. evidence' \in Seq(Events) /\ FramesInOrder(evidence')
  <2>1. evidence' = Captured(Steps, camera)
    BY DEF ClaimUnit
  <2>2. \A i \in DOMAIN evidence : evidence[i].type = "FRAME" => evidence[i].at < Steps
    BY <1>1 DEF BehindOf
  <2>3. Steps <= driver.seen
    BY <1>1
  <2> QED  BY <1>1, <2>1, <2>2, <2>3, CapturedInOrder
<1>3. /\ driver' \in Watches /\ driver'.at \in {"idle", "start"} /\ ~driver'.done
      /\ UNCHANGED <<printer, finished>>
  <2>1. \/ driver' = Idle
        \/ driver' = [Idle EXCEPT !.at = "start", !.unit = driver.unit + 1]
    BY DEF ClaimUnit
  <2>2. driver.unit + 1 \in Nat /\ UNCHANGED <<printer, finished>>
    BY <1>1 DEF ClaimUnit
  <2> QED  BY <2>1, <2>2, IdleType
<1>4. /\ claims' \in Seq(Claims) /\ Len(claims) \in Nat
      /\ DOMAIN claims = 1 .. Len(claims) /\ DOMAIN claims' = 1 .. (Len(claims) + 1)
      /\ claims'[Len(claims) + 1] = Claim
      /\ \A i \in 1 .. Len(claims) : claims'[i] = claims[i]
  <2>1. claims' = Append(claims, Claim) /\ claims \in Seq(Claims) /\ Claim \in Claims
    BY <1>1 DEF ClaimUnit, PrinterTypes, Claim, Claims
  <2> QED  BY <2>1, OneMore
<1>5. ClaimsAreOfThePast'
  <2>1. /\ \A i \in 1 .. Len(claims) : claims[i].after <= driver.before
        /\ \A i \in 1 .. Len(claims) : claims[i].after <= finished
        /\ ClaimsInOrder(claims)
    BY <1>1, <1>4 DEF ClaimsAreOfThePast, Watching
  <2>2. Claim.before = driver.before /\ Claim.after = finished
    BY DEF Claim
  <2>3. ClaimsInOrder(claims')
    <3> SUFFICES ASSUME NEW i \in 1 .. (Len(claims) + 1)
                 PROVE  /\ claims'[i].before < claims'[i].after
                        /\ i > 1 => claims'[i - 1].after <= claims'[i].before
      BY <1>4 DEF ClaimsInOrder
    <3>1. CASE i = Len(claims) + 1
      <4>1. i > 1 => i - 1 \in 1 .. Len(claims)
        BY <1>4, <3>1
      <4> QED  BY <1>1, <1>4, <2>1, <2>2, <3>1, <4>1
    <3>2. CASE i \in 1 .. Len(claims)
      <4>1. i > 1 => i - 1 \in 1 .. Len(claims)
        BY <1>4, <3>2
      <4> QED  BY <1>4, <2>1, <3>2, <4>1 DEF ClaimsInOrder
    <3> QED  BY <1>4, <3>1, <3>2
  <2>4. \A i \in DOMAIN claims' : claims'[i].after <= finished
    BY <1>1, <1>4, <2>1, <2>2
  <2> QED  BY <1>3, <2>3, <2>4 DEF ClaimsAreOfThePast, Watching, Complete
<1>6. EvidenceIsTold'
  BY <1>2, <1>3 DEF EvidenceIsTold, Watching
<1> QED  BY <1>2, <1>3, <1>4, <1>5, <1>6 DEF PrinterTypes

LEMMA PrinterStep == PrinterInv /\ [PrinterNext]_printerVars => PrinterInv'
<1> SUFFICES ASSUME PrinterInv, [PrinterNext]_printerVars
             PROVE  PrinterInv'
  OBVIOUS
<1>1. CASE PrintOn \/ Finish \/ Spoil \/ StartAtPanel
  BY <1>1, PanelStep
<1>2. CASE PrepareFile \/ StartUnit \/ StartFails \/ PollFails \/ PollSpoilt
  BY <1>2, StartStep
<1>3. CASE Poll
  BY <1>3, PollStep
<1>4. CASE PollAgain
  <2>1. /\ driver \in Watches /\ driver.at = "frames" /\ ~driver.done
        /\ driver' = [driver EXCEPT !.at = "poll"]
        /\ UNCHANGED <<printer, finished, evidence, claims>>
    BY <1>4 DEF PollAgain, PrinterInv, PrinterTypes
  <2>2. /\ driver' \in Watches /\ driver'.at = "poll" /\ driver'.taken = driver.taken
        /\ driver'.done = driver.done /\ driver'.before = driver.before
        /\ driver'.reported = driver.reported
    BY <2>1 DEF Watches
  <2> QED  BY <2>1, <2>2 DEF PrinterInv, PrinterTypes, ClaimsAreOfThePast, EvidenceIsTold,
                             Watching, Complete
<1>5. ASSUME NEW camera \in BOOLEAN, TakeFrame(camera) \/ ClaimUnit(camera)
      PROVE  PrinterInv'
  BY <1>5, FrameStep, ClaimStep
<1>6. CASE UNCHANGED printerVars
  BY <1>6 DEF printerVars, PrinterInv, PrinterTypes, ClaimsAreOfThePast, EvidenceIsTold,
              Watching, Complete
<1> QED  BY <1>1, <1>2, <1>3, <1>4, <1>5, <1>6 DEF PrinterNext

\* Every unit a job claims is a print of its own that was run to its end since
\* the unit was started, and its frames are in the order of the milestones and
\* of prints that had come so far (k2.py:199-232), for any number of units and
\* milestones, whatever fails and whatever people do at the printer's panel.
THEOREM UnitsAlwaysPrinted == PrinterSpec => []UnitsArePrinted
<1>1. PrinterInit => PrinterInv
  <2> SUFFICES ASSUME PrinterInit
               PROVE  PrinterInv
    OBVIOUS
  <2>1. PrinterTypes
    <3>1. printer \in Prints /\ finished \in Nat /\ driver \in Watches
      <4>1. 0 \in 0 .. Steps
        BY PrinterConstants
      <4> QED  BY IdleType, <4>1 DEF PrinterInit, Prints
    <3>2. \A S : <<>> \in Seq(S)
      OBVIOUS
    <3> QED  BY <3>1, <3>2 DEF PrinterInit, PrinterTypes
  <2>2. driver.at = "idle" /\ ~driver.done /\ ~Complete /\ claims = <<>> /\ evidence = <<>>
    BY DEF PrinterInit, Idle, Complete
  <2> QED  BY <2>1, <2>2 DEF PrinterInv, ClaimsAreOfThePast, EvidenceIsTold, Watching,
                             ClaimsInOrder, FramesInOrder
<1>2. PrinterInv => UnitsArePrinted
  BY DEF PrinterInv, ClaimsAreOfThePast, EvidenceIsTold, ClaimsInOrder, FramesInOrder,
         UnitsArePrinted
<1> QED  BY <1>1, <1>2, PrinterStep, PTL DEF PrinterSpec

-----------------------------------------------------------------------------
(***************************************************************************)
(* AlertWatch, for every set of problems and channels and every ladder.    *)
(*                                                                         *)
(* The router's book and a human's inbox part where a run dies: messages   *)
(* cannot be taken back, the transaction is.  The invariants say what is   *)
(* left in common: who is in the book as told has heard of the problem,    *)
(* and has heard of it last, unless a run that died had announced its end; *)
(* what a run without a complaint then leaves unsaid is not due yet.       *)
(***************************************************************************)

BookEntries == [severity : Severities, stage : 0 .. (Len(Backoff) - 1),
            told : BOOLEAN, age : Nat]
InboxMessages == [state : {"none", "firing", "resolved"}, severity : Severities, news : BOOLEAN]

AlertTypeOK ==
    /\ world \in [Problems -> Severities]
    /\ found \in [Problems -> Severities]
    /\ book \in [Problems -> BookEntries]
    /\ draft \in [Problems -> BookEntries]
    /\ inbox \in [Problems -> InboxMessages]
    /\ todo \in SUBSET Problems
    /\ torn \in SUBSET Problems
    /\ step \in {"idle", "dispatch", "beat"}
    /\ failed \in BOOLEAN
    /\ beat \in Nat

-----------------------------------------------------------------------------
\* The maximum of a finite set of integers is there.
LEMMA MaxIsThere ==
    ASSUME NEW S \in SUBSET Int, IsFiniteSet(S), S # {}
    PROVE  Max(S) \in S /\ \A y \in S : Max(S) >= y
<1> DEFINE Good == {T \in SUBSET S : T # {} => \E x \in T : \A y \in T : x >= y}
<1>1. {} \in Good
  OBVIOUS
<1>2. ASSUME NEW T \in SUBSET S, T # {}, \A x \in T : T \ {x} \in Good
      PROVE  T \in Good
  <2>1. PICK x \in T : TRUE
    BY <1>2
  <2>2. CASE T = {x}
    BY <2>1, <2>2
  <2>3. CASE T # {x}
    <3>1. PICK z \in T \ {x} : \A y \in T \ {x} : z >= y
      BY <1>2, <2>1, <2>3
    <3>2. x \in Int /\ z \in Int /\ \A y \in T : y \in Int
      BY <2>1, <3>1
    <3>3. CASE z >= x
      BY <2>1, <3>1, <3>2, <3>3
    <3>4. CASE x > z
      BY <2>1, <3>1, <3>2, <3>4
    <3> QED  BY <3>2, <3>3, <3>4
  <2> QED  BY <2>2, <2>3
<1>3. S \in Good
  <2> HIDE DEF Good
  <2> QED  BY <1>1, <1>2, SubsetInduction
<1> QED  BY <1>3 DEF Max

LEMMA MinOfTwo ==
    ASSUME NEW a \in Int, NEW b \in Int
    PROVE  Min({a, b}) \in {a, b} /\ Min({a, b}) <= a /\ Min({a, b}) <= b
<1>1. \E x \in {a, b} : \A y \in {a, b} : x <= y
  OBVIOUS
<1> QED  BY <1>1 DEF Min

LEMMA OldestType == Oldest \in Nat
<1> DEFINE N == 1 .. Len(Backoff)
           R == Range(Backoff)
           T == R \union {MaxSilence + 1}
<1>1. Backoff \in [N -> Nat] /\ Len(Backoff) \in Nat /\ MaxSilence + 1 \in Nat
  BY AlertAssumption
<1>2. Backoff \in Surjection(N, R)
  BY <1>1 DEF Surjection, Range
<1>3. R \in SUBSET Nat
  BY <1>1 DEF Range
<1>4. IsFiniteSet(R)
  <2> HIDE DEF R
  <2> QED  BY <1>1, <1>2, FS_Interval, FS_Surjection
<1>5. IsFiniteSet(T)
  <2> HIDE DEF R
  <2> QED  BY <1>4, FS_AddElement
<1>6. Max(T) \in T
  <2>1. T \in SUBSET Int /\ T # {}
    BY <1>1, <1>3
  <2> HIDE DEF T
  <2> QED  BY <1>5, <2>1, MaxIsThere
<1> QED  BY <1>1, <1>3, <1>6 DEF Oldest

LEMMA LadderType ==
    /\ Len(Backoff) \in Nat /\ Len(Backoff) > 0
    /\ \A n \in 0 .. (Len(Backoff) - 1) : Rung(n) \in 0 .. (Len(Backoff) - 1)
    /\ \A a \in Nat : Older(a) \in Nat
<1>1. Len(Backoff) \in Nat /\ Len(Backoff) > 0
  BY AlertAssumption
<1>2. ASSUME NEW n \in 0 .. (Len(Backoff) - 1)
      PROVE  Rung(n) \in 0 .. (Len(Backoff) - 1)
  <2>1. n + 1 \in Int /\ Len(Backoff) - 1 \in Int
    BY <1>1
  <2>2. Rung(n) \in {n + 1, Len(Backoff) - 1} /\ Rung(n) <= Len(Backoff) - 1
    BY <2>1, MinOfTwo DEF Rung
  <2> QED  BY <1>1, <2>2
<1>3. ASSUME NEW a \in Nat
      PROVE  Older(a) \in Nat
  <2>1. a + 1 \in Int /\ Oldest \in Int
    BY OldestType
  <2>2. Older(a) \in {a + 1, Oldest}
    BY <2>1, MinOfTwo DEF Older
  <2> QED  BY <2>2, OldestType
<1> QED  BY <1>1, <1>2, <1>3

LEMMA ZeroIsMild == 0 \in Severities /\ Critical \in Severities
BY DEF Severities, Critical

LEMMA EntryTypes ==
    /\ Unknown \in BookEntries
    /\ \A e \in BookEntries : [e EXCEPT !.age = Older(e.age)] \in BookEntries
    /\ \A e \in BookEntries, s \in Severities : [e EXCEPT !.severity = s] \in BookEntries
<1>1. 0 \in 0 .. (Len(Backoff) - 1) /\ 0 \in Severities
  BY LadderType DEF Severities, Critical
<1> QED  BY <1>1, LadderType DEF BookEntries, Unknown

LEMMA MessageTypes ==
    ASSUME AlertTypeOK, NEW p \in Problems, NEW taken
    PROVE  /\ Firing(p) \in InboxMessages
           /\ ToldOf(p, taken) \in BookEntries
           /\ Over(p) \in InboxMessages
<1>1. 0 \in 0 .. (Len(Backoff) - 1) /\ 0 \in Severities
  BY LadderType DEF Severities, Critical
<1>2. /\ found[p] \in Severities /\ draft[p] \in BookEntries
      /\ draft[p].stage \in 0 .. (Len(Backoff) - 1)
  BY DEF AlertTypeOK, BookEntries
<1>3. Over(p) \in InboxMessages
  <2>1. (inbox[p].state = "firing") \in BOOLEAN
    OBVIOUS
  <2> QED  BY <1>1, <2>1 DEF Over, InboxMessages
<1>4. Firing(p) \in InboxMessages
  BY <1>2 DEF Firing, InboxMessages
<1>5. ToldOf(p, taken) \in BookEntries
  <2>1. Rung(draft[p].stage) \in 0 .. (Len(Backoff) - 1)
    BY <1>2, LadderType
  <2>2. CASE taken = {}
    BY <1>2, <2>2, EntryTypes DEF ToldOf
  <2>3. CASE taken # {}
    BY <1>1, <1>2, <2>1, <2>3 DEF ToldOf, BookEntries
  <2> QED  BY <2>2, <2>3
<1> QED  BY <1>3, <1>4, <1>5

LEMMA TypeStep == AlertTypeOK /\ [AlertNext]_alertVars => AlertTypeOK'
<1> SUFFICES ASSUME AlertTypeOK, [AlertNext]_alertVars
             PROVE  AlertTypeOK'
  OBVIOUS
<1> USE DEF AlertTypeOK
<1>1. CASE UNCHANGED alertVars
  BY <1>1 DEF alertVars
<1>2. ASSUME NEW p \in Problems, Change(p)
      PROVE  AlertTypeOK'
  BY <1>2 DEF Change
<1>3. ASSUME Tick
      PROVE  AlertTypeOK'
  <2>1. Aged(book) \in [Problems -> BookEntries]
    BY EntryTypes DEF Aged
  <2>2. beat' \in Nat
    <3>1. beat + 1 \in Nat /\ MaxSilence + 1 \in Nat
      BY AlertAssumption
    <3>2. beat + 1 \in Int /\ MaxSilence + 1 \in Int
      BY <3>1
    <3>3. Min({beat + 1, MaxSilence + 1}) \in {beat + 1, MaxSilence + 1}
      BY <3>2, MinOfTwo
    <3>4. beat' = Min({beat + 1, MaxSilence + 1})
      BY <1>3 DEF Tick
    <3> QED  BY <3>1, <3>3, <3>4
  <2> QED  BY <1>3, <2>1, <2>2 DEF Tick
<1>4. ASSUME Collect
      PROVE  AlertTypeOK'
  <2>1. Staleness \in Severities /\ 0 \in Severities
    BY DEF Staleness, Severities, Critical
  <2>2. [world EXCEPT ![Stale] = Staleness] \in [Problems -> Severities]
    BY <2>1
  <2>3. found' \in [Problems -> Severities]
    BY <1>4, <2>1, <2>2 DEF Collect
  <2> QED  BY <1>4, <2>3 DEF Collect
<1>5. ASSUME NEW p \in Problems, Notify(p)
      PROVE  AlertTypeOK'
  <2>1. PICK taken \in SUBSET Channels :
            /\ Deliver(p, Firing(p), taken)
            /\ draft' = [draft EXCEPT ![p] = ToldOf(p, taken)]
            /\ torn' = IF taken = {} THEN torn ELSE torn \ {p}
    BY <1>5 DEF Notify
  <2>2. Firing(p) \in InboxMessages /\ ToldOf(p, taken) \in BookEntries
    BY MessageTypes DEF AlertTypeOK
  <2>3. inbox' \in [Problems -> InboxMessages] /\ failed' \in BOOLEAN
    BY <2>1, <2>2 DEF Deliver
  <2> QED  BY <1>5, <2>1, <2>2, <2>3 DEF Notify
<1>6. ASSUME NEW p \in Problems, Suppress(p)
      PROVE  AlertTypeOK'
  <2>1. [draft[p] EXCEPT !.severity = found[p]] \in BookEntries
    BY EntryTypes
  <2> QED  BY <1>6, <2>1 DEF Suppress
<1>7. ASSUME NEW p \in Problems, Resolve(p)
      PROVE  AlertTypeOK'
  <2>1. Over(p) \in InboxMessages
    BY MessageTypes DEF AlertTypeOK
  <2>2. \/ \E taken \in SUBSET Channels : Deliver(p, Over(p), taken)
        \/ UNCHANGED <<failed, inbox>>
    BY <1>7 DEF Resolve
  <2>3. inbox' \in [Problems -> InboxMessages] /\ failed' \in BOOLEAN
    BY <2>1, <2>2 DEF Deliver
  <2> QED  BY <1>7, <2>3, EntryTypes DEF Resolve
<1>8. ASSUME CommitAlerts
      PROVE  AlertTypeOK'
  BY <1>8 DEF CommitAlerts
<1>9. ASSUME Beat
      PROVE  AlertTypeOK'
  <2>1. found' \in [Problems -> Severities]
    BY <1>9, ZeroIsMild DEF Beat
  <2>2. beat' \in Nat
    BY <1>9 DEF Beat
  <2>3. step' = "idle" /\ failed' = FALSE /\ UNCHANGED <<world, book, draft, todo, inbox, torn>>
    BY <1>9 DEF Beat
  <2> QED  BY <2>1, <2>2, <2>3
<1>10. ASSUME Die
      PROVE  AlertTypeOK'
  <2>1. found' \in [Problems -> Severities]
    BY <1>10, ZeroIsMild DEF Die
  <2>2. torn' \in SUBSET Problems
    BY <1>10 DEF Die
  <2>3. draft' \in [Problems -> BookEntries] /\ UNCHANGED <<world, book, beat, inbox>>
    BY <1>10 DEF Die
  <2>4. todo' = {} /\ step' = "idle" /\ failed' = FALSE
    BY <1>10 DEF Die
  <2> QED  BY <2>1, <2>2, <2>3, <2>4
<1> QED  BY <1>1, <1>2, <1>3, <1>4, <1>5, <1>6, <1>7, <1>8, <1>9, <1>10
         DEF AlertNext, Dispatch

\* Every reachable state is well typed: in particular no entry of the book is
\* ever past the end of the ladder (alert.py:239-241, 268).
THEOREM TypeCorrect == AlertSpec => []AlertTypeOK
<1>1. AlertInit => AlertTypeOK
  <2> SUFFICES ASSUME AlertInit
               PROVE  AlertTypeOK
    OBVIOUS
  <2>1. /\ world \in [Problems -> Severities] /\ found \in [Problems -> Severities]
        /\ book \in [Problems -> BookEntries] /\ draft \in [Problems -> BookEntries]
    BY EntryTypes, ZeroIsMild DEF AlertInit
  <2>2. inbox \in [Problems -> InboxMessages]
    BY ZeroIsMild DEF AlertInit, InboxMessages
  <2> QED  BY <2>1, <2>2 DEF AlertInit, AlertTypeOK
<1> QED  BY <1>1, TypeStep, PTL DEF AlertSpec

-----------------------------------------------------------------------------
(***************************************************************************)
(* The book and the inbox.                                                 *)
(***************************************************************************)
\* The problem was heard of last, or its next telling is not due yet.
HeardOf(p) ==
    \/ inbox[p].state = "firing"
    \/ /\ p \in torn /\ inbox[p].state = "resolved"
       /\ draft[p].told /\ draft[p].age < Backoff[draft[p].stage + 1]

HeardInv ==
    \* Outside a transaction the draft is the book.
    /\ step # "dispatch" => draft = book
    /\ step = "beat" => todo = {}
    \* Who is on the book as told has heard something,
    /\ \A p \in Problems : draft[p].told \/ book[p].told => inbox[p].state # "none"
    \* and heard of the problem last, unless a run that died had announced its end.
    /\ \A p \in Problems : draft[p].told =>
           inbox[p].state = "firing" \/ (inbox[p].state = "resolved" /\ p \in torn)
    \* What a run that heard no refusal has dealt with was heard of.
    /\ step # "idle" /\ ~failed =>
           \A p \in Problems \ todo : found[p] > 0 => HeardOf(p)

LEMMA HeardStep == AlertTypeOK /\ HeardInv /\ [AlertNext]_alertVars => HeardInv'
<1> SUFFICES ASSUME AlertTypeOK, HeardInv, [AlertNext]_alertVars
             PROVE  HeardInv'
  OBVIOUS
<1> USE DEF AlertTypeOK, HeardInv, HeardOf
<1>1. CASE UNCHANGED alertVars
  BY <1>1 DEF alertVars
<1>2. ASSUME NEW p \in Problems, Change(p)
      PROVE  HeardInv'
  BY <1>2 DEF Change
<1>3. ASSUME Tick
      PROVE  HeardInv'
  <2>1. \A p \in Problems : Aged(book)[p].told = book[p].told
    BY DEF Aged, BookEntries
  <2> QED  BY <1>3, <2>1 DEF Tick
<1>4. ASSUME Collect
      PROVE  HeardInv'
  BY <1>4 DEF Collect
<1>5. ASSUME NEW p \in Problems, Notify(p)
      PROVE  HeardInv'
  <2>1. PICK taken \in SUBSET Channels :
            /\ Deliver(p, Firing(p), taken)
            /\ draft' = [draft EXCEPT ![p] = ToldOf(p, taken)]
            /\ torn' = IF taken = {} THEN torn ELSE torn \ {p}
    BY <1>5 DEF Notify
  <2>2. CASE taken = {}
    <3>1. draft'[p].told = draft[p].told
      BY <2>1, <2>2 DEF ToldOf, BookEntries
    <3> QED  BY <1>5, <2>1, <2>2, <3>1 DEF Notify, Deliver
  <2>3. CASE taken # {}
    <3>1. inbox' = [inbox EXCEPT ![p] = Firing(p)] /\ Firing(p).state = "firing"
      BY <2>1, <2>3 DEF Deliver, Firing
    <3>2. failed => failed'
      BY <2>1 DEF Deliver
    <3> QED  BY <1>5, <2>1, <2>3, <3>1, <3>2 DEF Notify
  <2> QED  BY <2>2, <2>3
<1>6. ASSUME NEW p \in Problems, Suppress(p)
      PROVE  HeardInv'
  <2>1. draft[p].told /\ draft[p].age < Backoff[draft[p].stage + 1]
    <3>1. draft[p].told /\ ~(draft[p].age >= Backoff[draft[p].stage + 1])
      BY <1>6 DEF Suppress, Due
    <3>2. draft[p].age \in Nat /\ draft[p].stage + 1 \in 1 .. Len(Backoff)
      <4>1. draft[p] \in BookEntries
        OBVIOUS
      <4>2. Len(Backoff) \in Nat /\ draft[p].age \in Nat /\ draft[p].stage \in 0 .. (Len(Backoff) - 1)
        BY <4>1, LadderType DEF BookEntries
      <4> QED  BY <4>2
    <3>3. Backoff[draft[p].stage + 1] \in Nat
      BY <3>2, AlertAssumption
    <3> QED  BY <3>1, <3>2, <3>3
  <2>2. \A q \in Problems : /\ draft'[q].told = draft[q].told /\ draft'[q].age = draft[q].age
                            /\ draft'[q].stage = draft[q].stage
    BY <1>6 DEF Suppress, BookEntries
  <2>3. UNCHANGED <<book, found, step, failed, inbox, torn>> /\ todo' = todo \ {p} /\ step = "dispatch"
    BY <1>6 DEF Suppress
  <2>4. HeardOf(p)'
    BY <2>1, <2>2, <2>3
  <2>5. \A q \in Problems : HeardOf(q) => HeardOf(q)'
    BY <2>2, <2>3
  <2> QED  BY <2>2, <2>3, <2>4, <2>5
<1>7. ASSUME NEW p \in Problems, Resolve(p)
      PROVE  HeardInv'
  <2>1. found[p] = 0 /\ draft' = [draft EXCEPT ![p] = Unknown] /\ ~Unknown.told
    BY <1>7 DEF Resolve, Unknown
  <2>2. \A q \in Problems : q # p => inbox'[q] = inbox[q]
    BY <1>7 DEF Resolve, Deliver
  <2>3. inbox'[p].state = "resolved" \/ inbox'[p] = inbox[p]
    BY <1>7 DEF Resolve, Deliver, Over
  <2>4. failed => failed'
    BY <1>7 DEF Resolve, Deliver
  <2> QED  BY <1>7, <2>1, <2>2, <2>3, <2>4 DEF Resolve
<1>8. ASSUME CommitAlerts
      PROVE  HeardInv'
  BY <1>8 DEF CommitAlerts
<1>9. ASSUME Beat
      PROVE  HeardInv'
  BY <1>9 DEF Beat
<1>10. ASSUME Die
      PROVE  HeardInv'
  <2>1. \A p \in Problems : book[p].told =>
            inbox[p].state = "firing" \/ (inbox[p].state = "resolved" /\ p \in torn')
    BY <1>10 DEF Die, InboxMessages
  <2> QED  BY <1>10, <2>1 DEF Die
<1> QED  BY <1>1, <1>2, <1>3, <1>4, <1>5, <1>6, <1>7, <1>8, <1>9, <1>10
         DEF AlertNext, Dispatch

THEOREM HeardAlways == AlertSpec => [](AlertTypeOK /\ HeardInv)
<1>1. AlertInit => HeardInv
  BY DEF AlertInit, HeardInv, Unknown
<1> QED  BY TypeCorrect, <1>1, HeardStep, PTL DEF AlertSpec

\* A run that ends with no complaint leaves behind, of every problem it found,
\* that it is there as the last thing heard; or else a run that died had announced
\* its end, the book says it was told of, and its next telling is not due
\* (watch.py:25, alert.py:216-245).
THEOREM QuietRunsAreHeardOf == AlertSpec => []QuietMeansHeardOf
<1>1. AlertTypeOK /\ HeardInv => QuietMeansHeardOf
  BY DEF AlertTypeOK, HeardInv, HeardOf, QuietMeansHeardOf, ExitCode
<1> QED  BY HeardAlways, <1>1, PTL

\* Whoever is told that something is over had last heard that it is there; only
\* where a run died between announcing the end and its commit may they have heard
\* the end before (alert.py:251).
THEOREM NoClearIsFalse == AlertSpec => NoFalseClear
<1>1. AlertTypeOK /\ HeardInv /\ [AlertNext]_alertVars =>
          [\A p \in Problems :
              inbox'[p].state = "resolved" /\ inbox'[p] # inbox[p]
                  => \/ inbox[p].state = "firing"
                     \/ inbox[p].state = "resolved" /\ p \in torn]_alertVars
  <2> SUFFICES ASSUME AlertTypeOK, HeardInv, [AlertNext]_alertVars,
                      NEW q \in Problems,
                      inbox'[q].state = "resolved", inbox'[q] # inbox[q]
               PROVE  \/ inbox[q].state = "firing"
                      \/ inbox[q].state = "resolved" /\ q \in torn
    OBVIOUS
  <2> USE DEF AlertTypeOK
  <2>1. ASSUME NEW p \in Problems, Notify(p)
        PROVE  FALSE
    BY <2>1 DEF Notify, Deliver, Firing
  <2>2. ASSUME NEW p \in Problems, Resolve(p)
        PROVE  q = p /\ draft[q].told
    BY <2>2 DEF Resolve, Deliver
  <2>3. draft[q].told => \/ inbox[q].state = "firing"
                         \/ inbox[q].state = "resolved" /\ q \in torn
    BY DEF HeardInv
  <2> QED  BY <2>1, <2>2, <2>3
           DEF AlertNext, Dispatch, Change, Tick, Collect, Suppress, CommitAlerts, Beat, Die, alertVars
<1> QED  BY HeardAlways, <1>1, PTL DEF AlertSpec, NoFalseClear
=============================================================================
