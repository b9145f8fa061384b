------------------------------ MODULE NodeFiles ------------------------------
(***************************************************************************)
(* The files of one collection of a node, JSON and SQLite, and what is     *)
(* done with them from outside: migrate copies one into the other          *)
(* (v3/bingo/node/migrate_store.py), backup and drill read the live one    *)
(* (v3/bingo/node/backup.py), and the node opens the one that BINGO_STORE  *)
(* names (node_store in v3/bingo/store.py), while any of them may die.     *)
(*                                                                         *)
(* Records are only added, as to the audit log, and a file is the set of   *)
(* its records; what transactions do is in module Store.  A migration that *)
(* is forced removes whatever stands at its destination, also from under a *)
(* node that runs on it.                                                   *)
(***************************************************************************)
EXTENDS FiniteSets

CONSTANTS Entries,   \* records
          NoEntry,   \* not a record
          LiveTools  \* whether backup and drill run beside a JSON node

ASSUME FilesAssumption == NoEntry \notin Entries /\ LiveTools \in BOOLEAN

Absent == {NoEntry}
Backends == {"json", "sqlite"}
Other(b) == CHOOSE c \in Backends : c # b

VARIABLES files,    \* what each file holds
          setting,  \* BINGO_STORE
          node,     \* the node: its backend, "stopped", or "removed" when its
                    \* database was removed while it was open; and its _data
          answered, \* history: the records whose put returned
          risked,   \* history: the records a forced migration may have cost
          task,     \* the running migrate, backup or drill
          snapshot  \* the collection in the backup

fileVars == <<files, setting, node, answered, risked, task, snapshot>>

Stopped == [runs |-> "stopped", data |-> {}]
NoTask == [does |-> "nothing"]
Held(b) == IF files[b] = Absent THEN {} ELSE files[b]

FilesInit ==
    /\ files = [b \in Backends |-> Absent]
    /\ setting \in Backends
    /\ node = Stopped /\ answered = {} /\ risked = {}
    /\ task = NoTask /\ snapshot = {}

\* open_store: SQLite makes its file at once, JSON when it first writes.
Opened(b) == IF b = "sqlite" THEN [files EXCEPT ![b] = Held(b)] ELSE files

\* node_store's refusal; an empty JSON file is two bytes.
HasData(b) == files[b] # Absent /\ (b = "json" => files[b] # {})
Refuses(b) == files[b] = Absent /\ HasData(Other(b))

\* A backup or a drill that read a JSON file and has yet to write it.
CopiesJson == task.does = "copy" /\ task.of = "json"

StartNode ==
    /\ node = Stopped
    /\ ~Refuses(setting)
    /\ CopiesJson => LiveTools
    /\ node' = [runs |-> setting, data |-> Held(setting)]
    /\ files' = Opened(setting)
    /\ UNCHANGED <<setting, answered, risked, task, snapshot>>

\* put: JSON replaces the whole file with what the node has in memory.
AddRecord(r) ==
    /\ node # Stopped /\ r \notin answered
    /\ node' = [node EXCEPT !.data = @ \union {r}]
    /\ files' = IF node.runs = "removed" THEN files
                ELSE [files EXCEPT ![node.runs] =
                         IF node.runs = "json" THEN node'.data ELSE @ \union {r}]
    /\ answered' = answered \union {r}
    /\ UNCHANGED <<setting, risked, task, snapshot>>

\* The node stops or dies, and the operator may turn to the other backend.
StopNode ==
    /\ node # Stopped
    /\ node' = Stopped
    /\ setting' \in Backends
    /\ UNCHANGED <<files, answered, risked, task, snapshot>>

-----------------------------------------------------------------------------
Goes(does) == task' = [task EXCEPT !.does = does]

\* migrate: the source is there, the destination is not unless it is forced.
MigrateRead(to, force) ==
    /\ task = NoTask
    /\ files[Other(to)] # Absent
    /\ files[to] # Absent => force
    /\ task' = [does |-> "clear", to |-> to, force |-> force, read |-> files[Other(to)]]
    /\ UNCHANGED <<files, setting, node, answered, risked, snapshot>>

\* A forced one removes what is at the destination: a node that has it open
\* goes on writing to a database without a name, or its JSON file again from a
\* memory that is not what the migration writes.
MigrateClear ==
    /\ task.does = "clear"
    /\ IF task.force
       THEN /\ files' = [files EXCEPT ![task.to] = Absent]
            /\ node' = IF node.runs = task.to /\ task.to = "sqlite"
                       THEN [node EXCEPT !.runs = "removed"] ELSE node
            /\ risked' = risked \union
                   IF node.runs = task.to THEN Entries
                                          ELSE Held(task.to) \ Held(Other(task.to))
       ELSE UNCHANGED <<files, node, risked>>
    /\ Goes("open")
    /\ UNCHANGED <<setting, answered, snapshot>>

\* The new file.
MigrateOpen ==
    /\ task.does = "open"
    /\ files' = Opened(task.to)
    /\ Goes("write")
    /\ UNCHANGED <<setting, node, answered, risked, snapshot>>

MigrateWrite ==
    /\ task.does = "write"
    /\ files' = [files EXCEPT ![task.to] = Held(task.to) \union task.read]
    /\ Goes("verify")
    /\ UNCHANGED <<setting, node, answered, risked, snapshot>>

\* The source is removed when the copy is found good.
BugMigrateVerify ==
    /\ task.does = "verify"
    /\ IF files[task.to] = task.read
       THEN Goes("verified") /\ files' = [files EXCEPT ![Other(task.to)] = Absent]
       ELSE task' = NoTask /\ UNCHANGED files
    /\ UNCHANGED <<setting, node, answered, risked, snapshot>>

\* It is read back: "verified", or an exception.
MigrateVerify ==
    /\ task.does = "verify"
    /\ IF files[task.to] = task.read THEN Goes("verified") ELSE task' = NoTask
    /\ UNCHANGED <<files, setting, node, answered, risked, snapshot>>

-----------------------------------------------------------------------------
\* backup opens the collection that BINGO_STORE names; drill compares what it
\* restores from it with what is live then.
MayRead == LiveTools \/ setting = "sqlite" \/ node = Stopped

BackupOpen(drills) ==
    /\ task = NoTask
    /\ files[setting] # Absent /\ MayRead
    /\ task' = [does |-> "copy", of |-> setting, read |-> files[setting], drills |-> drills]
    /\ UNCHANGED <<files, setting, node, answered, risked, snapshot>>

\* JsonStore.backup first writes what it read over the live file.
BackupCopy ==
    /\ task.does = "copy"
    /\ files' = IF task.of = "json" THEN [files EXCEPT !["json"] = task.read] ELSE files
    /\ snapshot' = files'[task.of]
    /\ IF task.drills THEN Goes("compare") ELSE task' = NoTask
    /\ UNCHANGED <<setting, node, answered, risked>>

Compare ==
    /\ task.does = "compare"
    /\ IF files[task.of] = snapshot THEN Goes("passed") ELSE task' = NoTask
    /\ UNCHANGED <<files, setting, node, answered, risked, snapshot>>

\* A task ends, or dies wherever it is.
EndTask ==
    /\ task # NoTask
    /\ task' = NoTask
    /\ UNCHANGED <<files, setting, node, answered, risked, snapshot>>

FilesNext ==
    \/ StartNode \/ StopNode \/ \E r \in Entries : AddRecord(r)
    \/ \E to \in Backends, force \in BOOLEAN : MigrateRead(to, force)
    \/ MigrateClear \/ MigrateOpen \/ MigrateWrite \/ MigrateVerify
    \/ \E drills \in BOOLEAN : BackupOpen(drills)
    \/ BackupCopy \/ Compare \/ EndTask

FilesSpec == FilesInit /\ [][FilesNext]_fileVars

-----------------------------------------------------------------------------
\* Whatever is migrated, backed up or interrupted, a record whose put returned
\* is in one of the files, unless a forced migration removed it from a file
\* while the source had it not, or removed a file the node was running on, after
\* which nothing is promised (migrate_store.py:62-65 removes without looking).
\* A backup holds no other record, and a migration that was verified has all
\* that its source held when it was read.
NothingIsForgotten ==
    /\ answered \ risked \subseteq Held("json") \union Held("sqlite")
    /\ snapshot \subseteq answered
    /\ task.does = "verified" => task.read \ risked \subseteq Held(task.to)

\* A backup, and so a drill, leaves the live files as they are
\* (backup.py:12-14, "It does not touch the live node").
ToolsReadOnly == [][task.does = "copy" /\ task' # task => files' = files]_fileVars
=============================================================================
