------------------------------- MODULE Catalog -------------------------------
(***************************************************************************)
(* The registry of designs on disk: AssetRegistry.save and load of         *)
(* v3/bingo/registry.py as the command v3/bingo/register.py uses them, by  *)
(* several processes at once.  A process loads what is there, registers an *)
(* asset in its memory and saves all of its memory: the manifests in one   *)
(* transaction of the storage seam, then each content it has that is not   *)
(* there yet.  It may die between any two steps.                           *)
(*                                                                         *)
(* An asset's id is the hash of its manifest and a content's name its own  *)
(* hash, so nothing is ever replaced by something else: a store is the set *)
(* of what it holds.  The split of a derived asset is RoyaltyRouting's.    *)
(***************************************************************************)
EXTENDS Integers

CONSTANTS Tools,    \* the processes that register
          Assets,
          Contents,
          ContentOf,\* the content of an asset
          Parents,  \* the assets it derives from
          Seam      \* BINGO_STORE: "json" or "sqlite"

ASSUME CatalogAssumption ==
    /\ ContentOf \in [Assets -> Contents]
    /\ Parents \in [Assets -> SUBSET Assets]
    /\ Seam \in {"json", "sqlite"}

VARIABLES manifests, \* the assets of the manifests file
          blobs,     \* the contents on disk
          memory,    \* _assets of each process
          held,      \* its _blobs
          entered,   \* what it registers
          read,      \* what its transaction read
          at,        \* "idle", "loaded", "registered", "saving" or "blobs"
          registered \* history: the assets whose command succeeded

tool == <<memory, held, entered, read, at>>
catalogVars == <<manifests, blobs, tool, registered>>

CatalogInit ==
    /\ manifests = {} /\ blobs = {} /\ registered = {}
    /\ memory = [t \in Tools |-> {}]
    /\ held = [t \in Tools |-> {}]
    /\ entered = [t \in Tools |-> {}]
    /\ read = [t \in Tools |-> {}]
    /\ at = [t \in Tools |-> "idle"]

\* load: an asset whose content is not on disk is loaded without it.
Load(t) ==
    /\ at[t] = "idle"
    /\ memory' = [memory EXCEPT ![t] = manifests]
    /\ held' = [held EXCEPT ![t] = {ContentOf[a] : a \in manifests} \intersect blobs]
    /\ at' = [at EXCEPT ![t] = "loaded"]
    /\ UNCHANGED <<manifests, blobs, entered, read, registered>>

\* register: the parents of an asset are looked up, or it raises.
Enter(t, a) ==
    /\ at[t] = "loaded"
    /\ Parents[a] \subseteq memory[t]
    /\ memory' = [memory EXCEPT ![t] = @ \union {a}]
    /\ held' = [held EXCEPT ![t] = @ \union {ContentOf[a]}]
    /\ entered' = [entered EXCEPT ![t] = {a}]
    /\ at' = [at EXCEPT ![t] = "registered"]
    /\ UNCHANGED <<manifests, blobs, read, registered>>

\* save: the transaction begins; only SQLite keeps the others out of it.
BeginSave(t) ==
    /\ at[t] = "registered"
    /\ Seam = "sqlite" => \A u \in Tools : at[u] # "saving"
    /\ read' = [read EXCEPT ![t] = manifests]
    /\ at' = [at EXCEPT ![t] = "saving"]
    /\ UNCHANGED <<manifests, blobs, memory, held, entered, registered>>

\* A save that makes the file what the process has in memory.
BugCommitSave(t) ==
    /\ at[t] = "saving"
    /\ manifests' = memory[t]
    /\ at' = [at EXCEPT ![t] = "blobs"]
    /\ UNCHANGED <<blobs, memory, held, entered, read, registered>>

\* It commits: every manifest in memory is put beside what was read.
CommitSave(t) ==
    /\ at[t] = "saving"
    /\ manifests' = read[t] \union memory[t]
    /\ at' = [at EXCEPT ![t] = "blobs"]
    /\ UNCHANGED <<blobs, memory, held, entered, read, registered>>

\* A content that is not there is written beside, and renamed.
WriteBlob(t, c) ==
    /\ at[t] = "blobs"
    /\ c \in held[t] \ blobs
    /\ blobs' = blobs \union {c}
    /\ UNCHANGED <<manifests, tool, registered>>

\* The process ends, and its memory with it.
Ends(t) ==
    /\ at' = [at EXCEPT ![t] = "idle"]
    /\ memory' = [memory EXCEPT ![t] = {}]
    /\ held' = [held EXCEPT ![t] = {}]
    /\ entered' = [entered EXCEPT ![t] = {}]
    /\ read' = [read EXCEPT ![t] = {}]
    /\ UNCHANGED <<manifests, blobs>>

\* save returns, and the command says what it registered.
Saved(t) ==
    /\ at[t] = "blobs"
    /\ held[t] \subseteq blobs
    /\ registered' = registered \union entered[t]
    /\ Ends(t)

DieSaving(t) == at[t] # "idle" /\ Ends(t) /\ UNCHANGED registered

CatalogNext == \E t \in Tools :
    \/ Load(t) \/ BeginSave(t) \/ CommitSave(t) \/ Saved(t) \/ DieSaving(t)
    \/ \E a \in Assets : Enter(t, a)
    \/ \E c \in Contents : WriteBlob(t, c)

CatalogSpec == CatalogInit /\ [][CatalogNext]_catalogVars

-----------------------------------------------------------------------------
\* However registrations interleave and die, one that succeeded is there with
\* its content for every later load, and no asset is ever there without all of
\* the assets it derives from, whose payees its split names (registry.py:24-74;
\* with SQLite, as registry.py:44-48 has it).
CatalogHolds ==
    /\ registered \subseteq manifests
    /\ \A a \in registered : ContentOf[a] \in blobs
    /\ \A a \in manifests : Parents[a] \subseteq manifests
=============================================================================
