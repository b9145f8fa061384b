----------------------------- MODULE Redemption -----------------------------
(***************************************************************************)
(* The redemption registry of v3/provenance/coin.py behind the lock of     *)
(* coin_server.py: a coin's serial is retired by an event of a signed      *)
(* hash chain, the chain is written to a file, to a sidecar beside it and  *)
(* to an external log (bingo/anchor.py), and the account is credited by a  *)
(* backend that may fail, or whose answer may be lost.  Any write may      *)
(* raise, the process may die between any two of them, and the owner of    *)
(* the disk may put an earlier copy of the files back while it is down.    *)
(*                                                                         *)
(* Abstracted: the chain is the sequence of its events, and the hash of a  *)
(* head stands for the events up to it, so an anchor is the chain it pins. *)
(* Every coin carries the same credit, so the credits of an account count  *)
(* its REDEEM events; the postings are an unsigned cache that decides      *)
(* nothing.  The backend is idempotent on the serial, as its contract      *)
(* (coin.py:152) demands, and the log answers when the registry starts.    *)
(*                                                                         *)
(* An operator named Bug... is a plausible mistake in the definition after *)
(* it.  Next never uses one: they show which property would catch it.      *)
(***************************************************************************)
EXTENDS Integers, Sequences, SequencesExt, TLC

CONSTANTS Serials,
          Accounts,
          Nobody,
          None,     \* no file
          Coded,    \* the coins with a scratch-off code
          Anchored, \* whether an anchor service is configured
          FreshKey, \* whether each start makes a validator key of its own
          Faults,   \* the writes that may raise: "store", "sidecar", "anchor"
          MaxStarts, \* a bound on the starts of the process
          MaxRaises \* a bound on the writes that raise

Event == [type : {"REDEEM", "POSTED"}, serial : Serials,
          to : Accounts \union {Nobody}]
Chains == Seq(Event)
NoChain == <<>>

ASSUME RedemptionAssumption ==
    /\ Nobody \notin Accounts
    /\ None \notin Chains
    /\ Coded \subseteq Serials
    /\ Anchored \in BOOLEAN
    /\ FreshKey \in BOOLEAN
    /\ Faults \subseteq {"store", "sidecar", "anchor"}
    /\ MaxStarts \in Nat /\ MaxRaises \in Nat

VARIABLES events,   \* the chain in memory
          file,     \* the store: the chain and the key that signed it
          sidecar,  \* the chain pinned beside the store
          log,      \* the chain pinned in the external log
          copy,     \* a copy of the store and its sidecar, kept elsewhere
          swapped,  \* the files at rest are not those of the last run
          step,     \* "down", "idle", "post", or the next write of a persist
          redeemer, \* the coin a redeem is about, or Nobody
          todo,     \* the coins to be posted
          key,      \* the validator's key
          starts, raises,
          credited, \* the account the backend credited for each coin
          acked     \* history: the account told that it redeemed the coin

vars == <<events, file, sidecar, log, copy, swapped, step, redeemer, todo, key,
          starts, raises, credited, acked>>
files == <<file, sidecar, log>>
process == <<key, starts, copy, swapped, raises>>

-----------------------------------------------------------------------------
\* What a chain says of the coins.
Entry(type, c, to) == [type |-> type, serial |-> c, to |-> to]
RedeemedIn(chain) == {chain[i].serial :
                         i \in {j \in DOMAIN chain : chain[j].type = "REDEEM"}}
PostedIn(chain) == {chain[i].serial :
                       i \in {j \in DOMAIN chain : chain[j].type = "POSTED"}}
OwnerIn(chain, c) ==
    IF c \in RedeemedIn(chain)
    THEN LET i == CHOOSE j \in DOMAIN chain :
                     chain[j].type = "REDEEM" /\ chain[j].serial = c
         IN  chain[i].to
    ELSE Nobody

\* The coins redeemed but not posted, in the order of their redemption.
Pending(chain) ==
    LET Owes(e) == e.type = "REDEEM" /\ e.serial \notin PostedIn(chain)
        owing == SelectSeq(chain, Owes)
    IN  [i \in DOMAIN owing |-> owing[i].serial]

\* The replay of the auditor: no coin is redeemed twice, none is posted twice
\* or before it is redeemed.
VerifyRegistry(chain) ==
    \A i \in DOMAIN chain :
        LET before == SubSeq(chain, 1, i - 1)
        IN  /\ chain[i].type = "REDEEM" => chain[i].serial \notin RedeemedIn(before)
            /\ chain[i].type = "POSTED" =>
                  chain[i].serial \in RedeemedIn(before) \ PostedIn(before)

\* An anchor that pins the length of the chain and nothing else.
BugEnforceAnchor(chain, anchor) == anchor # None => Len(chain) >= Len(anchor)

\* The loaded chain must extend the anchored one.
EnforceAnchor(chain, anchor) == anchor # None => IsPrefix(anchor, chain)

\* A load that takes the sidecar's word alone.
BugLoads(k) ==
    IF file = None THEN sidecar = None
    ELSE file.key = k /\ VerifyRegistry(file.chain)
         /\ EnforceAnchor(file.chain, sidecar)

\* Whether a registry with validator key k loads the files it finds.
Loads(k) ==
    IF file = None
    THEN sidecar = None /\ log \in {None, NoChain}
    ELSE /\ file.key = k
         /\ VerifyRegistry(file.chain)
         /\ EnforceAnchor(file.chain, sidecar)
         /\ EnforceAnchor(file.chain, log)

-----------------------------------------------------------------------------
Init ==
    /\ events = NoChain
    /\ file = None /\ sidecar = None /\ log = None
    /\ copy = [file |-> None, sidecar |-> None]
    /\ swapped = FALSE
    /\ step = "down"
    /\ redeemer = Nobody
    /\ todo = <<>>
    /\ key = 0 /\ starts = 0 /\ raises = 0
    /\ credited = [c \in Serials |-> Nobody]
    /\ acked = [c \in Serials |-> Nobody]

NextKey == IF FreshKey THEN starts + 1 ELSE 0

\* The constructor, when it does not refuse.
Start ==
    /\ step = "down" /\ starts < MaxStarts
    /\ Loads(NextKey)
    /\ events' = IF file = None THEN NoChain ELSE file.chain
    /\ key' = NextKey
    /\ starts' = starts + 1
    /\ step' = "idle"
    /\ swapped' = FALSE
    /\ redeemer' = Nobody /\ todo' = <<>>
    /\ UNCHANGED <<files, copy, raises, credited, acked>>

\* Only the trusted issuer's signature counts, and a coin that commits to a
\* code asks for it.
VerifyCredential(issuer) == issuer = "trusted"
CheckSecret(c, code) == c \in Coded => code = "right"

\* redeem, up to its first persist.
Redeem(c, account, issuer, code) ==
    /\ step = "idle"
    /\ VerifyCredential(issuer) /\ CheckSecret(c, code)
    /\ c \notin RedeemedIn(events)
    /\ events' = Append(events, Entry("REDEEM", c, account))
    /\ redeemer' = c /\ todo' = <<c>>
    /\ step' = "store"
    /\ UNCHANGED <<files, process, credited, acked>>

\* retry_pending, up to its first post.
RetryPending ==
    /\ step = "idle"
    /\ todo' = Pending(events)
    /\ redeemer' = Nobody
    /\ step' = IF Pending(events) = <<>> THEN "store" ELSE "post"
    /\ UNCHANGED <<events, files, process, credited, acked>>

\* The exception of a write ends the call; what is in memory stays there.
Raise(part) ==
    /\ part \in Faults /\ raises < MaxRaises
    /\ raises' = raises + 1
    /\ step' = "idle"
    /\ redeemer' = Nobody /\ todo' = <<>>
    /\ UNCHANGED <<events, key, starts, copy, swapped, credited, acked>>

\* Persisted: a redeem goes on to its post, or returns to its caller.
Persisted ==
    IF todo # <<>>
    THEN step' = "post" /\ UNCHANGED <<redeemer, acked>>
    ELSE /\ step' = "idle"
         /\ acked' = IF redeemer = Nobody THEN acked
                     ELSE [acked EXCEPT ![redeemer] = OwnerIn(events, redeemer)]
         /\ redeemer' = Nobody

Store == [chain |-> events, key |-> key]

\* os.replace of the store.
WriteStore ==
    /\ step = "store"
    /\ \/ /\ file' = Store
          /\ step' = "sidecar"
          /\ UNCHANGED <<events, sidecar, log, process, redeemer, todo, credited, acked>>
       \/ Raise("store") /\ UNCHANGED files

\* os.replace of the sidecar.
WriteSidecar ==
    /\ step = "sidecar"
    /\ \/ /\ sidecar' = events
          /\ IF Anchored THEN step' = "anchor" /\ UNCHANGED <<redeemer, acked>>
                         ELSE Persisted
          /\ UNCHANGED <<events, file, log, process, todo, credited>>
       \/ Raise("sidecar") /\ UNCHANGED files

\* _anchor_externally, whose answer may be lost too.
WriteAnchor ==
    /\ step = "anchor"
    /\ \/ /\ log' = events
          /\ Persisted
          /\ UNCHANGED <<events, process, todo, credited>>
       \/ Raise("anchor") /\ log' \in {log, events}
    /\ UNCHANGED <<file, sidecar>>

\* _try_post credits nothing without a signed redemption.  (A coin whose POSTED
\* is already in the chain it would leave alone: neither caller asks for one.)
TryPost ==
    /\ step = "post"
    /\ Head(todo) \in RedeemedIn(events)
    /\ todo' = Tail(todo)
    /\ step' = IF Len(todo) = 1 THEN "store" ELSE "post"
    /\ LET c == Head(todo)
           lands == IF credited[c] # Nobody THEN credited
                    ELSE [credited EXCEPT ![c] = OwnerIn(events, c)]
       IN  \/ /\ credited' = lands
              /\ events' = Append(events, Entry("POSTED", c, Nobody))
           \/ /\ credited' \in {credited, lands}
              /\ UNCHANGED events
    /\ UNCHANGED <<files, process, redeemer, acked>>

Crash ==
    /\ step # "down"
    /\ step' = "down"
    /\ events' = NoChain
    /\ redeemer' = Nobody /\ todo' = <<>>
    /\ UNCHANGED <<files, process, credited, acked>>

\* The owner of the disk keeps a copy of the files of a stopped registry, and
\* puts it in their place.  External: the code has no part in it.
Keep ==
    /\ step = "down" /\ ~swapped /\ copy.file = None
    /\ copy' = [file |-> file, sidecar |-> sidecar]
    /\ UNCHANGED <<events, files, swapped, step, redeemer, todo, key, starts,
                   raises, credited, acked>>
PutBack ==
    /\ step = "down"
    /\ file' = copy.file /\ sidecar' = copy.sidecar
    /\ copy' = [file |-> file, sidecar |-> sidecar]
    /\ swapped' = ~swapped
    /\ UNCHANGED <<events, log, step, redeemer, todo, key, starts, raises,
                   credited, acked>>

Next ==
    \/ Start
    \/ \E c \in Serials, a \in Accounts, i \in {"trusted", "other"},
          s \in {"right", "wrong"} : Redeem(c, a, i, s)
    \/ RetryPending
    \/ WriteStore
    \/ WriteSidecar
    \/ WriteAnchor
    \/ TryPost
    \/ Crash
    \/ Keep
    \/ PutBack

Spec == Init /\ [][Next]_vars

-----------------------------------------------------------------------------
\* A redemption that was acknowledged is one that every registry to come
\* knows, for the same account: not a crash between two writes, nor a failing
\* write, nor an earlier copy of the files makes the coin valid again
\* (coin.py:178, 271; the log is what an earlier copy cannot undo).
AckedIsSpent ==
    \A c \in Serials :
        acked[c] # Nobody /\ step # "down" => OwnerIn(events, c) = acked[c]

\* With an anchor service, the coins as the log has them are redeemed once and
\* for all: the registry implements Coins.
Promise == INSTANCE Coins WITH
    owner <- [c \in Serials |-> IF log = None THEN Nobody ELSE OwnerIn(log, c)]
KeepsCoins == Promise!Spec

\* Coins that all carry a scratch-off code, or none, are alike to TLC, and so
\* are accounts.
Symmetry == Permutations(Accounts) \union Permutations(Serials)
=============================================================================
