------------------------------ MODULE KeyCustody ------------------------------
(***************************************************************************)
(* The signing keys of a node: EncryptedFileKeyStore of v3/bingo/keys.py,  *)
(* one encrypted file for each identity's name, and load_or_create_identity*)
(* of v3/bingo/node/onboard.py, which takes the key from there or mints    *)
(* it.  The program may die between any two steps.                         *)
(*                                                                         *)
(* Programs use a key store one after the other.  Keys are numbers in the  *)
(* order in which they are minted, 0 is the one of the old plaintext file. *)
(* An envelope opens with the passphrase it was sealed with (encrypt_seed, *)
(* decrypt_seed); a torn one is no JSON.                                   *)
(***************************************************************************)
EXTENDS Integers

CONSTANTS Identities,
          PathOf,       \* _path: the file of an identity
          Passphrases,
          NoPassphrase, \* BINGO_KEY_PASSPHRASE is not set
          MaxSeeds      \* bound: keys minted

ASSUME CustodyAssumption ==
    /\ DOMAIN PathOf = Identities
    /\ NoPassphrase \notin Passphrases
    /\ MaxSeeds \in Nat

Paths == {PathOf[i] : i \in Identities}
NoFile == [kind |-> "none"]
Torn == [kind |-> "torn"]
Envelope(seed, passphrase) == [kind |-> "sealed", seed |-> seed, passphrase |-> passphrase]

VARIABLES keyfile, tmpfile, \* the files, and those that are to replace them
          minted,           \* keys minted so far
          plain,            \* out/node_identity.json is there
          session,          \* what the running program does
          given             \* history: the stored keys each identity was given

custodyVars == <<keyfile, tmpfile, minted, plain, session, given>>

NoSession == [at |-> "idle"]
Session(at, identity, passphrase, seed) ==
    [at |-> at, identity |-> identity, passphrase |-> passphrase, seed |-> seed]

CustodyInit ==
    /\ keyfile = [p \in Paths |-> NoFile]
    /\ tmpfile = [p \in Paths |-> NoFile]
    /\ minted = 0
    /\ plain \in BOOLEAN
    /\ session = NoSession
    /\ given = [i \in Identities |-> {}]

FilesStay == UNCHANGED <<keyfile, tmpfile>>
Has(identity) == keyfile[PathOf[identity]] # NoFile

\* What the key store hands out is a key that will be there again.
Give(identity, seed) ==
    /\ given' = [given EXCEPT ![identity] = @ \union {seed}]
    /\ session' = NoSession

\* load_or_create_identity: the old file wins, and a key that no passphrase
\* protects is not stored.
LoadOrCreate(identity, passphrase) ==
    /\ session = NoSession
    /\ ~plain /\ passphrase # NoPassphrase
    /\ session' = Session(IF Has(identity) THEN "unlock" ELSE "create",
                          identity, passphrase, 0)
    /\ FilesStay /\ UNCHANGED <<minted, plain, given>>

Ephemeral ==
    /\ session = NoSession /\ ~plain
    /\ minted < MaxSeeds
    /\ minted' = minted + 1
    /\ FilesStay /\ UNCHANGED <<plain, session, given>>

DeletePlain == plain /\ plain' = FALSE /\ FilesStay /\ UNCHANGED <<minted, session, given>>

\* decrypt_seed: the tag is the one this passphrase gives.
Opens(file, passphrase) == file.kind = "sealed" /\ file.passphrase = passphrase

\* signer: the key, or an exception.
Unlock ==
    /\ session.at = "unlock"
    /\ LET file == keyfile[PathOf[session.identity]]
       IN  IF Opens(file, session.passphrase)
             THEN Give(session.identity, file.seed)
             ELSE session' = NoSession /\ UNCHANGED given
    /\ FilesStay /\ UNCHANGED <<minted, plain>>

\* create, with a passphrase; a key that is there is not overwritten.
Create ==
    /\ session.at = "create"
    /\ ~Has(session.identity) /\ minted < MaxSeeds
    /\ minted' = minted + 1
    /\ session' = Session("write", session.identity, session.passphrase, minted + 1)
    /\ FilesStay /\ UNCHANGED <<plain, given>>

\* The file itself is opened for writing.
BugOpenTmp ==
    /\ session.at = "write"
    /\ keyfile' = [keyfile EXCEPT ![PathOf[session.identity]] = Torn]
    /\ session' = [session EXCEPT !.at = "fill"]
    /\ UNCHANGED <<tmpfile, minted, plain, given>>

\* _write: the new file beside the old, and then in its place.
OpenTmp ==
    /\ session.at = "write"
    /\ tmpfile' = [tmpfile EXCEPT ![PathOf[session.identity]] = Torn]
    /\ session' = [session EXCEPT !.at = "fill"]
    /\ UNCHANGED <<keyfile, minted, plain, given>>

FillTmp ==
    /\ session.at = "fill"
    /\ tmpfile' = [tmpfile EXCEPT ![PathOf[session.identity]] =
                      Envelope(session.seed, session.passphrase)]
    /\ session' = [session EXCEPT !.at = "replace"]
    /\ UNCHANGED <<keyfile, minted, plain, given>>

Replace ==
    /\ session.at = "replace"
    /\ keyfile' = [keyfile EXCEPT ![PathOf[session.identity]] = tmpfile[PathOf[session.identity]]]
    /\ tmpfile' = [tmpfile EXCEPT ![PathOf[session.identity]] = NoFile]
    /\ Give(session.identity, session.seed)
    /\ UNCHANGED <<minted, plain>>

DieWithKey ==
    /\ session # NoSession
    /\ session' = NoSession
    /\ FilesStay /\ UNCHANGED <<minted, plain, given>>

CustodyNext ==
    \/ \E identity \in Identities, passphrase \in Passphrases \union {NoPassphrase} :
          LoadOrCreate(identity, passphrase)
    \/ Ephemeral \/ DeletePlain \/ Unlock \/ Create
    \/ OpenTmp \/ FillTmp \/ Replace \/ DieWithKey

CustodySpec == CustodyInit /\ [][CustodyNext]_custodyVars

-----------------------------------------------------------------------------
\* An identity that was given a stored key is given that key for ever or none at
\* all, whatever passphrase is tried and wherever the program died; and a file
\* that is there can be opened, so that no identity is left without a way to a
\* key (keys.py:386-394, 409-412).
KeyStays ==
    /\ \A i \in Identities : \A seed \in given[i] :
          keyfile[PathOf[i]].kind = "sealed" /\ keyfile[PathOf[i]].seed = seed
    /\ \A p \in Paths : keyfile[p] # Torn
=============================================================================
