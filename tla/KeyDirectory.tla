---------------------------- MODULE KeyDirectory ----------------------------
(***************************************************************************)
(* The signed key history of one identity, v3/bingo/keydir.py, and what it *)
(* is for: a stranger who has the document alone, and receipts of a        *)
(* transparency log for the rest, decides whether a message is signed by   *)
(* the identity, after its keys were rotated, revoked and recovered.       *)
(*                                                                         *)
(* A signature is its signer and what it is over, a hash what it is of; a  *)
(* key is one of 32 bytes.  Anybody may log anything, and log it again:    *)
(* what is logged may be a message, what stands for a revocation, or both. *)
(*                                                                         *)
(* An operator named Bug... is a plausible mistake in the definition after *)
(* it.  Next never uses one: they show which property would catch it.      *)
(***************************************************************************)
EXTENDS Transparency

CONSTANTS Keys, Recovery, FirstKey,
          MaxEvents   \* bound: events of the directory

ASSUME KeyAssumption ==
    /\ Recovery \in Keys /\ FirstKey \in Keys \ {Recovery}
    /\ MaxEvents \in Nat

VARIABLE events

vars == <<log, heads, memory, cosigned, restores, events>>

Body(e) == <<e.seq, e.type, e.data, e.prev>>
HashOf(e) == <<Body(e), e.sig>>
PrevOf(es) == IF es = <<>> THEN "zero" ELSE Last(es).hash

\* _append: the event that a signer adds to a directory.
Event(es, type, data, signer) ==
    LET body == <<Len(es), type, data, PrevOf(es)>>
    IN  [seq |-> Len(es), type |-> type, data |-> data, prev |-> PrevOf(es),
         sig |-> <<signer, body>>, hash |-> <<body, <<signer, body>>>>]

\* active_key_at, at a position counted from 0, and revoked_at.
ActiveAt(es, seq) == es[Max({i \in 1 .. seq + 1 : es[i].type # "REVOKE"})].data[1]

RecoveryOf(es) == es[1].data[2]
Active == ActiveAt(events, Len(events) - 1)
RevokedIn(es, k) == \E i \in DOMAIN es : es[i].type = "REVOKE" /\ es[i].data = <<k>>
Revoked(k) == RevokedIn(events, k)

Authority(es, i) ==
    CASE es[i].type = "GENESIS" -> {es[1].data[1]}
      [] es[i].type = "ROTATE"  -> {ActiveAt(es, i - 2)}
      [] es[i].type = "RECOVER" -> {RecoveryOf(es)}
      [] es[i].type = "REVOKE"  -> {ActiveAt(es, i - 2), RecoveryOf(es)}

\* verify_directory, of a document and the head it claims, which it need not.
NoHead == <<>>

BugVerifyDirectory(es, head) ==
    /\ es # <<>>
    /\ \A i \in DOMAIN es :
          /\ es[i].seq = i - 1
          /\ es[i].prev = PrevOf(SubSeq(es, 1, i - 1))
          /\ es[i].type = "GENESIS" <=> i = 1
          /\ \E k \in Authority(es, i) : es[i].sig = <<k, Body(es[i])>>
    /\ RecoveryOf(es) # es[1].data[1]

VerifyDirectory(es, head) ==
    /\ es # <<>>
    /\ \A i \in DOMAIN es :
          /\ es[i].seq = i - 1
          /\ es[i].prev = PrevOf(SubSeq(es, 1, i - 1))
          /\ es[i].type = "GENESIS" <=> i = 1
          /\ \E k \in Authority(es, i) : es[i].sig = <<k, Body(es[i])>>
          /\ es[i].hash = HashOf(es[i])
    /\ RecoveryOf(es) # es[1].data[1]
    /\ head = NoHead \/ head = PrevOf(es)

-----------------------------------------------------------------------------
\* genesis.
Init ==
    /\ LogInit
    /\ events = <<Event(<<>>, "GENESIS", <<FirstKey, Recovery>>, FirstKey)>>

Add(type, k, signer) ==
    /\ Len(events) < MaxEvents
    /\ events' = Append(events, Event(events, type, <<k>>, signer))
    /\ UNCHANGED logVars

Rotate(k) == k # Active /\ Add("ROTATE", k, Active)
BugRecover(k) == \E signer \in {Active, Recovery} : Add("RECOVER", k, signer)
Recover(k) == Add("RECOVER", k, Recovery)
Revoke(k) == \E signer \in {Active, Recovery} : Add("REVOKE", k, signer)

LogStep ==
    /\ \/ \E payload \in Payloads : Publish(payload)
       \/ \E n \in 0 .. MaxLog : Restore(n)
       \/ \E w \in Witnesses : \E s \in heads : Cosign(w, s)
    /\ UNCHANGED events

Next ==
    \/ \E k \in Keys : Rotate(k) \/ Recover(k) \/ Revoke(k)
    \/ LogStep

Spec == Init /\ [][Next]_vars

-----------------------------------------------------------------------------
\* A receipt: the place of something in a log that was signed.
Receipts == UNION {{[log |-> s, index |-> i] : i \in 0 .. Len(s) - 1} : s \in heads}

\* _anchored_before_revocation, of a message, its receipt, and a payload and a
\* receipt for the revocation, which are all the caller's: that the payload is
\* the one of a REVOKE is not compared with the directory.
BugAnchoredBefore(m, a, revoked, b) ==
    Anchored(m, a.index, a.log) /\ Anchored(revoked, b.index, b.log)

AnchoredBefore(m, a, revoked, b) ==
    /\ Anchored(m, a.index, a.log) /\ Anchored(revoked, b.index, b.log)
    /\ a.index < b.index

\* verify_as_identity, of a message that somebody who had the key k signed, in the
\* directory as it stands.
VerifyAs(m, k, seq, a, revoked, b) ==
    /\ VerifyDirectory(events, PrevOf(events))
    /\ k = ActiveAt(events, seq)
    /\ Revoked(k) => AnchoredBefore(m, a, revoked, b)

\* Whatever the identity does with its keys, its document verifies: what the
\* writer allows, the independent verifier accepts.
WriterIsVerified == VerifyDirectory(events, PrevOf(events))

\* A document is refused, whether or not it says its head, that has an event left
\* out with others after it, two swapped, or one added by a key with no authority
\* for it.  Without the last event it is the document of the day before: that one
\* is refused where it says the head it had, and only there (keydir.py:263, 361).
Without(i) == SubSeq(events, 1, i - 1) \o SubSeq(events, i + 1, Len(events))
Swapped(i) == [events EXCEPT ![i] = events[i + 1], ![i + 1] = events[i]]
DamageIsRefused ==
    /\ \A head \in {NoHead, PrevOf(events)} :
          /\ \A i \in 1 .. Len(events) - 1 :
                ~VerifyDirectory(Without(i), head) /\ ~VerifyDirectory(Swapped(i), head)
          /\ head # NoHead => ~VerifyDirectory(Without(Len(events)), head)
    /\ \A type \in {"ROTATE", "RECOVER", "REVOKE"}, k \in Keys, signer \in Keys :
          VerifyDirectory(Append(events, Event(events, type, <<k>>, signer)), NoHead) =>
              signer \in (IF type = "RECOVER" THEN {} ELSE {Active})
                           \union (IF type = "ROTATE" THEN {} ELSE {Recovery})

\* Once witnesses have signed a log without the message, nothing that log says is
\* taken for later than it: a receipt for a revocation gets a message under a
\* revoked key accepted only if it was logged behind that log, whatever logs are
\* restored or grown apart (keydir.py:243, "both are in the SAME log").
LateIsRefused ==
    \A k \in {x \in Keys : Revoked(x)} : \A m \in Payloads :
        \A u \in {s \in heads : HasQuorum(s) /\ m \notin Range(s)} :
            \A a \in Receipts : \A b \in {r \in Receipts : r.index < Len(u)} :
                \A seq \in 0 .. Len(events) - 1 : \A revoked \in Payloads :
                    ~VerifyAs(m, k, seq, a, revoked, b)
=============================================================================
