------------------------------ MODULE Evidence ------------------------------
(***************************************************************************)
(* The proof-of-fabrication chains of v3/bingo/node/agent.py: an agent     *)
(* signs the events of a job as they happen, the settlement gate checks    *)
(* the chain in memory (verify_chain) and whoever reads the file that      *)
(* v3/bingo/evidence.py saves checks the document (verify).  They are two  *)
(* programs for one judgement.                                             *)
(*                                                                         *)
(* A job that is executed again appends to the chain it has.  Of the       *)
(* events, those that decide anything are modelled: JOB_ACCEPTED, with the *)
(* job's identity and the agent's key, and UNIT_COMPLETE.                  *)
(***************************************************************************)
EXTENDS SignedChain

CONSTANTS Works,      \* jobs
          Identity,   \* of a job: [order, asset, node, qty, royalties]
          KeyOf,      \* the key of a node
          NoPubkey,   \* no key is supplied
          MaxEvents   \* bound: events

ASSUME EvidenceAssumption ==
    /\ DOMAIN Identity = Works
    /\ \A w \in Works : Identity[w].qty \in Nat /\ Identity[w].node \in DOMAIN KeyOf
    /\ MaxEvents \in Nat

VARIABLE proof \* Job.evidence

EvidenceInit == proof = [w \in Works |-> <<>>]

SignerOf(w) == KeyOf[Identity[w].node]

\* _emit.
Attested(chain, key, type, data) ==
    LET body == <<Len(chain) + 1, type, data, HeadOf(chain)>>
    IN  Append(chain, [seq |-> Len(chain) + 1, type |-> type, data |-> data,
                       prev |-> HeadOf(chain), sig |-> <<key, body>>,
                       hash |-> <<body, <<key, body>>>>])

EmitOf(w, type, data) ==
    /\ MapThenSumSet(LAMBDA v : Len(proof[v]), Works) < MaxEvents
    /\ proof' = [proof EXCEPT ![w] = Attested(@, SignerOf(w), type, data)]

Accepted(events) == {n \in DOMAIN events : events[n].type = "JOB_ACCEPTED"}
UnitsIn(events) == Cardinality({n \in DOMAIN events : events[n].type = "UNIT_COMPLETE"})

\* offer, which signs who is to do what.
Offer(w) == EmitOf(w, "JOB_ACCEPTED", [job |-> w, of |-> Identity[w], key |-> SignerOf(w)])

\* The driver has observed that a unit is complete; an execution makes no more
\* than the job asks for.
Unit(w) ==
    /\ UnitsIn(proof[w]) < Identity[w].qty * Cardinality(Accepted(proof[w]))
    /\ EmitOf(w, "UNIT_COMPLETE", Zero)

EvidenceNext == \E w \in Works : Offer(w) \/ Unit(w)

-----------------------------------------------------------------------------
EventBody(e) == <<e.seq, e.type, e.data, e.prev>>

\* The links, the hashes and the signatures.
Linked(events, key) == \A n \in DOMAIN events :
    /\ events[n].prev = HeadOf(SubSeq(events, 1, n - 1))
    /\ events[n].hash = <<EventBody(events[n]), events[n].sig>>
    /\ events[n].sig = <<key, EventBody(events[n])>>

\* The identity that the first JOB_ACCEPTED binds; its units are there.
Attributed(events, w, identity) ==
    /\ Accepted(events) # {}
    /\ LET signed == events[Min(Accepted(events))].data
       IN  /\ signed.job = w /\ signed.of = identity
           /\ UnitsIn(events) = signed.of.qty

\* verify_chain, as the settlement gate calls it.
VerifyChain(w, key) == Linked(proof[w], key) /\ Attributed(proof[w], w, Identity[w])

\* to_dict.
Document(w) == [job |-> w, of |-> Identity[w], key |-> SignerOf(w), events |-> proof[w]]

\* The key the document claims: the accepted one's, or its own.
Embedded(doc) ==
    IF Accepted(doc.events) = {} THEN doc.key
    ELSE doc.events[Min(Accepted(doc.events))].data.key

\* evidence.verify, with the supplied key of a node or with none.
VerifyEvidence(doc, supplied) ==
    LET key == IF supplied = NoPubkey THEN Embedded(doc) ELSE supplied
    IN  /\ doc.events # <<>>
        /\ key = Embedded(doc)
        /\ Linked(doc.events, key)
        /\ Attributed(doc.events, doc.job, doc.of)

-----------------------------------------------------------------------------
\* What may be made of genuine documents without a key: another job's name over
\* a chain, a chain cut, with an event taken out, or two chains joined.
Cuts(chain) == {SubSeq(chain, a, b) : a \in 1 .. Len(chain) + 1, b \in 0 .. Len(chain)}
                  \union {Without(chain, n) : n \in DOMAIN chain}
Spliced == UNION {{a \o b : a \in Cuts(proof[v]), b \in Cuts(proof[w])} : v, w \in Works}
Relabelled(w, events, key) == [Document(w) EXCEPT !.events = events, !.key = key]

\* Who reads the file of a job judges it as the gate that paid it did; and what
\* verifies under a node's key is a job of that node's, as it was accepted, of
\* which all the units were made, whatever was made of the files on the way
\* (evidence.py:58-66, 106-134).
EvidenceVerifies ==
    /\ \A w \in Works : \A supplied \in {NoPubkey, SignerOf(w)} :
          VerifyEvidence(Document(w), supplied) <=> VerifyChain(w, SignerOf(w))
    /\ \A events \in Spliced, w \in Works, node \in DOMAIN KeyOf, key \in Range(KeyOf) :
          VerifyEvidence(Relabelled(w, events, key), KeyOf[node]) =>
              /\ Identity[w].node = node
              /\ UnitsIn(proof[w]) >= Identity[w].qty
=============================================================================
