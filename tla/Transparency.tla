---------------------------- MODULE Transparency ----------------------------
(***************************************************************************)
(* The transparency log of v3/bingo/anchor.py: an append-only list of      *)
(* statements, an operator that may put back an old copy of it, and        *)
(* witnesses that cosign a head only if it extends the last one they       *)
(* signed.                                                                 *)
(*                                                                         *)
(* The tree over the list and its proofs are parameters; module Merkle has *)
(* those of the code.  A signature of the log is the membership of a head  *)
(* in `heads`, one of a witness its membership in `cosigned`.              *)
(*                                                                         *)
(* An operator named Bug... is a plausible mistake in the definition after *)
(* it.  Next never uses one: they show which property would catch it.      *)
(***************************************************************************)
EXTENDS Integers, SequencesExt, FiniteSetsExt

CONSTANTS Payloads,    \* what may be logged
          Root(_),     \* the root of a log
          ProvesPrefix(_, _, _), \* a size and a root by the proof a log has for them
          ProvesLeaf(_, _, _),   \* a payload and an index by that log's proof
          Witnesses,
          Quorum,      \* the cosignatures a relying party asks for
          MaxLog,      \* bounds: leaves of the log,
          MaxRestores  \*         old copies put back

ASSUME TransparencyAssumption ==
    /\ IsFiniteSet(Witnesses)
    /\ Quorum \in 1 .. Cardinality(Witnesses)
    /\ MaxLog \in Nat /\ MaxRestores \in Nat

Logs == SeqOf(Payloads, MaxLog)

\* What the proofs are for: a head that a log proves to be of its past is, and
\* so is a payload.
ASSUME ProofsAreSound ==
    \A s \in Logs :
        /\ \A t \in Logs : s # <<>> /\ Len(s) <= Len(t) /\ ProvesPrefix(Len(s), Root(s), t)
              => IsPrefix(s, t)
        /\ \A i \in 0 .. Len(s) - 1, payload \in Payloads :
              ProvesLeaf(payload, i, s) => s[i + 1] = payload

VARIABLES log,      \* the payloads of the leaves
          heads,    \* history: every log a head was signed of
          memory,   \* what each witness last signed: a size and a root
          cosigned, \* history: the logs each witness has cosigned a head of
          restores

logVars == <<log, heads, memory, cosigned, restores>>

-----------------------------------------------------------------------------
LogInit ==
    /\ log = <<>>
    /\ heads = {<<>>}
    /\ memory = [w \in Witnesses |-> [size |-> 0, root |-> Root(<<>>)]]
    /\ cosigned = [w \in Witnesses |-> {}]
    /\ restores = 0

\* TransparencyLog.append, and the signed head of what it leaves.
Publish(payload) ==
    /\ Len(log) < MaxLog
    /\ log' = Append(log, payload)
    /\ heads' = heads \union {log'}
    /\ UNCHANGED <<memory, cosigned, restores>>

\* External: the operator's copy is replaced with an older one.
Restore(n) ==
    /\ restores < MaxRestores /\ n < Len(log)
    /\ log' = SubSeq(log, 1, n)
    /\ restores' = restores + 1
    /\ UNCHANGED <<heads, memory, cosigned>>

\* Witness.cosign of a head of some log, late or not, with the consistency
\* proof its operator has for it.
BugExtends(w, s) ==
    memory[w].size # 0 => memory[w].size <= Len(s)

Extends(w, s) ==
    memory[w].size # 0 =>
        /\ Len(s) >= memory[w].size
        /\ ProvesPrefix(memory[w].size, memory[w].root, s)

Seen(w, s) == [size |-> Len(s), root |-> Root(s)]

Cosign(w, s) ==
    /\ s \in heads
    /\ Extends(w, s)
    /\ memory' = [memory EXCEPT ![w] = Seen(w, s)]
    /\ cosigned' = [cosigned EXCEPT ![w] = @ \union {s}]
    /\ UNCHANGED <<log, heads, restores>>

\* verify_witness_quorum and verify_anchored, of the receipt that the log s
\* gives of what is in it at an index.
HasQuorum(s) == Cardinality({w \in Witnesses : s \in cosigned[w]}) >= Quorum
Anchored(payload, index, s) ==
    /\ s \in heads
    /\ HasQuorum(s)
    /\ ProvesLeaf(payload, index, s)

-----------------------------------------------------------------------------

\* No witness has ever cosigned two histories, so no two heads with a quorum
\* of a majority behind them are of different ones (anchor.py:293).
OneHistory ==
    /\ \A w \in Witnesses : \A s, t \in cosigned[w] : IsPrefix(s, t) \/ IsPrefix(t, s)
    /\ 2 * Quorum > Cardinality(Witnesses) =>
          \A s, t \in {u \in heads : HasQuorum(u)} : IsPrefix(s, t) \/ IsPrefix(t, s)
=============================================================================
