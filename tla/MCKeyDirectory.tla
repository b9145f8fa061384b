--------------------------- MODULE MCKeyDirectory ---------------------------
(***************************************************************************)
(* An instance of KeyDirectory for TLC: three keys, two of them signing,   *)
(* two statements to be logged and two witnesses that must agree, over the *)
(* trees of the code.                                                      *)
(***************************************************************************)
EXTENDS KeyDirectory, Merkle, TLC

\* The proofs that logs make are accepted, and not for another past or another
\* leaf, whatever the shape of the tree.
ASSUME TreesProve ==
    /\ \A n \in 1 .. 20 : LET s == [i \in 1 .. n |-> i] IN
          /\ \A m \in 1 .. n : PathProvesPrefix(m, MerkleHead(SubSeq(s, 1, m)), s)
          /\ \A i, h \in 1 .. n : PathProvesLeaf(h, i - 1, s) <=> h = i
    /\ \A s, t \in SeqOf({1, 2}, 5) :
          s # <<>> /\ Len(s) <= Len(t) =>
              (PathProvesPrefix(Len(s), MerkleHead(s), t) <=> IsPrefix(s, t))

Symmetry == Permutations(Witnesses) \union Permutations(Payloads)
=============================================================================
