-------------------------------- MODULE Merkle --------------------------------
(***************************************************************************)
(* The Merkle trees of v3/bingo/anchor.py, RFC 6962: the root of a list of *)
(* leaves, the paths that a log hands out, and the iterative verifiers of  *)
(* relying parties and witnesses, who have indices, sizes and hashes only. *)
(*                                                                         *)
(* Hashes are free constructors: two are equal when they are of the same   *)
(* things.  JSON and hex are left out, and so are the refusals of          *)
(* malformed input.                                                        *)
(***************************************************************************)
EXTENDS Integers, SequencesExt, FiniteSetsExt

\* Hashing and the two kinds of path.
Node(l, r) == <<"node", l, r>>
Leaf(payload) == <<"leaf", payload>>
Leaves(payloads) == [i \in DOMAIN payloads |-> Leaf(payloads[i])]

\* The largest power of two below n, for n > 1.
Split(n) == Max({k \in {2 ^ e : e \in 0 .. n} : k < n})

\* A list in two, the first part a full tree.
Left(s) == SubSeq(s, 1, Split(Len(s)))
Right(s) == SubSeq(s, Split(Len(s)) + 1, Len(s))

RECURSIVE MerkleRoot(_)
MerkleRoot(s) ==
    IF s = <<>> THEN <<"empty">>
    ELSE IF Len(s) = 1 THEN s[1]
    ELSE Node(MerkleRoot(Left(s)), MerkleRoot(Right(s)))

\* From the leaf up; indices count from 0.
RECURSIVE InclusionPath(_, _)
InclusionPath(i, s) ==
    IF Len(s) <= 1 THEN <<>>
    ELSE LET k == Split(Len(s))
         IN  IF i < k
             THEN Append(InclusionPath(i, Left(s)), MerkleRoot(Right(s)))
             ELSE Append(InclusionPath(i - k, Right(s)), MerkleRoot(Left(s)))

RECURSIVE ConsistencyPath(_, _, _)
ConsistencyPath(m, s, whole) ==
    IF m = Len(s) THEN IF whole THEN <<>> ELSE <<MerkleRoot(s)>>
    ELSE LET k == Split(Len(s))
         IN  IF m <= k
             THEN Append(ConsistencyPath(m, Left(s), whole), MerkleRoot(Right(s)))
             ELSE Append(ConsistencyPath(m - k, Right(s), FALSE), MerkleRoot(Left(s)))

ConsistencyProof(m, s) == IF m = 0 THEN <<>> ELSE ConsistencyPath(m, s, TRUE)

Odd(n) == n % 2 = 1
Half(n) == n \div 2

\* n without its trailing zero bits, or one bits, and how many there were.
Zeros(n) == Min({e \in 0 .. n : Odd(n \div 2 ^ e)})
Ones(n) == Min({e \in 0 .. n + 1 : ~Odd(n \div 2 ^ e)})

RECURSIVE Climb(_, _, _, _, _)
Climb(fn, sn, r, root, path) ==
    IF path = <<>> THEN sn = 0 /\ r = root
    ELSE /\ sn # 0
         /\ IF Odd(fn) \/ fn = sn
            THEN LET z == Zeros(fn)
                 IN  Climb(Half(fn \div 2 ^ z), Half(sn \div 2 ^ z),
                           Node(Head(path), r), root, Tail(path))
            ELSE Climb(Half(fn), Half(sn), Node(r, Head(path)), root, Tail(path))

VerifyInclusion(leaf, index, size, root, path) ==
    index \in 0 .. size - 1 /\ Climb(index, size - 1, leaf, root, path)

\* Both roots at once, while the path up from the last leaf of the old tree
\* is inside it, and then the new one alone.
RECURSIVE Rise(_, _, _, _, _)
Rise(node, last, old, new, path) ==
    IF node = 0 /\ last = 0 THEN <<old, new, path>>
    ELSE IF node # 0 /\ ~Odd(node) /\ node >= last
         THEN Rise(Half(node), Half(last), old, new, path)
    ELSE IF path = <<>> THEN <<"none", "none", <<>>>>
    ELSE IF node = 0 \/ ~Odd(node)
         THEN Rise(Half(node), Half(last), old, Node(new, Head(path)), Tail(path))
    ELSE Rise(Half(node), Half(last), Node(Head(path), old),
              Node(Head(path), new), Tail(path))

VerifyConsistency(m, old, n, new, path) ==
    /\ m <= n
    /\ IF m = n THEN path = <<>> /\ old = new
       ELSE IF m = 0 THEN path = <<>>
       ELSE LET ones == Ones(m - 1)
                node == (m - 1) \div 2 ^ ones
                last == (n - 1) \div 2 ^ ones
            IN  IF node = 0 THEN Rise(node, last, old, old, path) = <<old, new, <<>>>>
                ELSE /\ path # <<>>
                     /\ Rise(node, last, Head(path), Head(path), Tail(path))
                          = <<old, new, <<>>>>

-----------------------------------------------------------------------------
\* TransparencyLog.root, its proofs for a list of payloads, and what the
\* verifiers make of them.
MerkleHead(s) == MerkleRoot(Leaves(s))

PathProvesPrefix(size, root, s) ==
    VerifyConsistency(size, root, Len(s), MerkleHead(s), ConsistencyProof(size, Leaves(s)))

PathProvesLeaf(payload, index, s) ==
    VerifyInclusion(Leaf(payload), index, Len(s), MerkleHead(s),
                    InclusionPath(index, Leaves(s)))
=============================================================================
