----------------------------- MODULE SumsProofs -----------------------------
(***************************************************************************)
(* Lemmas about sums of natural numbers over finite sets, and what the     *)
(* other proofs need of positions and of sequences that grow.              *)
(*                                                                         *)
(* SumOver is a fold, a recursive function.  Its recursion equation has a  *)
(* solution that can be written down without recursion: the number of      *)
(* tokens that are left when each i is given f[i] of them.  As two         *)
(* solutions agree (by induction over the subsets of a finite set, in the  *)
(* form of a set of subsets that contains every one of them), a sum is a   *)
(* cardinality, and the lemmas below are facts about cardinalities.        *)
(***************************************************************************)
EXTENDS Sums, FiniteSetTheorems, SequenceTheorems, TLAPS

\* Induction over a finite set, first-order: Good is the set of its good subsets.
LEMMA SubsetInduction ==
    ASSUME NEW S, IsFiniteSet(S), NEW Good, {} \in Good,
           \A T \in SUBSET S : T # {} /\ (\A x \in T : T \ {x} \in Good) => T \in Good
    PROVE  SUBSET S \subseteq Good
<1> DEFINE Bad == {T \in SUBSET S : T \notin Good}
<1>1. SUFFICES ASSUME Bad # {}
               PROVE  FALSE
  OBVIOUS
<1>2. IsWellFoundedOn(StrictSubsetOrdering(S), SUBSET S)
  BY FS_StrictSubsetOrderingWellFounded, FS_FiniteSubsetsOfFinite
<1>3. Bad \subseteq SUBSET S
  OBVIOUS
<1>4. PICK T \in Bad : \A U \in Bad : <<U, T>> \notin StrictSubsetOrdering(S)
  <2> HIDE DEF Bad
  <2> QED  BY <1>1, <1>2, <1>3, WFMin
<1>5. ASSUME NEW x \in T
      PROVE  T \ {x} \in Good
  <2>1. T \ {x} \in SUBSET S /\ T \in SUBSET S /\ T \ {x} # T
    BY <1>4
  <2>2. <<T \ {x}, T>> \in StrictSubsetOrdering(S)
    BY <2>1 DEF StrictSubsetOrdering
  <2> QED  BY <1>4, <2>1, <2>2
<1> QED  BY <1>4, <1>5

-----------------------------------------------------------------------------
\* f[i] tokens of each i in T.
Tokens(f, T) == {u \in T \X Nat : u[2] \in 1 .. f[u[1]]}

\* One more member brings its own tokens.
LEMMA TokensOfMore ==
    ASSUME NEW S, NEW f \in [S -> Nat], NEW T \in SUBSET S, NEW x \in T,
           IsFiniteSet(Tokens(f, T \ {x}))
    PROVE  /\ IsFiniteSet(Tokens(f, T))
           /\ Cardinality(Tokens(f, T)) = f[x] + Cardinality(Tokens(f, T \ {x}))
<1> DEFINE A == Tokens(f, T \ {x})
           B == {x} \X (1 .. f[x])
<1>1. IsFiniteSet(B) /\ Cardinality(B) = f[x]
  <2>1. f[x] \in Nat
    OBVIOUS
  <2>2. IsFiniteSet(1 .. f[x]) /\ Cardinality(1 .. f[x]) = f[x]
    <3>1. Cardinality(1 .. f[x]) = IF 1 > f[x] THEN 0 ELSE f[x] - 1 + 1
      BY <2>1, FS_Interval
    <3> QED  BY <2>1, <3>1, FS_Interval
  <2>3. IsFiniteSet({x}) /\ Cardinality({x}) = 1
    BY FS_Singleton
  <2>4. \A U, V : IsFiniteSet(U) /\ IsFiniteSet(V) =>
            IsFiniteSet(U \X V) /\ Cardinality(U \X V) = Cardinality(U) * Cardinality(V)
    BY FS_Product
  <2>5. IsFiniteSet(B) /\ Cardinality(B) = Cardinality({x}) * Cardinality(1 .. f[x])
    BY <2>2, <2>3, <2>4, Zenon
  <2> QED  BY <2>1, <2>2, <2>3, <2>5
<1>2. Tokens(f, T) = A \union B /\ A \intersect B = {}
  BY DEF Tokens
<1>3. Cardinality(A) \in Nat /\ f[x] \in Nat
  BY FS_CardinalityType
<1> HIDE DEF B
<1>4. /\ IsFiniteSet(A \union B)
      /\ Cardinality(A \union B) = Cardinality(A) + Cardinality(B) - Cardinality(A \intersect B)
  <2> HIDE DEF A
  <2> QED  BY <1>1, FS_Union DEF A
<1>5. Cardinality(A \intersect B) = 0
  BY <1>2, FS_EmptySet
<1> QED  BY <1>1, <1>2, <1>3, <1>4, <1>5

LEMMA TokensAreFinite ==
    ASSUME NEW S, IsFiniteSet(S), NEW f \in [S -> Nat]
    PROVE  \A T \in SUBSET S : IsFiniteSet(Tokens(f, T)) /\ Cardinality(Tokens(f, T)) \in Nat
<1> DEFINE Good == {T \in SUBSET S : IsFiniteSet(Tokens(f, T))}
<1>1. {} \in Good
  BY FS_EmptySet DEF Tokens
<1>2. ASSUME NEW T \in SUBSET S, T # {}, \A x \in T : T \ {x} \in Good
      PROVE  T \in Good
  BY <1>2, TokensOfMore
<1>3. SUBSET S \subseteq Good
  <2> HIDE DEF Good
  <2> QED  BY <1>1, <1>2, SubsetInduction
<1> QED  BY <1>3, FS_CardinalityType

\* The fold exists, and it counts tokens.
LEMMA SumIsCount ==
    ASSUME NEW S, IsFiniteSet(S), NEW f \in [S -> Nat]
    PROVE  SumOver(f) = Cardinality(Tokens(f, S))
<1> DEFINE pick(s) == CHOOSE x \in s : TRUE
           step(g, s) == IF s = {} THEN 0 ELSE f[pick(s)] + g[s \ {pick(s)}]
           count == [s \in SUBSET S |-> Cardinality(Tokens(f, s))]
           fold == CHOOSE g : g = [s \in SUBSET S |-> step(g, s)]
<1>1. count = [s \in SUBSET S |-> step(count, s)]
  <2>1. ASSUME NEW s \in SUBSET S
        PROVE  count[s] = step(count, s)
    <3>1. CASE s = {}
      BY <3>1, FS_EmptySet DEF Tokens
    <3>2. CASE s # {}
      <4>1. PICK x : x = pick(s)
        OBVIOUS
      <4>2. x \in s
        BY <3>2, <4>1
      <4>3. Cardinality(Tokens(f, s)) = f[x] + Cardinality(Tokens(f, s \ {x}))
        BY <4>2, TokensAreFinite, TokensOfMore
      <4> QED  BY <3>2, <4>1, <4>3
    <3> QED  BY <3>1, <3>2
  <2> QED  BY <2>1
<1>2. fold = [s \in SUBSET S |-> step(fold, s)]
  BY <1>1
<1>3. SumOver(f) = fold[S]
  BY DEF SumOver, MapThenSumSet, MapThenFoldSet
<1>4. \A s \in SUBSET S : fold[s] = count[s]
  <2> DEFINE Good == {s \in SUBSET S : fold[s] = count[s]}
  <2> HIDE DEF fold, count
  <2>1. {} \in Good
    BY <1>1, <1>2
  <2>2. ASSUME NEW T \in SUBSET S, T # {}, \A x \in T : T \ {x} \in Good
        PROVE  T \in Good
    <3>1. PICK x : x = pick(T)
      OBVIOUS
    <3>2. x \in T
      BY <2>2, <3>1
    <3> HIDE DEF pick
    <3> QED  BY <1>1, <1>2, <2>2, <3>1, <3>2
  <2>3. SUBSET S \subseteq Good
    <3> HIDE DEF Good
    <3> QED  BY <2>1, <2>2, SubsetInduction
  <2> QED  BY <2>3
<1> QED  BY <1>3, <1>4

-----------------------------------------------------------------------------
Only(f, T) == [i \in T |-> f[i]]

LEMMA SumType ==
    ASSUME NEW S, IsFiniteSet(S), NEW f \in [S -> Nat]
    PROVE  SumOver(f) \in Nat
BY SumIsCount, TokensAreFinite

\* A sum over a part of its domain counts the tokens of that part.
LEMMA SumOfPart ==
    ASSUME NEW S, IsFiniteSet(S), NEW f \in [S -> Nat], NEW T \in SUBSET S
    PROVE  /\ Only(f, T) \in [T -> Nat] /\ IsFiniteSet(T)
           /\ SumOver(Only(f, T)) = Cardinality(Tokens(f, T))
           /\ SumOver(Only(f, T)) \in Nat
<1>1. Only(f, T) \in [T -> Nat] /\ IsFiniteSet(T)
  BY FS_Subset DEF Only
<1>2. Tokens(Only(f, T), T) = Tokens(f, T)
  BY DEF Tokens, Only
<1>3. SumOver(Only(f, T)) = Cardinality(Tokens(Only(f, T), T)) /\ SumOver(Only(f, T)) \in Nat
  BY <1>1, SumIsCount, SumType
<1> QED  BY <1>1, <1>2, <1>3

LEMMA SumOfNone ==
    ASSUME NEW S, IsFiniteSet(S), NEW f \in [S -> Nat]
    PROVE  SumOver(Only(f, {})) = 0
<1>1. Tokens(f, {}) = {}
  BY DEF Tokens
<1> QED  BY <1>1, SumOfPart, FS_EmptySet

\* One addend taken out of a sum over a part.
LEMMA SumRemove ==
    ASSUME NEW S, IsFiniteSet(S), NEW f \in [S -> Nat], NEW T \in SUBSET S, NEW x \in T
    PROVE  SumOver(Only(f, T)) = f[x] + SumOver(Only(f, T \ {x}))
BY SumOfPart, TokensAreFinite, TokensOfMore

\* One addend more.
LEMMA SumOneMore ==
    ASSUME NEW S, IsFiniteSet(S), NEW x, x \notin S, NEW f \in [S \union {x} -> Nat]
    PROVE  SumOver(f) = f[x] + SumOver(Only(f, S))
<1> DEFINE T == S \union {x}
<1>1. IsFiniteSet(T) /\ T \ {x} = S /\ x \in T /\ T \in SUBSET T
  <2>1. IsFiniteSet(T)
    BY FS_AddElement
  <2> QED  BY <2>1
<1>2. Only(f, T) = f
  BY DEF Only
<1> HIDE DEF T
<1>3. f \in [T -> Nat]
  BY DEF T
<1> QED  BY <1>1, <1>2, <1>3, SumRemove

\* Two that differ at one place.
LEMMA SumsDiffer ==
    ASSUME NEW S, IsFiniteSet(S), NEW f \in [S -> Nat], NEW g \in [S -> Nat], NEW x \in S,
           \A i \in S \ {x} : g[i] = f[i]
    PROVE  SumOver(g) + f[x] = SumOver(f) + g[x]
<1>1. Only(f, S) = f /\ Only(g, S) = g /\ Only(f, S \ {x}) = Only(g, S \ {x})
  BY DEF Only
<1>2. /\ SumOver(Only(f, S)) = f[x] + SumOver(Only(f, S \ {x}))
      /\ SumOver(Only(g, S)) = g[x] + SumOver(Only(g, S \ {x}))
      /\ SumOver(Only(f, S \ {x})) \in Nat
  BY SumRemove, SumOfPart
<1>3. f[x] \in Nat /\ g[x] \in Nat
  OBVIOUS
<1> QED  BY <1>1, <1>2, <1>3

\* One addend replaced by another.
LEMMA SumExcept ==
    ASSUME NEW S, IsFiniteSet(S), NEW f \in [S -> Nat], NEW x \in S, NEW v \in Nat
    PROVE  SumOver([f EXCEPT ![x] = v]) + f[x] = SumOver(f) + v
<1> DEFINE g == [f EXCEPT ![x] = v]
<1>1. g \in [S -> Nat] /\ g[x] = v /\ \A i \in S \ {x} : g[i] = f[i]
  OBVIOUS
<1> HIDE DEF g
<1>2. SumOver(g) + f[x] = SumOver(f) + g[x]
  BY <1>1, SumsDiffer
<1> QED  BY <1>1, <1>2 DEF g

\* A sum is the sum of the sums over two parts.
LEMMA SumSplit ==
    ASSUME NEW S, IsFiniteSet(S), NEW f \in [S -> Nat], NEW T \in SUBSET S
    PROVE  SumOver(f) = SumOver(Only(f, T)) + SumOver(Only(f, S \ T))
<1> DEFINE A == Tokens(f, T)
           B == Tokens(f, S \ T)
<1>1. Tokens(f, S) = A \union B /\ A \intersect B = {}
  BY DEF Tokens
<1>2. IsFiniteSet(A) /\ IsFiniteSet(B) /\ Cardinality(A) \in Nat /\ Cardinality(B) \in Nat
  BY TokensAreFinite
<1>3. SumOver(Only(f, T)) = Cardinality(A) /\ SumOver(Only(f, S \ T)) = Cardinality(B)
  BY SumOfPart, S \ T \in SUBSET S
<1> HIDE DEF A, B
<1>4. Cardinality(A \union B) = Cardinality(A) + Cardinality(B) - Cardinality(A \intersect B)
  BY <1>2, FS_Union
<1>5. Cardinality(A \intersect B) = 0
  BY <1>1, FS_EmptySet
<1>6. SumOver(f) = Cardinality(A \union B)
  BY <1>1, SumIsCount
<1> QED  BY <1>2, <1>3, <1>4, <1>5, <1>6

\* A sum is monotonic in its domain: a part adds up to no more.
LEMMA SumOfLess ==
    ASSUME NEW S, IsFiniteSet(S), NEW f \in [S -> Nat], NEW T \in SUBSET S
    PROVE  SumOver(Only(f, T)) <= SumOver(f)
<1>1. S \ T \in SUBSET S
  OBVIOUS
<1>2. SumOver(Only(f, T)) \in Nat /\ SumOver(Only(f, S \ T)) \in Nat
  BY <1>1, SumOfPart
<1> QED  BY <1>2, SumSplit

LEMMA SumOfParts ==
    ASSUME NEW S, IsFiniteSet(S), NEW f \in [S -> Nat], NEW U \in SUBSET S, NEW T \in SUBSET U
    PROVE  SumOver(Only(f, T)) <= SumOver(Only(f, U))
<1>1. Tokens(f, T) \subseteq Tokens(f, U) /\ T \in SUBSET S
  BY DEF Tokens
<1>2. IsFiniteSet(Tokens(f, U))
  BY TokensAreFinite
<1> QED  BY <1>1, <1>2, FS_Subset, SumOfPart

\* And in its addends.
LEMMA SumMonotone ==
    ASSUME NEW S, IsFiniteSet(S), NEW f \in [S -> Nat], NEW g \in [S -> Nat],
           \A i \in S : f[i] <= g[i]
    PROVE  SumOver(f) <= SumOver(g)
<1>1. Tokens(f, S) \subseteq Tokens(g, S)
  BY DEF Tokens
<1>2. IsFiniteSet(Tokens(g, S))
  BY TokensAreFinite
<1> QED  BY <1>1, <1>2, FS_Subset, SumIsCount

LEMMA SumOfZeros ==
    ASSUME NEW S, IsFiniteSet(S)
    PROVE  SumOver([i \in S |-> 0]) = 0
<1> DEFINE f == [i \in S |-> 0]
<1>1. f \in [S -> Nat] /\ Tokens(f, S) = {}
  BY DEF Tokens
<1> HIDE DEF f
<1> QED  BY <1>1, SumIsCount, FS_EmptySet DEF f

\* Sums add up addend by addend.
LEMMA SumPlus ==
    ASSUME NEW S, IsFiniteSet(S), NEW f \in [S -> Nat], NEW g \in [S -> Nat]
    PROVE  SumOver([i \in S |-> f[i] + g[i]]) = SumOver(f) + SumOver(g)
<1> DEFINE h == [i \in S |-> f[i] + g[i]]
           Good == {T \in SUBSET S :
                       SumOver(Only(h, T)) = SumOver(Only(f, T)) + SumOver(Only(g, T))}
<1>1. h \in [S -> Nat] /\ \A i \in S : h[i] = f[i] + g[i]
  OBVIOUS
<1> HIDE DEF h
<1>2. {} \in Good
  BY <1>1, SumOfNone
<1>3. ASSUME NEW T \in SUBSET S, T # {}, \A x \in T : T \ {x} \in Good
      PROVE  T \in Good
  <2>1. PICK x \in T : TRUE
    BY <1>3
  <2>2. /\ SumOver(Only(f, T)) = f[x] + SumOver(Only(f, T \ {x}))
        /\ SumOver(Only(g, T)) = g[x] + SumOver(Only(g, T \ {x}))
        /\ SumOver(Only(h, T)) = h[x] + SumOver(Only(h, T \ {x}))
    BY <1>1, SumRemove
  <2>3. /\ SumOver(Only(f, T \ {x})) \in Nat /\ SumOver(Only(g, T \ {x})) \in Nat
        /\ f[x] \in Nat /\ g[x] \in Nat
    BY SumOfPart
  <2> QED  BY <1>1, <1>3, <2>2, <2>3
<1>4. SUBSET S \subseteq Good
  <2> HIDE DEF Good
  <2> QED  BY <1>2, <1>3, SubsetInduction
<1>5. Only(f, S) = f /\ Only(g, S) = g /\ Only(h, S) = h
  BY <1>1 DEF Only
<1> QED  BY <1>4, <1>5 DEF h

\* A sum, addend by addend or key by key.
LEMMA SumByKey ==
    ASSUME NEW S, IsFiniteSet(S), NEW f \in [S -> Nat], NEW K, IsFiniteSet(K),
           NEW key \in [S -> K]
    PROVE  SumOver([k \in K |-> SumOver(Only(f, {i \in S : key[i] = k}))]) = SumOver(f)
<1> DEFINE At(T, k) == {i \in T : key[i] = k}
           by(T) == [k \in K |-> SumOver(Only(f, At(T, k)))]
           Good == {T \in SUBSET S : SumOver(by(T)) = SumOver(Only(f, T))}
<1>1. \A T \in SUBSET S : /\ by(T) \in [K -> Nat]
                          /\ \A k \in K : by(T)[k] = SumOver(Only(f, At(T, k)))
  <2>1. ASSUME NEW T \in SUBSET S, NEW k \in K
        PROVE  SumOver(Only(f, At(T, k))) \in Nat
    <3>1. At(T, k) \in SUBSET S
      OBVIOUS
    <3> HIDE DEF At
    <3> QED  BY <3>1, SumOfPart
  <2> HIDE DEF At
  <2> QED  BY <2>1
<1>2. {} \in Good
  <2>1. \A k \in K : At({}, k) = {}
    OBVIOUS
  <2>2. SumOver(Only(f, {})) = 0
    BY SumOfNone
  <2>3. by({}) = [k \in K |-> 0]
    <3> HIDE DEF At
    <3> QED  BY <2>1, <2>2
  <2> HIDE DEF by
  <2>4. SumOver(by({})) = 0
    BY <2>3, SumOfZeros
  <2> QED  BY <2>2, <2>4
<1>3. ASSUME NEW T \in SUBSET S, T # {}, \A x \in T : T \ {x} \in Good
      PROVE  T \in Good
  <2>1. PICK x \in T : TRUE
    BY <1>3
  <2>2. x \in S /\ key[x] \in K /\ T \ {x} \in SUBSET S
    OBVIOUS
  <2>3. \A k \in K \ {key[x]} : At(T, k) = At(T \ {x}, k)
    OBVIOUS
  <2>4. /\ x \in At(T, key[x]) /\ At(T, key[x]) \in SUBSET S
        /\ At(T, key[x]) \ {x} = At(T \ {x}, key[x])
    OBVIOUS
  <2> HIDE DEF At
  <2>5. SumOver(Only(f, At(T, key[x]))) = f[x] + SumOver(Only(f, At(T \ {x}, key[x])))
    <3>1. PICK A \in SUBSET S : A = At(T, key[x]) /\ x \in A
      BY <2>4
    <3>2. SumOver(Only(f, A)) = f[x] + SumOver(Only(f, A \ {x}))
      BY <3>1, SumRemove
    <3> QED  BY <2>4, <3>1, <3>2
  <2>6. /\ by(T)[key[x]] = f[x] + by(T \ {x})[key[x]]
        /\ \A k \in K \ {key[x]} : by(T)[k] = by(T \ {x})[k]
    BY <1>1, <2>2, <2>3, <2>5
  <2>7. SumOver(Only(f, T)) = f[x] + SumOver(Only(f, T \ {x}))
    BY SumRemove
  <2>8. SumOver(by(T \ {x})) = SumOver(Only(f, T \ {x}))
    BY <1>3
  <2> HIDE DEF by, Good
  <2>9. PICK g \in [K -> Nat], h \in [K -> Nat] : g = by(T) /\ h = by(T \ {x})
    BY <1>1, <2>2
  <2>10. SumOver(g) + h[key[x]] = SumOver(h) + g[key[x]]
    <3>1. PICK k \in K : k = key[x]
      BY <2>2
    <3>2. \A l \in K \ {k} : g[l] = h[l]
      BY <2>6, <2>9, <3>1
    <3>3. SumOver(g) + h[k] = SumOver(h) + g[k]
      BY <3>2, SumsDiffer
    <3> QED  BY <3>1, <3>3
  <2>11. /\ h[key[x]] \in Nat /\ f[x] \in Nat /\ SumOver(h) \in Nat /\ SumOver(g) \in Nat
    BY <2>2, <2>9, SumType
  <2>12. SumOver(g) = f[x] + SumOver(h)
    BY <2>6, <2>9, <2>10, <2>11
  <2> QED  BY <2>7, <2>8, <2>9, <2>12 DEF Good
<1>4. S \in Good
  <2> HIDE DEF Good
  <2> QED  BY <1>2, <1>3, SubsetInduction
<1>5. Only(f, S) = f
  BY DEF Only
<1> QED  BY <1>4, <1>5

\* A multiple of every addend.
LEMMA SumScaled ==
    ASSUME NEW S, IsFiniteSet(S), NEW f \in [S -> Nat], NEW n \in Nat
    PROVE  SumOver([i \in S |-> n * f[i]]) = n * SumOver(f)
<1> DEFINE g == [i \in S |-> n * f[i]]
           Good == {T \in SUBSET S : SumOver(Only(g, T)) = n * SumOver(Only(f, T))}
<1>1. \A i \in S : n * f[i] \in Nat
  OBVIOUS
<1>2. g \in [S -> Nat] /\ \A i \in S : g[i] = n * f[i]
  BY <1>1
<1> HIDE DEF g
<1>3. {} \in Good
  BY <1>2, SumOfNone
<1>4. ASSUME NEW T \in SUBSET S, T # {}, \A x \in T : T \ {x} \in Good
      PROVE  T \in Good
  <2>1. PICK x \in T : TRUE
    BY <1>4
  <2>2. SumOver(Only(f, T)) = f[x] + SumOver(Only(f, T \ {x}))
    BY SumRemove
  <2>3. SumOver(Only(g, T)) = g[x] + SumOver(Only(g, T \ {x}))
    BY <1>2, SumRemove
  <2>4. SumOver(Only(g, T \ {x})) = n * SumOver(Only(f, T \ {x}))
    BY <1>4
  <2>5. PICK rest \in Nat : rest = SumOver(Only(f, T \ {x}))
    BY SumOfPart, T \ {x} \in SUBSET S
  <2>6. PICK y \in Nat : y = f[x]
    OBVIOUS
  <2>7. n * (y + rest) = n * y + n * rest
    OBVIOUS
  <2>8. SumOver(Only(g, T)) = n * SumOver(Only(f, T))
    BY <1>2, <2>2, <2>3, <2>4, <2>5, <2>6, <2>7
  <2> QED  BY <2>8
<1>5. S \in Good
  <2> HIDE DEF Good
  <2> QED  BY <1>3, <1>4, SubsetInduction
<1>6. Only(f, S) = f /\ Only(g, S) = g
  BY <1>2 DEF Only
<1> QED  BY <1>5, <1>6 DEF g

\* A sum under other names of its addends.
LEMMA SumRenamed ==
    ASSUME NEW S, IsFiniteSet(S), NEW K, IsFiniteSet(K), NEW f \in [K -> Nat],
           NEW key \in [S -> K], \A k \in K : \E i \in S : key[i] = k,
           \A i, j \in S : key[i] = key[j] => i = j
    PROVE  SumOver([i \in S |-> f[key[i]]]) = SumOver(f)
<1> DEFINE g == [i \in S |-> f[key[i]]]
           At(k) == {i \in S : key[i] = k}
<1>1. g \in [S -> Nat] /\ \A i \in S : g[i] = f[key[i]]
  OBVIOUS
<1> HIDE DEF g
<1>2. ASSUME NEW k \in K
      PROVE  SumOver(Only(g, At(k))) = f[k]
  <2>1. PICK i \in S : key[i] = k
    OBVIOUS
  <2>2. At(k) = {i} /\ {i} \in SUBSET S /\ i \in {i} /\ {i} \ {i} = {}
    BY <2>1
  <2>3. SumOver(Only(g, {i})) = g[i] + SumOver(Only(g, {i} \ {i}))
    BY <1>1, <2>2, SumRemove
  <2>4. SumOver(Only(g, {i} \ {i})) = 0
    <3>1. SumOver(Only(g, {})) = 0
      BY <1>1, SumOfNone
    <3> QED  BY <2>2, <3>1
  <2>5. g[i] = f[k] /\ f[k] \in Nat
    BY <1>1, <2>1
  <2> HIDE DEF At
  <2>6. SumOver(Only(g, {i})) = f[k]
    BY <2>3, <2>4, <2>5
  <2> QED  BY <2>2, <2>6
<1>3. SumOver([k \in K |-> SumOver(Only(g, At(k)))]) = SumOver(g)
  BY <1>1, SumByKey
<1>4. [k \in K |-> SumOver(Only(g, At(k)))] = f
  <2> HIDE DEF At
  <2> QED  BY <1>2
<1> QED  BY <1>3, <1>4 DEF g

\* Rows or columns first.
LEMMA SumSwap ==
    ASSUME NEW S, IsFiniteSet(S), NEW K, IsFiniteSet(K), NEW f \in [S -> [K -> Nat]]
    PROVE  SumOver([i \in S |-> SumOver(f[i])])
              = SumOver([k \in K |-> SumOver([i \in S |-> f[i][k]])])
<1> DEFINE rows == [i \in S |-> SumOver(f[i])]
           col(k) == [i \in S |-> f[i][k]]
           by(T) == [k \in K |-> SumOver(Only(col(k), T))]
           Good == {T \in SUBSET S : SumOver(Only(rows, T)) = SumOver(by(T))}
<1>1. rows \in [S -> Nat] /\ \A i \in S : rows[i] = SumOver(f[i])
  <2>1. ASSUME NEW i \in S
        PROVE  SumOver(f[i]) \in Nat
    <3>1. PICK g \in [K -> Nat] : g = f[i]
      OBVIOUS
    <3>2. SumOver(g) \in Nat
      BY SumType
    <3> QED  BY <3>1, <3>2
  <2> QED  BY <2>1
<1>2. \A k \in K : col(k) \in [S -> Nat] /\ \A i \in S : col(k)[i] = f[i][k]
  OBVIOUS
<1> HIDE DEF rows, col
<1>3. ASSUME NEW T \in SUBSET S
      PROVE  /\ by(T) \in [K -> Nat]
             /\ \A k \in K : by(T)[k] = SumOver(Only(col(k), T))
  BY <1>2, SumOfPart
<1>4. {} \in Good
  <2>1. by({}) = [k \in K |-> 0]
    BY <1>2, SumOfNone
  <2>2. SumOver(Only(rows, {})) = 0
    BY <1>1, SumOfNone
  <2> HIDE DEF by
  <2>3. SumOver(by({})) = 0
    BY <2>1, SumOfZeros
  <2> QED  BY <2>2, <2>3
<1>5. ASSUME NEW T \in SUBSET S, T # {}, \A x \in T : T \ {x} \in Good
      PROVE  T \in Good
  <2>1. PICK x \in T : TRUE
    BY <1>5
  <2>2. x \in S /\ T \ {x} \in SUBSET S /\ f[x] \in [K -> Nat]
    OBVIOUS
  <2>3. SumOver(Only(rows, T)) = SumOver(f[x]) + SumOver(Only(rows, T \ {x}))
    BY <1>1, <2>2, SumRemove
  <2>4. \A k \in K : by(T)[k] = f[x][k] + by(T \ {x})[k]
    <3>1. ASSUME NEW k \in K
          PROVE  by(T)[k] = f[x][k] + by(T \ {x})[k]
      <4>1. PICK c \in [S -> Nat] : c = col(k)
        BY <1>2
      <4>2. SumOver(Only(c, T)) = c[x] + SumOver(Only(c, T \ {x}))
        BY SumRemove
      <4>3. c[x] = f[x][k]
        BY <1>2, <2>2, <4>1
      <4> HIDE DEF by
      <4> QED  BY <1>3, <2>2, <4>1, <4>2, <4>3
    <3> QED  BY <3>1
  <2> HIDE DEF by
  <2>5. PICK g \in [K -> Nat], h \in [K -> Nat], row \in [K -> Nat] :
           g = by(T) /\ h = by(T \ {x}) /\ row = f[x]
    BY <1>3, <2>2
  <2>6. g = [k \in K |-> row[k] + h[k]]
    BY <2>4, <2>5
  <2>7. SumOver([k \in K |-> row[k] + h[k]]) = SumOver(row) + SumOver(h)
    BY SumPlus
  <2>8. SumOver(Only(rows, T \ {x})) = SumOver(by(T \ {x}))
    BY <1>5
  <2>9. SumOver(Only(rows, T)) = SumOver(by(T))
    BY <2>3, <2>5, <2>6, <2>7, <2>8
  <2> QED  BY <2>9
<1>6. S \in Good
  <2> HIDE DEF Good
  <2> QED  BY <1>4, <1>5, SubsetInduction
<1>7. Only(rows, S) = rows /\ \A k \in K : Only(col(k), S) = col(k)
  BY <1>1, <1>2 DEF Only
<1>8. by(S) = [k \in K |-> SumOver([i \in S |-> f[i][k]])]
  BY <1>7 DEF col
<1> HIDE DEF by
<1>9. SumOver(Only(rows, S)) = SumOver(by(S))
  BY <1>6
<1> QED  BY <1>7, <1>8, <1>9 DEF rows

\* As much for every addend.
LEMMA SumOfSame ==
    ASSUME NEW S, IsFiniteSet(S), NEW n \in Nat
    PROVE  SumOver([i \in S |-> n]) = n * Cardinality(S)
<1> DEFINE f == [i \in S |-> n]
           Good == {T \in SUBSET S : SumOver(Only(f, T)) = n * Cardinality(T)}
<1>1. f \in [S -> Nat] /\ \A i \in S : f[i] = n
  OBVIOUS
<1> HIDE DEF f
<1>2. {} \in Good
  BY <1>1, SumOfNone, FS_EmptySet
<1>3. ASSUME NEW T \in SUBSET S, T # {}, \A x \in T : T \ {x} \in Good
      PROVE  T \in Good
  <2>1. PICK x \in T : TRUE
    BY <1>3
  <2>2. SumOver(Only(f, T)) = f[x] + SumOver(Only(f, T \ {x}))
    BY <1>1, SumRemove
  <2>3. IsFiniteSet(T)
    BY FS_Subset
  <2>4. Cardinality(T \ {x}) = Cardinality(T) - 1 /\ Cardinality(T) \in Nat
        /\ Cardinality(T \ {x}) \in Nat
    BY <2>3, FS_RemoveElement, FS_CardinalityType
  <2>5. PICK c \in Nat : c = Cardinality(T \ {x}) /\ Cardinality(T) = c + 1
    BY <2>4
  <2>6. n * (c + 1) = n + n * c
    OBVIOUS
  <2>7. SumOver(Only(f, T \ {x})) = n * c
    BY <1>3, <2>5
  <2>8. SumOver(Only(f, T)) = n * Cardinality(T)
    BY <1>1, <2>2, <2>5, <2>6, <2>7
  <2> QED  BY <2>8
<1>4. S \in Good
  <2> HIDE DEF Good
  <2> QED  BY <1>2, <1>3, SubsetInduction
<1>5. Only(f, S) = f
  BY <1>1 DEF Only
<1> QED  BY <1>4, <1>5 DEF f

\* The same two facts about any function that has those addends.
LEMMA SumPlusOf ==
    ASSUME NEW S, IsFiniteSet(S), NEW f \in [S -> Nat], NEW g \in [S -> Nat],
           NEW h \in [S -> Nat], \A i \in S : h[i] = f[i] + g[i]
    PROVE  SumOver(h) = SumOver(f) + SumOver(g)
<1>1. SumOver([i \in S |-> f[i] + g[i]]) = SumOver(f) + SumOver(g)
  BY SumPlus
<1>2. h = [i \in S |-> f[i] + g[i]]
  OBVIOUS
<1> QED  BY <1>1, <1>2

LEMMA SumScaledOf ==
    ASSUME NEW S, IsFiniteSet(S), NEW f \in [S -> Nat], NEW n \in Nat,
           NEW h \in [S -> Nat], \A i \in S : h[i] = n * f[i]
    PROVE  SumOver(h) = n * SumOver(f)
<1>1. SumOver([i \in S |-> n * f[i]]) = n * SumOver(f)
  BY SumScaled
<1>2. h = [i \in S |-> n * f[i]]
  OBVIOUS
<1> QED  BY <1>1, <1>2

LEMMA SumRenamedOf ==
    ASSUME NEW S, IsFiniteSet(S), NEW K, IsFiniteSet(K), NEW f \in [K -> Nat],
           NEW key \in [S -> K], \A k \in K : \E i \in S : key[i] = k,
           \A i, j \in S : key[i] = key[j] => i = j,
           NEW h \in [S -> Nat], \A i \in S : h[i] = f[key[i]]
    PROVE  SumOver(h) = SumOver(f)
<1>1. SumOver([i \in S |-> f[key[i]]]) = SumOver(f)
  BY SumRenamed
<1>2. h = [i \in S |-> f[key[i]]]
  OBVIOUS
<1> QED  BY <1>1, <1>2

\* A sum over numbers, up to the next one, and of two lists one behind the other.
LEMMA SumUpTo ==
    ASSUME NEW n \in Nat, NEW f \in [1 .. n -> Nat], NEW m \in 0 .. (n - 1)
    PROVE  /\ SumOver(Only(f, 1 .. (m + 1))) = f[m + 1] + SumOver(Only(f, 1 .. m))
           /\ f[m + 1] \in Nat /\ SumOver(Only(f, 1 .. m)) \in Nat
           /\ m = 0 => SumOver(Only(f, 1 .. m)) = 0
<1>1. PICK N : N = 1 .. n
  OBVIOUS
<1>2. PICK T \in SUBSET N : T = 1 .. (m + 1)
  BY <1>1
<1>3. PICK x \in T : x = m + 1
  BY <1>2
<1>4. IsFiniteSet(N)
  BY <1>1, FS_Interval
<1>5. PICK g \in [N -> Nat] : g = f
  BY <1>1
<1>6. SumOver(Only(g, T)) = g[x] + SumOver(Only(g, T \ {x}))
  BY <1>4, SumRemove, SMTT(30)
<1>7. T \ {x} = 1 .. m
  BY <1>2, <1>3
<1>8. SumOver(Only(g, T \ {x})) \in Nat
  <2>1. PICK U \in SUBSET N : U = T \ {x}
    OBVIOUS
  <2>2. SumOver(Only(g, U)) \in Nat
    BY <1>4, SumOfPart
  <2> QED  BY <2>1, <2>2
<1>9. m = 0 => SumOver(Only(f, 1 .. m)) = 0
  <2>1. m = 0 => 1 .. m = {}
    OBVIOUS
  <2>2. SumOver(Only(g, {})) = 0
    BY <1>4, SumOfNone
  <2> QED  BY <1>5, <2>1, <2>2
<1>10. f[m + 1] \in Nat
  OBVIOUS
<1> QED  BY <1>2, <1>3, <1>5, <1>6, <1>7, <1>8, <1>9, <1>10

LEMMA SumInParts ==
    ASSUME NEW S, IsFiniteSet(S), NEW K, IsFiniteSet(K), NEW f \in [S -> Nat],
           NEW g \in [K -> Nat], NEW A \in SUBSET S, NEW T, T = S \ A,
           NEW key \in [T -> K], \A k \in K : \E i \in T : key[i] = k,
           \A i, j \in T : key[i] = key[j] => i = j, \A i \in T : f[i] = g[key[i]]
    PROVE  SumOver(f) = SumOver(Only(f, A)) + SumOver(g)
<1>1. SumOver(f) = SumOver(Only(f, A)) + SumOver(Only(f, T))
  BY SumSplit
<1>2. IsFiniteSet(T)
  <2>1. T \subseteq S
    OBVIOUS
  <2> QED  BY <2>1, FS_Subset
<1>3. Only(f, T) \in [T -> Nat] /\ \A i \in T : Only(f, T)[i] = f[i]
  BY DEF Only
<1>4. PICK late \in [T -> Nat] : late = Only(f, T) /\ \A i \in T : late[i] = f[i]
  BY <1>3
<1>5. \A i \in T : late[i] = g[key[i]]
  BY <1>4
<1>6. SumOver(late) = SumOver(g)
  BY <1>2, <1>5, SumRenamedOf
<1> QED  BY <1>1, <1>4, <1>6

\* f is g after its first m numbers.
Joined(f, g, m, n) ==
    /\ f \in [1 .. (m + n) -> Nat] /\ g \in [1 .. n -> Nat]
    /\ \A i \in 1 .. n : f[m + i] = g[i]

LEMMA SumInTwo ==
    ASSUME NEW m \in Nat, NEW n \in Nat, NEW f, NEW g, Joined(f, g, m, n)
    PROVE  SumOver(f) = SumOver(Only(f, 1 .. m)) + SumOver(g)
<1>1. f \in [1 .. (m + n) -> Nat] /\ g \in [1 .. n -> Nat]
  BY DEF Joined
<1>2. \A i \in 1 .. n : f[m + i] = g[i]
  BY DEF Joined
<1>0. ASSUME f \in [1 .. (m + n) -> Nat], g \in [1 .. n -> Nat],
             \A i \in 1 .. n : f[m + i] = g[i]
      PROVE  SumOver(f) = SumOver(Only(f, 1 .. m)) + SumOver(g)
  <2>1. PICK S, K, A, T : /\ S = 1 .. (m + n) /\ K = 1 .. n /\ A = 1 .. m
                          /\ T = (1 .. (m + n)) \ (1 .. m)
    OBVIOUS
  <2>2. IsFiniteSet(S) /\ IsFiniteSet(K)
    <3>1. m + n \in Int
      OBVIOUS
    <3> QED  BY <2>1, <3>1, FS_Interval
  <2>3. A \in SUBSET S /\ T = S \ A /\ f \in [S -> Nat] /\ g \in [K -> Nat]
    BY <1>0, <2>1
  <2>4. \A i \in T : i \in Int /\ i - m \in K /\ i = m + (i - m)
    BY <2>1
  <2>5. PICK key \in [T -> K] : \A i \in T : key[i] = i - m
    <3>1. [i \in T |-> i - m] \in [T -> K]
      BY <2>4
    <3> QED  BY <3>1
  <2>6. \A k \in K : \E i \in T : key[i] = k
    <3>1. ASSUME NEW k \in K
          PROVE  m + k \in T /\ key[m + k] = k
      BY <2>1, <2>5
    <3> QED  BY <3>1
  <2>7. \A i, j \in T : key[i] = key[j] => i = j
    BY <2>4, <2>5
  <2>8. \A i \in T : f[i] = g[key[i]]
    <3>1. ASSUME NEW i \in T
          PROVE  f[i] = g[key[i]]
      <4>1. PICK k \in 1 .. n : k = key[i] /\ i = m + k
        BY <2>1, <2>4, <2>5
      <4> QED  BY <1>0, <4>1
    <3> QED  BY <3>1
  <2>9. PICK h \in [S -> Nat], base \in [K -> Nat] : h = f /\ base = g
    BY <2>3
  <2>10. \A i \in T : h[i] = base[key[i]]
    BY <2>8, <2>9
  <2>11. SumOver(h) = SumOver(Only(h, A)) + SumOver(base)
    BY <2>2, <2>3, <2>6, <2>7, <2>10, SumInParts
  <2> QED  BY <2>1, <2>9, <2>11
<1> QED  BY <1>0, <1>1, <1>2

\* Induction up to a number, first-order: Ok is the set of the numbers it holds of.
LEMMA UpTo ==
    ASSUME NEW n \in Nat, NEW Ok, 0 \in Ok,
           \A m \in 0 .. (n - 1) : m \in Ok => m + 1 \in Ok
    PROVE  n \in Ok
<1>0. PICK N : N = 1 .. n
  OBVIOUS
<1> DEFINE Good == {T \in SUBSET N : \A m \in 0 .. n : T = 1 .. m => m \in Ok}
<1>1. {} \in Good
  <2>1. ASSUME NEW m \in 0 .. n, {} = 1 .. m
        PROVE  m = 0
    <3>1. m \in Nat /\ (m >= 1 => 1 \in 1 .. m)
      OBVIOUS
    <3> QED  BY <2>1, <3>1
  <2> QED  BY <2>1
<1>2. ASSUME NEW T \in SUBSET N, T # {}, \A x \in T : T \ {x} \in Good
      PROVE  T \in Good
  <2>1. ASSUME NEW m \in 0 .. n, T = 1 .. m
        PROVE  m \in Ok
    <3>1. m \in Nat /\ m # 0
      <4>1. m = 0 => 1 .. m = {}
        OBVIOUS
      <4> QED  BY <1>2, <2>1, <4>1
    <3>2. m \in T /\ T \ {m} = 1 .. (m - 1) /\ m - 1 \in 0 .. n
      BY <2>1, <3>1
    <3>3. m - 1 \in Ok
      BY <1>2, <3>2
    <3> QED  BY <3>1, <3>2, <3>3
  <2> QED  BY <2>1
<1>3. IsFiniteSet(N)
  BY <1>0, FS_Interval
<1>4. SUBSET N \subseteq Good
  <2> HIDE DEF Good
  <2> QED  BY <1>1, <1>2, <1>3, SubsetInduction
<1>5. N \in Good
  BY <1>4
<1> QED  BY <1>0, <1>5

-----------------------------------------------------------------------------
\* A finite set of numbers has a largest one.
LEMMA MaxOfFinite ==
    ASSUME NEW S, IsFiniteSet(S), S \subseteq Int, S # {}
    PROVE  Max(S) \in S /\ \A x \in S : Max(S) >= x
<1> DEFINE Good == {T \in SUBSET S : T # {} => \E x \in T : \A y \in T : x >= y}
<1>1. {} \in Good
  OBVIOUS
<1>2. ASSUME NEW T \in SUBSET S, T # {}, \A x \in T : T \ {x} \in Good
      PROVE  T \in Good
  <2>1. PICK x \in T : TRUE
    BY <1>2
  <2>2. CASE T \ {x} = {}
    BY <2>1, <2>2
  <2>3. CASE T \ {x} # {}
    <3>1. PICK y \in T \ {x} : \A z \in T \ {x} : y >= z
      BY <1>2, <2>3
    <3>2. x \in Int /\ y \in Int /\ T \subseteq Int
      OBVIOUS
    <3>3. CASE x >= y
      <4>1. \A z \in T : x >= z
        BY <3>1, <3>2, <3>3
      <4> QED  BY <4>1
    <3>4. CASE y >= x
      <4>1. \A z \in T : y >= z
        BY <3>1, <3>2, <3>4
      <4> QED  BY <4>1
    <3> QED  BY <3>2, <3>3, <3>4
  <2> QED  BY <2>2, <2>3
<1>3. S \in Good
  <2> HIDE DEF Good
  <2> QED  BY <1>1, <1>2, SubsetInduction
<1> QED  BY <1>3 DEF Max

LEMMA MaxOfPositions ==
    ASSUME NEW n \in Nat, NEW S \in SUBSET (1 .. n), S # {}
    PROVE  Max(S) \in S /\ \A x \in S : Max(S) >= x
<1>1. IsFiniteSet(1 .. n)
  BY FS_Interval
<1>2. IsFiniteSet(S)
  BY <1>1, FS_Subset
<1>3. S \subseteq Int
  OBVIOUS
<1> QED  BY <1>2, <1>3, MaxOfFinite

-----------------------------------------------------------------------------
\* What Append does to a chain, wherever its links come from.
Chain(es) == \E S : es \in Seq(S)

LEMMA ChainAppend ==
    ASSUME NEW s, Chain(s), NEW e
    PROVE  /\ Chain(Append(s, e))
           /\ Len(s) \in Nat /\ Len(Append(s, e)) = Len(s) + 1
           /\ DOMAIN s = 1 .. Len(s) /\ DOMAIN Append(s, e) = 1 .. (Len(s) + 1)
           /\ Append(s, e)[Len(s) + 1] = e
           /\ \A n \in 1 .. Len(s) : Append(s, e)[n] = s[n]
           /\ \A n \in 1 .. (Len(s) + 1) :
                 SubSeq(Append(s, e), 1, n - 1) = SubSeq(s, 1, n - 1)
           /\ SubSeq(s, 1, Len(s)) = s
<1>1. PICK S : s \in Seq(S)
  BY DEF Chain
<1> DEFINE R == S \union {e}
           t == Append(s, e)
<1>2. s \in Seq(R)
  BY <1>1, SeqMonotonic
<1>3. /\ t \in Seq(R) /\ Len(t) = Len(s) + 1 /\ t[Len(s) + 1] = e
      /\ \A n \in 1 .. Len(s) : t[n] = s[n]
  BY <1>2, AppendProperties
<1>4. Len(s) \in Nat /\ DOMAIN s = 1 .. Len(s) /\ DOMAIN t = 1 .. (Len(s) + 1)
  BY <1>2, <1>3, LenProperties
<1>5. Chain(t)
  BY <1>3 DEF Chain
<1>6. ASSUME NEW n \in 1 .. (Len(s) + 1)
      PROVE  SubSeq(t, 1, n - 1) = SubSeq(s, 1, n - 1)
  <2>1. n - 1 \in Int /\ \A i \in 1 .. (n - 1) : i \in 1 .. Len(s)
    BY <1>4
  <2>2. \A i \in 1 .. (n - 1) : t[i] = s[i] /\ s[i] \in R
    BY <1>2, <1>3, <2>1, ElementOfSeq
  <2> DEFINE a == SubSeq(t, 1, n - 1)
             b == SubSeq(s, 1, n - 1)
  <2>3. /\ a \in Seq(R) /\ Len(a) = IF 1 <= n - 1 THEN n - 1 - 1 + 1 ELSE 0
        /\ \A i \in 1 .. (n - 1 - 1 + 1) : a[i] = t[1 + i - 1]
    BY <2>1, <2>2, SubSeqProperties
  <2>4. /\ b \in Seq(R) /\ Len(b) = IF 1 <= n - 1 THEN n - 1 - 1 + 1 ELSE 0
        /\ \A i \in 1 .. (n - 1 - 1 + 1) : b[i] = s[1 + i - 1]
    BY <2>1, <2>2, SubSeqProperties
  <2> HIDE DEF a, b
  <2>5. Len(a) = Len(b) /\ Len(a) = n - 1 /\ n \in Nat
    BY <1>4, <2>3, <2>4
  <2>6. \A i \in 1 .. Len(a) : a[i] = b[i]
    BY <2>2, <2>3, <2>4, <2>5
  <2>7. a = b
    BY <2>3, <2>4, <2>5, <2>6, SeqEqual
  <2> QED  BY <2>7 DEF a, b
<1>7. SubSeq(s, 1, Len(s)) = s
  BY <1>1, SubSeqFull
<1> QED  BY <1>3, <1>4, <1>5, <1>6, <1>7
=============================================================================
