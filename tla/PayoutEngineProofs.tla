------------------------- MODULE PayoutEngineProofs -------------------------
(***************************************************************************)
(* Theorems about PayoutEngine, for every set of processes and jobs, every *)
(* receipt and both journal backends; those that hold only when a single   *)
(* process writes the journal say so.                                      *)
(*                                                                         *)
(* The keys come first: whatever the order in which a caller passes the    *)
(* legs of a job, the keys they get are keys the job owes.  Then one       *)
(* inductive invariant per theme, each proved action by action: types,     *)
(* keys, the meaning of PAID, the durable intent; and what these make of a *)
(* reconciliation, whose sums SumsProofs reasons about.                    *)
(***************************************************************************)
EXTENDS PayoutEngine, SumsProofs, SequenceTheorems

(***************************************************************************)
(* Keys (payout.py:50-73).                                                 *)
(***************************************************************************)

\* A rearranged receipt is a sequence of legs as long as the receipt.
LEMMA ArrangementType ==
    ASSUME NEW j \in Jobs, NEW ls \in Arrangements(j)
    PROVE  /\ ls \in [1 .. Len(Receipt[j]) -> Legs]
           /\ Len(ls) = Len(Receipt[j])
<1> DEFINE n == Len(Receipt[j])
<1>1. n \in Nat /\ Receipt[j] \in [1 .. n -> Legs]
  BY PayoutAssumption, ElementOfSeq, LenProperties
<1>2. PICK f \in [1 .. n -> 1 .. n] : ls = [m \in 1 .. n |-> Receipt[j][f[m]]]
  BY DEF Arrangements
<1>3. ls \in [1 .. n -> Legs]
  BY <1>1, <1>2
<1>4. ls \in Seq(Legs)
  BY <1>1, <1>3, SeqDef
<1> QED  BY <1>1, <1>3, <1>4, LenProperties

\* A leg's occurrence number is below the number of its copies in the receipt,
\* in whatever order the legs are passed.
LEMMA OccurrenceBound ==
    ASSUME NEW j \in Jobs, NEW ls \in Arrangements(j),
           NEW i \in 1 .. Len(Receipt[j])
    PROVE  /\ Len(ls) = Len(Receipt[j])
           /\ ls[i] \in Legs
           /\ Occurrence(ls, i) \in 0 .. MaxLegs
           /\ Occurrence(ls, i) < Copies(j, ls[i])
<1> DEFINE n == Len(Receipt[j])
           l == ls[i]
           H == {h \in 1 .. (i - 1) : ls[h] = l}
           C == {m \in 1 .. n : Receipt[j][m] = l}
<1>1. n \in Nat /\ n <= MaxLegs /\ MaxLegs \in Nat /\ Receipt[j] \in Seq(Legs)
  BY PayoutAssumption
<1>2. PICK f \in [1 .. n -> 1 .. n] :
          /\ \A a, b \in 1 .. n : f[a] = f[b] => a = b
          /\ ls = [m \in 1 .. n |-> Receipt[j][f[m]]]
  BY DEF Arrangements
<1>3. Len(ls) = n /\ l \in Legs
  BY ArrangementType
<1>4. IsFiniteSet(C) /\ Cardinality(C) \in Nat /\ Cardinality(C) <= n
  <2>1. IsFiniteSet(1 .. n) /\ Cardinality(1 .. n) = n
    BY <1>1, FS_Interval
  <2>2. C \in SUBSET (1 .. n)
    OBVIOUS
  <2> QED  BY <2>1, <2>2, FS_Subset, FS_CardinalityType
<1>5. /\ IsFiniteSet(H \union {i})
      /\ Cardinality(H \union {i}) <= Cardinality(C)
  <2> DEFINE g == [h \in H \union {i} |-> f[h]]
  <2>1. \A h \in H \union {i} : h \in 1 .. n /\ ls[h] = l
    BY <1>1
  <2>2. g \in [H \union {i} -> C]
    BY <2>1, <1>2
  <2>3. \A a, b \in H \union {i} : g[a] = g[b] => a = b
    BY <2>1, <1>2
  <2>4. g \in Injection(H \union {i}, C)
    BY <2>2, <2>3 DEF Injection, IsInjective
  <2> QED  BY <2>4, <1>4, FS_Injection
<1>6. /\ Cardinality(H) \in Nat
      /\ Cardinality(H \union {i}) = Cardinality(H) + 1
  <2>1. IsFiniteSet(H)
    BY <1>5, FS_Subset, H \in SUBSET (H \union {i})
  <2>2. i \notin H
    BY <1>1
  <2> QED  BY <2>1, <2>2, FS_AddElement, FS_CardinalityType
<1>7. Occurrence(ls, i) = Cardinality(H) /\ Copies(j, l) = Cardinality(C)
  BY DEF Occurrence, Copies
<1> QED  BY <1>1, <1>3, <1>4, <1>5, <1>6, <1>7

\* pay_legs and reconcile_job never invent a key: every key of an arrangement
\* of the receipt is one the job owes.
LEMMA KeysAreOwed ==
    ASSUME NEW j \in Jobs, NEW ls \in Arrangements(j)
    PROVE  LegKeys(j, ls) \subseteq Owed(j)
<1> SUFFICES ASSUME NEW k \in LegKeys(j, ls)
             PROVE  k \in Owed(j)
  OBVIOUS
<1>1. Len(ls) = Len(Receipt[j])
  BY ArrangementType
<1>2. PICK i \in 1 .. Len(Receipt[j]) :
          k = [job |-> j, leg |-> ls[i], n |-> Occurrence(ls, i)]
  BY <1>1 DEF LegKeys
<1>3. /\ ls[i] \in Legs
      /\ Occurrence(ls, i) \in 0 .. MaxLegs
      /\ Occurrence(ls, i) < Copies(j, ls[i])
  BY OccurrenceBound
<1> QED  BY <1>2, <1>3 DEF Owed, Keys

-----------------------------------------------------------------------------
(***************************************************************************)
(* Types.  TypeOK is not inductive alone: while a key is being driven, the *)
(* key and the answer about to be written must be known to be such.        *)
(***************************************************************************)
Driven == \A p \in Procs :
    /\ pc[p] \in {"send", "record"} => cur[p] \in Keys
    /\ pc[p] = "record" => answer[p] \in Statuses

TypeInv == TypeOK /\ Driven

LEMMA TypeInit == Init => TypeInv
BY DEF Init, TypeInv, TypeOK, Driven, Blank

LEMMA TypeStep == TypeInv /\ [Next]_vars => TypeInv'
<1> SUFFICES ASSUME TypeInv, [Next]_vars
             PROVE  TypeInv'
  OBVIOUS
<1> USE DEF TypeInv, TypeOK, Driven, Statuses
<1>1. CASE UNCHANGED vars
  BY <1>1 DEF vars
<1>2. ASSUME NEW p \in Procs, Start(p)
      PROVE  TypeInv'
  BY <1>2 DEF Start
<1>3. ASSUME NEW p \in Procs, NEW j \in Jobs, PayLegs(p, j)
      PROVE  TypeInv'
  <2>1. PICK ls \in Arrangements(j) :
            todo' = [todo EXCEPT ![p] = {k \in LegKeys(j, ls) : mem[p][k] # "PAID"}]
    BY <1>3 DEF PayLegs
  <2>2. LegKeys(j, ls) \subseteq Keys
    BY KeysAreOwed DEF Owed
  <2> QED  BY <1>3, <2>1, <2>2 DEF PayLegs
<1>4. ASSUME NEW p \in Procs, RetryPending(p)
      PROVE  TypeInv'
  BY <1>4 DEF RetryPending
<1>5. ASSUME NEW p \in Procs, NEW k \in Keys, Intend(p, k)
      PROVE  TypeInv'
  BY <1>5 DEF Intend, Persisted
<1>6. ASSUME NEW p \in Procs, NEW k \in Keys, IntendFails(p, k)
      PROVE  TypeInv'
  BY <1>6 DEF IntendFails
<1>7. ASSUME NEW p \in Procs, Confirmed(p)
      PROVE  TypeInv'
  BY <1>7 DEF Confirmed, Answered
<1>8. ASSUME NEW p \in Procs, Unanswered(p)
      PROVE  TypeInv'
  BY <1>8 DEF Unanswered, Answered
<1>9. ASSUME NEW p \in Procs, Refused(p)
      PROVE  TypeInv'
  BY <1>9 DEF Refused, Answered
<1>10. ASSUME NEW p \in Procs, SendRaises(p)
       PROVE  TypeInv'
  BY <1>10 DEF SendRaises
<1>11. ASSUME NEW p \in Procs, Record(p)
       PROVE  TypeInv'
  BY <1>11 DEF Record, Returned, Persisted
<1>12. ASSUME NEW p \in Procs, RecordFails(p)
       PROVE  TypeInv'
  BY <1>12 DEF RecordFails, Returned
<1>13. ASSUME NEW p \in Procs, Crash(p)
       PROVE  TypeInv'
  BY <1>13 DEF Crash, Blank
<1> QED  BY <1>1, <1>2, <1>3, <1>4, <1>5, <1>6, <1>7, <1>8, <1>9, <1>10,
            <1>11, <1>12, <1>13 DEF Next, Step, Trouble

\* Every reachable state is well typed: a status the journal does not know is
\* never recorded, whatever the rail answers (payout.py:84-95, 319-339).
THEOREM TypeCorrect == Spec => []TypeOK
<1>1. TypeInv => TypeOK
  BY DEF TypeInv
<1> QED  BY TypeInit, TypeStep, <1>1, PTL DEF Spec
-----------------------------------------------------------------------------
(***************************************************************************)
(* Keys again, now of the whole state: nothing outside AllOwed is ever     *)
(* journaled, remembered, driven or moved.                                 *)
(***************************************************************************)
OnlyOwed ==
    /\ moved \subseteq AllOwed
    /\ \A k \in Keys : journal[k] # NoRec => k \in AllOwed
    /\ \A p \in Procs :
           /\ todo[p] \subseteq AllOwed
           /\ pc[p] \in {"send", "record"} => cur[p] \in AllOwed
           /\ \A k \in Keys : mem[p][k] # NoRec => k \in AllOwed

LEMMA OwedStep == TypeInv /\ OnlyOwed /\ [Next]_vars => OnlyOwed'
<1> SUFFICES ASSUME TypeInv, OnlyOwed, [Next]_vars
             PROVE  OnlyOwed'
  OBVIOUS
<1> USE DEF TypeInv, TypeOK, Driven, OnlyOwed
<1>1. CASE UNCHANGED vars
  BY <1>1 DEF vars
<1>2. ASSUME NEW p \in Procs, Start(p)
      PROVE  OnlyOwed'
  BY <1>2 DEF Start
<1>3. ASSUME NEW p \in Procs, NEW j \in Jobs, PayLegs(p, j)
      PROVE  OnlyOwed'
  <2>1. PICK ls \in Arrangements(j) :
            todo' = [todo EXCEPT ![p] = {k \in LegKeys(j, ls) : mem[p][k] # "PAID"}]
    BY <1>3 DEF PayLegs
  <2>2. LegKeys(j, ls) \subseteq AllOwed
    BY KeysAreOwed DEF AllOwed
  <2> QED  BY <1>3, <2>1, <2>2 DEF PayLegs
<1>4. ASSUME NEW p \in Procs, RetryPending(p)
      PROVE  OnlyOwed'
  <2>1. {k \in Keys : mem[p][k] \in {"PENDING", "FAILED"}} \subseteq AllOwed
    BY PayoutAssumption DEF Statuses
  <2> QED  BY <1>4, <2>1 DEF RetryPending
<1>5. ASSUME NEW p \in Procs, NEW k \in Keys, Intend(p, k)
      PROVE  OnlyOwed'
  BY <1>5 DEF Intend, Persisted
<1>6. ASSUME NEW p \in Procs, NEW k \in Keys, IntendFails(p, k)
      PROVE  OnlyOwed'
  BY <1>6 DEF IntendFails
<1>7. ASSUME NEW p \in Procs, Confirmed(p)
      PROVE  OnlyOwed'
  BY <1>7 DEF Confirmed, Answered
<1>8. ASSUME NEW p \in Procs, Unanswered(p)
      PROVE  OnlyOwed'
  BY <1>8 DEF Unanswered, Answered
<1>9. ASSUME NEW p \in Procs, Refused(p)
      PROVE  OnlyOwed'
  BY <1>9 DEF Refused, Answered
<1>10. ASSUME NEW p \in Procs, SendRaises(p)
       PROVE  OnlyOwed'
  BY <1>10 DEF SendRaises
<1>11. ASSUME NEW p \in Procs, Record(p)
       PROVE  OnlyOwed'
  BY <1>11 DEF Record, Returned, Persisted
<1>12. ASSUME NEW p \in Procs, RecordFails(p)
       PROVE  OnlyOwed'
  BY <1>12 DEF RecordFails, Returned
<1>13. ASSUME NEW p \in Procs, Crash(p)
       PROVE  OnlyOwed'
  BY <1>13 DEF Crash, Blank
<1> QED  BY <1>1, <1>2, <1>3, <1>4, <1>5, <1>6, <1>7, <1>8, <1>9, <1>10,
            <1>11, <1>12, <1>13 DEF Next, Step, Trouble

\* The journal, the engines and the provider only ever know payouts that the
\* jobs owe.
THEOREM OnlyOwedAlways == Spec => [](TypeInv /\ OnlyOwed)
<1>1. Init => OnlyOwed
  BY DEF Init, OnlyOwed, Blank
<1> QED  BY TypeInit, TypeStep, <1>1, OwedStep, PTL DEF Spec

\* No payee is overpaid: under every interleaving of engines, crashes, lost
\* answers and retries, the provider makes at most as many transfers for a leg
\* as the receipt has copies of it (payout.py:7-10, 50-56).
THEOREM NeverOverpaid == Spec => []NoOverpay
<1>1. ASSUME OnlyOwed, NEW j \in Jobs, NEW l \in Legs
      PROVE  TransfersOf(j, l) <= Copies(j, l)
  <2> DEFINE S == {k \in moved : k.job = j /\ k.leg = l}
             c == Copies(j, l)
             f == [k \in S |-> k.n]
  <2>1. c \in Nat
    <3>1. Len(Receipt[j]) \in Nat
      BY PayoutAssumption, LenProperties
    <3>2. IsFiniteSet(1 .. Len(Receipt[j]))
      BY <3>1, FS_Interval
    <3> QED  BY <3>2, FS_Subset, FS_CardinalityType DEF Copies
  <2>2. \A k \in S : k \in Keys /\ k.n < c
    BY <1>1 DEF OnlyOwed, AllOwed, Owed
  <2>3. IsFiniteSet(0 .. (c - 1)) /\ Cardinality(0 .. (c - 1)) = c
    BY <2>1, FS_Interval
  <2>4. f \in [S -> 0 .. (c - 1)]
    BY <2>1, <2>2 DEF Keys
  <2>5. \A a, b \in S : f[a] = f[b] => a = b
    BY <2>2 DEF Keys
  <2>6. f \in Injection(S, 0 .. (c - 1))
    BY <2>4, <2>5 DEF Injection, IsInjective
  <2>7. Cardinality(S) <= c
    BY <2>3, <2>6, FS_Injection
  <2> QED  BY <2>7 DEF TransfersOf
<1>2. OnlyOwed => NoOverpay
  BY <1>1 DEF NoOverpay
<1> QED  BY OnlyOwedAlways, <1>2, PTL

-----------------------------------------------------------------------------
(***************************************************************************)
(* What PAID means.  The strengthening says where a PAID comes from: it is *)
(* the answer about to be recorded, and that answer came with a transfer.  *)
(***************************************************************************)
PaidInv ==
    /\ PaidMeansMoved
    /\ \A p \in Procs :
           pc[p] = "record" /\ answer[p] = "PAID" => cur[p] \in moved

LEMMA PaidStep == TypeInv /\ PaidInv /\ [Next]_vars => PaidInv'
<1> SUFFICES ASSUME TypeInv, PaidInv, [Next]_vars
             PROVE  PaidInv'
  OBVIOUS
<1> USE DEF TypeInv, TypeOK, Driven, PaidInv, PaidMeansMoved
<1>1. CASE UNCHANGED vars
  BY <1>1 DEF vars
<1>2. ASSUME NEW p \in Procs, Start(p)
      PROVE  PaidInv'
  BY <1>2 DEF Start
<1>3. ASSUME NEW p \in Procs, NEW j \in Jobs, PayLegs(p, j)
      PROVE  PaidInv'
  BY <1>3 DEF PayLegs
<1>4. ASSUME NEW p \in Procs, RetryPending(p)
      PROVE  PaidInv'
  BY <1>4 DEF RetryPending
<1>5. ASSUME NEW p \in Procs, NEW k \in Keys, Intend(p, k)
      PROVE  PaidInv'
  BY <1>5 DEF Intend, Persisted
<1>6. ASSUME NEW p \in Procs, NEW k \in Keys, IntendFails(p, k)
      PROVE  PaidInv'
  BY <1>6 DEF IntendFails
<1>7. ASSUME NEW p \in Procs, Confirmed(p)
      PROVE  PaidInv'
  BY <1>7 DEF Confirmed, Answered
<1>8. ASSUME NEW p \in Procs, Unanswered(p)
      PROVE  PaidInv'
  BY <1>8 DEF Unanswered, Answered
<1>9. ASSUME NEW p \in Procs, Refused(p)
      PROVE  PaidInv'
  BY <1>9 DEF Refused, Answered
<1>10. ASSUME NEW p \in Procs, SendRaises(p)
       PROVE  PaidInv'
  BY <1>10 DEF SendRaises
<1>11. ASSUME NEW p \in Procs, Record(p)
       PROVE  PaidInv'
  BY <1>11 DEF Record, Returned, Persisted
<1>12. ASSUME NEW p \in Procs, RecordFails(p)
       PROVE  PaidInv'
  BY <1>12 DEF RecordFails, Returned
<1>13. ASSUME NEW p \in Procs, Crash(p)
       PROVE  PaidInv'
  <2>1. NoRec # "PAID"
    BY PayoutAssumption DEF Statuses
  <2> QED  BY <1>13, <2>1 DEF Crash, Blank
<1> QED  BY <1>1, <1>2, <1>3, <1>4, <1>5, <1>6, <1>7, <1>8, <1>9, <1>10,
            <1>11, <1>12, <1>13 DEF Next, Step, Trouble

\* No disk and no memory says PAID of a payout the provider did not make,
\* through lost answers, refusals, stale memories and crashes
\* (payout.py:16-18).
THEOREM PaidIsReal == Spec => []PaidMeansMoved
<1>1. Init => PaidInv
  BY PayoutAssumption DEF Init, PaidInv, PaidMeansMoved, Blank, Statuses
<1>2. PaidInv => PaidMeansMoved
  BY DEF PaidInv
<1> QED  BY TypeInit, TypeStep, <1>1, PaidStep, <1>2, PTL DEF Spec

-----------------------------------------------------------------------------
(***************************************************************************)
(* Reconciliation.  In whatever order its legs are passed, a job has the   *)
(* same keys, all that it owes: the occurrence numbers of the copies of a  *)
(* leg are different and below their number, so none is left out.          *)
(***************************************************************************)
LEMMA CopiesInAnyOrder ==
    ASSUME NEW j \in Jobs, NEW ls \in Arrangements(j), NEW l \in Legs
    PROVE  LET C == {i \in 1 .. Len(Receipt[j]) : ls[i] = l}
           IN  IsFiniteSet(C) /\ Cardinality(C) = Copies(j, l)
<1> DEFINE I == 1 .. Len(Receipt[j])
           C == {i \in I : ls[i] = l}
           D == {i \in I : Receipt[j][i] = l}
<1>1. IsFiniteSet(I)
  BY FS_Interval, LenProperties, PayoutAssumption
<1>2. PICK f \in [I -> I] :
          /\ \A a, b \in I : f[a] = f[b] => a = b
          /\ ls = [i \in I |-> Receipt[j][f[i]]]
  BY DEF Arrangements
<1>3. f \in Surjection(I, I)
  <2>1. f \in Injection(I, I)
    BY <1>2 DEF Injection, IsInjective
  <2> HIDE DEF I
  <2> QED  BY <1>1, <2>1, FS_Injection
<1>4. \A d \in I : \E i \in I : f[i] = d
  BY <1>3 DEF Surjection
<1> DEFINE g == [i \in C |-> f[i]]
<1>5. g \in Injection(C, D)
  <2>1. g \in [C -> D]
    BY <1>2
  <2> QED  BY <1>2, <2>1 DEF Injection, IsInjective
<1>6. g \in Surjection(C, D)
  <2>1. \A d \in D : \E i \in C : g[i] = d
    BY <1>2, <1>4
  <2>2. g \in [C -> D]
    BY <1>5 DEF Injection
  <2> QED  BY <2>1, <2>2 DEF Surjection
<1>7. IsFiniteSet(D) /\ D \in SUBSET I /\ Copies(j, l) = Cardinality(D)
  BY <1>1, FS_Subset DEF Copies
<1> HIDE DEF g, C, D, I
<1> QED  BY <1>5, <1>6, <1>7, FS_Injection DEF C, I

\* The keys of a job do not depend on the order its legs are passed in
\* (payout.py:50-73).
THEOREM KeysInAnyOrder ==
    \A j \in Jobs : \A ls \in Arrangements(j) : LegKeys(j, ls) = Owed(j)
<1> SUFFICES ASSUME NEW j \in Jobs, NEW ls \in Arrangements(j), NEW k \in Owed(j)
             PROVE  k \in LegKeys(j, ls)
  BY KeysAreOwed
<1> DEFINE l == k.leg
           c == Copies(j, l)
           C == {i \in 1 .. Len(Receipt[j]) : ls[i] = l}
           f == [i \in C |-> Occurrence(ls, i)]
<1>1. /\ k = [job |-> j, leg |-> l, n |-> k.n]
      /\ l \in Legs /\ k.n \in Nat /\ k.n < c
  BY PayoutAssumption DEF Owed, Keys
<1>2. IsFiniteSet(C) /\ Cardinality(C) = c /\ c \in Nat
  BY <1>1, CopiesInAnyOrder, FS_CardinalityType
<1>3. f \in [C -> 0 .. (c - 1)]
  <2>1. \A i \in C : Occurrence(ls, i) \in Nat /\ Occurrence(ls, i) < c
    BY OccurrenceBound, PayoutAssumption
  <2> QED  BY <1>2, <2>1
<1>4. \A a, b \in C : a < b => Occurrence(ls, a) < Occurrence(ls, b)
  <2> SUFFICES ASSUME NEW a \in C, NEW b \in C, a < b
               PROVE  Occurrence(ls, a) < Occurrence(ls, b)
    OBVIOUS
  <2> DEFINE A == {h \in 1 .. (a - 1) : ls[h] = ls[a]}
             B == {h \in 1 .. (b - 1) : ls[h] = ls[b]}
  <2>1. a \in Nat /\ b \in Nat /\ Len(Receipt[j]) \in Nat
    BY LenProperties, PayoutAssumption
  <2>2. B \in SUBSET C /\ A \in SUBSET B /\ a \in B /\ a \notin A
    <3>1. ls[a] = l /\ ls[b] = l
      OBVIOUS
    <3> QED  BY <2>1, <3>1
  <2>3. IsFiniteSet(A) /\ IsFiniteSet(B) /\ A # B
    <3> HIDE DEF A, B, C
    <3> QED  BY <1>2, <2>2, FS_Subset
  <2>4. Cardinality(A) < Cardinality(B)
    <3> HIDE DEF A, B, C
    <3> QED  BY <2>2, <2>3, FS_Subset, FS_CardinalityType
  <2> QED  BY <2>4 DEF Occurrence
<1>5. f \in Injection(C, 0 .. (c - 1))
  <2>1. \A a, b \in C : f[a] = f[b] => a = b
    <3>1. \A a, b \in C : a \in Nat /\ b \in Nat /\ (a < b \/ b < a \/ a = b)
      BY LenProperties, PayoutAssumption
    <3>2. \A a \in C : f[a] \in Nat
      BY <1>3
    <3> QED  BY <1>4, <3>1, <3>2
  <2> QED  BY <1>3, <2>1 DEF Injection, IsInjective
<1>6. IsFiniteSet(0 .. (c - 1)) /\ Cardinality(0 .. (c - 1)) = c
  <2> HIDE DEF c
  <2>1. 0 \in Int /\ c - 1 \in Int /\ (c - 1) - 0 + 1 = c /\ (0 > c - 1 <=> c = 0)
    BY <1>2
  <2> QED  BY <2>1, FS_Interval
<1>7. f \in Surjection(C, 0 .. (c - 1))
  <2> HIDE DEF f, C, c
  <2> QED  BY <1>2, <1>5, <1>6, FS_Injection
<1>8. PICK i \in C : f[i] = k.n
  BY <1>1, <1>2, <1>7 DEF Surjection
<1>9. i \in 1 .. Len(ls) /\ ls[i] = l /\ Occurrence(ls, i) = k.n
  BY <1>8, ArrangementType
<1> QED  BY <1>1, <1>9 DEF LegKeys

\* A receipt in its own order is one of its arrangements.
LEMMA ReceiptIsArranged == \A j \in Jobs : Receipt[j] \in Arrangements(j)
<1> SUFFICES ASSUME NEW j \in Jobs
             PROVE  Receipt[j] \in Arrangements(j)
  OBVIOUS
<1> DEFINE I == 1 .. Len(Receipt[j])
           id == [i \in I |-> i]
<1>1. Receipt[j] \in [I -> Legs]
  BY PayoutAssumption, ElementOfSeq, LenProperties
<1>2. id \in [I -> I] /\ \A a, b \in I : id[a] = id[b] => a = b
  OBVIOUS
<1>3. Receipt[j] = [i \in I |-> Receipt[j][id[i]]]
  BY <1>1
<1> HIDE DEF id
<1> QED  BY <1>2, <1>3 DEF Arrangements

\* What reconcile_job expects of a job is what it owes, finitely many payouts.
LEMMA ExpectedIsOwed ==
    ASSUME NEW j \in Jobs
    PROVE  Expected(j) = Owed(j) /\ IsFiniteSet(Owed(j))
<1> DEFINE I == 1 .. Len(Receipt[j])
           f == [i \in I |->
                    [job |-> j, leg |-> Receipt[j][i], n |-> Occurrence(Receipt[j], i)]]
<1>1. IsFiniteSet(I)
  BY FS_Interval, LenProperties, PayoutAssumption
<1>2. f \in Surjection(I, Expected(j))
  BY DEF Surjection, Expected, LegKeys
<1>3. Expected(j) = Owed(j)
  BY ReceiptIsArranged, KeysInAnyOrder DEF Expected
<1>4. IsFiniteSet(Expected(j))
  <2> HIDE DEF f, I
  <2> QED  BY <1>1, <1>2, FS_Surjection
<1> QED  BY <1>3, <1>4

LEMMA ReconciledIsMoved ==
    ASSUME TypeInv, OnlyOwed, PaidMeansMoved, NEW p \in Procs, NEW j \in Jobs
    PROVE  /\ FullySettled(p, j) =>
                  CentsOf({k \in moved : k.job = j}) = CentsOf(Expected(j))
           /\ Drift(p, j, Keys) = {}
<1> DEFINE O == Owed(j)
           M == {k \in moved : k.job = j}
           P == PaidRecords(p, j)
           f == [k \in O |-> Amount[k.leg]]
<1>1. P \in SUBSET M
  BY DEF PaidRecords, Records, PaidMeansMoved
<1>2. M \in SUBSET O
  BY DEF OnlyOwed, AllOwed, Owed
<1>3. Drift(p, j, Keys) = {}
  BY <1>1 DEF Drift, Retrieved, PaidRecords, Records
<1>4. Expected(j) = O /\ IsFiniteSet(O)
  BY ExpectedIsOwed
<1>5. f \in [O -> Nat]
  BY PayoutAssumption DEF Owed, Keys
<1>6. \A T \in SUBSET O : CentsOf(T) = SumOver(Only(f, T))
  BY DEF CentsOf, Only
<1>7. CentsOf(P) <= CentsOf(M) /\ CentsOf(M) <= CentsOf(O)
  <2> HIDE DEF O, M, P, f
  <2> QED  BY <1>1, <1>2, <1>4, <1>5, <1>6, SumOfParts
<1>8. CentsOf(P) \in Nat /\ CentsOf(M) \in Nat /\ CentsOf(O) \in Nat
  <2> HIDE DEF O, M, P, f
  <2> QED  BY <1>1, <1>2, <1>4, <1>5, <1>6, SumOfPart
<1> HIDE DEF O, M, P
<1> QED  BY <1>3, <1>4, <1>7, <1>8 DEF FullySettled, P, M

\* What reconcile_job calls fully settled has left the provider to the cent,
\* and a provider that answers has no drift to report: for every receipt, with
\* any number of engines and both backends (payout.py:19-22, 369-425).
THEOREM ReconciliationIsSound == Spec => []ReconcileSound
<1>1. Init => PaidInv
  BY PayoutAssumption DEF Init, PaidInv, PaidMeansMoved, Blank, Statuses
<1>2. TypeInv /\ OnlyOwed /\ PaidInv => ReconcileSound
  BY ReconciledIsMoved DEF ReconcileSound, PaidInv
<1> QED  BY OnlyOwedAlways, <1>1, PaidStep, <1>2, PTL DEF Spec

-----------------------------------------------------------------------------
(***************************************************************************)
(* The durable intent.  A SqliteStore never loses a record, so any number  *)
(* of engines may share it; the JSONL journal is rewritten from a memory,  *)
(* so there the memory must cover the disk, which one engine's does.       *)
(***************************************************************************)
OneProcess == \E q : Procs = {q}

IntentInv ==
    /\ IntentBeforeMoney
    /\ \A p \in Procs :
           /\ pc[p] \in {"send", "record"} => journal[cur[p]] # NoRec
           /\ Backend = "jsonl" /\ pc[p] # "down" =>
                 \A k \in Keys : journal[k] # NoRec => mem[p][k] # NoRec

LEMMA IntentStep ==
    ASSUME Backend = "sqlite" \/ OneProcess,
           TypeInv, IntentInv, [Next]_vars
    PROVE  IntentInv'
<1> USE PayoutAssumption
    DEF TypeInv, TypeOK, Driven, IntentInv, IntentBeforeMoney, OneProcess, Statuses
<1>1. CASE UNCHANGED vars
  BY <1>1 DEF vars
<1>2. ASSUME NEW p \in Procs, Start(p)
      PROVE  IntentInv'
  BY <1>2 DEF Start
<1>3. ASSUME NEW p \in Procs, NEW j \in Jobs, PayLegs(p, j)
      PROVE  IntentInv'
  BY <1>3 DEF PayLegs
<1>4. ASSUME NEW p \in Procs, RetryPending(p)
      PROVE  IntentInv'
  BY <1>4 DEF RetryPending
<1>5. ASSUME NEW p \in Procs, NEW k \in Keys, Intend(p, k)
      PROVE  IntentInv'
  BY <1>5 DEF Intend, Persisted
<1>6. ASSUME NEW p \in Procs, NEW k \in Keys, IntendFails(p, k)
      PROVE  IntentInv'
  BY <1>6 DEF IntendFails
<1>7. ASSUME NEW p \in Procs, Confirmed(p)
      PROVE  IntentInv'
  BY <1>7 DEF Confirmed, Answered
<1>8. ASSUME NEW p \in Procs, Unanswered(p)
      PROVE  IntentInv'
  BY <1>8 DEF Unanswered, Answered
<1>9. ASSUME NEW p \in Procs, Refused(p)
      PROVE  IntentInv'
  BY <1>9 DEF Refused, Answered
<1>10. ASSUME NEW p \in Procs, SendRaises(p)
       PROVE  IntentInv'
  BY <1>10 DEF SendRaises
<1>11. ASSUME NEW p \in Procs, Record(p)
       PROVE  IntentInv'
  BY <1>11 DEF Record, Returned, Persisted
<1>12. ASSUME NEW p \in Procs, RecordFails(p)
       PROVE  IntentInv'
  BY <1>12 DEF RecordFails, Returned
<1>13. ASSUME NEW p \in Procs, Crash(p)
       PROVE  IntentInv'
  BY <1>13 DEF Crash, Blank
<1> QED  BY <1>1, <1>2, <1>3, <1>4, <1>5, <1>6, <1>7, <1>8, <1>9, <1>10,
            <1>11, <1>12, <1>13 DEF Next, Step, Trouble

\* Money never leaves without a durable intent, at any point of a crash: with
\* one settlement process whatever the backend, and with any number of them on
\* a SqliteStore (payout.py:11-15).
THEOREM IntentComesFirst ==
    ASSUME Backend = "sqlite" \/ OneProcess
    PROVE  Spec => []IntentBeforeMoney
<1>1. Init => IntentInv
  BY DEF Init, IntentInv, IntentBeforeMoney, Blank
<1>2. TypeInv /\ IntentInv /\ [Next]_vars => IntentInv'
  BY IntentStep
<1>3. IntentInv => IntentBeforeMoney
  BY DEF IntentInv
<1> QED  BY TypeInit, TypeStep, <1>1, <1>2, <1>3, PTL DEF Spec

-----------------------------------------------------------------------------
(***************************************************************************)
(* One settlement process keeps the whole promise.  Its memory may lag     *)
(* behind the disk or run ahead of it, but never about a PAID record, and  *)
(* what it drives is not PAID.                                             *)
(***************************************************************************)
SoleInv == \A p \in Procs :
    /\ pc[p] = "down" => todo[p] = {}
    /\ pc[p] # "down" =>
          \A k \in Keys : journal[k] = "PAID" => mem[p][k] = "PAID"
    /\ \A k \in todo[p] : mem[p][k] # "PAID"
    /\ pc[p] \in {"send", "record"} =>
          mem[p][cur[p]] = "PENDING" /\ cur[p] \notin todo[p]

LEMMA SoleStep ==
    ASSUME OneProcess, TypeInv, SoleInv, [Next]_vars
    PROVE  SoleInv'
<1> USE PayoutAssumption
    DEF TypeInv, TypeOK, Driven, SoleInv, OneProcess, Statuses
<1>1. CASE UNCHANGED vars
  BY <1>1 DEF vars
<1>2. ASSUME NEW p \in Procs, Start(p)
      PROVE  SoleInv'
  BY <1>2 DEF Start
<1>3. ASSUME NEW p \in Procs, NEW j \in Jobs, PayLegs(p, j)
      PROVE  SoleInv'
  <2>1. \A k \in todo'[p] : mem[p][k] # "PAID"
    BY <1>3 DEF PayLegs
  <2> QED  BY <1>3, <2>1 DEF PayLegs, Free
<1>4. ASSUME NEW p \in Procs, RetryPending(p)
      PROVE  SoleInv'
  BY <1>4 DEF RetryPending, Free
<1>5. ASSUME NEW p \in Procs, NEW k \in Keys, Intend(p, k)
      PROVE  SoleInv'
  BY <1>5 DEF Intend, Persisted
<1>6. ASSUME NEW p \in Procs, NEW k \in Keys, IntendFails(p, k)
      PROVE  SoleInv'
  BY <1>6 DEF IntendFails
<1>7. ASSUME NEW p \in Procs, Confirmed(p)
      PROVE  SoleInv'
  BY <1>7 DEF Confirmed, Answered
<1>8. ASSUME NEW p \in Procs, Unanswered(p)
      PROVE  SoleInv'
  BY <1>8 DEF Unanswered, Answered
<1>9. ASSUME NEW p \in Procs, Refused(p)
      PROVE  SoleInv'
  BY <1>9 DEF Refused, Answered
<1>10. ASSUME NEW p \in Procs, SendRaises(p)
       PROVE  SoleInv'
  BY <1>10 DEF SendRaises
<1>11. ASSUME NEW p \in Procs, Record(p)
       PROVE  SoleInv'
  BY <1>11 DEF Record, Returned, Persisted
<1>12. ASSUME NEW p \in Procs, RecordFails(p)
       PROVE  SoleInv'
  BY <1>12 DEF RecordFails, Returned
<1>13. ASSUME NEW p \in Procs, Crash(p)
       PROVE  SoleInv'
  BY <1>13 DEF Crash, Blank
<1> QED  BY <1>1, <1>2, <1>3, <1>4, <1>5, <1>6, <1>7, <1>8, <1>9, <1>10,
            <1>11, <1>12, <1>13 DEF Next, Step, Trouble

\* No record is lost, and what is PAID stays PAID.
NothingLost == \A k \in Keys :
    /\ journal[k] # NoRec => journal'[k] # NoRec
    /\ journal[k] = "PAID" => journal'[k] = "PAID"

\* A step either keeps the disk, and at most one transfer of a journaled
\* payout is made, or makes no transfer and loses nothing on disk.
Gain ==
    \/ /\ journal' = journal
       /\ \/ moved' = moved
          \/ \E k \in AllOwed : journal[k] # NoRec /\ moved' = moved \union {k}
    \/ moved' = moved /\ NothingLost

LEMMA StepGains ==
    ASSUME OneProcess, TypeInv, OnlyOwed, IntentInv, SoleInv, [Next]_vars
    PROVE  Gain
<1> USE PayoutAssumption
    DEF TypeInv, TypeOK, Driven, OnlyOwed, IntentInv, SoleInv, OneProcess,
        Statuses, Gain, NothingLost
<1>1. CASE UNCHANGED vars
  BY <1>1 DEF vars
<1>2. ASSUME NEW p \in Procs, Start(p)
      PROVE  Gain
  BY <1>2 DEF Start
<1>3. ASSUME NEW p \in Procs, NEW j \in Jobs, PayLegs(p, j)
      PROVE  Gain
  BY <1>3 DEF PayLegs
<1>4. ASSUME NEW p \in Procs, RetryPending(p)
      PROVE  Gain
  BY <1>4 DEF RetryPending
<1>5. ASSUME NEW p \in Procs, NEW k \in Keys, Intend(p, k)
      PROVE  Gain
  BY <1>5 DEF Intend, Persisted
<1>6. ASSUME NEW p \in Procs, NEW k \in Keys, IntendFails(p, k)
      PROVE  Gain
  BY <1>6 DEF IntendFails
<1>7. ASSUME NEW p \in Procs, Confirmed(p)
      PROVE  Gain
  BY <1>7 DEF Confirmed, Answered
<1>8. ASSUME NEW p \in Procs, Unanswered(p)
      PROVE  Gain
  BY <1>8 DEF Unanswered, Answered
<1>9. ASSUME NEW p \in Procs, Refused(p)
      PROVE  Gain
  BY <1>9 DEF Refused, Answered
<1>10. ASSUME NEW p \in Procs, SendRaises(p)
       PROVE  Gain
  BY <1>10 DEF SendRaises
<1>11. ASSUME NEW p \in Procs, Record(p)
       PROVE  Gain
  BY <1>11 DEF Record, Returned, Persisted
<1>12. ASSUME NEW p \in Procs, RecordFails(p)
       PROVE  Gain
  BY <1>12 DEF RecordFails, Returned
<1>13. ASSUME NEW p \in Procs, Crash(p)
       PROVE  Gain
  BY <1>13 DEF Crash
<1> QED  BY <1>1, <1>2, <1>3, <1>4, <1>5, <1>6, <1>7, <1>8, <1>9, <1>10,
            <1>11, <1>12, <1>13 DEF Next, Step, Trouble

SingleInv == TypeInv /\ OnlyOwed /\ PaidInv /\ IntentInv /\ SoleInv

LEMMA SingleAlways == ASSUME OneProcess PROVE Spec => []SingleInv
<1>1. Init => SingleInv
  BY TypeInit, PayoutAssumption
  DEF Init, SingleInv, OnlyOwed, PaidInv, PaidMeansMoved, IntentInv,
      IntentBeforeMoney, SoleInv, Blank, Statuses
<1>2. SingleInv /\ [Next]_vars => SingleInv'
  BY TypeStep, OwedStep, PaidStep, IntentStep, SoleStep DEF SingleInv
<1> QED  BY <1>1, <1>2, PTL DEF Spec

\* With one settlement process a payout the disk calls PAID is never taken
\* back, whatever writes fail and however the process restarts
\* (payout.py:320-323, 344).
THEOREM PaidStaysPaid == ASSUME OneProcess PROVE Spec => PaidIsFinal
<1>1. SingleInv /\ [Next]_vars =>
          [\A k \in Keys : journal[k] = "PAID" => journal'[k] = "PAID"]_vars
  BY StepGains DEF SingleInv, Gain, NothingLost
<1> QED  BY SingleAlways, <1>1, PTL DEF Spec, PaidIsFinal

\* With one settlement process the engine implements the abstract payout
\* layer: intended before disbursed, disbursed at most once, confirmed only
\* after, nothing taken back (payout.py:7-22).
THEOREM EngineKeepsPromise == ASSUME OneProcess PROVE Spec => KeepsPromise
<1> DEFINE I == {k \in Keys : journal[k] # NoRec}
           C == {k \in Keys : journal[k] = "PAID"}
<1>1. Init => Promise!Init
  BY PayoutAssumption DEF Init, Promise!Init, Blank, Statuses
<1>2. SingleInv /\ SingleInv' /\ [Next]_vars => [Promise!Next]_(Promise!books)
  <2> SUFFICES ASSUME SingleInv, SingleInv', [Next]_vars
               PROVE  Promise!Next \/ UNCHANGED <<I, moved, C>>
    BY DEF Promise!books
  <2>1. Gain
    BY StepGains DEF SingleInv
  <2>2. /\ moved \subseteq I
        /\ I' \subseteq AllOwed
        /\ C' \subseteq moved'
    BY DEF SingleInv, TypeInv, TypeOK, OnlyOwed, PaidInv, PaidMeansMoved,
           IntentInv, IntentBeforeMoney
  <2>3. CASE journal' = journal /\ moved' = moved
    BY <2>3
  <2>4. ASSUME journal' = journal,
               NEW k \in AllOwed, journal[k] # NoRec, k \notin moved,
               moved' = moved \union {k}
        PROVE  Promise!Next
    <3>1. k \in I
      BY <2>4 DEF AllOwed, Owed
    <3>2. Promise!Disburse(k)
      BY <2>4, <3>1 DEF Promise!Disburse
    <3> QED  BY <3>2 DEF Promise!Next
  <2>5. ASSUME moved' = moved, NothingLost
        PROVE  Promise!Next
    <3>1. I' = I \union I' /\ C' = C \union C'
      BY <2>5 DEF NothingLost
    <3>2. I' \subseteq AllOwed /\ C' \subseteq moved
      BY <2>2, <2>5
    <3> HIDE DEF I, C
    <3>3. \E new \in SUBSET AllOwed, known \in SUBSET moved :
              I' = I \union new /\ C' = C \union known
      BY <3>1, <3>2
    <3> USE DEF I, C
    <3> QED  BY <2>5, <3>3 DEF Promise!Next, Promise!Book
  <2> QED  BY <2>1, <2>3, <2>4, <2>5 DEF Gain
<1> QED  BY SingleAlways, <1>1, <1>2, PTL DEF Spec, KeepsPromise, Promise!Spec
=============================================================================
