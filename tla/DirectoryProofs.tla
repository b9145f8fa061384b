-------------------------- MODULE DirectoryProofs --------------------------
(***************************************************************************)
(* Theorems about the transparency log and the key directory, for any      *)
(* number of witnesses, keys, statements and events, and any trees whose   *)
(* proofs are sound.                                                       *)
(*                                                                         *)
(* What a witness remembers is the head of a log that extends all it has   *)
(* cosigned, and it cosigns only what extends that; so its histories are   *)
(* one, and two quorums of a majority have a witness in common.  So what   *)
(* stands at an index of one cosigned log stands there in every one that   *)
(* long, and a log without a message has it at none of its indices.        *)
(*                                                                         *)
(* The directory: every event says where it stands, what came before it    *)
(* and who signed it, and who may sign depends on the events before only.  *)
(***************************************************************************)
EXTENDS KeyDirectory, SumsProofs

\* A log by its elements.
LEMMA LogIs ==
    ASSUME NEW s \in Logs
    PROVE  /\ s \in Seq(Payloads) /\ Len(s) \in 0 .. MaxLog /\ DOMAIN s = 1 .. Len(s)
           /\ \A i \in DOMAIN s : s[i] \in Payloads
<1>1. PICK m \in 0 .. MaxLog : s \in [1 .. m -> Payloads]
  BY DEF Logs, SeqOf
<1>2. m \in Nat
  BY <1>1, TransparencyAssumption
<1>3. s \in Seq(Payloads)
  BY <1>1, <1>2, IsASeq
<1>4. Len(s) = m
  BY <1>1, <1>2, <1>3, LenProperties
<1> QED  BY <1>1, <1>3, <1>4

LEMMA LogFrom ==
    ASSUME NEW s \in Seq(Payloads), Len(s) <= MaxLog
    PROVE  s \in Logs
<1>1. Len(s) \in 0 .. MaxLog /\ s \in [1 .. Len(s) -> Payloads]
  BY LenProperties, TransparencyAssumption
<1> QED  BY <1>1 DEF Logs, SeqOf

LEMMA PrefixIs ==
    ASSUME NEW s \in Logs, NEW t \in Logs
    PROVE  IsPrefix(s, t) <=> Len(s) <= Len(t) /\ \A i \in 1 .. Len(s) : s[i] = t[i]
<1>1. /\ s \in Seq(Payloads) /\ t \in Seq(Payloads) /\ Len(s) \in Nat /\ Len(t) \in Nat
      /\ DOMAIN s = 1 .. Len(s) /\ DOMAIN t = 1 .. Len(t)
  BY LogIs, TransparencyAssumption
<1>2. SubSeq(s, 1, Len(s)) = s
  BY <1>1, SubSeqFull
<1> SUFFICES ASSUME Len(s) <= Len(t)
             PROVE  s = SubSeq(t, 1, Len(s)) <=> \A i \in 1 .. Len(s) : s[i] = t[i]
  BY <1>2 DEF IsPrefix
<1> DEFINE u == SubSeq(t, 1, Len(s))
<1>3. \A i \in 1 .. Len(s) : t[i] \in Payloads
  BY <1>1, ElementOfSeq
<1>4. u \in Seq(Payloads) /\ Len(u) = Len(s) /\ \A i \in 1 .. Len(s) : u[i] = t[i]
  BY <1>1, <1>3, SubSeqProperties
<1> HIDE DEF u
<1>5. (\A i \in 1 .. Len(s) : s[i] = t[i]) => s = u
  BY <1>1, <1>4, SeqEqual
<1>6. s = u <=> \A i \in 1 .. Len(s) : s[i] = t[i]
  BY <1>4, <1>5
<1> QED  BY <1>6 DEF u

\* What two logs have in common with a third, they have in common.
LEMMA PrefixesCompare ==
    ASSUME NEW s \in Logs, NEW t \in Logs, NEW u \in Logs, IsPrefix(s, u), IsPrefix(t, u)
    PROVE  IsPrefix(s, t) \/ IsPrefix(t, s)
<1>1. Len(s) \in Nat /\ Len(t) \in Nat
  BY LogIs, TransparencyAssumption
<1>2. /\ \A i \in 1 .. Len(s) : s[i] = u[i]
      /\ \A i \in 1 .. Len(t) : t[i] = u[i]
  BY PrefixIs
<1>3. CASE Len(s) <= Len(t)
  <2>1. \A i \in 1 .. Len(s) : s[i] = t[i]
    BY <1>1, <1>2, <1>3
  <2> QED  BY <1>3, <2>1, PrefixIs
<1>4. CASE Len(t) <= Len(s)
  <2>1. \A i \in 1 .. Len(t) : t[i] = s[i]
    BY <1>1, <1>2, <1>4
  <2> QED  BY <1>4, <2>1, PrefixIs
<1> QED  BY <1>1, <1>3, <1>4

LEMMA PrefixThrough ==
    ASSUME NEW s \in Logs, NEW t \in Logs, NEW u \in Logs, IsPrefix(s, t), IsPrefix(t, u)
    PROVE  IsPrefix(s, u)
<1>1. Len(s) \in Nat /\ Len(t) \in Nat /\ Len(u) \in Nat
  BY LogIs, TransparencyAssumption
<1>2. Len(s) <= Len(t) /\ Len(t) <= Len(u)
  BY PrefixIs
<1>3. /\ \A i \in 1 .. Len(s) : s[i] = t[i]
      /\ \A i \in 1 .. Len(t) : t[i] = u[i]
  BY PrefixIs
<1>4. \A i \in 1 .. Len(s) : s[i] = u[i]
  BY <1>1, <1>2, <1>3
<1> QED  BY <1>1, <1>2, <1>4, PrefixIs

-----------------------------------------------------------------------------
(***************************************************************************)
(* Witnesses.                                                              *)
(***************************************************************************)

\* The head of s is what w remembers.
Remembers(w, s) == memory[w] = Seen(w, s) /\ \A t \in cosigned[w] : IsPrefix(t, s)

WitnessInv ==
    /\ DOMAIN memory = Witnesses /\ cosigned \in [Witnesses -> SUBSET Logs]
    /\ \A w \in Witnesses : \E s \in Logs : Remembers(w, s)

LogsInv == log \in Logs /\ heads \in SUBSET Logs

\* A witness cosigns what extends all it has cosigned.
LEMMA CosignKeeps ==
    ASSUME WitnessInv, NEW w \in Witnesses, NEW u \in Logs, Cosign(w, u)
    PROVE  WitnessInv'
<1>1. PICK s \in Logs : Remembers(w, s)
  BY DEF WitnessInv
<1>2. /\ memory' = [memory EXCEPT ![w] = Seen(w, u)]
      /\ cosigned' = [cosigned EXCEPT ![w] = @ \union {u}] /\ Extends(w, u)
  BY DEF Cosign
<1>3. memory[w].size = Len(s) /\ memory[w].root = Root(s)
  BY <1>1 DEF Remembers, Seen
<1>4. Len(s) \in Nat /\ Len(u) \in Nat
  BY LogIs, TransparencyAssumption
<1>5. IsPrefix(s, u)
  <2>1. CASE Len(s) = 0
    BY <1>4, <2>1, PrefixIs
  <2>2. CASE Len(s) # 0
    <3>1. Len(s) <= Len(u) /\ ProvesPrefix(Len(s), Root(s), u)
      BY <1>2, <1>3, <1>4, <2>2 DEF Extends
    <3>2. s # <<>>
      BY <2>2, EmptySeq
    <3> QED  BY <3>1, <3>2, ProofsAreSound
  <2> QED  BY <2>1, <2>2
<1>6. IsPrefix(u, u)
  BY <1>4, PrefixIs
<1>7. \A t \in cosigned[w] : IsPrefix(t, u)
  BY <1>1, <1>5, PrefixThrough DEF Remembers, WitnessInv
<1>8. /\ DOMAIN memory' = Witnesses /\ cosigned' \in [Witnesses -> SUBSET Logs]
      /\ memory'[w] = Seen(w, u) /\ cosigned'[w] = cosigned[w] \union {u}
      /\ \A v \in Witnesses \ {w} : memory'[v] = memory[v] /\ cosigned'[v] = cosigned[v]
  BY <1>2 DEF WitnessInv
<1>9. ASSUME NEW v \in Witnesses
      PROVE  \E x \in Logs : Remembers(v, x)'
  <2>1. CASE v = w
    BY <1>6, <1>7, <1>8, <2>1 DEF Remembers, Seen
  <2>2. CASE v # w
    <3>1. PICK x \in Logs : Remembers(v, x)
      BY DEF WitnessInv
    <3> QED  BY <1>8, <2>2, <3>1 DEF Remembers, Seen
  <2> QED  BY <2>1, <2>2
<1> QED  BY <1>8, <1>9 DEF WitnessInv

\* Two quorums of a majority meet.
LEMMA QuorumsMeet ==
    ASSUME 2 * Quorum > Cardinality(Witnesses),
           NEW A \in SUBSET Witnesses, NEW B \in SUBSET Witnesses,
           Cardinality(A) >= Quorum, Cardinality(B) >= Quorum
    PROVE  \E w \in Witnesses : w \in A /\ w \in B
<1>1. IsFiniteSet(A) /\ IsFiniteSet(B)
  BY TransparencyAssumption, FS_Subset
<1>2. /\ Cardinality(A \union B)
             = Cardinality(A) + Cardinality(B) - Cardinality(A \intersect B)
      /\ Cardinality(A \union B) <= Cardinality(Witnesses)
  <2>1. A \union B \in SUBSET Witnesses
    OBVIOUS
  <2> QED  BY <1>1, <2>1, FS_Union, FS_Subset, TransparencyAssumption
<1>3. /\ Cardinality(A) \in Nat /\ Cardinality(B) \in Nat /\ Cardinality(Witnesses) \in Nat
      /\ Cardinality(A \intersect B) \in Nat /\ Quorum \in Nat
  <2>1. IsFiniteSet(A \intersect B)
    BY <1>1, FS_Intersection
  <2>2. Cardinality(Witnesses) \in Nat
    BY TransparencyAssumption, FS_CardinalityType
  <2> QED  BY <1>1, <2>1, <2>2, FS_CardinalityType, TransparencyAssumption
<1>4. Cardinality(A \intersect B) # 0
  BY <1>2, <1>3
<1>5. A \intersect B # {}
  BY <1>4, FS_EmptySet
<1> QED  BY <1>5

\* Two heads with a quorum were cosigned by one witness.
LEMMA WitnessInvOneHistory ==
    ASSUME WitnessInv
    PROVE  OneHistory
<1>1. ASSUME NEW w \in Witnesses, NEW s \in cosigned[w], NEW t \in cosigned[w]
      PROVE  IsPrefix(s, t) \/ IsPrefix(t, s)
  <2>1. PICK u \in Logs : Remembers(w, u)
    BY DEF WitnessInv
  <2>2. s \in Logs /\ t \in Logs
    BY DEF WitnessInv
  <2>3. IsPrefix(s, u) /\ IsPrefix(t, u)
    BY <2>1 DEF Remembers
  <2> QED  BY <2>2, <2>3, PrefixesCompare
<1>2. ASSUME 2 * Quorum > Cardinality(Witnesses), NEW s, NEW t, HasQuorum(s), HasQuorum(t)
      PROVE  IsPrefix(s, t) \/ IsPrefix(t, s)
  <2> DEFINE by(u) == {w \in Witnesses : u \in cosigned[w]}
  <2>1. PICK w \in Witnesses : w \in by(s) /\ w \in by(t)
    <3>1. /\ by(s) \in SUBSET Witnesses /\ Cardinality(by(s)) >= Quorum
          /\ by(t) \in SUBSET Witnesses /\ Cardinality(by(t)) >= Quorum
      BY <1>2 DEF HasQuorum
    <3> HIDE DEF by
    <3> QED  BY <1>2, <3>1, QuorumsMeet
  <2> QED  BY <1>1, <2>1
<1> QED  BY <1>1, <1>2 DEF OneHistory

-----------------------------------------------------------------------------
(***************************************************************************)
(* The directory.                                                          *)
(***************************************************************************)

DirectoryInv ==
    /\ Chain(events)
    /\ VerifyDirectory(events, PrevOf(events))
    /\ events[1].data = <<FirstKey, Recovery>>

\* Who may sign an event of a type.
May(type) == (IF type = "RECOVER" THEN {} ELSE {Active})
                \union (IF type = "ROTATE" THEN {} ELSE {Recovery})

\* t is the directory with one event more.
Longer(t, e) ==
    /\ Chain(t) /\ Len(events) \in Nat \ {0} /\ t # <<>>
    /\ DOMAIN events = 1 .. Len(events) /\ DOMAIN t = 1 .. (Len(events) + 1)
    /\ Len(t) = Len(events) + 1
    /\ t[Len(events) + 1] = e /\ \A n \in 1 .. Len(events) : t[n] = events[n]
    /\ \A n \in 1 .. (Len(events) + 1) : SubSeq(t, 1, n - 1) = SubSeq(events, 1, n - 1)
    /\ SubSeq(events, 1, Len(events)) = events

LEMMA DirectoryGrows ==
    ASSUME DirectoryInv, NEW e
    PROVE  Longer(Append(events, e), e)
<1>1. Len(events) # 0
  <2>1. PICK S : events \in Seq(S)
    BY DEF DirectoryInv, Chain
  <2> QED  BY <2>1, EmptySeq DEF DirectoryInv, VerifyDirectory
<1>2. Append(events, e) # <<>>
  <2>1. PICK S : Append(events, e) \in Seq(S)
    BY ChainAppend DEF DirectoryInv, Chain
  <2>2. Len(Append(events, e)) # 0
    BY ChainAppend DEF DirectoryInv
  <2> QED  BY <2>1, <2>2, EmptySeq
<1> QED  BY <1>1, <1>2, ChainAppend DEF DirectoryInv, Longer

\* What was active stays what was active then.
LEMMA ActiveStays ==
    ASSUME DirectoryInv, NEW t, NEW e, Longer(t, e), NEW seq \in 0 .. (Len(events) - 1)
    PROVE  ActiveAt(t, seq) = ActiveAt(events, seq)
<1> DEFINE P == {i \in 1 .. seq + 1 : events[i].type # "REVOKE"}
           Q == {i \in 1 .. seq + 1 : t[i].type # "REVOKE"}
<1>1. seq + 1 \in 1 .. Len(events) /\ Len(events) \in Nat
  BY DEF Longer
<1>2. \A i \in 1 .. seq + 1 : i \in 1 .. Len(events) /\ t[i] = events[i]
  BY <1>1 DEF Longer
<1>3. P = Q
  BY <1>2
<1>4. P # {}
  <2>1. 1 \in DOMAIN events /\ events[1].type = "GENESIS"
    BY <1>1 DEF Longer, DirectoryInv, VerifyDirectory
  <2> QED  BY <1>1, <2>1
<1>5. Max(P) \in 1 .. seq + 1
  <2>1. P \in SUBSET (1 .. seq + 1) /\ seq + 1 \in Nat
    BY <1>1
  <2> HIDE DEF P
  <2> QED  BY <1>4, <2>1, MaxOfPositions
<1> QED  BY <1>2, <1>3, <1>5 DEF ActiveAt

\* An event is verified with those before it, if its signer had the authority.
LEMMA EventIsVerified ==
    ASSUME DirectoryInv, NEW type \in {"ROTATE", "RECOVER", "REVOKE"}, NEW data, NEW signer,
           NEW e, e = Event(events, type, data, signer), NEW t, Longer(t, e),
           NEW head \in {NoHead, PrevOf(t)}
    PROVE  VerifyDirectory(t, head) <=> signer \in May(type)
<1> DEFINE n == Len(events)
           holds(es, i) == /\ es[i].seq = i - 1
                           /\ es[i].prev = PrevOf(SubSeq(es, 1, i - 1))
                           /\ es[i].type = "GENESIS" <=> i = 1
                           /\ \E k \in Authority(es, i) : es[i].sig = <<k, Body(es[i])>>
                           /\ es[i].hash = HashOf(es[i])
<1>1. /\ \A i \in 1 .. n : holds(events, i)
      /\ RecoveryOf(events) # events[1].data[1] /\ RecoveryOf(events) = Recovery
      /\ n \in Nat \ {0}
  BY DEF DirectoryInv, VerifyDirectory, Longer, RecoveryOf
<1>2. t[1] = events[1] /\ RecoveryOf(t) = RecoveryOf(events)
  BY <1>1 DEF Longer, RecoveryOf
<1>3. ASSUME NEW i \in 1 .. n
      PROVE  holds(t, i)
  <2>1. t[i] = events[i] /\ SubSeq(t, 1, i - 1) = SubSeq(events, 1, i - 1) /\ holds(events, i)
    BY <1>1 DEF Longer
  <2>2. Authority(t, i) = Authority(events, i)
    <3>1. CASE i = 1
      BY <1>2, <2>1, <3>1 DEF Authority
    <3>2. CASE i # 1
      <4>1. i - 2 \in 0 .. (n - 1)
        BY <1>1, <3>2
      <4>2. ActiveAt(t, i - 2) = ActiveAt(events, i - 2)
        BY <4>1, ActiveStays
      <4> QED  BY <1>2, <2>1, <4>2 DEF Authority
    <3> QED  BY <3>1, <3>2
  <2> QED  BY <2>1, <2>2
<1>4. holds(t, n + 1) <=> signer \in May(type)
  <2>1. /\ t[n + 1] = e /\ e.seq = n /\ e.type = type /\ e.prev = PrevOf(events)
        /\ e.sig = <<signer, Body(e)>> /\ e.hash = HashOf(e)
    BY DEF Longer, Event, Body, HashOf
  <2>2. SubSeq(t, 1, (n + 1) - 1) = events /\ (n + 1) - 1 = n /\ n + 1 # 1
    BY <1>1 DEF Longer
  <2>3. ActiveAt(t, (n + 1) - 2) = Active
    <3>1. (n + 1) - 2 = n - 1 /\ n - 1 \in 0 .. (n - 1)
      BY <1>1
    <3> QED  BY <3>1, ActiveStays DEF Active
  <2>4. Authority(t, n + 1) = May(type)
    BY <1>1, <1>2, <2>1, <2>3 DEF Authority, May
  <2>5. (\E k \in Authority(t, n + 1) : e.sig = <<k, Body(e)>>) <=> signer \in May(type)
    BY <2>1, <2>4
  <2> HIDE DEF n
  <2> QED  BY <2>1, <2>2, <2>5
<1>5. DOMAIN t = 1 .. (n + 1) /\ \A i \in 1 .. (n + 1) : i \in 1 .. n \/ i = n + 1
  BY <1>1 DEF Longer
<1>6. (\A i \in DOMAIN t : holds(t, i)) <=> signer \in May(type)
  <2> HIDE DEF holds, n
  <2>1. n + 1 \in 1 .. (n + 1)
    BY <1>1
  <2> QED  BY <1>3, <1>4, <1>5, <2>1
<1>7. t # <<>> /\ RecoveryOf(t) # t[1].data[1]
  BY <1>1, <1>2 DEF Longer
<1> QED  BY <1>6, <1>7 DEF VerifyDirectory

\* u is s of length m and then t of length n.
Together(u, S, s, m, t, n) ==
    /\ u \in Seq(S) /\ Len(u) = m + n
    /\ \A i \in 1 .. m : u[i] = s[i]
    /\ \A i \in m + 1 .. m + n : u[i] = t[i - m]

LEMMA ConcatIs ==
    ASSUME NEW S, NEW s \in Seq(S), NEW t \in Seq(S), NEW m \in Nat, NEW n \in Nat,
           Len(s) = m, Len(t) = n
    PROVE  Together(s \o t, S, s, m, t, n)
<1> DEFINE u == s \o t
<1>1. /\ u \in Seq(S) /\ Len(u) = m + n
      /\ \A i \in 1 .. m + n : u[i] = IF i <= m THEN s[i] ELSE t[i - m]
  BY ConcatProperties, Zenon
<1>2. \A i \in 1 .. m : i \in 1 .. m + n /\ i <= m
  OBVIOUS
<1>3. \A i \in m + 1 .. m + n : i \in 1 .. m + n /\ ~(i <= m)
  OBVIOUS
<1> HIDE DEF u
<1>4. /\ \A i \in 1 .. m : u[i] = s[i]
      /\ \A i \in m + 1 .. m + n : u[i] = t[i - m]
  BY <1>1, <1>2, <1>3
<1> QED  BY <1>1, <1>4 DEF u, Together

\* u is s, of length n, without the i-th of its elements.
Lacks(u, S, s, n, i) ==
    /\ u \in Seq(S) /\ Len(u) = n - 1
    /\ \A h \in 1 .. (i - 1) : u[h] = s[h]
    /\ \A h \in i .. (n - 1) : u[h] = s[h + 1]

LEMMA WithoutOne ==
    ASSUME NEW S, NEW s \in Seq(S), NEW n \in Nat, Len(s) = n, NEW i \in 1 .. n
    PROVE  Lacks(SubSeq(s, 1, i - 1) \o SubSeq(s, i + 1, n), S, s, n, i)
<1> DEFINE before == SubSeq(s, 1, i - 1)
           after == SubSeq(s, i + 1, n)
           u == before \o after
<1>1. before \in Seq(S) /\ Len(before) = i - 1 /\ \A h \in 1 .. (i - 1) : before[h] = s[h]
  <2>1. \A h \in 1 .. (i - 1) : s[h] \in S
    BY ElementOfSeq
  <2> QED  BY <2>1, SubSeqProperties
<1>2. after \in Seq(S) /\ Len(after) = n - i /\ \A h \in 1 .. (n - i) : after[h] = s[i + h]
  <2>1. \A h \in (i + 1) .. n : s[h] \in S
    BY ElementOfSeq
  <2> QED  BY <2>1, SubSeqProperties
<1>3. i - 1 \in Nat /\ n - i \in Nat
  OBVIOUS
<1> HIDE DEF before, after
<1>4. Together(u, S, before, i - 1, after, n - i)
  BY <1>1, <1>2, <1>3, ConcatIs
<1> HIDE DEF u
<1>5. /\ u \in Seq(S) /\ Len(u) = (i - 1) + (n - i)
      /\ \A h \in 1 .. (i - 1) : u[h] = before[h]
      /\ \A h \in (i - 1) + 1 .. (i - 1) + (n - i) : u[h] = after[h - (i - 1)]
  BY <1>4 DEF Together
<1>6. ASSUME NEW h \in i .. (n - 1)
      PROVE  u[h] = s[h + 1]
  <2>1. /\ h \in (i - 1) + 1 .. (i - 1) + (n - i)
        /\ h - (i - 1) \in 1 .. (n - i) /\ i + (h - (i - 1)) = h + 1
    OBVIOUS
  <2> QED  BY <1>2, <1>5, <2>1
<1>7. (i - 1) + (n - i) = n - 1
  OBVIOUS
<1>8. Lacks(u, S, s, n, i)
  BY <1>1, <1>5, <1>6, <1>7 DEF Lacks
<1> QED  BY <1>8 DEF u, before, after

LEMMA DirectoryStarts == Init => DirectoryInv
<1> SUFFICES ASSUME Init
             PROVE  DirectoryInv
  OBVIOUS
<1> DEFINE e == Event(<<>>, "GENESIS", <<FirstKey, Recovery>>, FirstKey)
<1>1. events = <<e>> /\ Chain(events) /\ DOMAIN events = 1 .. 1 /\ events[1] = e /\ events # <<>>
  <2>1. events = <<e>>
    BY DEF Init
  <2> HIDE DEF e
  <2>2. events \in Seq({e}) /\ Len(events) = 1 /\ events[1] = e
    BY <2>1
  <2> QED  BY <2>1, <2>2, LenProperties DEF Chain
<1>2. /\ e.seq = 0 /\ e.type = "GENESIS" /\ e.data = <<FirstKey, Recovery>>
      /\ e.prev = PrevOf(<<>>) /\ e.sig = <<FirstKey, Body(e)>> /\ e.hash = HashOf(e)
  <2>1. Len(<<>>) = 0
    OBVIOUS
  <2> QED  BY <2>1 DEF Event, Body, HashOf
<1>3. SubSeq(events, 1, 1 - 1) = <<>>
  <2>1. events \in Seq({e})
    BY <1>1
  <2> HIDE DEF e
  <2>2. SubSeq(events, 1, 1 - 1) \in Seq({e}) /\ Len(SubSeq(events, 1, 1 - 1)) = 0
    BY <2>1, <1>1, SubSeqProperties
  <2> QED  BY <2>2, EmptySeq
<1>4. Authority(events, 1) = {FirstKey}
  BY <1>1, <1>2 DEF Authority
<1>5. RecoveryOf(events) # events[1].data[1]
  BY <1>1, <1>2, KeyAssumption DEF RecoveryOf
<1> HIDE DEF e
<1>6. \A i \in DOMAIN events : i = 1
  BY <1>1
<1>7. /\ events[1].seq = 1 - 1 /\ events[1].hash = HashOf(events[1])
      /\ events[1].prev = PrevOf(SubSeq(events, 1, 1 - 1))
      /\ events[1].type = "GENESIS"
      /\ events[1].sig = <<FirstKey, Body(events[1])>>
  <2>1. 1 - 1 = 0
    OBVIOUS
  <2>2. events[1] = e
    BY <1>1
  <2>3. PrevOf(SubSeq(events, 1, 1 - 1)) = PrevOf(<<>>)
    BY <1>3
  <2> QED  BY <1>2, <2>1, <2>2, <2>3
<1>8. ASSUME NEW i \in DOMAIN events
      PROVE  /\ events[i].seq = i - 1
             /\ events[i].prev = PrevOf(SubSeq(events, 1, i - 1))
             /\ events[i].type = "GENESIS" <=> i = 1
             /\ \E k \in Authority(events, i) : events[i].sig = <<k, Body(events[i])>>
             /\ events[i].hash = HashOf(events[i])
  <2>1. i = 1
    BY <1>6
  <2>2. FirstKey \in Authority(events, 1)
    BY <1>4
  <2> QED  BY <1>7, <2>1, <2>2
<1>9. VerifyDirectory(events, PrevOf(events))
  BY <1>1, <1>5, <1>8 DEF VerifyDirectory
<1> QED  BY <1>1, <1>2, <1>9 DEF DirectoryInv

\* What an action adds its signer may add.
LEMMA AddKeeps ==
    ASSUME DirectoryInv, NEW type \in {"ROTATE", "RECOVER", "REVOKE"}, NEW k, NEW signer \in May(type),
           Add(type, k, signer)
    PROVE  DirectoryInv'
<1> DEFINE e == Event(events, type, <<k>>, signer)
<1>1. events' = Append(events, e)
  BY DEF Add
<1>2. Longer(events', e)
  BY <1>1, DirectoryGrows
<1>3. VerifyDirectory(events', PrevOf(events'))
  BY <1>2, EventIsVerified
<1>4. Chain(events') /\ events'[1] = events[1]
  BY <1>2 DEF Longer
<1> QED  BY <1>3, <1>4 DEF DirectoryInv

\* A step changes the directory by an event that was allowed, or not at all.
LEMMA DirectoryKeeps ==
    ASSUME DirectoryInv, [Next]_vars
    PROVE  DirectoryInv'
<1>1. CASE UNCHANGED events
  BY <1>1 DEF DirectoryInv
<1>2. ASSUME NEW k \in Keys, Rotate(k) \/ Recover(k) \/ Revoke(k)
      PROVE  DirectoryInv'
  <2>1. CASE Rotate(k)
    BY <2>1, AddKeeps DEF Rotate, May
  <2>2. CASE Recover(k)
    BY <2>2, AddKeeps DEF Recover, May
  <2>3. CASE Revoke(k)
    BY <2>3, AddKeeps DEF Revoke, May
  <2> QED  BY <1>2, <2>1, <2>2, <2>3
<1>3. CASE LogStep
  BY <1>1, <1>3 DEF LogStep
<1> QED  BY <1>1, <1>2, <1>3 DEF Next, vars

\* A damaged document says of an event that it stands where it does not, or has
\* not the head that was claimed.
LEMMA DirectoryInvRefuses ==
    ASSUME DirectoryInv
    PROVE  WriterIsVerified /\ DamageIsRefused
<1> DEFINE n == Len(events)
<1>1. PICK S : events \in Seq(S)
  BY DEF DirectoryInv, Chain
<1>2. /\ n \in Nat \ {0} /\ DOMAIN events = 1 .. n
      /\ \A i \in 1 .. n : /\ events[i].seq = i - 1 /\ events[i].hash = HashOf(events[i])
                           /\ events[i].type = "GENESIS" <=> i = 1
  BY DirectoryGrows DEF DirectoryInv, VerifyDirectory, Longer
<1>3. ASSUME NEW i \in 1 .. n
      PROVE  /\ Without(i) \in Seq(S) /\ Len(Without(i)) = n - 1
             /\ \A h \in 1 .. (i - 1) : Without(i)[h] = events[h]
             /\ \A h \in i .. (n - 1) : Without(i)[h] = events[h + 1]
  <2>1. Lacks(Without(i), S, events, n, i)
    BY <1>1, <1>2, WithoutOne DEF Without
  <2> QED  BY <2>1 DEF Lacks
<1>4. ASSUME NEW i \in 1 .. n - 1, NEW head
      PROVE  ~VerifyDirectory(Without(i), head) /\ ~VerifyDirectory(Swapped(i), head)
  <2>1. i \in 1 .. n /\ i + 1 \in 1 .. n /\ i \in Nat /\ i \in i .. (n - 1) /\ i \in 1 .. (n - 1)
    BY <1>2
  <2>2. Without(i)[i] = events[i + 1] /\ i \in DOMAIN Without(i)
    BY <1>2, <1>3, <2>1, LenProperties
  <2>3. Swapped(i)[i] = events[i + 1] /\ i \in DOMAIN Swapped(i)
    BY <1>2, <2>1 DEF Swapped
  <2>4. events[i + 1].seq # i - 1
    BY <1>2, <2>1
  <2> QED  BY <2>2, <2>3, <2>4 DEF VerifyDirectory
<1>5. ASSUME Without(n) # <<>>
      PROVE  PrevOf(Without(n)) # PrevOf(events)
  <2>1. n \in 1 .. n
    BY <1>2
  <2>2. PICK w : w = Without(n)
    OBVIOUS
  <2>3. w \in Seq(S) /\ Len(w) = n - 1 /\ \A h \in 1 .. (n - 1) : w[h] = events[h]
    BY <1>3, <2>1, <2>2
  <2>4. n - 1 \in 1 .. (n - 1) /\ n - 1 \in 1 .. n
    BY <1>2, <1>5, <2>2, <2>3, EmptySeq
  <2>5. Last(w) = events[n - 1] /\ Last(events) = events[n]
    BY <2>3, <2>4 DEF Last
  <2>6. events[n - 1].hash # events[n].hash
    BY <1>2, <2>1, <2>4 DEF HashOf, Body
  <2>7. events # <<>>
    BY DEF DirectoryInv, VerifyDirectory
  <2> QED  BY <1>5, <2>2, <2>5, <2>6, <2>7 DEF PrevOf
<1>6. ASSUME NEW head \in {NoHead, PrevOf(events)}, head # NoHead
      PROVE  ~VerifyDirectory(Without(n), head)
  BY <1>5, <1>6 DEF VerifyDirectory
<1>7. ASSUME NEW type \in {"ROTATE", "RECOVER", "REVOKE"}, NEW k \in Keys, NEW signer \in Keys,
             NEW es, es = Append(events, Event(events, type, <<k>>, signer)),
             VerifyDirectory(es, NoHead)
      PROVE  signer \in May(type)
  <2>1. Longer(es, Event(events, type, <<k>>, signer))
    BY <1>7, DirectoryGrows
  <2> QED  BY <1>7, <2>1, EventIsVerified
<1>8. WriterIsVerified
  BY DEF WriterIsVerified, DirectoryInv
<1>9. DamageIsRefused
  BY <1>4, <1>6, <1>7 DEF DamageIsRefused, May
<1> QED  BY <1>8, <1>9

-----------------------------------------------------------------------------
(***************************************************************************)
(* All together.                                                           *)
(***************************************************************************)

Inv == DirectoryInv /\ WitnessInv /\ LogsInv

\* A longer log and an older one are logs.
LEMMA LogGrows ==
    ASSUME log \in Logs, NEW p \in Payloads, Len(log) < MaxLog
    PROVE  Append(log, p) \in Logs
<1> DEFINE n == Len(log)
           t == Append(log, p)
<1>1. log \in Seq(Payloads) /\ n \in Nat
  BY LogIs, TransparencyAssumption
<1>2. t \in Seq(Payloads) /\ Len(t) = n + 1
  BY <1>1, AppendProperties
<1>3. n + 1 <= MaxLog
  BY <1>1, TransparencyAssumption
<1> QED  BY <1>2, <1>3, LogFrom

LEMMA LogShrinks ==
    ASSUME log \in Logs, NEW n \in Nat, n < Len(log)
    PROVE  SubSeq(log, 1, n) \in Logs
<1> DEFINE t == SubSeq(log, 1, n)
<1>1. /\ log \in Seq(Payloads) /\ Len(log) \in Nat
      /\ DOMAIN log = 1 .. Len(log) /\ \A i \in 1 .. Len(log) : log[i] \in Payloads
      /\ Len(log) <= MaxLog
  BY LogIs, TransparencyAssumption
<1>2. t \in Seq(Payloads) /\ Len(t) = n
  <2>1. \A i \in 1 .. n : log[i] \in Payloads
    BY <1>1
  <2> QED  BY <1>1, <2>1, SubSeqProperties
<1>3. n <= MaxLog
  BY <1>1, TransparencyAssumption
<1> QED  BY <1>2, <1>3, LogFrom

LEMMA InitInv == Init => Inv
<1> SUFFICES ASSUME Init
             PROVE  Inv
  OBVIOUS
<1>1. log = <<>> /\ heads = {<<>>}
  BY DEF Init, LogInit
<1>2. <<>> \in Logs
  <2>1. <<>> \in Seq(Payloads) /\ Len(<<>>) = 0
    OBVIOUS
  <2>2. \A s \in Seq(Payloads) : Len(s) = 0 => s \in Logs
    <3>1. \A s \in Seq(Payloads) : Len(s) = 0 => Len(s) <= MaxLog
      BY TransparencyAssumption
    <3> QED  BY <3>1, LogFrom
  <2> QED  BY <2>1, <2>2, Zenon
<1>3. WitnessInv
  <2>1. Len(<<>>) = 0
    OBVIOUS
  <2> QED  BY <1>2, <2>1 DEF WitnessInv, Init, LogInit, Remembers, Seen
<1> QED  BY <1>1, <1>2, <1>3, DirectoryStarts DEF Inv, LogsInv

LEMMA LogStepKeeps ==
    ASSUME Inv, LogStep
    PROVE  LogsInv' /\ WitnessInv'
<1>1. ASSUME NEW p \in Payloads, Publish(p)
      PROVE  LogsInv' /\ WitnessInv'
  <2>1. /\ log' = Append(log, p) /\ heads' = heads \union {log'}
        /\ memory' = memory /\ cosigned' = cosigned /\ Len(log) < MaxLog
    BY <1>1 DEF Publish
  <2>2. log' \in Logs
    BY <2>1, LogGrows DEF Inv, LogsInv
  <2>3. WitnessInv'
    BY <2>1 DEF Inv, WitnessInv, Remembers
  <2> QED  BY <2>1, <2>2, <2>3 DEF Inv, LogsInv
<1>2. ASSUME NEW n \in 0 .. MaxLog, Restore(n)
      PROVE  LogsInv' /\ WitnessInv'
  <2>1. /\ log' = SubSeq(log, 1, n) /\ heads' = heads
        /\ memory' = memory /\ cosigned' = cosigned /\ n < Len(log) /\ n \in Nat
    BY <1>2, TransparencyAssumption DEF Restore
  <2>2. log' \in Logs
    BY <2>1, LogShrinks DEF Inv, LogsInv
  <2>3. WitnessInv'
    BY <2>1 DEF Inv, WitnessInv, Remembers
  <2> QED  BY <2>1, <2>2, <2>3 DEF Inv, LogsInv
<1>3. ASSUME NEW w \in Witnesses, NEW s \in heads, Cosign(w, s)
      PROVE  LogsInv' /\ WitnessInv'
  <2>1. s \in Logs
    BY DEF Inv, LogsInv
  <2>2. WitnessInv'
    BY <1>3, <2>1, CosignKeeps DEF Inv
  <2>3. log' = log /\ heads' = heads
    BY <1>3 DEF Cosign
  <2> QED  BY <2>2, <2>3 DEF Inv, LogsInv
<1> QED  BY <1>1, <1>2, <1>3 DEF LogStep

LEMMA NextInv == Inv /\ [Next]_vars => Inv'
<1> SUFFICES ASSUME Inv, [Next]_vars
             PROVE  Inv'
  OBVIOUS
<1>1. DirectoryInv'
  BY DirectoryKeeps DEF Inv
<1>2. CASE LogStep
  BY <1>1, <1>2, LogStepKeeps DEF Inv
<1>3. CASE UNCHANGED logVars
  BY <1>1, <1>3 DEF Inv, LogsInv, WitnessInv, Remembers, logVars
<1>4. ASSUME NEW k \in Keys, Rotate(k) \/ Recover(k) \/ Revoke(k)
      PROVE  UNCHANGED logVars
  BY <1>4 DEF Rotate, Recover, Revoke, Add
<1>5. UNCHANGED vars => UNCHANGED logVars
  BY DEF vars, logVars
<1> QED  BY <1>2, <1>3, <1>4, <1>5 DEF Next

\* What stands at an index of a cosigned log stands there in another that is long
\* enough.
LEMMA SamePlace ==
    ASSUME NEW s \in Logs, NEW t \in Logs, IsPrefix(s, t) \/ IsPrefix(t, s),
           NEW i \in Nat, i < Len(s), i < Len(t)
    PROVE  i + 1 \in DOMAIN t /\ t[i + 1] = s[i + 1]
<1>1. /\ DOMAIN t = 1 .. Len(t) /\ Len(s) \in Nat /\ Len(t) \in Nat
  BY LogIs, TransparencyAssumption
<1>2. i + 1 \in 1 .. Len(s) /\ i + 1 \in 1 .. Len(t)
  BY <1>1
<1>3. CASE IsPrefix(s, t)
  BY <1>1, <1>2, <1>3, PrefixIs
<1>4. CASE IsPrefix(t, s)
  BY <1>1, <1>2, <1>4, PrefixIs
<1> QED  BY <1>3, <1>4

\* A receipt with a quorum says where a payload stands in a log that was signed.
LEMMA AnchoredIs ==
    ASSUME LogsInv, NEW p \in Payloads, NEW r \in Receipts, Anchored(p, r.index, r.log)
    PROVE  /\ r.log \in Logs /\ r.log \in heads /\ HasQuorum(r.log)
           /\ r.index \in Nat /\ r.index < Len(r.log) /\ r.log[r.index + 1] = p
<1>1. PICK s \in heads : r \in {[log |-> s, index |-> i] : i \in 0 .. Len(s) - 1}
  BY DEF Receipts
<1>2. PICK i \in 0 .. Len(s) - 1 : r = [log |-> s, index |-> i]
  BY <1>1
<1>3. r.log = s /\ r.index = i /\ s \in Logs
  BY <1>2 DEF LogsInv
<1>4. Len(s) \in Nat
  BY <1>3, LogIs, TransparencyAssumption
<1>5. s[i + 1] = p
  BY <1>3, ProofsAreSound DEF Anchored
<1> QED  BY <1>3, <1>4, <1>5 DEF Anchored

\* What a receipt says of a log, every log with a quorum that is long enough says.
LEMMA InvLateIsRefused ==
    ASSUME 2 * Quorum > Cardinality(Witnesses), Inv
    PROVE  LateIsRefused
<1> SUFFICES ASSUME NEW k \in Keys, Revoked(k), NEW m \in Payloads,
                    NEW u \in heads, HasQuorum(u), m \notin Range(u),
                    NEW a \in Receipts, NEW b \in Receipts, b.index < Len(u),
                    NEW seq \in 0 .. Len(events) - 1, NEW revoked \in Payloads,
                    VerifyAs(m, k, seq, a, revoked, b)
             PROVE  FALSE
  BY DEF LateIsRefused
<1>1. AnchoredBefore(m, a, revoked, b)
  BY DEF VerifyAs
<1>2. /\ a.log \in Logs /\ a.log \in heads /\ HasQuorum(a.log)
      /\ a.index \in Nat /\ a.index < Len(a.log) /\ a.log[a.index + 1] = m
  BY <1>1, AnchoredIs DEF AnchoredBefore, Inv
<1>3. a.index < Len(u) /\ u \in Logs
  <2>1. b.index \in Nat /\ a.index < b.index
    BY <1>1, AnchoredIs DEF AnchoredBefore, Inv
  <2>2. u \in Logs /\ Len(u) \in Nat
    BY LogIs, TransparencyAssumption DEF Inv, LogsInv
  <2> QED  BY <1>2, <2>1, <2>2
<1>4. IsPrefix(a.log, u) \/ IsPrefix(u, a.log)
  <2>1. OneHistory
    BY WitnessInvOneHistory DEF Inv
  <2> QED  BY <1>2, <2>1 DEF OneHistory
<1>5. PICK s \in Logs : s = a.log
  BY <1>2
<1>6. PICK i \in Nat : i = a.index
  BY <1>2
<1>7. i + 1 \in DOMAIN u /\ u[i + 1] = m
  BY <1>2, <1>3, <1>4, <1>5, <1>6, SamePlace
<1> QED  BY <1>7 DEF Range

-----------------------------------------------------------------------------
LEMMA SpecInv == Spec => []Inv
<1>1. Init => Inv
  BY InitInv
<1>2. Inv /\ [Next]_vars => Inv'
  BY NextInv
<1> QED  BY <1>1, <1>2, PTL DEF Spec

\* A witness cosigns one history, and two quorums of a majority share a witness
\* (anchor.py, Witness.cosign and verify_witness_quorum).
THEOREM WitnessesHoldOneHistory == Spec => []OneHistory
<1>1. Inv => OneHistory
  BY WitnessInvOneHistory DEF Inv
<1> QED  BY <1>1, SpecInv, PTL

\* Whatever keys are rotated, recovered and revoked, and by whichever of the
\* two that may, the verifier accepts what the writer wrote (keydir.py).
THEOREM TheWriterIsVerified == Spec => []WriterIsVerified
<1>1. Inv => WriterIsVerified
  BY DirectoryInvRefuses DEF Inv
<1> QED  BY <1>1, SpecInv, PTL

\* An event left out with others after it, two swapped or one more by a key
\* without the authority is refused in every document, and the last one left out
\* in every document that says its head (keydir.py, verify_directory).
THEOREM TheDamagedIsRefused == Spec => []DamageIsRefused
<1>1. Inv => DamageIsRefused
  BY DirectoryInvRefuses DEF Inv
<1> QED  BY <1>1, SpecInv, PTL

\* Where a relying party asks for a majority of the witnesses, a message that a
\* cosigned log lacks is accepted, under a key that was revoked, by no receipt for
\* the revocation from before the end of that log (keydir.py, verify_as_identity).
THEOREM TheLateIsRefused ==
    ASSUME 2 * Quorum > Cardinality(Witnesses)
    PROVE  Spec => []LateIsRefused
<1>1. Inv => LateIsRefused
  BY InvLateIsRefused
<1> QED  BY <1>1, SpecInv, PTL
=============================================================================
