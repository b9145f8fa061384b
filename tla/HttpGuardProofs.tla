--------------------------- MODULE HttpGuardProofs ---------------------------
(***************************************************************************)
(* Theorems about the HTTP server, for every number of connections,        *)
(* clients, writers, requests and failures.                                *)
(*                                                                         *)
(* First the audit log as the server and the programs beside it use it     *)
(* (AuditLog within HttpGuard): the file is one unbroken chain, and an     *)
(* append that was acknowledged is in it.  Both rest on appends taking     *)
(* turns, which an SqliteStore gives and a JsonStore only to a process     *)
(* that is alone: then what a transaction read is still the whole file     *)
(* when it lands.  Then the records of the requests, and the limiter.      *)
(***************************************************************************)
EXTENDS HttpGuard, FiniteSetTheorems, SequenceTheorems, TLAPS

TakesTurns == Backend = "sqlite" \/ \A v, w \in Writers : v = w

IsChain(s) == \E S : s \in Seq(S)

\* At most one append is running, and the file is as it found it.
Turns ==
    /\ pending = [w \in Writers |-> pending[w]]
    /\ seen = [w \in Writers |-> seen[w]]
    /\ \A v, w \in Writers : pending[v] # Idle /\ pending[w] # Idle => v = w
    /\ \A w \in Writers : pending[w] # Idle => seen[w] = records

AuditInv == IsChain(records) /\ Turns /\ LogVerifies /\ AckedIsRecorded

\* The steps of the log, whoever takes them.
AuditStep == \E w \in Writers :
    \/ \E e : BeginAppend(w, e) \/ RefuseAppend(w, e)
    \/ EndAppend(w)
    \/ AbandonAppend(w)

-----------------------------------------------------------------------------
\* A chain that is appended to keeps what it has.
LEMMA ChainGrows ==
    ASSUME NEW s, IsChain(s), NEW r
    PROVE  LET t == Append(s, r)
           IN  /\ IsChain(t)
               /\ Len(s) \in Nat /\ DOMAIN s = 1 .. Len(s)
               /\ Len(t) = Len(s) + 1 /\ DOMAIN t = 1 .. (Len(s) + 1)
               /\ t[Len(s) + 1] = r
               /\ \A i \in 1 .. Len(s) : t[i] = s[i]
               /\ s = <<>> <=> Len(s) = 0
<1>1. PICK S : s \in Seq(S)
  BY DEF IsChain
<1> DEFINE R == S \union {r}
           t == Append(s, r)
<1>2. s \in Seq(R) /\ r \in R
  BY <1>1
<1>3. t \in Seq(R)
  BY <1>2
<1> QED  BY <1>2, <1>3 DEF IsChain

\* A file that verifies, with the record that extends it, verifies.
LEMMA NextRecordVerifies ==
    ASSUME NEW w, NEW e, IsChain(records), LogVerifies
    PROVE  VerifyAudit(Append(records, NextRecord(w, records, e)))
<1> DEFINE n == Len(records)
           r == NextRecord(w, records, e)
           t == Append(records, r)
<1>1. /\ n \in Nat /\ DOMAIN records = 1 .. n
      /\ DOMAIN t = 1 .. (n + 1) /\ t[n + 1] = r
      /\ \A i \in 1 .. n : t[i] = records[i]
      /\ records = <<>> <=> n = 0
  BY ChainGrows
<1>2. r.entry = e /\ r.seq = n
  BY DEF NextRecord
<1>3. SUFFICES ASSUME NEW i \in 1 .. (n + 1)
               PROVE  /\ t[i].log = t[1].log /\ t[i].seq = i - 1
                      /\ t[i].prev = IF i = 1 THEN <<>> ELSE Hash(t[i - 1])
  BY <1>1 DEF VerifyAudit
<1>4. CASE i \in 1 .. n
  BY <1>1, <1>4 DEF LogVerifies, VerifyAudit
<1>5. CASE i = n + 1 /\ n = 0
  BY <1>1, <1>2, <1>5 DEF NextRecord
<1>6. CASE i = n + 1 /\ n # 0
  <2>1. Last(records) = records[n]
    BY DEF Last
  <2>2. r.log = records[n].log /\ r.prev = Hash(records[n])
    BY <1>1, <1>6, <2>1 DEF NextRecord
  <2>3. records[n].log = records[1].log /\ 1 \in 1 .. n /\ n \in 1 .. n
    BY <1>1, <1>6 DEF LogVerifies, VerifyAudit
  <2> QED  BY <1>1, <1>2, <1>6, <2>2, <2>3
<1> QED  BY <1>1, <1>4, <1>5, <1>6

LEMMA AuditStepKeeps ==
    ASSUME TakesTurns, AuditInv, AuditStep \/ UNCHANGED audit
    PROVE  AuditInv'
<1> USE DEF AuditInv, Turns, AckedIsRecorded, LogVerifies
<1>1. CASE UNCHANGED audit
  BY <1>1 DEF audit
<1>2. ASSUME NEW w \in Writers, NEW e, BeginAppend(w, e)
      PROVE  AuditInv'
  <2>1. \A v \in Writers : v # w => pending[v] = Idle
    BY <1>2, AuditAssumption DEF BeginAppend, TakesTurns
  <2> QED  BY <1>2, <2>1 DEF BeginAppend
<1>3. ASSUME NEW w \in Writers, NEW e, RefuseAppend(w, e)
      PROVE  AuditInv'
  BY <1>3 DEF RefuseAppend
<1>4. ASSUME NEW w \in Writers, EndAppend(w)
      PROVE  AuditInv'
  <2>1. CASE UNCHANGED <<records, seen, acked>>
    BY <1>4, <2>1 DEF EndAppend
  <2>2. CASE /\ records' = Append(seen[w], NextRecord(w, seen[w], pending[w]))
             /\ acked' = acked \union {pending[w]}
             /\ UNCHANGED seen
    <3> DEFINE r == NextRecord(w, records, pending[w])
               n == Len(records)
    <3>1. /\ pending[w] # Idle /\ records' = Append(records, r)
          /\ pending' = [pending EXCEPT ![w] = Idle]
      BY <1>4, <2>2 DEF EndAppend
    <3>2. VerifyAudit(records')
      BY <3>1, NextRecordVerifies
    <3>3. /\ IsChain(records') /\ DOMAIN records = 1 .. n /\ n \in Nat
          /\ DOMAIN records' = 1 .. (n + 1) /\ records'[n + 1] = r
          /\ \A i \in 1 .. n : records'[i] = records[i]
      BY <3>1, ChainGrows
    <3>4. acked' \subseteq Recorded(records')
      <4>1. r.entry = pending[w]
        BY DEF NextRecord
      <4>2. pending[w] \in Recorded(records')
        BY <3>3, <4>1 DEF Recorded
      <4>3. Recorded(records) \subseteq Recorded(records')
        BY <3>3 DEF Recorded
      <4> QED  BY <2>2, <4>2, <4>3
    <3>5. Turns'
      BY <3>1, <2>2
    <3> QED  BY <3>2, <3>3, <3>4, <3>5
  <2> QED  BY <1>4, <2>1, <2>2 DEF EndAppend
<1>5. ASSUME NEW w \in Writers, AbandonAppend(w)
      PROVE  AuditInv'
  BY <1>5 DEF AbandonAppend
<1> QED  BY <1>1, <1>2, <1>3, <1>4, <1>5 DEF AuditStep

-----------------------------------------------------------------------------
\* Whatever the server and the programs beside it do, they do it to the log in
\* the log's own steps.
LEMMA StepsAreAuditSteps == [Next]_vars => AuditStep \/ UNCHANGED audit
<1> SUFFICES ASSUME [Next]_vars
             PROVE  AuditStep \/ UNCHANGED audit
  OBVIOUS
<1>0. Server \in Writers
  BY HttpAssumption
<1>1. CASE UNCHANGED vars
  BY <1>1 DEF vars
<1>2. CASE Start
  BY <1>0, <1>2 DEF Start, Main, AuditStep
<1>3. CASE Stop
  BY <1>0, <1>3 DEF Stop, Main, AuditStep
<1>4. CASE Die
  BY <1>0, <1>4 DEF Die, AuditStep
<1>5. CASE Interrupt \/ Drain \/ Tick
  BY <1>5 DEF Interrupt, Drain, Tick
<1>6. ASSUME NEW c \in Conns, Record(c)
      PROVE  AuditStep \/ UNCHANGED audit
  BY <1>0, <1>6 DEF Record, AuditStep
<1>7. ASSUME NEW c \in Conns, Accept(c) \/ Close(c) \/ Count(c) \/ Receive(c)
                              \/ Limit(c)
      PROVE  UNCHANGED audit
  BY <1>7 DEF Accept, Close, Count, Receive, Limit
<1>8. ASSUME NEW w \in Writers, Note(w)
      PROVE  AuditStep \/ UNCHANGED audit
  BY <1>8 DEF Note, AuditStep
<1> QED  BY <1>1, <1>2, <1>3, <1>4, <1>5, <1>6, <1>7, <1>8 DEF Next, Thread

LEMMA AuditAlways == ASSUME TakesTurns PROVE Spec => []AuditInv
<1>1. Init => AuditInv
  <2> SUFFICES ASSUME Init
               PROVE  AuditInv
    OBVIOUS
  <2>1. records = <<>> /\ acked = {}
    BY DEF Init, AuditInit
  <2>2. IsChain(records)
    <3>1. records \in Seq({})
      BY <2>1
    <3> QED  BY <3>1 DEF IsChain
  <2>3. LogVerifies /\ AckedIsRecorded
    BY <2>1 DEF LogVerifies, VerifyAudit, AckedIsRecorded
  <2>4. Turns
    BY DEF Init, AuditInit, Turns
  <2> QED  BY <2>2, <2>3, <2>4 DEF AuditInv
<1>2. AuditInv /\ [Next]_vars => AuditInv'
  BY StepsAreAuditSteps, AuditStepKeeps
<1> QED  BY <1>1, <1>2, PTL DEF Spec

\* An append that returned its record is in the file for good, whatever other
\* threads and processes append, fail to append or die of (audit.py:158).
THEOREM AcknowledgedIsInTheLog == ASSUME TakesTurns PROVE Spec => []AckedIsRecorded
<1>1. AuditInv => AckedIsRecorded
  BY DEF AuditInv
<1> QED  BY AuditAlways, <1>1, PTL

\* The file verifies at every moment: no reader ever finds a cut or forked
\* chain, as the verifier has it (audit.py:251).
THEOREM LogAlwaysVerifies == ASSUME TakesTurns PROVE Spec => []LogVerifies
<1>1. AuditInv => LogVerifies
  BY DEF AuditInv
<1> QED  BY AuditAlways, <1>1, PTL

-----------------------------------------------------------------------------
(***************************************************************************)
(* The requests.                                                           *)
(***************************************************************************)
Phases == {"idle", "limit", "answered", "recording"}

RequestTypes ==
    /\ next \in [Conns -> Nat]
    /\ phase \in [Conns -> Phases]
    /\ status \in [Requests -> Nat]
    /\ DOMAIN authed = Conns /\ authed = [c \in Conns |-> authed[c]]
    /\ now \in [Conns -> Nat]
    /\ clock \in Nat
    /\ noted \in [Writers -> Nat]
    /\ \A c \in Conns :
          /\ next[c] \in 1 .. (Len(Script[c]) + 1)
          /\ phase[c] # "idle" => next[c] <= Len(Script[c])

LEMMA ScriptType ==
    ASSUME NEW c \in Conns
    PROVE  /\ Len(Script[c]) \in Nat
           /\ \A i \in 1 .. Len(Script[c]) : Script[c][i] \in Requests
BY HttpAssumption, LenProperties, ElementOfSeq

\* A request that is being dealt with is one of its connection's.
LEMMA CurrentType ==
    ASSUME RequestTypes, NEW c \in Conns, next[c] <= Len(Script[c])
    PROVE  /\ next[c] \in 1 .. Len(Script[c])
           /\ Current(c) = Script[c][next[c]]
           /\ Current(c) \in Requests
BY ScriptType DEF RequestTypes, Current

LEMMA StatusType ==
    \A r \in Requests : Preflight(r) \in Nat \ {0} /\ Verdict(r) \in Nat \ {0}
BY DEF Preflight, Verdict

\* A connection goes on behind its request, or to the end of its script.
LEMMA AfterType ==
    ASSUME RequestTypes, NEW c \in Conns, next[c] <= Len(Script[c])
    PROVE  After(c) \in 1 .. (Len(Script[c]) + 1) /\ After(c) > next[c]
BY ScriptType DEF RequestTypes, After

LEMMA RequestTypeStep == RequestTypes /\ [Next]_vars => RequestTypes'
<1> SUFFICES ASSUME RequestTypes, [Next]_vars
             PROVE  RequestTypes'
  OBVIOUS
<1> USE DEF RequestTypes, Phases
<1>1. CASE UNCHANGED <<next, phase, now, status, authed, clock, noted>>
  BY <1>1
<1>2. ASSUME NEW c \in Conns, Receive(c)
      PROVE  RequestTypes'
  <2>1. /\ next[c] \in 1 .. Len(Script[c]) /\ Current(c) \in Requests
        /\ Len(Script[c]) \in Nat
    BY <1>2, CurrentType, ScriptType DEF Receive
  <2>2. Preflight(Current(c)) \in Nat
    BY <2>1, StatusType
  <2>3. status' \in [Requests -> Nat]
    <3>1. \/ UNCHANGED status
          \/ status' = [status EXCEPT ![Current(c)] = Preflight(Current(c))]
          \/ status' = [status EXCEPT ![Current(c)] = 431]
      BY <1>2 DEF Receive
    <3>2. status \in [Requests -> Nat]
      OBVIOUS
    <3> HIDE DEF RequestTypes
    <3> QED  BY <2>1, <2>2, <3>1, <3>2
  <2>6. now' \in [Conns -> Nat]
    <3>1. now' = now \/ now' = [now EXCEPT ![c] = clock]
      BY <1>2 DEF Receive
    <3> QED  BY <3>1
  <2>4. UNCHANGED <<authed, clock, noted>>
    BY <1>2 DEF Receive
  <2>5. \/ next' = [next EXCEPT ![c] = @ + 1] /\ UNCHANGED phase /\ phase[c] = "idle"
        \/ /\ phase' \in {[phase EXCEPT ![c] = "answered"], [phase EXCEPT ![c] = "limit"]}
           /\ UNCHANGED next
    BY <1>2 DEF Receive
  <2>7. next' \in [Conns -> Nat] /\ phase' \in [Conns -> Phases]
    <3>1. next \in [Conns -> Nat] /\ phase \in [Conns -> Phases] /\ next[c] + 1 \in Nat
      OBVIOUS
    <3> HIDE DEF RequestTypes
    <3> QED  BY <2>5, <3>1
  <2>8. ASSUME NEW d \in Conns
        PROVE  /\ next'[d] \in 1 .. (Len(Script[d]) + 1)
               /\ phase'[d] # "idle" => next'[d] <= Len(Script[d])
    <3>1. /\ next \in [Conns -> Nat] /\ phase \in [Conns -> Phases]
          /\ next[d] \in 1 .. (Len(Script[d]) + 1) /\ Len(Script[d]) \in Nat
          /\ phase[d] # "idle" => next[d] <= Len(Script[d])
      BY ScriptType
    <3> HIDE DEF RequestTypes
    <3>2. CASE d = c
      BY <2>1, <2>5, <3>1, <3>2
    <3>3. CASE d # c
      BY <2>5, <3>1, <3>3
    <3> QED  BY <3>2, <3>3
  <2> QED  BY <2>3, <2>4, <2>6, <2>7, <2>8
<1>3. ASSUME NEW c \in Conns, Limit(c)
      PROVE  RequestTypes'
  <2>1. /\ next[c] \in 1 .. Len(Script[c]) /\ Current(c) \in Requests
    BY <1>3, CurrentType DEF Limit
  <2>2. Verdict(Current(c)) \in Nat
    BY <2>1, StatusType
  <2>3. status' \in [Requests -> Nat] /\ authed' = [d \in Conns |-> authed'[d]]
    BY <1>3, <2>1, <2>2 DEF Limit, Guard
  <2>4. /\ next' = next /\ clock' = clock /\ noted' = noted
        /\ phase[c] = "limit" /\ phase' = [phase EXCEPT ![c] = "answered"]
        /\ now' = [now EXCEPT ![c] = 0]
    BY <1>3 DEF Limit
  <2> QED  BY <2>1, <2>3, <2>4
<1>4. ASSUME NEW c \in Conns, Record(c)
      PROVE  RequestTypes'
  <2>1. next[c] <= Len(Script[c])
    BY <1>4 DEF Record
  <2>2. After(c) \in 1 .. (Len(Script[c]) + 1) /\ After(c) \in Nat
    BY <2>1, AfterType, ScriptType
  <2> QED  BY <1>4, <2>1, <2>2, ZenonT(30) DEF Record
<1>5. CASE Tick
  BY <1>5 DEF Tick
<1>6. ASSUME NEW w \in Writers, Note(w)
      PROVE  RequestTypes'
  <2>1. UNCHANGED <<next, phase, now, status, authed, clock>>
    BY <1>6 DEF Note
  <2>2. noted' = noted \/ noted' = [noted EXCEPT ![w] = @ + 1]
    BY <1>6 DEF Note
  <2>3. noted' \in [Writers -> Nat]
    <3>1. noted \in [Writers -> Nat]
      OBVIOUS
    <3> HIDE DEF RequestTypes
    <3> QED  BY <2>2, <3>1
  <2> QED  BY <2>1, <2>3
<1> QED  BY <1>1, <1>2, <1>3, <1>4, <1>5, <1>6
         DEF Next, Thread, vars, server, Start, Interrupt, Drain, Stop, Die, Accept,
             Close, Count

-----------------------------------------------------------------------------
(***************************************************************************)
(* The records of the requests.                                            *)
(***************************************************************************)

\* What the log, or the list of its failures, holds of a request.
Of(r) == {e \in acked \union errors : e.of = r}

\* Where a connection is, and what there is of its requests.
Progress(c, i) ==
    LET r == Script[c][i]
    IN  /\ i > next[c] \/ (i = next[c] /\ phase[c] = "idle") => status[r] = 0
        /\ i >= next[c] => Of(r) = {}
        /\ i < next[c] /\ Method[r] # "OPTIONS" /\ status[r] # 0 =>
              \E e : Of(r) = {e} /\ e.status = status[r]

RecordInv ==
    /\ pending = [w \in Writers |-> pending[w]]
    /\ \A w \in Writers \ {Server} : pending[w] # Idle => pending[w].of \notin Requests
    /\ \A c \in Conns : \A i \in 1 .. Len(Script[c]) : Progress(c, i)

\* What connection c does to one request of its own: nothing is known of it at
\* any other position of any script.
LEMMA OthersAreOthers ==
    ASSUME RequestTypes, NEW c \in Conns, next[c] <= Len(Script[c]),
           NEW d \in Conns, NEW i \in 1 .. Len(Script[d]),
           Script[d][i] = Current(c)
    PROVE  d = c /\ i = next[c]
BY CurrentType, RequestsAreDistinct

\* An entry that is of no request changes nothing.
LEMMA OtherEntry ==
    ASSUME RequestTypes, RecordInv, NEW w \in Writers, NEW e, e.of \notin Requests,
           BeginAppend(w, e) \/ RefuseAppend(w, e)
             \/ (pending[w] = e /\ EndAppend(w)),
           UNCHANGED <<status, phase, next>>
    PROVE  RecordInv'
<1> USE DEF RecordInv
<1>1. \A r \in Requests : Of(r)' = Of(r)
  BY DEF BeginAppend, RefuseAppend, EndAppend, Failed, Of
<1>2. /\ pending' = [v \in Writers |-> pending'[v]]
      /\ \A v \in Writers : pending'[v] # Idle => pending'[v] = e \/ pending'[v] = pending[v]
  BY DEF BeginAppend, RefuseAppend, EndAppend
<1>3. ASSUME NEW c \in Conns, NEW i \in 1 .. Len(Script[c])
      PROVE  Progress(c, i)'
  <2>1. Script[c][i] \in Requests /\ Progress(c, i)
    BY ScriptType
  <2> QED  BY <1>1, <2>1 DEF Progress
<1> QED  BY <1>2, <1>3

\* A thread that answers without a record.
LEMMA AnswerStep ==
    ASSUME RequestTypes, RecordInv, NEW c \in Conns, next[c] <= Len(Script[c]),
           UNCHANGED audit,
           \A r \in Requests : r # Current(c) => status'[r] = status[r],
           \A d \in Conns : d # c => next'[d] = next[d] /\ phase'[d] = phase[d],
           \/ next'[c] = next[c] /\ phase'[c] # "idle"
           \/ next'[c] = next[c] + 1 /\ Method[Current(c)] = "OPTIONS",
           (next'[c] = next[c] /\ phase[c] = "idle") =>
              (UNCHANGED status \/ phase'[c] # "idle")
    PROVE  RecordInv'
<1> USE DEF RecordInv
<1>1. \A r : Of(r)' = Of(r)
  BY DEF Of, audit
<1>2. ASSUME NEW d \in Conns, NEW i \in 1 .. Len(Script[d])
      PROVE  Progress(d, i)'
  <2>1. Script[d][i] \in Requests /\ Progress(d, i)
    BY ScriptType
  <2>2. next[d] \in Nat /\ i \in Nat
    BY DEF RequestTypes
  <2>3. CASE Script[d][i] # Current(c)
    <3>1. d = c => i # next[c]
      BY <2>3, CurrentType
    <3> QED  BY <1>1, <2>1, <2>2, <2>3, <3>1 DEF Progress
  <2>4. CASE Script[d][i] = Current(c)
    <3>1. d = c /\ i = next[c]
      BY <2>4, OthersAreOthers
    <3> QED  BY <1>1, <2>1, <2>2, <2>4, <3>1 DEF Progress
  <2> QED  BY <2>3, <2>4
<1> QED  BY <1>2 DEF audit

\* A thread that records its answer, and goes on.
LEMMA RecordedStep ==
    ASSUME RequestTypes, RecordInv, NEW c \in Conns, Record(c)
    PROVE  RecordInv'
<1> USE DEF RecordInv
<1> DEFINE r0 == Current(c)
           line == Line(c)
<1>0. Server \in Writers /\ next[c] <= Len(Script[c])
  BY HttpAssumption DEF Record, RequestTypes
<1>1. /\ next[c] \in 1 .. Len(Script[c]) /\ r0 = Script[c][next[c]] /\ r0 \in Requests
      /\ After(c) > next[c] /\ After(c) \in Nat /\ next[c] \in Nat
  BY <1>0, CurrentType, AfterType, ScriptType
<1>2. line.of = r0 /\ line.status = status[r0]
  BY DEF Line, Entry
<1>3. UNCHANGED status
  BY DEF Record
<1>4. CASE /\ phase[c] = "answered" /\ BeginAppend(Server, line)
           /\ phase' = [phase EXCEPT ![c] = "recording"] /\ UNCHANGED next
  <2>1. /\ UNCHANGED <<next, acked, errors>>
        /\ phase' = [phase EXCEPT ![c] = "recording"]
        /\ pending' = [pending EXCEPT ![Server] = line]
    BY <1>4 DEF BeginAppend
  <2>2. ASSUME NEW d \in Conns, NEW i \in 1 .. Len(Script[d])
        PROVE  Progress(d, i)'
    <3>1. Progress(d, i) /\ (phase[d] = "idle" <=> phase'[d] = "idle")
      BY <1>4, <2>1 DEF RequestTypes
    <3>2. \A r : Of(r)' = Of(r)
      BY <2>1 DEF Of
    <3> QED  BY <1>3, <2>1, <3>1, <3>2 DEF Progress
  <2> QED  BY <2>1, <2>2
<1>5. CASE /\ \/ phase[c] = "answered" /\ RefuseAppend(Server, line)
              \/ phase[c] = "recording" /\ pending[Server] = line /\ EndAppend(Server)
           /\ phase' = [phase EXCEPT ![c] = "idle"]
           /\ next' = [next EXCEPT ![c] = After(c)]
  <2>1. /\ acked' \union errors' = acked \union errors \union {line}
        /\ \/ UNCHANGED pending
           \/ pending' = [pending EXCEPT ![Server] = Idle]
    BY <1>5 DEF RefuseAppend, EndAppend, Failed
  <2>2. /\ next' = [next EXCEPT ![c] = After(c)]
        /\ phase' = [phase EXCEPT ![c] = "idle"]
    BY <1>5
  <2>3. ASSUME NEW d \in Conns, NEW i \in 1 .. Len(Script[d])
        PROVE  Progress(d, i)'
    <3>1. Script[d][i] \in Requests /\ Progress(d, i) /\ i \in Nat /\ next[d] \in Nat
      BY ScriptType DEF RequestTypes
    <3>2. CASE Script[d][i] # r0
      <4>1. Of(Script[d][i])' = Of(Script[d][i])
        BY <1>2, <2>1, <3>2 DEF Of
      <4>2. d = c => i # next[c]
        BY <1>1, <3>2
      <4> QED  BY <1>1, <1>3, <2>2, <3>1, <4>1, <4>2, SMTT(30) DEF Progress, RequestTypes
    <3>3. CASE Script[d][i] = r0
      <4>1. d = c /\ i = next[c]
        BY <1>0, <3>3, OthersAreOthers
      <4>2. Of(r0) = {}
        BY <3>1, <3>3, <4>1 DEF Progress
      <4>3. Of(Script[d][i])' = {line}
        BY <1>2, <2>1, <3>3, <4>2 DEF Of
      <4>4. next'[c] = After(c)
        BY <2>2 DEF RequestTypes
      <4> QED  BY <1>1, <1>2, <1>3, <3>1, <3>3, <4>1, <4>3, <4>4 DEF Progress
    <3> QED  BY <3>2, <3>3
  <2> QED  BY <1>0, <2>1, <2>3
<1> QED  BY <1>4, <1>5 DEF Record

LEMMA RecordStep == RequestTypes /\ RecordInv /\ [Next]_vars => RecordInv'
<1> SUFFICES ASSUME RequestTypes, RecordInv, [Next]_vars
             PROVE  RecordInv'
  OBVIOUS
<1>0. Server \in Writers
  BY HttpAssumption
<1>1. CASE UNCHANGED <<audit, status, phase, next>>
  BY <1>1 DEF RecordInv, Progress, Of, audit
<1>2. CASE Start \/ Stop
  <2>1. PICK e : /\ e.of \in {"process.start", "process.stop"}
                 /\ BeginAppend(Server, e) \/ RefuseAppend(Server, e)
                      \/ (pending[Server] = e /\ EndAppend(Server))
    BY <1>2 DEF Start, Stop, Main, Entry
  <2>2. e.of \notin Requests
    BY <2>1, RequestsAreDistinct
  <2> QED  BY <1>0, <1>2, <2>1, <2>2, OtherEntry DEF Start, Stop
<1>3. CASE Die
  <2>1. /\ pending' = [pending EXCEPT ![Server] = Idle]
        /\ UNCHANGED <<acked, errors, status, phase, next>>
    BY <1>3 DEF Die, AbandonAppend
  <2> QED  BY <1>0, <2>1 DEF RecordInv, Progress, Of
<1>4. ASSUME NEW w \in Writers, Note(w)
      PROVE  RecordInv'
  <2>1. CASE EndAppend(w)
    <3>1. pending[w].of \notin Requests
      BY <1>4, <2>1 DEF Note, RecordInv, EndAppend
    <3> QED  BY <1>4, <2>1, <3>1, OtherEntry DEF Note
  <2>2. CASE /\ noted[w] < Len(Notes[w])
             /\ BeginAppend(w, Entry(Notes[w][noted[w] + 1], 0, FALSE))
    <3> DEFINE n == Notes[w][noted[w] + 1]
    <3>1. Notes[w] \in Seq(Range(Notes[w])) /\ noted[w] \in Nat
      BY HttpAssumption DEF RequestTypes
    <3>2. n \in Range(Notes[w])
      BY <2>2, <3>1, ElementOfSeq, LenProperties
    <3>3. Entry(n, 0, FALSE).of \notin Requests
      BY <3>2, RequestsAreDistinct DEF Entry
    <3> QED  BY <1>4, <2>2, <3>3, OtherEntry DEF Note
  <2> QED  BY <1>4, <2>1, <2>2 DEF Note
<1>5. ASSUME NEW c \in Conns, Receive(c)
      PROVE  RecordInv'
  <2>1. /\ next[c] <= Len(Script[c]) /\ Current(c) \in Requests
        /\ UNCHANGED audit
        /\ phase[c] = "idle" /\ next[c] \in Nat
    BY <1>5, CurrentType DEF Receive, RequestTypes
  <2>2. /\ \A r \in Requests : r # Current(c) => status'[r] = status[r]
        /\ \A d \in Conns : d # c => next'[d] = next[d] /\ phase'[d] = phase[d]
    BY <1>5, <2>1 DEF Receive, RequestTypes
  <2>3. \/ next'[c] = next[c] /\ phase'[c] # "idle"
        \/ next'[c] = next[c] + 1 /\ Method[Current(c)] = "OPTIONS"
    BY <1>5, <2>1 DEF Receive, RequestTypes
  <2> QED  BY <2>1, <2>2, <2>3, AnswerStep
<1>6. ASSUME NEW c \in Conns, Limit(c)
      PROVE  RecordInv'
  <2>1. /\ next[c] <= Len(Script[c]) /\ Current(c) \in Requests
        /\ UNCHANGED <<audit, next>>
        /\ phase' = [phase EXCEPT ![c] = "answered"]
    BY <1>6, CurrentType DEF Limit, RequestTypes
  <2>2. \A r \in Requests : r # Current(c) => status'[r] = status[r]
    BY <1>6, <2>1 DEF Limit, Guard, RequestTypes
  <2>3. phase'[c] # "idle" /\ \A d \in Conns : d # c => phase'[d] = phase[d]
    BY <2>1 DEF RequestTypes
  <2> QED  BY <2>1, <2>2, <2>3, AnswerStep
<1>7. ASSUME NEW c \in Conns, Record(c)
      PROVE  RecordInv'
  BY <1>7, RecordedStep
<1> QED  BY <1>1, <1>2, <1>3, <1>4, <1>5, <1>6, <1>7
         DEF Next, Thread, vars, server, Interrupt, Drain, Accept, Close, Count, Tick

LEMMA RequestTypesAlways == Spec => []RequestTypes
<1>1. Init => RequestTypes
  BY ScriptType DEF Init, RequestTypes, Phases
<1> QED  BY <1>1, RequestTypeStep, PTL DEF Spec

\* Every request whose guard is over has left exactly one record, the refused
\* ones too, with the status it was answered, in the log or among the log's
\* noted failures (httpguard.py:351), whatever threads, notes of other
\* processes, failing appends and the end of the process come between.
THEOREM EveryAnswerIsAudited == Spec => []AnswersAreAudited
<1>1. Init => RecordInv
  <2> SUFFICES ASSUME Init
               PROVE  RecordInv
    OBVIOUS
  <2>1. /\ acked = {} /\ errors = {} /\ pending = [w \in Writers |-> Idle]
        /\ \A c \in Conns : next[c] = 1
        /\ status = [r \in Requests |-> 0]
    BY DEF Init, AuditInit
  <2>2. ASSUME NEW c \in Conns, NEW i \in 1 .. Len(Script[c])
        PROVE  Progress(c, i)
    BY <2>1, ScriptType DEF Progress, Of
  <2> QED  BY <2>1, <2>2 DEF RecordInv
<1>2. RequestTypes /\ RecordInv => AnswersAreAudited
  <2> SUFFICES ASSUME RequestTypes, RecordInv, NEW c \in Conns,
                      NEW r \in Answered(c), Method[r] # "OPTIONS"
               PROVE  Cardinality({e \in acked \union errors :
                                      e.of = r /\ e.status = status[r]}) = 1
    BY DEF AnswersAreAudited
  <2>1. PICK i \in 1 .. (next[c] - 1) : r = Script[c][i]
    BY DEF Answered
  <2>2. i \in 1 .. Len(Script[c]) /\ i < next[c]
    BY ScriptType DEF RequestTypes
  <2>3. r \in Requests /\ status[r] # 0
    BY <2>1, <2>2, ScriptType DEF Answered
  <2>4. PICK e : Of(r) = {e} /\ e.status = status[r]
    <3>1. Progress(c, i)
      BY <2>2 DEF RecordInv
    <3> QED  BY <2>1, <2>2, <2>3, <3>1 DEF Progress
  <2>5. {x \in acked \union errors : x.of = r /\ x.status = status[r]} = {e}
    BY <2>4 DEF Of
  <2> QED  BY <2>5, FS_Singleton
<1> QED  BY <1>1, <1>2, RequestTypesAlways, RequestTypeStep, RecordStep, PTL DEF Spec

-----------------------------------------------------------------------------
(***************************************************************************)
(* The limiter.  The table is never full: once it forgets, a thread that   *)
(* read the time before its client was forgotten opens a window within one *)
(* that was already counted.                                               *)
(***************************************************************************)

\* What the table holds of a client, and what it was let through with.
Kept(l, k) ==
    /\ hits[l][k] \in [start : Nat, count : Nat]
    /\ Cardinality(PassesIn(l, k, hits[l][k].start)) <= hits[l][k].count
    /\ \A p \in passed : p.limiter = l /\ p.client = k =>
          p.window = hits[l][k].start \/ p.window + Window <= hits[l][k].start

LimitInv ==
    /\ hits = [l \in Limiters |-> hits[l]]
    /\ \A l \in Limiters : DOMAIN hits[l] \subseteq Clients
    /\ \A l \in Limiters : \A k \in DOMAIN hits[l] : Kept(l, k)
    /\ IsFiniteSet(passed)
    /\ \A p \in passed : /\ p.limiter \in Limiters
                         /\ p.client \in DOMAIN hits[p.limiter]
                         /\ p.window \in Nat /\ p.at \in Nat
    /\ LimitHolds

LEMMA ClientsAreFinite == IsFiniteSet(Clients)
<1> DEFINE f == [c \in Conns |-> Client[c]]
<1>1. f \in Surjection(Conns, Clients)
  BY DEF Surjection, Clients
<1> HIDE DEF f
<1> QED  BY <1>1, FS_Surjection, HttpAssumption

\* A table with room for every client forgets none.
LEMMA NoneIsEvicted ==
    ASSUME Cardinality(Clients) <= TableSize, NEW table, NEW t,
           DOMAIN table \subseteq Clients
    PROVE  Evicted(table, t) = table
<1>1. Cardinality(DOMAIN table) <= Cardinality(Clients)
  BY ClientsAreFinite, FS_Subset
<1>2. Cardinality(DOMAIN table) \in Nat /\ Cardinality(Clients) \in Nat
  BY ClientsAreFinite, FS_Subset, FS_CardinalityType
<1>3. TableSize \in Nat
  BY HttpAssumption
<1>4. Cardinality(DOMAIN table) <= TableSize
  BY <1>1, <1>2, <1>3
<1> QED  BY <1>4 DEF Evicted

\* One more request is counted in the client's window, or in a new one that
\* begins when the old one is over; it is always within its window.
LEMMA OneMoreRequest ==
    ASSUME NEW table, NEW k, NEW t \in Nat,
           k \in DOMAIN table => table[k] \in [start : Nat, count : Nat]
    PROVE  LET e == Counted(table, k, t)
           IN  /\ e \in [start : Nat, count : Nat] /\ t < e.start + Window
               /\ \/ /\ e.start = t /\ e.count = 1
                     /\ k \in DOMAIN table => table[k].start + Window <= t
                  \/ /\ k \in DOMAIN table
                     /\ e.start = table[k].start /\ e.count = table[k].count + 1
<1> DEFINE e == Counted(table, k, t)
           old == IF k \in DOMAIN table THEN table[k] ELSE [start |-> t, count |-> 0]
<1>0. Window \in Nat \ {0}
  BY HttpAssumption
<1>1. old \in [start : Nat, count : Nat]
  OBVIOUS
<1>2. CASE t - old.start >= Window
  <2>1. e = [start |-> t, count |-> 1]
    BY <1>2 DEF Counted
  <2>2. k \in DOMAIN table
    BY <1>0, <1>2
  <2> QED  BY <1>0, <1>1, <1>2, <2>1, <2>2
<1>3. CASE ~(t - old.start >= Window)
  <2>1. e = [start |-> old.start, count |-> old.count + 1]
    BY <1>1, <1>3 DEF Counted
  <2> QED  BY <1>0, <1>1, <1>3, <2>1
<1> QED  BY <1>2, <1>3

\* A request that the limiter counts, let through or not.
LEMMA CountedStep ==
    ASSUME LimitInv,
           NEW l \in Limiters, NEW k \in Clients, NEW t \in Nat, NEW e, NEW r,
           e = Counted(hits[l], k, t),
           hits' = [hits EXCEPT ![l] = [x \in DOMAIN hits[l] \union {k} |->
                                           IF x = k THEN e ELSE hits[l][x]]],
           \/ passed' = passed
           \/ /\ e.count <= LimitOf(l)
              /\ passed' = passed \union {r}
              /\ r.limiter = l /\ r.client = k /\ r.at = t /\ r.window = e.start
    PROVE  LimitInv'
<1> USE DEF LimitInv
<1>0. Window \in Nat \ {0}
  BY HttpAssumption
<1>1. /\ e \in [start : Nat, count : Nat] /\ t < e.start + Window
      /\ \/ /\ e.start = t /\ e.count = 1
            /\ k \in DOMAIN hits[l] => hits[l][k].start + Window <= t
         \/ /\ k \in DOMAIN hits[l]
            /\ e.start = hits[l][k].start /\ e.count = hits[l][k].count + 1
  <2>1. k \in DOMAIN hits[l] => hits[l][k] \in [start : Nat, count : Nat]
    BY DEF Kept
  <2> QED  BY <2>1, OneMoreRequest
<1>2. /\ e.start \in Nat /\ e.count \in Nat
      /\ k \in DOMAIN hits[l] => hits[l][k].start \in Nat /\ hits[l][k].count \in Nat
  BY <1>1 DEF Kept
<1>3. ASSUME NEW p \in passed, p.limiter = l, p.client = k
      PROVE  p.window = e.start \/ p.window + Window <= e.start
  <2>1. k \in DOMAIN hits[l] /\ p.window \in Nat
    BY <1>3
  <2>2. p.window = hits[l][k].start \/ p.window + Window <= hits[l][k].start
    BY <1>3, <2>1 DEF Kept
  <2> QED  BY <1>0, <1>1, <1>2, <2>1, <2>2
<1>4. \A m, j, s : /\ IsFiniteSet(PassesIn(m, j, s))
                   /\ Cardinality(PassesIn(m, j, s)) \in Nat
  <2>1. \A m, j, s : PassesIn(m, j, s) \in SUBSET passed
    BY DEF PassesIn
  <2> QED  BY <2>1, FS_Subset, FS_CardinalityType
<1>5. Cardinality(PassesIn(l, k, e.start)) + 1 <= e.count
  <2>1. CASE /\ e.start = t /\ e.count = 1
             /\ k \in DOMAIN hits[l] => hits[l][k].start + Window <= t
    <3>1. PassesIn(l, k, t) = {}
      <4> SUFFICES ASSUME NEW p \in passed, p.limiter = l, p.client = k, p.window = t
                   PROVE  FALSE
        BY DEF PassesIn
      <4>1. k \in DOMAIN hits[l]
        OBVIOUS
      <4>2. t = hits[l][k].start \/ t + Window <= hits[l][k].start
        BY <4>1 DEF Kept
      <4> QED  BY <1>0, <1>2, <2>1, <4>1, <4>2
    <3>2. PassesIn(l, k, e.start) = {}
      BY <2>1, <3>1
    <3>3. Cardinality(PassesIn(l, k, e.start)) = 0
      BY <3>2, FS_EmptySet
    <3> QED  BY <2>1, <3>3
  <2>2. CASE /\ k \in DOMAIN hits[l]
             /\ e.start = hits[l][k].start /\ e.count = hits[l][k].count + 1
    <3>1. Cardinality(PassesIn(l, k, e.start)) <= hits[l][k].count
      BY <2>2 DEF Kept
    <3> QED  BY <1>2, <1>4, <2>2, <3>1
  <2> QED  BY <1>1, <2>1, <2>2
<1>6. /\ \A m, j, s : <<m, j, s>> # <<l, k, e.start>> =>
             PassesIn(m, j, s)' = PassesIn(m, j, s)
      /\ \/ PassesIn(l, k, e.start)' = PassesIn(l, k, e.start)
         \/ PassesIn(l, k, e.start)' = PassesIn(l, k, e.start) \union {r}
  BY DEF PassesIn
<1>7. Cardinality(PassesIn(l, k, e.start)') <= e.count
  <2>1. PICK P : P = PassesIn(l, k, e.start)
    OBVIOUS
  <2>2. /\ IsFiniteSet(P) /\ Cardinality(P) \in Nat
        /\ Cardinality(P) + 1 <= e.count /\ e.count \in Nat
    BY <1>2, <1>4, <1>5, <2>1
  <2>3. Cardinality(P \union {r}) = IF r \in P THEN Cardinality(P) ELSE Cardinality(P) + 1
    BY <2>2, FS_AddElement
  <2>4. Cardinality(P \union {r}) <= e.count /\ Cardinality(P) <= e.count
    BY <2>2, <2>3
  <2> QED  BY <1>6, <2>1, <2>4
<1>8. /\ \A m \in Limiters : m # l => hits'[m] = hits[m]
      /\ DOMAIN hits'[l] = DOMAIN hits[l] \union {k}
      /\ hits'[l][k] = e
      /\ \A j \in DOMAIN hits[l] : j # k => hits'[l][j] = hits[l][j]
      /\ hits' = [m \in Limiters |-> hits'[m]]
  OBVIOUS
<1>9. ASSUME NEW m \in Limiters, NEW j \in DOMAIN hits'[m]
      PROVE  Kept(m, j)'
  <2>1. CASE m = l /\ j = k
    <3>1. \A p \in passed' : p.limiter = l /\ p.client = k =>
             p.window = e.start \/ p.window + Window <= e.start
      BY <1>3
    <3> QED  BY <1>1, <1>7, <1>8, <2>1, <3>1 DEF Kept
  <2>2. CASE ~(m = l /\ j = k)
    <3>1. j \in DOMAIN hits[m] /\ hits'[m][j] = hits[m][j] /\ Kept(m, j)
      BY <1>8, <2>2
    <3>2. \A p \in passed' : p.limiter = m /\ p.client = j => p \in passed
      BY <2>2
    <3>3. PICK s : s = hits[m][j].start
      OBVIOUS
    <3>4. PassesIn(m, j, s)' = PassesIn(m, j, s)
      BY <1>6, <2>2
    <3> QED  BY <3>1, <3>2, <3>3, <3>4 DEF Kept
  <2> QED  BY <2>1, <2>2
<1>10. /\ IsFiniteSet(passed')
       /\ \A p \in passed' : /\ p.limiter \in Limiters
                             /\ p.client \in DOMAIN hits'[p.limiter]
                             /\ p.window \in Nat /\ p.at \in Nat
  <2>1. IsFiniteSet(passed')
    BY FS_AddElement
  <2>2. ASSUME NEW p \in passed
        PROVE  /\ p.limiter \in Limiters
               /\ p.client \in DOMAIN hits'[p.limiter]
               /\ p.window \in Nat /\ p.at \in Nat
    BY <1>8
  <2> QED  BY <1>2, <1>8, <2>1, <2>2
<1>11. LimitHolds'
  <2>1. ASSUME NEW p \in passed'
        PROVE  /\ Cardinality(PassesIn(p.limiter, p.client, p.window)') <= LimitOf(p.limiter)
               /\ p.at < p.window + Window
    <3>1. CASE p \in passed /\ passed' = passed
      BY <3>1 DEF LimitHolds, PassesIn
    <3>2. CASE /\ passed' = passed \union {r} /\ e.count <= LimitOf(l)
               /\ r.limiter = l /\ r.client = k /\ r.at = t /\ r.window = e.start
      <4>1. p.at < p.window + Window
        BY <1>1, <3>2 DEF LimitHolds
      <4>2. CASE p.limiter = l /\ p.client = k /\ p.window = e.start
        <5>1. Cardinality(PassesIn(l, k, e.start)') \in Nat /\ LimitOf(l) \in Nat
          <6>1. PICK P : P = PassesIn(l, k, e.start)
            OBVIOUS
          <6>2. Cardinality(P \union {r}) \in Nat /\ Cardinality(P) \in Nat
            BY <1>4, <6>1, FS_AddElement, FS_CardinalityType
          <6> QED  BY <1>6, <6>1, <6>2, HttpAssumption DEF LimitOf
        <5>2. Cardinality(PassesIn(l, k, e.start)') <= LimitOf(l)
          BY <1>2, <1>7, <3>2, <5>1
        <5> QED  BY <4>1, <4>2, <5>2
      <4>3. CASE ~(p.limiter = l /\ p.client = k /\ p.window = e.start)
        <5>1. p \in passed
          BY <3>2, <4>3
        <5>2. PassesIn(p.limiter, p.client, p.window)' = PassesIn(p.limiter, p.client, p.window)
          BY <1>6, <4>3
        <5> QED  BY <4>1, <5>1, <5>2 DEF LimitHolds
      <4> QED  BY <4>2, <4>3
    <3> QED  BY <3>1, <3>2
  <2>2. ASSUME NEW p \in passed', NEW q \in passed',
               p.limiter = q.limiter, p.client = q.client, p.window < q.window
        PROVE  p.window + Window <= q.window
    <3>1. CASE p \in passed /\ q \in passed
      BY <2>2, <3>1 DEF LimitHolds
    <3>2. CASE p \in passed /\ q \notin passed
      BY <1>0, <1>2, <1>3, <1>10, <2>2, <3>2
    <3>3. CASE p \notin passed /\ q \in passed
      BY <1>0, <1>2, <1>3, <1>10, <2>2, <3>3
    <3>4. CASE p \notin passed /\ q \notin passed
      BY <1>2, <2>2, <3>4
    <3> QED  BY <3>1, <3>2, <3>3, <3>4
  <2> QED  BY <2>1, <2>2 DEF LimitHolds
<1> QED  BY <1>8, <1>9, <1>10, <1>11

LEMMA LimitStep ==
    ASSUME Cardinality(Clients) <= TableSize, RequestTypes, LimitInv, [Next]_vars
    PROVE  LimitInv'
<1>1. CASE UNCHANGED <<hits, passed>>
  BY <1>1 DEF LimitInv, Kept, LimitHolds, PassesIn
<1>2. ASSUME NEW c \in Conns, Limit(c)
      PROVE  LimitInv'
  <2>1. PICK l, k, t, e, r :
           /\ l = LimiterOf(Current(c)) /\ k = Client[c] /\ t = now[c]
           /\ e = Counted(hits[l], k, t)
           /\ r = [limiter |-> l, client |-> k, of |-> Current(c), at |-> t,
                   window |-> e.start]
    OBVIOUS
  <2>2. l \in Limiters /\ k \in Clients /\ t \in Nat
    BY <2>1 DEF LimiterOf, Limiters, Clients, RequestTypes
  <2>3. PICK table : table = [x \in DOMAIN hits[l] \union {k} |->
                                 IF x = k THEN e ELSE hits[l][x]]
    OBVIOUS
  <2>4. Evicted(table, t) = table
    BY <2>2, <2>3, NoneIsEvicted DEF LimitInv
  <2>5. /\ hits' = [hits EXCEPT ![l] = Evicted(table, t)]
        /\ \/ passed' = passed
           \/ e.count <= LimitOf(l) /\ passed' = passed \union {r}
    BY <1>2, <2>1, <2>3 DEF Limit
  <2>6. hits' = [hits EXCEPT ![l] = [x \in DOMAIN hits[l] \union {k} |->
                                        IF x = k THEN e ELSE hits[l][x]]]
    BY <2>3, <2>4, <2>5
  <2>7. r.limiter = l /\ r.client = k /\ r.at = t /\ r.window = e.start
    BY <2>1
  <2>8. e = Counted(hits[l], k, t)
    BY <2>1
  <2>9. \/ passed' = passed
        \/ /\ e.count <= LimitOf(l)
           /\ passed' = passed \union {r}
           /\ r.limiter = l /\ r.client = k /\ r.at = t /\ r.window = e.start
    BY <2>5, <2>7
  <2> QED  BY <2>2, <2>6, <2>8, <2>9, CountedStep
<1> QED  BY <1>1, <1>2
         DEF Next, Thread, vars, server, Start, Interrupt, Drain, Stop, Die, Accept,
             Close, Count, Receive, Record, Note, Tick

\* Whatever the order in which threads read the time and take the lock, what a
\* client passes a limiter with is counted in windows that do not overlap, at
\* most the limit in each, and none when its window is over (httpguard.py:98),
\* for any number of connections, while the table has room for the clients
\* (10 000 of them, httpguard.py:158).
THEOREM LimitAlwaysHolds ==
    ASSUME Cardinality(Clients) <= TableSize
    PROVE  Spec => []LimitHolds
<1>1. Init => LimitInv
  <2> SUFFICES ASSUME Init
               PROVE  LimitInv
    OBVIOUS
  <2>1. passed = {} /\ hits = [l \in Limiters |-> [k \in {} |-> NoHits]]
    BY DEF Init
  <2> QED  BY <2>1, FS_EmptySet DEF LimitInv, LimitHolds
<1>2. RequestTypes /\ LimitInv /\ [Next]_vars => LimitInv'
  BY LimitStep
<1>3. LimitInv => LimitHolds
  BY DEF LimitInv
<1> QED  BY <1>1, <1>2, <1>3, RequestTypesAlways, PTL DEF Spec
=============================================================================
