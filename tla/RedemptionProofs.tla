-------------------------- MODULE RedemptionProofs --------------------------
(***************************************************************************)
(* Theorems about Redemption, for every set of coins and accounts and any  *)
(* number of restarts, failing writes and copies put back, where an anchor *)
(* service is configured.                                                  *)
(*                                                                         *)
(* The argument is the external log: what it pins is a prefix of the chain *)
(* of every registry that runs, because a loaded chain must extend it and  *)
(* a running one only grows; and a coin is acknowledged after its event    *)
(* was pinned.  As no chain redeems a coin twice, a prefix and the chain   *)
(* agree about the owner.                                                  *)
(***************************************************************************)
EXTENDS Redemption, TLAPS

Once(chain) == \A i, j \in DOMAIN chain :
    /\ chain[i].type = "REDEEM" /\ chain[j].type = "REDEEM"
    /\ chain[i].serial = chain[j].serial
    => i = j

ChainsTyped ==
    /\ events \in Chains
    /\ file # None => file.chain \in Chains
    /\ copy.file # None => copy.file.chain \in Chains
    /\ log # None => log \in Chains

\* The registry that runs extends what the log has pinned.
Extends == step # "down" => Once(events) /\ (log # None => IsPrefix(log, events))

\* What was acknowledged is pinned.
Pinned ==
    /\ DOMAIN acked = Serials
    /\ \A c \in Serials :
          acked[c] # Nobody => log # None /\ OwnerIn(log, c) = acked[c]

RedemptionInv == ChainsTyped /\ Extends /\ Pinned

-----------------------------------------------------------------------------
\* A chain the auditor accepts redeems no coin twice.
LEMMA VerifiedOnce ==
  ASSUME NEW chain \in Chains, VerifyRegistry(chain)
  PROVE  Once(chain)
<1>1. ASSUME NEW i \in DOMAIN chain, NEW j \in DOMAIN chain, i < j,
             chain[i].type = "REDEEM", chain[j].type = "REDEEM",
             chain[i].serial = chain[j].serial
      PROVE  FALSE
  <2> DEFINE before == SubSeq(chain, 1, j - 1)
  <2>1. chain[j].serial \notin RedeemedIn(before)
    BY <1>1 DEF VerifyRegistry
  <2>2. i \in DOMAIN before /\ before[i] = chain[i]
    BY <1>1 DEF Chains
  <2>3. chain[i].serial \in RedeemedIn(before)
    BY <2>2, <1>1 DEF RedeemedIn
  <2> QED  BY <2>1, <2>3, <1>1
<1>2. \A i, j \in DOMAIN chain : i \in Int /\ j \in Int
  BY DEF Chains
<1>3. \A i, j \in DOMAIN chain : i = j \/ i < j \/ j < i
  BY <1>2
<1> QED  BY <1>1, <1>3 DEF Once

\* Where a prefix has an event the chain has the same.
LEMMA PrefixPoints ==
  ASSUME NEW s \in Chains, NEW t \in Chains, IsPrefix(s, t), NEW i \in DOMAIN s
  PROVE  i \in DOMAIN t /\ t[i] = s[i]
<1>1. i \in 1 .. Len(s) /\ Len(s) <= Len(t) /\ SubSeq(s, 1, Len(s)) = SubSeq(t, 1, Len(s))
  BY DEF IsPrefix, Chains
<1>2. SubSeq(s, 1, Len(s))[i] = s[i] /\ SubSeq(t, 1, Len(s))[i] = t[i]
  BY <1>1 DEF Chains
<1> QED  BY <1>1, <1>2 DEF Chains

\* A chain that grows keeps its prefixes.
LEMMA PrefixGrows ==
  ASSUME NEW s \in Chains, NEW t \in Chains, IsPrefix(s, t), NEW e \in Event
  PROVE  IsPrefix(s, Append(t, e))
<1>1. Len(s) <= Len(t) /\ Len(Append(t, e)) = Len(t) + 1
  BY DEF IsPrefix, Chains
<1>2. SubSeq(Append(t, e), 1, Len(s)) = SubSeq(t, 1, Len(s))
  BY <1>1 DEF Chains
<1> QED  BY <1>1, <1>2 DEF IsPrefix, Chains

LEMMA PrefixOfItself ==
  ASSUME NEW s \in Chains
  PROVE  IsPrefix(s, s)
BY DEF IsPrefix, Chains

\* The owner is who the one REDEEM of the coin names.
LEMMA OwnerOf ==
  ASSUME NEW chain \in Chains, Once(chain), NEW i \in DOMAIN chain,
         chain[i].type = "REDEEM"
  PROVE  OwnerIn(chain, chain[i].serial) = chain[i].to
<1> DEFINE c == chain[i].serial
           j == CHOOSE k \in DOMAIN chain :
                   chain[k].type = "REDEEM" /\ chain[k].serial = c
<1>1. c \in RedeemedIn(chain)
  BY DEF RedeemedIn
<1>2. j \in DOMAIN chain /\ chain[j].type = "REDEEM" /\ chain[j].serial = c
  OBVIOUS
<1>3. j = i
  BY <1>2 DEF Once
<1> QED  BY <1>1, <1>3 DEF OwnerIn

\* An owner that a prefix knows is the chain's.
LEMMA OwnerStays ==
  ASSUME NEW s \in Chains, NEW t \in Chains, IsPrefix(s, t), Once(t),
         NEW c, OwnerIn(s, c) # Nobody
  PROVE  OwnerIn(t, c) = OwnerIn(s, c)
<1>1. c \in RedeemedIn(s)
  BY DEF OwnerIn
<1>2. PICK i \in DOMAIN s : s[i].type = "REDEEM" /\ s[i].serial = c
  BY <1>1 DEF RedeemedIn
<1>3. Once(s)
  BY PrefixPoints DEF Once
<1>4. i \in DOMAIN t /\ t[i] = s[i]
  BY PrefixPoints
<1> QED  BY <1>2, <1>3, <1>4, OwnerOf

\* Nobody else than an account owns a coin.
LEMMA OwnerIsAccount ==
  ASSUME NEW chain \in Chains, NEW c, OwnerIn(chain, c) # Nobody
  PROVE  OwnerIn(chain, c) \in Accounts
<1>1. PICK i \in DOMAIN chain : OwnerIn(chain, c) = chain[i].to
  BY DEF OwnerIn, RedeemedIn
<1>2. chain[i] \in Event
  BY DEF Chains
<1> QED  BY <1>1, <1>2 DEF Event

\* An event that redeems no coin again may follow.
LEMMA OnceMore ==
  ASSUME NEW chain \in Chains, Once(chain), NEW e \in Event,
         e.type = "REDEEM" => e.serial \notin RedeemedIn(chain)
  PROVE  Once(Append(chain, e)) /\ Append(chain, e) \in Chains
<1> DEFINE grown == Append(chain, e)
<1>1. grown \in Chains /\ Len(grown) = Len(chain) + 1 /\ grown[Len(chain) + 1] = e
  BY DEF Chains
<1>2. \A i \in DOMAIN grown : i # Len(chain) + 1 => i \in DOMAIN chain /\ grown[i] = chain[i]
  BY DEF Chains
<1>3. \A i \in DOMAIN chain :
          chain[i].type = "REDEEM" => chain[i].serial \in RedeemedIn(chain)
  BY DEF RedeemedIn
<1> HIDE DEF grown
<1>4. Once(grown)
  BY <1>1, <1>2, <1>3 DEF Once
<1> QED  BY <1>1, <1>4 DEF grown

-----------------------------------------------------------------------------
\* A step that neither writes the log nor acknowledges anything leaves what was
\* acknowledged pinned.
LEMMA PinnedStays ==
  ASSUME Pinned, UNCHANGED <<log, acked>>
  PROVE  Pinned'
BY DEF Pinned

\* The log takes the chain of a registry that runs: it is still extended, and it
\* still knows the owners it knew.
LEMMA LogGrows ==
  ASSUME RedemptionInv, step # "down", log' = events, UNCHANGED events
  PROVE  /\ log' # None /\ log' \in Chains
         /\ IsPrefix(log', events)
         /\ \A c \in Serials : acked[c] # Nobody => OwnerIn(log', c) = acked[c]
<1>1. events \in Chains /\ Once(events) /\ events # None
  BY RedemptionAssumption DEF RedemptionInv, ChainsTyped, Extends
<1>2. ASSUME NEW c \in Serials, acked[c] # Nobody
      PROVE  OwnerIn(events, c) = acked[c]
  <2>1. log # None /\ OwnerIn(log, c) = acked[c]
    BY <1>2 DEF RedemptionInv, Pinned
  <2>2. log \in Chains /\ IsPrefix(log, events)
    BY <2>1 DEF RedemptionInv, ChainsTyped, Extends
  <2> QED  BY <2>1, <2>2, <1>1, <1>2, OwnerStays
<1> QED  BY <1>1, <1>2, PrefixOfItself

LEMMA InitInv == Init => RedemptionInv
<1> SUFFICES ASSUME Init
             PROVE  RedemptionInv
  OBVIOUS
<1>1. NoChain \in Chains
  BY DEF NoChain, Chains
<1> QED  BY <1>1 DEF Init, RedemptionInv, ChainsTyped, Extends, Pinned

LEMMA InvStep ==
  ASSUME Anchored, RedemptionInv, [Next]_vars
  PROVE  RedemptionInv'
<1>0. NoChain \in Chains /\ ChainsTyped /\ Extends /\ Pinned
  BY DEF NoChain, Chains, RedemptionInv
<1>1. CASE UNCHANGED vars
  BY <1>0, <1>1 DEF vars, RedemptionInv, ChainsTyped, Extends, Pinned
<1>2. CASE Start
  <2>1. UNCHANGED <<file, sidecar, log, copy, acked>>
    BY <1>2 DEF Start, files
  <2>2. events' \in Chains /\ ChainsTyped'
    BY <1>0, <1>2, <2>1 DEF Start, ChainsTyped
  <2>3. CASE file = None
    <3>1. events' = NoChain /\ log \in {None, NoChain}
      BY <1>2, <2>3 DEF Start, Loads
    <3>2. Once(NoChain) /\ IsPrefix(NoChain, NoChain)
      BY <1>0, PrefixOfItself DEF Once, NoChain
    <3> QED  BY <2>1, <2>2, <3>1, <3>2, <1>0, PinnedStays DEF RedemptionInv, Extends
  <2>4. CASE file # None
    <3>1. events' = file.chain /\ VerifyRegistry(file.chain) /\ EnforceAnchor(file.chain, log)
      BY <1>2, <2>4 DEF Start, Loads
    <3>2. Once(events')
      BY <1>0, <2>4, <3>1, VerifiedOnce DEF ChainsTyped
    <3>3. log' # None => IsPrefix(log', events')
      BY <2>1, <3>1 DEF EnforceAnchor
    <3> QED  BY <2>1, <2>2, <3>2, <3>3, <1>0, PinnedStays DEF RedemptionInv, Extends
  <2> QED  BY <2>3, <2>4
<1>3. ASSUME NEW c \in Serials, NEW a \in Accounts, NEW i \in {"trusted", "other"},
             NEW s \in {"right", "wrong"}, Redeem(c, a, i, s)
      PROVE  RedemptionInv'
  <2> DEFINE e == Entry("REDEEM", c, a)
  <2>1. /\ step # "down" /\ c \notin RedeemedIn(events)
        /\ events' = Append(events, e)
        /\ UNCHANGED <<file, log, copy, acked>>
    BY <1>3 DEF Redeem, files, process
  <2>2. e \in Event /\ e.serial = c
    BY DEF Entry, Event
  <2> HIDE DEF e
  <2>3. Once(events') /\ events' \in Chains
    BY <1>0, <2>1, <2>2, OnceMore DEF ChainsTyped, Extends
  <2>4. log # None => IsPrefix(log, events')
    BY <1>0, <2>1, <2>2, PrefixGrows DEF ChainsTyped, Extends
  <2> QED  BY <1>0, <2>1, <2>3, <2>4, PinnedStays DEF RedemptionInv, ChainsTyped, Extends
<1>4. CASE RetryPending
  <2>1. step # "down" /\ UNCHANGED <<events, file, log, copy, acked>>
    BY <1>4 DEF RetryPending, files, process
  <2> QED  BY <1>0, <2>1, PinnedStays DEF RedemptionInv, ChainsTyped, Extends
<1>5. CASE WriteStore
  <2>1. /\ step # "down" /\ UNCHANGED <<events, log, copy, acked>>
        /\ file' = Store \/ file' = file
    BY <1>5 DEF WriteStore, Raise, files, process
  <2>2. file' # None => file'.chain \in Chains
    BY <1>0, <2>1 DEF ChainsTyped, Store
  <2> QED  BY <1>0, <2>1, <2>2, PinnedStays DEF RedemptionInv, ChainsTyped, Extends
<1>6. CASE WriteSidecar
  <2>1. step # "down" /\ UNCHANGED <<events, file, log, copy, acked>>
    BY <1>6 DEF WriteSidecar, Raise, files, process
  <2> QED  BY <1>0, <2>1, PinnedStays DEF RedemptionInv, ChainsTyped, Extends
<1>7. CASE WriteAnchor
  <2>1. step # "down" /\ UNCHANGED <<events, file, copy>>
    BY <1>7 DEF WriteAnchor, Raise, files, process
  <2>2. CASE UNCHANGED <<log, acked>>
    BY <1>0, <2>1, <2>2, PinnedStays DEF RedemptionInv, ChainsTyped, Extends
  <2>3. CASE log' = events
    <3>1. /\ log' # None /\ log' \in Chains /\ IsPrefix(log', events)
          /\ \A c \in Serials : acked[c] # Nobody => OwnerIn(log', c) = acked[c]
      BY <2>1, <2>3, LogGrows
    <3>2. \/ acked' = acked
          \/ acked' = [acked EXCEPT ![redeemer] = OwnerIn(events, redeemer)]
      BY <1>7 DEF WriteAnchor, Persisted, Raise
    <3>3. Pinned'
      BY <1>0, <2>3, <3>1, <3>2 DEF Pinned
    <3> QED  BY <1>0, <2>1, <3>1, <3>3 DEF RedemptionInv, ChainsTyped, Extends
  <2>4. \/ UNCHANGED <<log, acked>>
        \/ log' = events
    BY <1>7 DEF WriteAnchor, Raise
  <2> QED  BY <2>2, <2>3, <2>4
<1>8. CASE TryPost
  <2> DEFINE e == Entry("POSTED", Head(todo), Nobody)
  <2>1. /\ step # "down" /\ UNCHANGED <<file, log, copy, acked>>
        /\ events' = events \/ events' = Append(events, e)
    BY <1>8 DEF TryPost, files, process
  <2>2. Head(todo) \in Serials
    <3>1. PICK i \in DOMAIN events : events[i].serial = Head(todo)
      BY <1>8 DEF TryPost, RedeemedIn
    <3>2. events[i] \in Event
      BY <1>0 DEF ChainsTyped, Chains
    <3> QED  BY <3>1, <3>2 DEF Event
  <2>3. e \in Event /\ e.type = "POSTED"
    BY <2>2 DEF Entry, Event
  <2> HIDE DEF e
  <2>4. Once(events') /\ events' \in Chains
    BY <1>0, <2>1, <2>3, OnceMore DEF ChainsTyped, Extends
  <2>5. log # None => IsPrefix(log, events')
    BY <1>0, <2>1, <2>3, PrefixGrows DEF ChainsTyped, Extends
  <2> QED  BY <1>0, <2>1, <2>4, <2>5, PinnedStays DEF RedemptionInv, ChainsTyped, Extends
<1>9. CASE Crash
  <2>1. step' = "down" /\ events' = NoChain /\ UNCHANGED <<file, log, copy, acked>>
    BY <1>9 DEF Crash, files, process
  <2> QED  BY <1>0, <2>1, PinnedStays DEF RedemptionInv, ChainsTyped, Extends
<1>10. CASE Keep
  <2>1. /\ step' = "down" /\ UNCHANGED <<events, file, log, acked>>
        /\ copy' = [file |-> file, sidecar |-> sidecar]
    BY <1>10 DEF Keep, files
  <2> QED  BY <1>0, <2>1, PinnedStays DEF RedemptionInv, ChainsTyped, Extends
<1>11. CASE PutBack
  <2>1. /\ step' = "down" /\ UNCHANGED <<events, log, acked>> /\ file' = copy.file
        /\ copy' = [file |-> file, sidecar |-> sidecar]
    BY <1>11 DEF PutBack
  <2> QED  BY <1>0, <2>1, PinnedStays DEF RedemptionInv, ChainsTyped, Extends
<1> QED  BY <1>1, <1>2, <1>3, <1>4, <1>5, <1>6, <1>7, <1>8, <1>9, <1>10, <1>11 DEF Next

LEMMA InvAlways == ASSUME Anchored PROVE Spec => []RedemptionInv
<1>1. RedemptionInv /\ [Next]_vars => RedemptionInv'
  BY InvStep
<1> QED  BY <1>1, InitInv, PTL DEF Spec

-----------------------------------------------------------------------------
\* A redemption that was acknowledged is known to every registry to come, for
\* the same account, whatever crashes, fails or is put back.
THEOREM AcknowledgedIsSpent == ASSUME Anchored PROVE Spec => []AckedIsSpent
<1>1. RedemptionInv => AckedIsSpent
  <2> SUFFICES ASSUME RedemptionInv, NEW c \in Serials, acked[c] # Nobody, step # "down"
               PROVE  OwnerIn(events, c) = acked[c]
    BY DEF AckedIsSpent
  <2>1. log # None /\ OwnerIn(log, c) = acked[c]
    BY DEF RedemptionInv, Pinned
  <2>2. /\ log \in Chains /\ events \in Chains
        /\ IsPrefix(log, events) /\ Once(events)
    BY <2>1 DEF RedemptionInv, ChainsTyped, Extends
  <2> QED  BY <2>1, <2>2, OwnerStays
<1> QED  BY <1>1, InvAlways, PTL

\* The registry implements single-use coins, as the log has them.
THEOREM RegistryKeepsCoins == ASSUME Anchored PROVE Spec => KeepsCoins
<1> DEFINE OwnerAt(l) == [c \in Serials |-> IF l = None THEN Nobody ELSE OwnerIn(l, c)]
<1>1. Init => Promise!Init
  BY DEF Init, Promise!Init
<1>2. ASSUME RedemptionInv, [Next]_vars
      PROVE  [Promise!Next]_(OwnerAt(log))
  <2>1. CASE log' = log
    BY <2>1
  <2>2. CASE step # "down" /\ log' = events /\ UNCHANGED events
    <3>1. log' # None /\ events \in Chains /\ Once(events)
      BY <1>2, <2>2, LogGrows DEF RedemptionInv, ChainsTyped, Extends
    <3> DEFINE S == {c \in Serials : OwnerAt(log)[c] = Nobody
                                        /\ OwnerIn(events, c) # Nobody}
               to == [c \in S |-> OwnerIn(events, c)]
    <3>2. to \in [S -> Accounts]
      BY <3>1, OwnerIsAccount
    <3>3. ASSUME NEW c \in Serials
          PROVE  OwnerAt(log')[c] = IF c \in S THEN to[c] ELSE OwnerAt(log)[c]
      <4>1. OwnerAt(log')[c] = OwnerIn(events, c)
        BY <2>2, <3>1
      <4>2. CASE OwnerAt(log)[c] = Nobody
        BY <4>1, <4>2
      <4>3. CASE OwnerAt(log)[c] # Nobody
        <5>1. log # None /\ OwnerAt(log)[c] = OwnerIn(log, c)
          BY <4>3
        <5>2. log \in Chains /\ IsPrefix(log, events)
          BY <1>2, <2>2, <5>1 DEF RedemptionInv, ChainsTyped, Extends
        <5> QED  BY <3>1, <4>1, <4>3, <5>1, <5>2, OwnerStays
      <4> QED  BY <4>2, <4>3
    <3>4. OwnerAt(log') = [c \in Serials |-> IF c \in S THEN to[c] ELSE OwnerAt(log)[c]]
      BY <3>3
    <3>5. CASE S = {}
      BY <3>4, <3>5
    <3>6. CASE S # {}
      <4>1. Promise!Redeem(S)
        BY <3>2, <3>4, <3>6 DEF Promise!Redeem
      <4> QED  BY <4>1 DEF Promise!Next
    <3> QED  BY <3>5, <3>6
  <2>3. \/ log' = log
        \/ step # "down" /\ log' = events /\ UNCHANGED events
    BY <1>2 DEF Next, vars, files, process, Start, Redeem, RetryPending, WriteStore,
                WriteSidecar, WriteAnchor, Raise, TryPost, Crash, Keep, PutBack
  <2> QED  BY <2>1, <2>2, <2>3
<1> QED  BY <1>1, <1>2, InvAlways, PTL DEF Spec, KeepsCoins, Promise!Spec
=============================================================================
