# BINGO: TLA+ models, checks and proofs

This directory holds the verification project of BINGO (`v3/`): a network in
which designers register printable designs, buyers order copies, nodes make
them, and the money of each job is split among node, carrier, network and the
payees of the designs; and of its provenance layer, signed documents about
goods, hauls, shares and coins. It models the parts in which a mistake is dear:
how money is computed, held, released, paid out and accounted for, what is kept
on disk through crashes, and what a stranger can verify of a signed document.

Paths below are relative to `v3/bingo/` unless they start with another
directory.

## 1. Inventory

| Component | State it keeps | Operations | Talks to |
|---|---|---|---|
| Registry (`registry.py`, `register.py`) | frozen assets with an effective split; manifests and contents on disk | `register`, `save`, `load` | orchestrator, settlement, store |
| Matching and pricing (`match.py`, `quote.py`) | none | `score_nodes`, `allocate`, `quote_job`, `apply_network_fee` | orchestrator |
| Orchestrator (`orchestrator.py`) | none of its own; drives jobs and orders | `place_order`, `execute_order` | all of the below |
| Node agent and drivers (`node/agent.py`, `drivers.py`, `manual.py`, `k2.py`) | the job's state and its signed evidence chain | `offer`, `fabricate`, `ship`, `confirm_delivery`, `verify_chain` | printer, operator |
| Evidence (`evidence.py`, `verify.py`) | one file per job | `save`, `verify` | orchestrator, server |
| Ledger (`ledger.py`, `settlement.py`) | escrow per order, balances, journal (memory only) | `fund_escrow`, `settle_job` | orchestrator, server |
| Payout engine (`payout.py`) | journal in memory and on disk | `pay_legs`, `retry_pending`, `reconcile_job`, `reconcile_with_rail` | a rail (Stripe), a store, the audit log |
| Storage seam (`store.py`) | a file, or an SQLite database | `get`, `put`, `transaction`, `backup`, `restore` | payout journal, audit log, key directory, node tools |
| Node maintenance (`node/backup.py`, `migrate_store.py`, `onboard.py`) | copies of a node's files, its identity | `backup`, `drill`, `migrate` | store, key store |
| Reputation (`reputation.py`) | counts per node and grade | `record_completion`, `record_failure`, `score`, `slash` | orchestrator, matching |
| Alerting (`alert.py`, `node/watch.py`, `health.py`) | what was said of each problem, a heartbeat | `dispatch`, `run_once` | store, channels |
| Audit log (`audit.py`) | a hash chain in a store | `append`, `verify_audit` | store, servers, payout engine |
| Transparency log (`anchor.py`) | a Merkle log, signed heads, each witness's last head | `append`, `checkpoint`, `restore`, `cosign`, proofs | witnesses, key directory, registry of coins |
| Keys (`keys.py`, `keydir.py`, `crypto.py`) | key files, a directory of key events | `create`, `load`; `rotate`, `recover`, `revoke`, `verify_as_identity` | every signer |
| HTTP surface (`server.py`, `httpguard.py`) | rate-limit buckets, requests in flight, one lock | the guarded handlers, `server_close` | everything |
| Coins (`provenance/coin.py`, `coin_server.py`) | a redemption chain, what was posted | `redeem`, `retry_pending`, loading against an anchor | crediting backend, anchor |
| Passports, tokens, transport, machine shares (`provenance/*.py`) | one signed chain each | `attest`, `sell`, `redeem`, `pickup`, `earn`, and the verifiers | settlement |
| Training royalties (`training.py`) | metered pools | `record_usage`, `settle` | registry |
| Earnings (`earnings.py`, `provenance/earnings_rollup.py`) | none | `creator_earnings`, `network_earnings` | the journals of all of them |
| First-generation code (`services/`, `backend/`, `contracts/`, `frontend/`, `ai-module/`) | order and payment records | HTTP handlers, two contracts | a database |

How they interact, in one order: `place_order` scores nodes, allocates units,
quotes each job and funds the escrow with the sum. `execute_order` then takes
the jobs one by one through the node's agent, lets the proof-of-fabrication gate
judge the evidence, has the ledger release the job's total along the settlement
legs, hands the legs to the payout engine and saves the evidence file. All of
this is synchronous: a call, an answer or an exception. The server runs it under
one lock; command lines run it in one thread. Around it, tools run as processes
of their own on the same files: the watcher, backup, migration, registration.

What is hard here is therefore mostly not message passing but *stopping half way
and going on*: exceptions between two steps that belong together, processes that
die between the intent, the transfer and its record, answers that are lost,
retries of what was already done, a second process with an older memory of the
same file, and arithmetic whose rounding must not lose a cent. Where threads do
meet (the HTTP guard) it is the shutdown and the limiter that are hard; where
documents are signed, it is that the code that writes them and the code that
judges them are two programs. `PROJECT.json` lists these hazards at their lines
with the properties that cover them.

What makes each component correct:

* *payout engine*: no payee is paid twice or told so wrongly, no money leaves
  without a durable record, what was recorded is paid in the end;
* *pipeline and ledger*: money is released once per job, for goods made in full
  and delivered, never out of another job's share; nothing is created or lost;
* *storage and node files*: a write that returned stays, a backup is a state the
  file had, no crash of a tool makes the node forget a record or a key;
* *registry and legs*: splits are whole at any depth and fair to the basis
  point, legs add up to the total, a registered design keeps its content;
* *pricing, training, machines, earnings*: everything paid adds up exactly, the
  residue has one owner, and what is shown is what was paid;
* *signed documents*: what the code can write the verifier accepts, and what it
  accepts is what the code could have written;
* *coins*: a redemption that was acknowledged is known to every later registry;
* *keys and logs*: damage is refused where the document can show it, what was logged
  late is never taken for early, a quorum of witnesses sees one history, a record that was acknowledged stays in a log that verifies;
* *HTTP guard*: what is answered is audited, limits hold, a shutdown ends;
* *watcher*: what a quiet run found was last heard of as being there, but for an end
  that a dead run announced, and a problem that stays is heard of.

## 2. Modules

| Module | Models | Remarks |
|---|---|---|
| `Payouts` | the promise of the payout layer | abstract: intended, disbursed, confirmed |
| `PayoutEngine` | `payout.py` | implements `Payouts` (`KeepsPromise`) |
| `Escrow` | the promise of settlement | abstract: fund once, each job takes its own total once |
| `Settlement` | `orchestrator.py`, `ledger.py`, `node/agent.py`, the drivers' outcomes | implements `Escrow` (`KeepsEscrow`) |
| `AtomicMap` | the contract in the docstring of `Store` | abstract: writes land together or never |
| `Store` | `JsonStore`, `SqliteStore` | implements `AtomicMap` (`KeepsContract`) under SQLite |
| `NodeFiles` | `node/migrate_store.py`, `node/backup.py`, `node_store` | a collection's two files and the tools beside the node |
| `KeyCustody` | `EncryptedFileKeyStore`, `load_or_create_identity` | one file per identity's name |
| `K2Printer` | `node/k2.py` | the driver and the printer with its panel |
| `Catalog` | `AssetRegistry.save` and `load` | several registering processes |
| `Coins` | the promise of single-use coins | abstract: an owner, once, for good |
| `Redemption` | `provenance/coin.py`, `coin_server.py` | implements `Coins` (`KeepsCoins`) with an anchor |
| `AuditLog` | `audit.py` | writers appending to one chain |
| `HttpGuard` | `httpguard.py` | extends `AuditLog`; connections, limiter, shutdown |
| `AlertWatch` | `alert.py`, `node/watch.py` | the router's memory and the runs of the watcher |
| `Merkle` | `anchor.py` | the trees, their proofs and the verifiers, as algorithms |
| `Transparency` | `anchor.py` | the log, its operator and the witnesses; the tree is a parameter |
| `KeyDirectory` | `keydir.py` | extends `Transparency` |
| `Sums` | | sums over functions, which everything that adds money uses |
| `Apportion` | floors, residues, the order in which an unordered set is listed | shared by everything that divides money |
| `RoyaltyRouting`, `Pricing`, `Training` | `_compose_split` and `compute_settlement_legs`; `allocate` and `apply_network_fee`; `training.py` | functions and small state machines |
| `SignedChain` | the chain under every document of `provenance/` | links, registry, what verification checks |
| `Passport`, `AssetToken`, `Transport`, `MachineShare` | `provenance/passport.py`, `token.py`, `transport.py`, `machine_rwa.py` | writer and verifier of each document |
| `Evidence` | `node/agent.py`, `verify.py` | the gate and the independent verifier of one chain |
| `Earnings` | `earnings.py`, `provenance/earnings_rollup.py` | derived from routing, training, passports and tokens; `EarningsSpec` composes the four |
| `Reputation` | `reputation.py` | exact fractions |
| `SumsProofs` | | the lemmas about sums |
| `...Proofs` | | theorems, section 5; `NodeProofs` is about `Store`, `NodeFiles`, `KeyCustody`, `Catalog`, `K2Printer` and `AlertWatch`, `DirectoryProofs` about `Transparency` and `KeyDirectory`, `MarketProofs` about `Transport`, `AssetToken`, `RoyaltyRouting`, `Pricing`, `Reputation`, `MachineShare`, `Training` and `Earnings` |
| `MCNode`, `MCMarket` | | run independent components side by side |
| other `MC...` | | small instances for TLC |

In every module an operator named `Bug...` stands before the definition it
belongs to and is what a plausible mistake would make of that definition. `Next`
uses none of them; they are there to show that the property in question would
notice (`mutants` in `PROJECT.json`).

### PayoutEngine

A key is a job, a leg identity (account, amount and memo together, since only
their equality matters) and an occurrence number, as `_leg_keys` counts it.
`journal` is the file or the store, `mem[p]` the `_journal` of process `p`,
`pc`, `todo`, `cur` and `answer` the progress of the one `pay_legs` or
`retry_pending` it runs, `moved` the transfers that exist at the provider.
`_drive` is cut where the code can be interrupted: `Intend` (status PENDING,
`_persist`), the rail call (`Confirmed`, `Unanswered`, `Refused`,
`SendRaises`), and `Record` (the outcome, `_persist`, the audit append). Each
`_persist` has a twin that raises; `Crash` may come between any two.
`Persisted` is where the backends differ: JSONL rewrites the whole file from
this process's memory, a store takes one record.

The provider is external: it makes at most one transfer per idempotency key.
That is Stripe's documented behaviour and the reason for the keys; the model
takes the keys to be remembered for as long as retries happen (Stripe keeps them
for a day, which the code does not deal with).

### Settlement

A job's evidence chain is reduced to the number of its `JOB_ACCEPTED`,
`UNIT_COMPLETE` and `DELIVERY_CONFIRMED` events, the only ones that
`fabricate` and `verify_chain` decide by; what else the gate checks is
`Evidence`'s. `left` is what remains of the job loop of `execute_order` and
`phase` the statement it is at. Whatever can raise has an action that does
(`PrepareRaises`, `DriverRaises`, a short `MakeBatch`, `ConfirmRaises`,
`Refuse`, `Pay`, `FileRaises`); it ends the execution and leaves everything the
code leaves. `Execute` has no guard on earlier executions, since the code has
none. The ledger and the orders live in memory only, so a crash of the server
forgets them all; what survives is the payout journal, and `PayoutEngine`
models that.

### Store, NodeFiles, KeyCustody, Catalog, K2Printer

`Store`: a record's value is the number of times it was written. Records
without an owner are read, modified and written inside `transaction()`; a record
with an owner is written by `put` alone, as the payout journal is. A JSON
transaction reads the file, changes the memory and rewrites the file; an SQLite
one takes the write lock first (`BEGIN IMMEDIATE`). Failing writes, failing
commits, bodies that raise, processes that die and backups are actions.

`NodeFiles`: a file is the set of its records, as records are only added.
`migrate` is cut between its reading, the removal of what it is forced over, the
opening of the new file, its commit and its verification, and may die at each. A
forced one looks at nothing: it may remove records that its source has not, or the
file under a running node, which then writes to a database without a name or
replaces its JSON file from memory. `risked` keeps what that may have cost, and
`NothingIsForgotten` promises the rest.
Backup and drill open the live file, and under JSON write what they read back to
it. `LiveTools` says whether they may run beside a running JSON node; `setting`
is `BINGO_STORE`, by which `node_store` chooses a file, or refuses.

`KeyCustody`: a key file is absent, torn, or a sealed seed; creating and
replacing go through a temporary file, and the program may die between any two
steps. Identities map to file names by `PathOf`, which is not injective in the
code and not in the instance.

`Catalog`: a registering process loads, registers in memory, and saves the
manifests in one transaction and then each content. `K2Printer`: `printer` is
the machine, which people at its panel also use; the driver starts a unit,
polls, tells of the poll when the print has moved on by `MinDelta` steps
(`TELEMETRY_MIN_DELTA`) or is over, takes a frame for each milestone that the poll
has come to, told or not, while the printer goes on, polls again, and claims the
unit when a poll found it complete. So a frame may be ahead of the last telemetry,
by less than `MinDelta`.

### Redemption

`events` is the chain in memory; `file`, `sidecar` and `log` are the three
places it is pinned in, written in that order. `redeem` is cut before each write
and before the credit; every write may raise (and the anchor's answer may be
lost), the process may die between any two, and while it is down the owner of
the disk may put an earlier copy of store and sidecar back. `Loads` is the
constructor's judgement. The hash of a head stands for the events up to it, so
an anchor is the chain it pins.

### HttpGuard and AuditLog

A connection is a script of requests with their fates (`Fault`). `Receive`
parses a request, checks its headers and reads the time; `Limit` takes the
limiter's lock, so a request may be counted into a later window than the one it
arrived in, and then runs the bearer check, the body and the route, which share
nothing with other threads; `Record` is the audit append at the end. `Interrupt`,
`Drain`, `Stop` and `Die` are `server_close`, the last record and the end of the
process with its daemon threads. `LimitHolds` is what a fixed window can
promise: what passed was counted in windows that do not overlap, at most the
limit in each. A refused POST leaves its body unread, after
which its connection is of no use. `AuditLog` gives each writer `BeginAppend`
and `EndAppend`, or `RefuseAppend` when the store fails.

### AlertWatch

`book` is the router's record of each problem, `draft` the same inside the
running transaction, `inbox` the last message a human got of each problem. A run
collects (`Collect`), dispatches problem by problem (`Notify`, `Suppress`,
`Resolve`), commits and writes its heartbeat (`Beat`); it may die at any step,
which takes its transaction but not the messages it sent. `torn` are the problems
whose end such a run had announced: if one of them comes back before the next run,
the book still calls it told of, and the router is silent until the ladder's next
rung though the last thing heard was a clear. `QuietMeansHeardOf` allows exactly
that, with the ladder's delay as its limit, and `NoFalseClear` the second clear
that follows when it does not come back. Times are ages that stop growing where
nothing asks for more.

### Merkle, Transparency and KeyDirectory

`Merkle` has the tree, its inclusion and consistency proofs and their verifiers
as they are in `anchor.py`: recursive operators over free hash constructors.
`Transparency` takes a tree as its parameters `Root`, `ProvesPrefix` and
`ProvesLeaf`, of which it assumes that proofs are sound (`ProofsAreSound`); the
run gives it the code's. The operator may restore an old copy of the log; a
witness cosigns what extends its last head.
`KeyDirectory` writes genesis, rotation, recovery and revocation events and asks
the verifier about damaged documents, with their head and without (`NoHead`), and
`verify_as_identity` about every message under a revoked key, with every pair of
receipts the log could give. Anything may be logged any number of times, since
`TransparencyLog.append` takes it, and what the caller calls the revocation's payload
is any payload, since `keydir.py:237` does not compare it with the directory. What is
left to promise, and proved, is `LateIsRefused`: once the witnesses have signed a log
without the message, no receipt of what that log says makes the message early. A key
is one of 32 bytes, as the verifier wants it; the writer takes others
(`keydir.py:135-162`) and then writes what does not verify.

### Documents, royalties and reputation

`SignedChain` is what passports, tokens, hauls, machine shares and evidence
share: a link names its predecessor's hash and is signed, and a registry keeps
the key an actor was first seen with. Each document module has the writer's
operations as actions, the verifier as an operator over the document alone, and
properties that relate the two. `DocumentsVerify` in `MCMarket` says it for all
of them, together with what altering a document must cost. What a document may
leave out, being unsigned (a head, a settlement, balances, the top of a haul), is a
parameter of its verifier, and the properties ask about the document with each of
these and without. A token is verified alone and against each passport that its
goods ever had (`TokenIsPinned`). Evidence is checked
over whatever can be assembled from genuine chains without a key.

`RoyaltyRouting`, `Pricing` and `Training` enumerate their inputs by small state
machines; `Whole` stands for 10 000 basis points, and the instance takes 12, so
that floors bite at every step. `MaxTerms` bounds the parents of an asset and the
royalty lines of a job, `BaseCosts` are its other costs. `SettlementLegs` is empty
where the code raises because legs miss the total; that this never happens is part
of what is checked and proved. `Trimmed` is the loop of `allocate`, as many
rounds of `Trim` as units could be too many. `Earnings` is derived from the
others' states: the run asks it of each source while that one moves, `EarningsSpec`
lets them move in any order, and the theorem is about that. A royalty leg's memo has
eight digits of its asset's id, by which `earnings.py:51-57` finds the asset; the
model has the asset itself, so two assets that share these digits are left out.

## 3. Runs

| Run | Instance | Shows |
|---|---|---|
| `PayoutEngine_jsonl` | one process, JSONL, two jobs, a receipt of three legs two of which are twins | `IntentBeforeMoney`, `PaidMeansMoved`, `NoOverpay`, and `Payouts` is implemented (101 767 states) |
| `PayoutEngine_sqlite2` | two processes on one store, one job with twin legs | a job that reconciles, with itself or with the rail, was paid leg by leg (92 536) |
| `PayoutEngine_live` | one process, one job of two legs, fairness | a recorded payout is paid in the end (517) |
| `Settlement_units` | two orders of two jobs and one, the latter with a batch driver, two executions each | all safety properties, and `Escrow` is implemented (27 718) |
| `Settlement_twice` | one order of two batch jobs, two executions | `SettledOnce` is violated |
| `Node` | the store under two processes (a shared record and one owned by each, two writes per record); three records, migrations, backups and drills beside a node; three identities, two of which share a file, three keys; a job of two units and up to four prints; three assets of two contents under two registering processes | writes stay and `AtomicMap` is implemented, no record or key is forgotten but for what a forced migration removes, only what was printed is attested, the registry holds together (1 731 052) |
| `Node_drill` | the same, with tools beside a running JSON node | `ToolsReadOnly` is violated |
| `Redemption` | two coins with codes, two accounts, three starts, one failing write, an anchor; symmetric in coins and accounts | what was acknowledged stays spent, and `Coins` is implemented (524 774) |
| `HttpGuard` | two connections of one client, five requests of every fate, two writers of the log, a limit of one per window of two ticks, three ticks, one failing append | what was answered is audited, acknowledged records stay, limits hold, a close ends (719 388) |
| `AlertWatch` | a failure and the stale heartbeat, two channels, the ladder of delays cut to three rungs | what a quiet run found was last heard of as being there, but for `torn` problems; no false clear; a lasting problem is heard of (294 778) |
| `KeyDirectory` | three keys, one of them for recovery, directories of three events, two payloads, a log of two entries that may be restored once, two witnesses of which both must sign; symmetric in payloads and witnesses | the writer's documents verify, those that show damage and signatures logged late do not, a quorum sees one history (144 526) |
| `Market` | see below | everything that divides money or proves a history (356 138) |

`Market` explores its parts side by side. *Pricing*: up to three nodes with
scores 0, 1, 3 or 10, six quantities, six subtotals around the rounding points.
*Routing*: up to three assets with up to two parents each, jobs of up to two
lines. *Training*: three uses, four corpora of which two build on another and one
does not add up. *Passport*, *token*: four actors, two of which have the same
name and different keys, three links, two deliveries and four token events.
*Haul*: three carriers of two names, two shippers, three fares two of which cannot
be paid out of their price, three events. *Machine*: three shares, revenues of 1 and 5, five
events. *Reputation*: seven completions, failures, disputes and slashes less one.
*Evidence*: three jobs, chains of five events, and what can be cut, spliced and
relabelled from them.

Why these bounds are enough to be interesting. Two processes are the least that
have different memories of one file. Twin legs are the least receipt in which a
key bound to a position, or a missing occurrence number, shows; a second job
with the same leg identity shows a key that forgets its job. Two executions let
every step of the second meet every way the first can have ended; two jobs in an
order let one take from the other. Two writes per record let the second be lost
to the first. A copy put back needs a start before it, a start on it and one
after. Three posts of one client are one more than two windows let through, and two
ticks let its window turn over. Three directory events are a rotation, a recovery and a
revocation. Three assets make a grandparent, so floors of floors occur. All
checks are exhaustive within these bounds. Nothing is cut short by a constraint:
every counter is bounded in the guards by a constant named `Max...`.

`CHECK_DEADLOCK` is off where the modelled program ends or a budget is used up:
executions, starts, events, requests, a finished job. In `PayoutEngine` and
`AlertWatch` no state may be without a successor, and deadlock is checked.

### Fairness

*PayoutEngine*: a process that is started runs (`WF` of `Start` and `Record`);
an operator who sees a FAILED or PENDING payout, which `node/watch.py` reports
from the file, runs `retry_pending` again and again, and relaunches a process
whose memory no longer agrees with the file; the provider's outages end, so that
a payout that is sent again and again is confirmed at last and its confirmation
is recorded (`SF` per key). Nothing is assumed of `pay_legs`, which the pipeline
may never call again. The relaunch is needed: if the write of a PAID outcome
raises, the memory says PAID and the disk PENDING, and this process will never
drive that key again.

*HttpGuard*: the machine runs what can run (one `WF`); the drain's deadline
comes. Nothing is assumed of clients, who may never hang up.

*AlertWatch*: the scheduler starts the watcher again and again and time passes
(`SF` of `Collect` and `Tick`), a run goes on (`WF` of `Dispatch`, `Commit`,
`Beat`), from some time on no run is killed, and a channel that is asked again
and again takes the message in the end (`SF` of `Heard`).

## 4. What the checks found

Two runs end in a violation; `PROJECT.json` quotes the lines.

* **A batch job is settled twice** (`Settlement_twice`): a re-run in which the
  operator attests no new unit still finds the first run's units in the
  evidence, and is paid out of another job's share. In an order of one job the
  empty escrow prevents it, which is why `Settlement_units` passes; without
  batch drivers it cannot happen (`SettledOnceWithoutBatches`).
* **A drill writes to the live node** (`Node_drill`): `JsonStore.backup` first
  writes the memory of the process it runs in over the file, so a backup or a
  drill of a running JSON node takes back what the node wrote since.

Other disagreements between documents and code that were met while modelling and
have no run of their own:

* payouts: a second process on one store reads it only once, so a PAID record
  can go back to PENDING and be driven again (the provider makes no second
  transfer); FAILED does not mean unmoved, after a lost answer and a refused
  retry; an exception on one leg ends `pay_legs`, and the legs after it are in
  no journal that a retry would read;
* store: `JsonStore` keeps in memory what it could not write, and its next write
  carries it along;
* pipeline: no code refunds the escrow of a failed batch (`node/agent.py:118-121`
  says it does); a driver that raises leaves its job RUNNING, not FAILED; a re-run
  takes a SETTLED job back to ACCEPTED; the evidence file is written after the
  payout it justifies;
* node: a migration that dies between opening and committing an SQLite file
  leaves an empty one that `node_store` opens without a word
  (`store.py:447-453`); a migration under `--force` removes its destination without
  looking whether the source has what it holds, or whether a node has it open
  (`migrate_store.py:62-65`); two concurrent `create`s of a key orphan the first
  (`keys.py:386-394`), and identities that differ in replaced characters share a
  file; a crash between manifests and contents leaves a design whose content
  raises `KeyError` until it is registered again;
* audit: two processes on a `JsonStore` lose an acknowledged record
  (`audit.py:34-38` warns of it), a failed append leaves no gap to be seen
  (`audit.py:164`), and `anchor_head` hands a dictionary to what takes bytes;
* HTTP: threads are daemons, so `server_close` joins none of them, contrary to
  `httpguard.py:451`; OPTIONS requests are not audited; `_authed` stays set on a
  connection whose later requests carry no token;
* alerts: the severity of a problem that got worse is remembered though the
  message was not delivered (`alert.py:228`, against the comment at 235-236), a
  resolution is dropped when it cannot be delivered, and a failed delivery ends
  the interval loop of `watch.py`; a run that dies after it announced an end and
  before its commit leaves a problem that comes back unannounced until the ladder's
  next rung, and one that dies after it told of a new problem leaves its end
  unannounced (`alert.py:216-260`);
* keys: a directory without its last events and without its head verifies, as
  `keydir.py:356-361` says, so one cut before a revocation shows no revocation;
  `keydir.py:236` calls the revocation's payload the hash of its event, but what is
  compared is whatever the caller hands in, so a payload that is logged again behind
  a late message makes that message early;
* coins: `coin_server.py:50` makes a validator key at each start, so a registry
  with a file does not load at the second (against `coin.py:177-179`); a failing
  write leaves a redemption in memory that the caller was told has failed; a
  backend that answers `{"ok": False}` counts as having credited; a
  `witness_quorum` above zero can never load;
* documents: a passport or token without its last event and without its unsigned
  fields verifies, being the document of an earlier day, and a haul without its top
  forgets a second booking, though it settles by the first all the same; a token
  sold to a bare account and spent by its key does not verify, a delivery attested
  after a token was issued can never back its redemption; a second booking of a haul with other terms blocks it for good,
  and a second PICKUP after DELIVERY hides damage; a prefix of a re-run job's
  chain with just enough units verifies; of a passport sold twice the earnings
  show the last sale only;
* training: a corpus whose cut floors to nothing makes `distribute` raise though
  it verified, a base of a base raises too (`training.py:225` says it recurses),
  and nobody verifies the base;
* reputation: with a low prior a node's score can rise after a failure, and with
  a prior of one fall after a perfect completion.

## 5. Proofs

Each module of proofs holds for every value of its module's constants, from that
module's `ASSUME` and what the table names.

| Theorem | Holds for |
|---|---|
| `PayoutEngineProofs`: `TypeCorrect`, `OnlyOwedAlways`, `NeverOverpaid`, `PaidIsReal`, `ReconciliationIsSound` (`ReconcileSound`), `KeysInAnyOrder` | any processes, both backends |
| `IntentComesFirst` (`IntentBeforeMoney`) | SQLite, or one process |
| `PaidStaysPaid`, `EngineKeepsPromise` (`KeepsPromise`) | one process |
| `SettlementProofs`: `TypeCorrect`, `WorkComesFirst` (`PaidForWork`), `LedgerComesFirst` (`LedgerLeads`), `NoCentIsLost` (`EscrowBalanced`), `JobsArePaidTheirTotal` | any orders, jobs and drivers |
| `UnitJobsSettleOnce` | any orders, for the jobs made unit by unit |
| `SettledOnceWithoutBatches`, `PipelineKeepsEscrow` (`KeepsEscrow`) | no batch drivers (`Batch = {}`) |
| `NodeProofs`: `AckedStaysOnDisk`, `BackupsAreReal`, `StoreKeepsContract` | SQLite |
| `RecordsSurvive` (`NothingIsForgotten`) | tools beside a stopped JSON node (`~LiveTools`), but for what a forced migration removes (`risked`) |
| `StoredKeysStay` (`KeyStays`) | one program at a time |
| `RegistrationsStay` (`CatalogHolds`) | SQLite |
| `UnitsAlwaysPrinted` (`UnitsArePrinted`) | any units, milestones, reporting threshold and prints |
| `QuietRunsAreHeardOf` (`QuietMeansHeardOf`), `NoClearIsFalse` (`NoFalseClear`) | any problems, channels and ladder; with the exception of problems whose end a dead run announced |
| `HttpGuardProofs`: `EveryAnswerIsAudited` (`AnswersAreAudited`) | any connections, scripts and failures |
| `LimitAlwaysHolds` (`LimitHolds`) | no more clients than the table holds |
| `AcknowledgedIsInTheLog` (`AckedIsRecorded`), `LogAlwaysVerifies` | a backend that takes turns (`TakesTurns`) |
| `RedemptionProofs`: `AcknowledgedIsSpent` (`AckedIsSpent`), `RegistryKeepsCoins` (`KeepsCoins`) | an anchor service (`Anchored`) |
| `DirectoryProofs`: `WitnessesHoldOneHistory` (`OneHistory`) | any witnesses, and any tree with sound proofs |
| `TheWriterIsVerified` (`WriterIsVerified`), `TheDamagedIsRefused` (`DamageIsRefused`) | any keys and directories of any length |
| `TheLateIsRefused` (`LateIsRefused`) | a quorum of a majority of the witnesses, any tree with sound proofs |
| `MarketProofs`: `HaulAlwaysSettles` (`HaulSettles`) | any brokers, carriers, customers and fares, any part of the unsigned top |
| `SharesAlwaysAccountedFor` (`SharesAreAccountedFor`) | any actors, supply and receipts |
| `SalesAlwaysPaid` (`SalesArePaid`) | a split of at most the whole (`SplitHolds`), which `verify_passport` asks for and the token takes as it comes |
| `RoyaltiesAlwaysFair` (`RoyaltiesAreFair`) | declared splits as `Split.validate` wants them, any depth of ancestry |
| `QuotesAlwaysFair` (`QuotesAreFair`) | any quantities, scores, costs and fee rate |
| `OutcomesAlwaysCount` (`OutcomesCount`) | any prior, probation and history |
| `BackersAlwaysRepaid` (`BackersAreRepaid`) | any backers, revenues and cap, however the revenue is cut |
| `TeachersAlwaysPaid` (`RoyaltiesReachTeachers`) | any models, uses and fees, any corpora as `build_corpus` makes them, none its own base, whether they verify or not |
| `EarningsAlwaysPaid` (`EarningsArePaid`) | splits of at most the whole, of the token (`SplitHolds`) and of each sale of a passport (`DivisionsHold`: `record_sale` does not look, `verify_passport` does) |

The arguments.

*Sums.* A sum over a function of naturals is the number of its tokens, pairs of
an argument and a number up to its value (`SumIsCount`). That turns what would be
inductions over folds into set algebra: parts, maxima, replacing one addend,
renaming. What still needs an induction (sums of sums, scaled sums, sums by key,
swapped sums) goes by `SubsetInduction`: the good subsets of a finite set are a
set, so the smallest bad one exists by the well-foundedness of strict inclusion.
`UpTo` does the same for numbers.

*Payouts.* An arrangement of a receipt permutes its legs, so the earlier equal
legs of a position, with that position, inject into the equal legs of the
receipt; hence an occurrence number is below the number of copies, the keys of
any arrangement are owed ones, and the transfers of a leg inject into
`0 .. copies - 1`. `PaidMeansMoved` needs to know where a PAID comes from
(`PaidInv`); `IntentBeforeMoney` that the key in flight is journaled and, under
JSONL, that a running process's memory covers the disk it is about to replace
(`IntentInv`). With one process, `SoleInv` adds that the memory never lags behind
the disk about a PAID record; then every step either makes at most one journaled
transfer or loses nothing on disk, which is a step of `Payouts`. As keys are owed
ones, a job whose records are all PAID has a transfer for each copy of each leg,
and its amounts add up to the receipt in any arrangement (`ReconcileSound`).

*Settlement.* Each invariant adds what is known at the phases before the step
that matters: at the gate the delivery is attested (`PaidInv`), from the release
on the ledger has settled the job (`LedgerInv`). A settled job that is made again
unit by unit comes to the gate with at least twice its quantity, and the gate
wants it exact (`OnceInv`), so it is not released twice; of a batch no such thing
holds. Each release is then a step of `Escrow`. Where money stands is counted by
order: a release moves a job's total out of its escrow into what its jobs were
paid, and no order has a job of another (`EscrowBalanced`).

*Store.* A transaction works on what it read when it took the write lock, which
nobody else could change since; so the disk is exactly what was acknowledged, and
so is what a backup reads of it, whatever transactions are open.

*NodeFiles.* The source of a migration stays, files only grow until one is removed,
and a running JSON node has in memory what its file holds. At the removal
every record of the destination that the source has not is at risk, and all are if a
node runs there; any other acknowledged record is in one of the files at every
moment.

*KeyCustody.* A sealed file is replaced only by a whole envelope of the seed that
was handed out, and the temporary one is never what a session reads.

*Catalog.* A process's memory is closed under ancestry, and so is what it adds to
manifests in one transaction; contents are never taken away.

*K2Printer.* The driver's unit began after the prints finished before it. What the
last poll saw is less than `MinDelta` ahead of what was last reported, which stands
in the evidence, and a frame is of a milestone that the poll has come to; the
milestones are taken in their order, so the last frame is below the next one.

*AlertWatch.* Outside a transaction the draft is the book, and of whatever is on
either as told the last thing heard is that it is there, or that it is over from a
run that died (`HeardInv`). So a clear goes to someone who heard. A run that was
refused by no channel has dealt with every problem it found by telling of it, after
which it is not `torn`, or by finding it told of and not yet due, which is the
exception.

*HttpGuard.* Every step of the server and of the programs beside it is one of the
audit log's own steps (`StepsAreAuditSteps`); in these the writer that holds the
turn has read the whole file, so its record extends it. A request between its
guard and its record is in flight once, and requests are distinct, so a record or a
noted failure is its own. An entry of the limiter counts what passed since its
start, and a new entry of a client starts when the old one is over, by the clock as
the thread read it; with more clients than the table holds (10 000) that is not so:
a thread that stalled before the lock may open a window of a forgotten client anew,
across one that was counted.

*Redemption.* What the external log pins is a prefix of the chain of every
registry that runs: a loaded chain must extend it, and a running one only grows.
A coin is acknowledged after its event was pinned; as no chain redeems a coin
twice, a prefix and the chain name the same owner.

*Transparency, KeyDirectory.* What a witness remembers is the head of some log
that extends all it has cosigned (`WitnessInv`), and by the soundness of
consistency proofs it cosigns only what extends that; two quorums of a majority
have a witness in common, which has both logs in its one history. So what a
receipt with a quorum places within the length of a cosigned log stands at that place
in that log: a message that a receipt places before something the log says is in the
log too, which is `LateIsRefused` turned round. The directory's
document verifies event by event, since who may sign an event depends on those
before it only (`ActiveStays`, `EventIsVerified`); a document with an event out of
its place says so in the event's own number, and one cut short has another head than
it says, if it says one.

*Transport.* The chain holds exactly if the actors kept their keys, since the
registry has the key of somebody's first link; the unsigned top, whole, is the
booking made last. What the verifier asks of the signers is then what may not have
happened to the load, and what it asks of the top, where there is one, that nobody
booked it again; what it pays is read from the first booking only
(`VerifiesIfHonest`, `WholeTopIsFirst`).

*AssetToken.* What the writer counted for a delivery is what the ledger redeemed
for it, and the writer never counts above a receipt it saw. Floors of a split of
at most the whole never exceed the amount, so the residue is no debt, and a sum
by account is the sum over the parties.

*RoyaltyRouting.* The exact terms of a composition, account by account, come to
`Whole * Whole`: by swapping the sums the parents' splits are whole, by key the
declared one is. Flooring loses less than one for each term, so what is left over
is no debt and bounded by their number. Assets are only added, so what held of
one's parents still does. A job's legs are its lines' legs one behind the other,
each line's the parts above zero in some order with the residue on the first, and
the weight of a concatenation is the sum of the weights; hence the code's own check
of the total never raises.

*Pricing.* Shares proportional to scores are in their order, and taking one from
the first of the largest keeps that but for a unit. Rounding is off by half a cent
and a floor by less than one, so the largest job takes between nothing and one cent
for each job.

*Reputation.* A score is a fraction of sums over the history, clamped. Cross-multiplied,
each of its terms moves the way the outcome says, and clamping keeps an order; the
blend of a score with the prior lies between the two.

*MachineShare.* What an entitlement on the running total grows by lies between
nothing and what came in, so neither clamp ever bites and the payments add up to
it. Of each pool the floors are in the order of the holdings and do not exceed it,
and nobody holds more than whoever takes the residue.

*Training.* Each asset's cut is paid out in full or, when every part of it floors
to nothing, not at all; the legs are theirs one behind the other, and what they
come to is the sum of what each asset's come to. The code refuses legs that do not
come to the pool, so where it pays no asset that had a cut went unpaid
(`WhoIsOwedIsPaid`). A corpus is not its own base, as its id is the hash of a body
that names the base, so the legs of the two can be told apart. What the payees were
credited is the sum over the legs by account.

*Earnings.* Legs of any shape carry their cents, and lists of them one behind the
other the sum of theirs (`FlatPays`); summed up by account, or one account's by
asset, they come to the same (`PaidInAccounts`, `ByAssetPays`). The journal's
royalty legs are made again from the assets whenever somebody looks, and still are
what the job was settled with, as nothing that is registered later changes the
asset of a line (`JournalKeeps`). The passport's settlement is that of the last
sale in its chain (`PassportInv`), and the token's legs are those of its sales,
each of which pays its price.

The restrictions are not artefacts. With two processes on a journal a PAID record
can be taken back; with batch drivers `Settlement_twice` shows the double
payment; with tools beside a running JSON node `Node_drill`; without an anchor an
earlier copy makes a coin valid again.

Only model-checked: all liveness (the prover reaches neither it nor `ENABLED`);
that the proofs of the code's trees are sound, and that it makes them, since they
are recursive operators: TLC evaluates `ProofsAreSound` for the instance's logs,
and `TreesProve` for trees of up to twenty leaves and all pairs of logs of up to
five entries of two kinds; `DocumentsVerify`, whose verifiers replay or filter
sequences with an operator: what such a replay computes for every chain is an
induction with an operator as its parameter. The documents and algorithms of `Market` are for this reason proved where
they divide money, and checked where they verify a history.

## 6. Not modelled

Cryptography (a signature verifies exactly what was signed, a hash is of what it
is of), geometry, floating-point rates, wording, reports and command lines. The
routes of `server.py` apart from placing and executing, the pages of the other
servers. Nested transactions, `restore` and `retry_transient_io` of the store.
Discovery and upload of printers. The refusals of malformed documents, which all
verifiers make by catching exceptions. The rejections of `place_order`, which
leave no trace. The first-generation services and contracts, the front end, the
AI module, Sentinel and the vendored packages. `PROJECT.json` says it component
by component.

## 7. Plan

1. `Settlement` and `PayoutEngine` composed, with a crash of the server between
   release and payout: `LedgerLeads` then speaks of the journal on disk.
2. The tree as a recursive function, with an induction over its size for the
   soundness of its proofs.
3. `AnchorService`'s files, and a directory that is saved and loaded.
4. The order state machines of the two first-generation contracts.
