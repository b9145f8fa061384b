----------------------------- MODULE AlertWatch -----------------------------
(***************************************************************************)
(* The node watcher: v3/bingo/node/watch.py collects the problems a node   *)
(* has and dispatches them through the router of v3/bingo/alert.py, which  *)
(* remembers in the storage seam what it has said, so that each run, a     *)
(* process of its own, says what is new, what got worse, what is due again *)
(* and what is over.  Channels may refuse; a run may die at any point, and *)
(* its transaction with it, but not the messages it has sent.              *)
(*                                                                         *)
(* A problem has a severity, 0 when it is absent.  One of them is that the *)
(* watcher's own heartbeat is too old (--check-stale).  Times are ages, in *)
(* ticks, and stop growing where nothing asks for more, so runs and ticks  *)
(* need no bound.  An alert's wording, count and data are left out, and so *)
(* is what the checks of health.py look at.                                *)
(*                                                                         *)
(* An operator named Bug... is a plausible mistake in the definition after *)
(* it.  AlertNext never uses one: they show which property would catch it. *)
(***************************************************************************)
EXTENDS Integers, Sequences, FiniteSetsExt

CONSTANTS Problems,
          Stale,      \* the problem of an old heartbeat
          Channels,
          Backoff,    \* the ladder of BACKOFF, in ticks: <<0, 300, 1800, ...>>
          MinSeverity,\* what is too mild to be dispatched
          MaxSilence  \* the oldest heartbeat that is no problem

Critical == 2
Severities == 0 .. Critical
Oldest == Max(Range(Backoff) \union {MaxSilence + 1})

ASSUME AlertAssumption ==
    /\ Stale \in Problems
    /\ Backoff \in Seq(Nat) /\ Len(Backoff) > 0
    /\ MinSeverity \in Severities \ {0}
    /\ MaxSilence \in Nat

VARIABLES world,   \* the severity of each problem
          book,    \* the router's state of each problem it knows
          draft,   \* the same inside the running transaction
          found,   \* what the run has collected
          todo,    \* the problems the run has not dealt with
          step,    \* "idle", "dispatch" or "beat"
          failed,  \* whether a channel has refused something (delivery_failures)
          beat,    \* the age of the last heartbeat
          inbox,   \* the last message a human got of each problem
          torn     \* history: the problems whose end was last announced by a run
                   \* that died before its commit

alertVars == <<world, book, draft, found, todo, step, failed, beat,
          inbox, torn>>

\* The entry of a problem the router knows nothing of.
Unknown == [severity |-> 0, stage |-> 0, told |-> FALSE, age |-> 0]

AlertInit ==
    /\ world = [p \in Problems |-> 0]
    /\ book = [p \in Problems |-> Unknown]
    /\ draft = book
    /\ found = world
    /\ todo = {}
    /\ step = "idle"
    /\ failed = FALSE
    /\ beat = 0
    /\ inbox = [p \in Problems |-> [state |-> "none", severity |-> 0, news |-> FALSE]]
    /\ torn = {}

-----------------------------------------------------------------------------
\* External: problems come, go and change, and time passes, between runs: a
\* run looks once, when it collects.
Change(p) ==
    /\ step = "idle" /\ p # Stale
    /\ \E s \in Severities \ {world[p]} : world' = [world EXCEPT ![p] = s]
    /\ UNCHANGED <<book, draft, found, todo, step, failed, beat,
                   inbox, torn>>

Older(a) == Min({a + 1, Oldest})
Aged(entries) == [p \in Problems |->
    IF entries[p].told THEN [entries[p] EXCEPT !.age = Older(@)] ELSE entries[p]]

Tick ==
    /\ step = "idle"
    /\ book' = Aged(book) /\ draft' = Aged(book)
    /\ beat' = Min({beat + 1, MaxSilence + 1})
    /\ UNCHANGED <<world, found, todo, step, failed, inbox, torn>>

\* staleness_alert.
Staleness == IF beat > MaxSilence THEN Critical ELSE 0

\* collect, and the start of dispatch's transaction.
Collect ==
    /\ step = "idle"
    /\ LET seen == [world EXCEPT ![Stale] = Staleness]
       IN  found' = [p \in Problems |-> IF seen[p] >= MinSeverity THEN seen[p] ELSE 0]
    /\ draft' = book
    /\ todo' = Problems
    /\ failed' = FALSE
    /\ step' = "dispatch"
    /\ UNCHANGED <<world, book, beat, inbox, torn>>

Escalated(p) == draft[p].severity > 0 /\ found[p] > draft[p].severity
BugDueOnce(p) ==
    \/ draft[p].severity = 0
    \/ draft[p].told /\ draft[p].age >= Backoff[draft[p].stage + 1]
Due(p) == ~draft[p].told \/ draft[p].age >= Backoff[draft[p].stage + 1]

\* A message to every channel, and whether any of them took it: where there is
\* no channel, none did.
Deliver(p, message, taken) ==
    /\ failed' = (failed \/ taken # Channels \/ taken = {})
    /\ inbox' = IF taken = {} THEN inbox ELSE [inbox EXCEPT ![p] = message]

Firing(p) == [state |-> "firing", severity |-> found[p], news |-> TRUE]

\* The clear; it is news to whom the problem was the last thing heard.
Over(p) == [state |-> "resolved", severity |-> 0, news |-> inbox[p].state = "firing"]

\* The next rung of the ladder.
Rung(n) == Min({n + 1, Len(Backoff) - 1})

\* The entry of a problem that was told of, or was to be.
BugToldOf(p, taken) ==
    [severity |-> found[p],
     told |-> TRUE,
     age |-> 0,
     stage |-> IF Escalated(p) THEN 0 ELSE Rung(draft[p].stage)]

ToldOf(p, taken) ==
    IF taken = {} THEN [draft[p] EXCEPT !.severity = found[p]]
    ELSE [severity |-> found[p],
          told |-> TRUE,
          age |-> 0,
          stage |-> IF Escalated(p) THEN 0 ELSE Rung(draft[p].stage)]

\* A problem that is new, worse or due.
Notify(p) ==
    /\ step = "dispatch" /\ p \in todo /\ found[p] > 0
    /\ Due(p) \/ Escalated(p)
    /\ \E taken \in SUBSET Channels :
          /\ Deliver(p, Firing(p), taken)
          /\ draft' = [draft EXCEPT ![p] = ToldOf(p, taken)]
          /\ torn' = IF taken = {} THEN torn ELSE torn \ {p}
    /\ todo' = todo \ {p}
    /\ UNCHANGED <<world, book, found, step, beat>>

\* One that was told of recently enough.
Suppress(p) ==
    /\ step = "dispatch" /\ p \in todo /\ found[p] > 0
    /\ ~(Due(p) \/ Escalated(p))
    /\ draft' = [draft EXCEPT ![p].severity = found[p]]
    /\ todo' = todo \ {p}
    /\ UNCHANGED <<world, book, found, step, failed, beat, inbox, torn>>

\* A resolution for whatever is known and gone, told of or not.
BugResolve(p) ==
    /\ step = "dispatch" /\ p \in todo /\ \A q \in todo : found[q] = 0
    /\ IF draft[p].severity > 0
       THEN \E taken \in SUBSET Channels : Deliver(p, Over(p), taken)
       ELSE UNCHANGED <<failed, inbox>>
    /\ draft' = [draft EXCEPT ![p] = Unknown]
    /\ todo' = todo \ {p}
    /\ UNCHANGED <<world, book, found, step, beat, torn>>

\* One that is over, after those that are not: its end is announced if it was,
\* and the entry is dropped whether or not a channel took the message.
Resolve(p) ==
    /\ step = "dispatch" /\ p \in todo /\ \A q \in todo : found[q] = 0
    /\ IF draft[p].told
       THEN \E taken \in SUBSET Channels : Deliver(p, Over(p), taken)
       ELSE UNCHANGED <<failed, inbox>>
    /\ draft' = [draft EXCEPT ![p] = Unknown]
    /\ todo' = todo \ {p}
    /\ UNCHANGED <<world, book, found, step, beat, torn>>

\* The transaction commits.
CommitAlerts ==
    /\ step = "dispatch" /\ todo = {}
    /\ book' = draft
    /\ step' = "beat"
    /\ UNCHANGED <<world, draft, found, todo, failed, beat, inbox, torn>>

\* The heartbeat, after dispatch, which the log may fail to take, and the end
\* of the run.
ExitCode == IF failed THEN 2
            ELSE IF \E p \in Problems : found[p] > 0 THEN 1 ELSE 0
Beat ==
    /\ step = "beat"
    /\ beat' \in {0, beat}
    /\ step' = "idle"
    /\ found' = [p \in Problems |-> 0]
    /\ failed' = FALSE
    /\ UNCHANGED <<world, book, draft, todo, inbox, torn>>

Die ==
    /\ step # "idle"
    /\ step' = "idle"
    /\ draft' = book
    /\ todo' = {}
    /\ found' = [p \in Problems |-> 0]
    /\ failed' = FALSE
    /\ torn' = torn \union {p \in Problems : book[p].told /\ ~draft[p].told}
    /\ UNCHANGED <<world, book, beat, inbox>>

Dispatch(p) == Notify(p) \/ Suppress(p) \/ Resolve(p)

AlertNext ==
    \/ \E p \in Problems : Change(p) \/ Dispatch(p)
    \/ Tick \/ Collect \/ CommitAlerts \/ Beat \/ Die

AlertSpec == AlertInit /\ [][AlertNext]_alertVars

\* The scheduler runs the watcher again and again, time passes, from some time
\* on no run is killed, and a channel asked often enough takes the message.
Heard(p) == Notify(p) /\ inbox'[p] = Firing(p)
Fairness ==
    /\ SF_alertVars(Tick) /\ SF_alertVars(Collect) /\ WF_alertVars(CommitAlerts) /\ WF_alertVars(Beat)
    /\ \A p \in Problems : WF_alertVars(Dispatch(p)) /\ SF_alertVars(Heard(p))
    /\ <>[][~Die]_alertVars

Live == AlertSpec /\ Fairness

-----------------------------------------------------------------------------

\* When a run ends without a complaint, what was last heard of each problem it
\* found is that it is there.  There is one exception: a run that died had
\* announced the end of a problem that has come back, and the book still says it
\* was told of; then they had heard of it before, and hear of it again as soon as
\* the ladder allows (alert.py:216-245, 265-268).
QuietMeansHeardOf ==
    step = "beat" /\ ExitCode # 2 =>
        \A p \in Problems : found[p] > 0 =>
            \/ inbox[p].state = "firing"
            \/ /\ p \in torn /\ inbox[p].state = "resolved"
               /\ book[p].told /\ book[p].age < Backoff[book[p].stage + 1]

\* Whoever hears that a problem is over had last heard that it is there, or had
\* heard that it is over from a run that died (alert.py:251).
NoFalseClear ==
    [][\A p \in Problems :
          inbox'[p].state = "resolved" /\ inbox'[p] # inbox[p]
              => \/ inbox[p].state = "firing"
                 \/ inbox[p].state = "resolved" /\ p \in torn]_alertVars

\* A problem that stays is heard of in the end, at its severity.
ProblemIsHeard ==
    \A p \in Problems \ {Stale} : \A s \in MinSeverity .. Critical :
        <>[](world[p] = s) => <>(inbox[p].state = "firing" /\ inbox[p].severity = s)
=============================================================================
