----------------------------- MODULE HttpGuard ------------------------------
(***************************************************************************)
(* The HTTP servers behind v3/bingo/httpguard.py: serve() starts a         *)
(* GuardedServer, a thread per connection guards and answers its requests  *)
(* one after another, each answer is followed by a record in the audit log *)
(* (AuditLog), and an interrupt closes the server, drains the connections  *)
(* in flight for a bounded time and ends the process with the threads that *)
(* are left.                                                               *)
(*                                                                         *)
(* A client's connection is a script of requests.  A refused request with  *)
(* a body leaves it unread on the stream, so the connection is of no use   *)
(* after it.  Time is a counter that ticks between any two steps, and the  *)
(* rate limiter reads it before it takes its lock (httpguard.py:150).      *)
(*                                                                         *)
(* Abstracted: bodies, headers and routes are the outcomes they lead to; a *)
(* route may raise.  The routes themselves are Settlement's, Redemption's  *)
(* and Provenance's.  Writers other than the server append notes.          *)
(*                                                                         *)
(* An operator named Bug... is a plausible mistake in the definition after *)
(* it.  Next never uses one: they show which property would catch it.      *)
(***************************************************************************)
EXTENDS AuditLog

CONSTANTS Server,    \* the writer that is the server's process
          Notes,     \* what each other writer appends, in order
          Conns,
          Client,    \* the address behind a connection
          Script,    \* the requests of a connection, in order
          Method,    \* of a request: "GET", "POST" or "OPTIONS"
          Bearer,    \* whether it carries the right token
          Fault,     \* what is wrong with it: "", or see Faults
          Config,    \* [loopback, token, tls]: what the operator asked for
          ReadLimit, \* requests per window and client: 120
          WriteLimit,\* 12
          Window,
          TableSize, \* clients remembered before old ones are dropped: 10 000
          MaxClock   \* a bound on time

Clients == {Client[c] : c \in Conns}
Requests == UNION {Range(Script[c]) : c \in Conns}
Limiters == {"reader", "writer"}
Faults == {"headers", "chunked", "body", "route", "origin"}

ASSUME HttpAssumption ==
    /\ Server \in Writers
    /\ IsFiniteSet(Conns)
    /\ \A c \in Conns : Script[c] \in Seq(Requests)
    /\ \A w \in Writers : Notes[w] \in Seq(Range(Notes[w]))
    /\ Method \in [Requests -> {"GET", "POST", "OPTIONS"}]
    /\ Bearer \in [Requests -> BOOLEAN]
    /\ Fault \in [Requests -> Faults \union {""}]
    /\ ReadLimit \in Nat /\ WriteLimit \in Nat
    /\ Window \in Nat \ {0} /\ TableSize \in Nat /\ MaxClock \in Nat

\* A request is asked once, and no other entry of the log is taken for it.
ASSUME RequestsAreDistinct ==
    /\ \A c, d \in Conns : \A i \in 1 .. Len(Script[c]), j \in 1 .. Len(Script[d]) :
          Script[c][i] = Script[d][j] => c = d /\ i = j
    /\ {"process.start", "process.stop"} \intersect Requests = {}
    /\ \A w \in Writers : Range(Notes[w]) \intersect Requests = {}

VARIABLES mode,   \* "off", "starting", "serving", "closing", "drained",
                  \* "stopping", "stopped" or "exited"
          conn,   \* "new", "accepted", "counted" or "closed"
          next,   \* the request a connection is at
          phase,  \* "idle", "limit", "answered" or "recording"
          now,    \* the time its thread read, 0 when it is done with it
          status, \* what each request was answered, or 0
          authed, \* HardenedHandler._authed
          hits,   \* RateLimiter._hits: the client's window and its count
          clock,
          passed, \* history: what the limiters let through, when, and the
                  \* start of the window that it was counted in
          noted   \* the notes the other writers have begun

server == <<mode, conn, next, phase, now, status, authed, hits,
            clock, passed, noted>>
vars == <<audit, server>>

NoHits == [start |-> 0, count |-> 0]

Init ==
    /\ AuditInit
    /\ mode = "off"
    /\ conn = [c \in Conns |-> "new"]
    /\ next = [c \in Conns |-> 1]
    /\ phase = [c \in Conns |-> "idle"]
    /\ now = [c \in Conns |-> 0]
    /\ status = [r \in Requests |-> 0]
    /\ authed = [c \in Conns |-> FALSE]
    /\ hits = [l \in Limiters |-> [k \in {} |-> NoHits]]
    /\ clock = 0
    /\ passed = {}
    /\ noted = [w \in Writers |-> 0]

Current(c) == Script[c][next[c]]
Entry(what, code, auth) == [of |-> what, status |-> code, authenticated |-> auth]
Alive == mode # "exited"

-----------------------------------------------------------------------------
\* serve.  Off the loopback interface a token and TLS are asked for.
Served == Config.loopback \/ (Config.token /\ Config.tls)

\* AuditLog.append by the main thread: the mode moves on when it is over.
Main(what, from, during, to) ==
    \/ /\ mode = from /\ mode' = during
       /\ BeginAppend(Server, Entry(what, 0, FALSE))
    \/ /\ mode = from /\ mode' = to
       /\ RefuseAppend(Server, Entry(what, 0, FALSE))
    \/ /\ mode = during /\ mode' = to
       /\ pending[Server] = Entry(what, 0, FALSE)
       /\ EndAppend(Server)

Start ==
    /\ Served
    /\ Main("process.start", "off", "starting", "serving")
    /\ UNCHANGED <<conn, next, phase, now, status, authed, hits,
                   clock, passed, noted>>

\* The interrupt: the listening socket is closed.  The threads are daemons,
\* so socketserver keeps no list of them and joins none.
Interrupt ==
    /\ mode = "serving" /\ mode' = "closing"
    /\ UNCHANGED <<audit, conn, next, phase, now, status, authed,
                   hits, clock, passed, noted>>

\* A wait without a deadline.
BugDrainForever ==
    /\ mode = "closing" /\ mode' = "drained"
    /\ \A c \in Conns : conn[c] # "counted"
    /\ UNCHANGED <<audit, conn, next, phase, now, status, authed,
                   hits, clock, passed, noted>>

\* The wait of server_close ends: nothing is in flight, or time is up.
Drain ==
    /\ mode = "closing" /\ mode' = "drained"
    /\ UNCHANGED <<audit, conn, next, phase, now, status, authed, hits,
                   clock, passed, noted>>

Stop ==
    /\ Main("process.stop", "drained", "stopping", "stopped")
    /\ UNCHANGED <<conn, next, phase, now, status, authed, hits,
                   clock, passed, noted>>

-----------------------------------------------------------------------------
\* process_request starts a thread, which then counts itself.
Accept(c) ==
    /\ mode = "serving" /\ conn[c] = "new"
    /\ conn' = [conn EXCEPT ![c] = "accepted"]
    /\ UNCHANGED <<audit, mode, next, phase, now, status, authed,
                   hits, clock, passed, noted>>

Count(c) ==
    /\ Alive /\ conn[c] = "accepted"
    /\ conn' = [conn EXCEPT ![c] = "counted"]
    /\ UNCHANGED <<audit, mode, next, phase, now, status, authed, hits,
                   clock, passed, noted>>

\* The client hangs up, is silent too long, or has no more to ask.
Close(c) ==
    /\ Alive /\ conn[c] = "counted" /\ phase[c] = "idle"
    /\ conn' = [conn EXCEPT ![c] = "closed"]
    /\ UNCHANGED <<audit, mode, next, phase, now, status, authed,
                   hits, clock, passed, noted>>

\* do_OPTIONS: a preflight is refused unless its origin is a listed one.
Preflight(r) == IF Fault[r] = "origin" THEN 403 ELSE 204

HeadersSane(r) == Fault[r] # "headers"

\* The thread goes on with a request: it parses it, checks its headers and
\* reads the time.  OPTIONS is answered at once, past the guards and the log.
Receive(c) ==
    /\ Alive /\ conn[c] = "counted" /\ phase[c] = "idle"
    /\ next[c] <= Len(Script[c])
    /\ LET r == Current(c)
       IN  \/ /\ Method[r] = "OPTIONS"
              /\ status' = [status EXCEPT ![r] = Preflight(r)]
              /\ next' = [next EXCEPT ![c] = @ + 1]
              /\ UNCHANGED <<phase, now>>
           \/ /\ Method[r] # "OPTIONS" /\ ~HeadersSane(r)
              /\ status' = [status EXCEPT ![r] = 431]
              /\ phase' = [phase EXCEPT ![c] = "answered"]
              /\ UNCHANGED <<next, now>>
           \/ /\ Method[r] # "OPTIONS" /\ HeadersSane(r)
              /\ now' = [now EXCEPT ![c] = clock]
              /\ phase' = [phase EXCEPT ![c] = "limit"]
              /\ UNCHANGED <<next, status>>
    /\ UNCHANGED <<audit, mode, conn, authed, hits, clock, passed, noted>>

LimiterOf(r) == IF Method[r] = "POST" THEN "writer" ELSE "reader"
LimitOf(l) == IF l = "writer" THEN WriteLimit ELSE ReadLimit

\* A window that ends when the time differs from its start.
BugCounted(table, k, t) ==
    LET old == IF k \in DOMAIN table THEN table[k] ELSE [start |-> t, count |-> 0]
        fresh == IF t # old.start THEN [start |-> t, count |-> 0] ELSE old
    IN  [fresh EXCEPT !.count = @ + 1]

\* The client's entry after one more request at time t.
Counted(table, k, t) ==
    LET old == IF k \in DOMAIN table THEN table[k] ELSE [start |-> t, count |-> 0]
        fresh == IF t - old.start >= Window THEN [start |-> t, count |-> 0] ELSE old
    IN  [fresh EXCEPT !.count = @ + 1]

\* A full table forgets the clients whose window is over.
Evicted(table, t) ==
    IF Cardinality(DOMAIN table) <= TableSize THEN table
    ELSE [k \in {x \in DOMAIN table : table[x].start >= t - Window} |-> table[k]]

\* What the guards after the limiter answer, or the route.  A route that
\* raises is answered for by _guarded.
Verdict(r) ==
    CASE Method[r] = "POST" /\ ~Config.token       -> 503
      [] Method[r] = "POST" /\ ~Bearer[r]          -> 401
      [] Method[r] = "POST" /\ Fault[r] = "chunked" -> 411
      [] Method[r] = "POST" /\ Fault[r] = "body"    -> 400
      [] Fault[r] = "route"                        -> 500
      [] OTHER                                     -> 200

\* _authorized, _read_body and the route, which share nothing with another
\* thread.
Guard(c) ==
    /\ status' = [status EXCEPT ![Current(c)] = Verdict(Current(c))]
    /\ authed' = [authed EXCEPT ![c] =
                     @ \/ (Method[Current(c)] = "POST" /\ Config.token
                             /\ Bearer[Current(c)])]

\* RateLimiter.check, under its lock, and what the thread does by itself then.
Limit(c) ==
    /\ Alive /\ phase[c] = "limit"
    /\ LET r == Current(c)
           l == LimiterOf(r)
           k == Client[c]
           entry == Counted(hits[l], k, now[c])
           table == [x \in DOMAIN hits[l] \union {k} |->
                        IF x = k THEN entry ELSE hits[l][x]]
       IN  /\ hits' = [hits EXCEPT ![l] = Evicted(table, now[c])]
           /\ IF entry.count <= LimitOf(l)
              THEN /\ Guard(c)
                   /\ passed' = passed \union {[limiter |-> l, client |-> k,
                                                of |-> r, at |-> now[c],
                                                window |-> entry.start]}
              ELSE /\ status' = [status EXCEPT ![r] = 429]
                   /\ UNCHANGED <<authed, passed>>
    /\ phase' = [phase EXCEPT ![c] = "answered"]
    /\ now' = [now EXCEPT ![c] = 0]
    /\ UNCHANGED <<audit, mode, conn, next, clock, noted>>

\* Unread: a POST refused before its body was read leaves it on the stream.
Unread(r) == Method[r] = "POST" /\ status[r] \in {401, 411, 429, 431, 503}
After(c) == IF Unread(Current(c)) THEN Len(Script[c]) + 1 ELSE next[c] + 1

Line(c) == Entry(Current(c), status[Current(c)], authed[c])

\* Requests recorded only when they were served.
BugRecord(c) ==
    /\ Alive
    /\ \/ /\ phase[c] = "answered" /\ status[Current(c)] = 200
          /\ BeginAppend(Server, Line(c))
          /\ phase' = [phase EXCEPT ![c] = "recording"]
          /\ UNCHANGED next
       \/ /\ phase[c] = "answered" /\ status[Current(c)] # 200
          /\ phase' = [phase EXCEPT ![c] = "idle"]
          /\ next' = [next EXCEPT ![c] = After(c)]
          /\ UNCHANGED audit
       \/ /\ phase[c] = "recording" /\ pending[Server] = Line(c)
          /\ EndAppend(Server)
          /\ phase' = [phase EXCEPT ![c] = "idle"]
          /\ next' = [next EXCEPT ![c] = After(c)]
    /\ UNCHANGED <<mode, conn, now, status, authed, hits, clock,
                   passed, noted>>

\* _audit_request, in the finally of the guard.
Record(c) ==
    /\ Alive
    /\ \/ /\ phase[c] = "answered"
          /\ BeginAppend(Server, Line(c))
          /\ phase' = [phase EXCEPT ![c] = "recording"]
          /\ UNCHANGED next
       \/ /\ \/ phase[c] = "answered" /\ RefuseAppend(Server, Line(c))
             \/ phase[c] = "recording" /\ pending[Server] = Line(c) /\ EndAppend(Server)
          /\ phase' = [phase EXCEPT ![c] = "idle"]
          /\ next' = [next EXCEPT ![c] = After(c)]
    /\ UNCHANGED <<mode, conn, now, status, authed, hits, clock,
                   passed, noted>>

-----------------------------------------------------------------------------
\* The end of the process ends its threads, an append among them.
Die ==
    /\ mode = "stopped" /\ mode' = "exited"
    /\ AbandonAppend(Server)
    /\ UNCHANGED <<conn, next, phase, now, status, authed, hits,
                   clock, passed, noted>>

\* Another process, a payout engine, appends its notes.
Note(w) ==
    /\ w # Server
    /\ \/ /\ noted[w] < Len(Notes[w])
          /\ BeginAppend(w, Entry(Notes[w][noted[w] + 1], 0, FALSE))
          /\ noted' = [noted EXCEPT ![w] = @ + 1]
       \/ EndAppend(w) /\ UNCHANGED noted
    /\ UNCHANGED <<mode, conn, next, phase, now, status, authed,
                   hits, clock, passed>>

Tick ==
    /\ Alive /\ clock < MaxClock
    /\ clock' = clock + 1
    /\ UNCHANGED <<audit, mode, conn, next, phase, now, status,
                   authed, hits, passed, noted>>

Thread(c) == Count(c) \/ Receive(c) \/ Limit(c) \/ Record(c)

Next ==
    \/ Start \/ Interrupt \/ Drain \/ Stop \/ Die \/ Tick
    \/ \E c \in Conns : Accept(c) \/ Close(c) \/ Thread(c)
    \/ \E w \in Writers : Note(w)

Spec == Init /\ [][Next]_vars

\* The machine runs whatever can run: the main thread, whose drain has a
\* deadline that comes, a thread, or a process that holds the log's lock.  None
\* of them has endless work, so nothing is asked of the scheduler's choice.
\* Clients, the operator's interrupt and the clock owe nothing.
Runs ==
    \/ Drain \/ Stop \/ Die
    \/ \E c \in Conns : Thread(c)
    \/ \E w \in Writers : Note(w)
Live == Spec /\ WF_vars(Runs)

-----------------------------------------------------------------------------
Answered(c) == {Script[c][i] : i \in 1 .. (next[c] - 1)}
                   \ {r \in Requests : status[r] = 0}

\* Every request whose guard is over has left one record, the refused ones
\* too, with the status it was answered (httpguard.py:351); the log's failures
\* are noted, and OPTIONS is not recorded.
AnswersAreAudited ==
    \A c \in Conns : \A r \in Answered(c) :
        Method[r] = "OPTIONS"
        \/ Cardinality({e \in acked \union errors :
                           e.of = r /\ e.status = status[r]}) = 1

PassesIn(l, k, start) ==
    {p \in passed : p.limiter = l /\ p.client = k /\ p.window = start}

\* Whatever the order in which threads read the time and take the lock, what a
\* client passes a limiter with is counted in windows that do not overlap, at
\* most the limit in each, and none when its window is over (httpguard.py:98,
\* "requests per window, per client").
LimitHolds ==
    /\ \A p \in passed :
          /\ Cardinality(PassesIn(p.limiter, p.client, p.window)) <= LimitOf(p.limiter)
          /\ p.at < p.window + Window
    /\ \A p, q \in passed :
          p.limiter = q.limiter /\ p.client = q.client /\ p.window < q.window
              => p.window + Window <= q.window

\* A close ends the process, whatever its clients do (httpguard.py:425: "one
\* wedged client cannot stop the process from exiting").
CloseEnds == mode = "closing" ~> mode = "exited"
=============================================================================
