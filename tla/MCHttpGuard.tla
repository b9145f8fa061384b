---------------------------- MODULE MCHttpGuard ----------------------------
(***************************************************************************)
(* An instance of HttpGuard for TLC: two connections of one client, which *)
(* posts three times where it may post once, with requests of every fate   *)
(* between, while a window turns over.  The table of clients is always too *)
(* full.                                                                   *)
(***************************************************************************)
EXTENDS HttpGuard

CONSTANTS c1, c2, k1, p1, p2, p3, h1, o1, engine, paid

ClientOf == [c \in Conns |-> k1]
Scripts == (c1 :> <<p1, p2>>) @@ (c2 :> <<o1, h1, p3>>)
Methods == [r \in Requests |-> CASE r = h1 -> "GET"
                              [] r = o1 -> "OPTIONS"
                              [] OTHER  -> "POST"]
Bearers == [r \in Requests |-> r \in {p1, p2}]
SomeFaults == [r \in Requests |-> CASE r = h1 -> "headers"
                                 [] r = p2 -> "route"
                                 [] r = o1 -> "origin"
                                 [] OTHER  -> ""]
Loopback == [loopback |-> TRUE, token |-> TRUE, tls |-> FALSE]
NoteList == (Server :> <<>>) @@ (engine :> <<paid>>)
=============================================================================
