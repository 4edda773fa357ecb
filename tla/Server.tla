------------------------------- MODULE Server -------------------------------
(***************************************************************************)
(* gat.Server with one listener: the accept loop, the goroutine of each    *)
(* accepted connection (handshake, connection limit, routes, close) and    *)
(* the cancel requests that come in as connections of their own.           *)
(*                                                                         *)
(* The handshake (module Handshake) and the pool (BasicPool, Hybrid) are   *)
(* here only their outcomes.  A connection is what the matchers and the    *)
(* handlers look at: the SSL field of fed.Conn, the database, whether some *)
(* startup parameter is not an allowed one; tls says whether the           *)
(* connection is encrypted in truth.                                       *)
(***************************************************************************)
EXTENDS Naturals, Sequences, FiniteSets

CONSTANTS Conns,           \* the connections that may come in
          Configs,         \* the configurations and clients to consider
          MaxErrors        \* failures of Accept in a behaviour

Databases == {"d1", "d2"}

\* A route: one of the matchers and one of the handlers, either of which may be nil.
RouteType ==
  [match : {"any", "d1", "plain"},
   handle : {"nil", "require_ssl", "allowed_startup_parameters", "rewrite_database",
             "error", "pool", "lookup"}]

\* What the handshake makes of a connection: nothing ever assigns Conn.SSL,
\* the codec keeps a flag of its own.
Shaken == [ssl : {FALSE}, tls : BOOLEAN, database : Databases, odd : BOOLEAN]

VARIABLES routes, limit,   \* Server.routes, Listener.MaxConnections
          stopped,         \* Listener.Stop was called
          loop,            \* the accept loop: "running" or "ended"
          errors,          \* failures of Accept so far
          open,            \* Listener.open
          pc,              \* where each connection is
          conn,            \* its fed.Conn
          first,           \* the fed.Conn the handshake produced
          chain,           \* the routes composed for it and not yet entered, by index
          at,              \* the last handler entered
          told             \* the error messages it was sent

vars == <<routes, limit, stopped, loop, errors, open, pc, conn, first, chain,
          at, told>>

Init ==
  /\ \E config \in Configs :
       /\ routes = config.routes
       /\ limit = config.limit
       /\ pc = [c \in Conns |-> IF c \in config.clients THEN "dialing" ELSE "closed"]
       /\ conn \in [Conns -> config.kinds]
  /\ stopped = FALSE
  /\ loop = "running"
  /\ errors = 0
  /\ open = 0
  /\ first = conn
  /\ chain = [c \in Conns |-> {}]
  /\ at = [c \in Conns |-> "none"]
  /\ told = [c \in Conns |-> 0]

-----------------------------------------------------------------------------
\* The accept loop.

\* netconnlistener.Accept: a goroutine of its own for the connection.
Accept(c) ==
  /\ loop = "running" /\ ~stopped
  /\ pc[c] = "dialing"
  /\ pc' = [pc EXCEPT ![c] = "handshake"]
  /\ UNCHANGED <<routes, limit, stopped, loop, errors, open, conn, first, chain,
                 at, told>>

\* Mutant: any error ends the accept loop.
EndOnError == "ended"

\* acceptFrom returns true after an error that is not the closing of the
\* listener, and start calls it again.
AfterError == "running"

AcceptFails ==
  /\ loop = "running" /\ ~stopped
  /\ errors < MaxErrors
  /\ errors' = errors + 1
  /\ loop' = AfterError
  /\ UNCHANGED <<routes, limit, stopped, open, pc, conn, first, chain, at, told>>

\* Server.Stop closes the listener; the connections are left alone.
Stop ==
  /\ ~stopped
  /\ stopped' = TRUE
  /\ UNCHANGED <<routes, limit, loop, errors, open, pc, conn, first, chain,
                 at, told>>

\* Accept returns net.ErrClosed.
AcceptClosed ==
  /\ loop = "running" /\ stopped
  /\ loop' = "ended"
  /\ UNCHANGED <<routes, limit, stopped, errors, open, pc, conn, first, chain,
                 at, told>>

-----------------------------------------------------------------------------
\* The goroutine of a connection: Server.accept.

\* frontends.Accept.  It fails, or brings a cancel request, and the connection
\* is closed, or the connection goes on.
Shake(c) ==
  /\ pc[c] = "handshake"
  /\ pc' \in {[pc EXCEPT ![c] = to] : to \in {"closed", "count"}}
  /\ UNCHANGED <<routes, limit, stopped, loop, errors, open, conn, first, chain,
                 at, told>>

\* Mutant: the limit is looked at, but the connection is not counted first.
CountLate(c) ==
  /\ pc[c] = "count"
  /\ pc' = [pc EXCEPT ![c] =
              IF limit # 0 /\ open + 1 > limit THEN "refuse" ELSE "check"]
  /\ UNCHANGED <<routes, limit, stopped, loop, errors, open, conn, first, chain,
                 at, told>>

\* count := listener.open.Add(1); what it returned decides.
Count(c) ==
  /\ pc[c] = "count"
  /\ open' = open + 1
  /\ pc' = [pc EXCEPT ![c] =
              IF limit # 0 /\ open + 1 > limit THEN "refuse" ELSE "check"]
  /\ UNCHANGED <<routes, limit, stopped, loop, errors, conn, first, chain,
                 at, told>>

\* The client is told that there are too many connections.
Refuse(c) ==
  /\ pc[c] = "refuse"
  /\ told' = [told EXCEPT ![c] = @ + 1]
  /\ pc' = [pc EXCEPT ![c] = "leave"]
  /\ UNCHANGED <<routes, limit, stopped, loop, errors, open, conn, first, chain,
                 at>>

\* Matcher.Matches: no matcher, the database matcher, or not the ssl matcher.
Matches(match, x) ==
  CASE match = "any" -> TRUE
    [] match = "d1" -> x.database = "d1"
    [] match = "plain" -> ~(x.ssl)

\* Server.Serve: the routes that match and have a handler.  All matchers run before
\* any handler.
Compose(x) == {i \in DOMAIN routes : Matches(routes[i].match, x) /\ routes[i].handle # "nil"}

\* Mutant: the routes are wrapped from the first to the last.
Innermost(rest) == {i \in rest : \A j \in rest : j <= i}

\* They are wrapped from the last to the first, which is outermost and called first.
Outermost(rest) == {i \in rest : \A j \in rest : i <= j}

Serve(c) ==
  /\ pc[c] = "check"
  /\ chain' = [chain EXCEPT ![c] = Compose(conn[c])]
  /\ pc' = [pc EXCEPT ![c] = "route"]
  /\ UNCHANGED <<routes, limit, stopped, loop, errors, open, conn, first, at,
                 told>>

\* What a handler does with a connection, before it calls next: the handlers
\* require_ssl, allowed_startup_parameters, rewrite_database, error, pool, and
\* the two that look for a pool by user and database, pgbouncer and discovery.
Enter(handle, x) ==
  CASE handle = "require_ssl" -> IF x.ssl THEN "next" ELSE "error"
    [] handle = "allowed_startup_parameters" -> IF x.odd THEN "error" ELSE "next"
    [] handle = "rewrite_database" -> "next"
    [] handle = "error" -> "error"
    [] handle = "pool" -> "pool"
    [] handle = "lookup" -> IF x.database = "d2" THEN "pool" ELSE "next"

\* What it leaves in the connection for the next one.
Rewrite(handle, x) ==
  IF handle = "rewrite_database" THEN [x EXCEPT !.database = "d2"] ELSE x

\* The next router of the chain is called.  Past the last one the client is
\* told that there is no such database, and the router returns nil.
Route(c) ==
  /\ pc[c] = "route"
  /\ IF chain[c] = {}
     THEN /\ told' = [told EXCEPT ![c] = @ + 1]
          /\ pc' = [pc EXCEPT ![c] = "leave"]
          /\ at' = [at EXCEPT ![c] = "end"]
          /\ UNCHANGED <<conn, chain>>
     ELSE \E i \in Outermost(chain[c]) :
          LET h == routes[i].handle
              to == Enter(h, conn[c]) IN
          /\ conn' = [conn EXCEPT ![c] = Rewrite(h, @)]
          /\ chain' = [chain EXCEPT ![c] = @ \ {i}]
          /\ pc' = [pc EXCEPT ![c] =
                      CASE to = "next" -> "route"
                        [] to = "error" -> "failed"
                        [] OTHER -> "pool"]
          /\ at' = [at EXCEPT ![c] = h]
          /\ UNCHANGED told
  /\ UNCHANGED <<routes, limit, stopped, loop, errors, open, first>>

\* The pool ends with an error (no login, no server, a lost server), or with
\* io.EOF when the client has left.
PoolEnds(c) ==
  /\ pc[c] = "pool"
  /\ pc' \in {[pc EXCEPT ![c] = to] : to \in {"failed", "leave"}}
  /\ UNCHANGED <<routes, limit, stopped, loop, errors, open, conn, first, chain,
                 at, told>>

\* Serve sends the error to the client.
Failed(c) ==
  /\ pc[c] = "failed"
  /\ told' = [told EXCEPT ![c] = @ + 1]
  /\ pc' = [pc EXCEPT ![c] = "leave"]
  /\ UNCHANGED <<routes, limit, stopped, loop, errors, open, conn, first, chain,
                 at>>

\* The deferred calls of accept: the connection is no longer counted, and it
\* is closed.
Leave(c) ==
  /\ pc[c] = "leave"
  /\ open' = open - 1
  /\ pc' = [pc EXCEPT ![c] = "closed"]
  /\ UNCHANGED <<routes, limit, stopped, loop, errors, conn, first, chain, at, told>>

Goroutine(c) ==
  \/ Shake(c) \/ Count(c) \/ Refuse(c) \/ Serve(c) \/ Route(c) \/ PoolEnds(c)
  \/ Failed(c) \/ Leave(c)

Next ==
  \/ \E c \in Conns : Accept(c) \/ Goroutine(c)
  \/ AcceptFails \/ Stop \/ AcceptClosed

\* The loop and the goroutines run; a client in a pool may stay for ever.
Fairness ==
  /\ \A c \in Conns : WF_vars(Accept(c)) /\ WF_vars(pc[c] # "pool" /\ Goroutine(c))
  /\ WF_vars(AcceptClosed)

Spec == Init /\ [][Next]_vars /\ Fairness

-----------------------------------------------------------------------------

\* Those between Add(1) and the deferred Add(-1).
Counted ==
  {c \in Conns : pc[c] \in {"refuse", "check", "route", "pool", "failed", "leave"}}

\* However many connections arrive at once, no more than max_connections are
\* served: Add returns to each connection a count of its own.
Limited ==
  limit # 0 =>
    Cardinality({c \in Conns : pc[c] \in {"check", "route", "pool", "failed"}})
      <= limit

\* The limit holds, and it is not used up by connections that are gone: whatever way
\* a connection ends, refused, failed or served, it is counted exactly as long as its
\* goroutine is between the two calls of Add.
LimitHolds == Limited /\ open = Cardinality(Counted)

\* The routes before one in the list that match the connection, as the
\* handshake produced it, and have a handler.
Before(i, x) ==
  {j \in DOMAIN routes : j < i /\ Matches(routes[j].match, x) /\ routes[j].handle # "nil"}

\* The connection as the handlers before route i leave it.
Rewritten(i, x) ==
  IF \E j \in Before(i, x) : routes[j].handle = "rewrite_database"
  THEN [x EXCEPT !.database = "d2"] ELSE x

\* A connection is in the pool of a route only if the route matches it and
\* every handler configured before that route let it pass: none is skipped,
\* none runs that does not match, and each sees what the earlier ones rewrote.
Screened ==
  \A c \in Conns :
    pc[c] = "pool" =>
      \E i \in DOMAIN routes :
        /\ Matches(routes[i].match, first[c])
        /\ routes[i].handle \in {"pool", "lookup"}
        /\ Enter(routes[i].handle, Rewritten(i, first[c])) = "pool"
        /\ \A j \in Before(i, first[c]) :
             Enter(routes[j].handle, Rewritten(j, first[c])) = "next"

\* The error will be relayed to the client (handler.go:12): a client that was
\* turned away, by the limit, by a handler or because no route took it, has been
\* told why when its connection is closed, and no client is told twice.
ToldOnce ==
  \A c \in Conns :
    /\ told[c] <= 1
    /\ pc[c] = "leave" /\ told[c] = 0 => at[c] \in {"pool", "lookup"}

\* Together: a client gets to a pool through every handler on its way, or is told once.
Routed == Screened /\ ToldOnce

\* SSL enforcement (README.md:44, "Optional SSL enforcement"): a client that
\* require_ssl turns away is one that is not encrypted.
OnlyPlainRefused ==
  \A c \in Conns : pc[c] = "failed" /\ at[c] = "require_ssl" => ~conn[c].tls

\* A failing Accept does not end the service, and Stop does: every client that
\* dials is accepted unless the listener is stopped, and after Stop the loop
\* ends.
LoopLives ==
  /\ \A c \in Conns : <>(pc[c] # "dialing" \/ stopped)
  /\ stopped ~> loop = "ended"
=============================================================================
