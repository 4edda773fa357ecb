-------------------------------- MODULE MCNet --------------------------------
(***************************************************************************)
(* What goes on around the pools, for TLC: the in-memory connection (pipe), *)
(* a query over one (query), the accept loop with its routes (server), the *)
(* two handshakes (handshake).  A behaviour runs one of them, which, and   *)
(* leaves the variables of the others in one initial state.                *)
(***************************************************************************)
EXTENDS Mio

CONSTANTS Conns, Configs, MaxErrors,                  \* Server
          Alone,                                      \* one of Conns
          MaxSends                                    \* Handshake

VARIABLES which,
          site, session, answer, pending, pipe, shut, q, s, rows, result,
          held, ch, collected, bank,
          routes, limit, stopped, loop, errors, open, spc, conn, first, chain,
          at, told,
          setup, up, down, gone, D, A, sends

queryVars == <<site, session, answer, pending, pipe, shut, q, s, rows, result,
               held, ch, collected, bank>>
serverVars == <<routes, limit, stopped, loop, errors, open, spc, conn, first,
                chain, at, told>>
handshakeVars == <<setup, up, down, gone, D, A, sends>>

-----------------------------------------------------------------------------
(* The configurations of the server: one client of each kind against every  *)
(* list of up to two routes, and against lists of three; then all the      *)
(* clients at once against a limit.                                        *)

ToD1 == [ssl |-> FALSE, tls |-> TRUE, database |-> "d1", odd |-> FALSE]
Kinds == {ToD1, [ToD1 EXCEPT !.tls = FALSE], [ToD1 EXCEPT !.database = "d2"],
          [ToD1 EXCEPT !.odd = TRUE]}

Route(matches, handles) == [match : matches, handle : handles]
Routes == Route({"any", "d1"}, {"allowed_startup_parameters", "rewrite_database", "lookup"})
            \cup Route({"any"}, {"error", "pool", "require_ssl"})
            \cup Route({"plain"}, {"pool", "nil"})
Chained == Route({"any", "d1"}, {"rewrite_database", "lookup"})
             \cup Route({"any"}, {"allowed_startup_parameters"})

MCConfigs ==
  {[routes |-> r, limit |-> 0, clients |-> {Alone}, kinds |-> {k}] :
     r \in {<<>>} \cup [1..1 -> Routes] \cup [1..2 -> Routes] \cup [1..3 -> Chained],
     k \in Kinds}
  \cup
  {[routes |-> <<[match |-> "any", handle |-> "pool"]>>, limit |-> l,
    clients |-> Conns, kinds |-> {ToD1}] : l \in 1..2}

-----------------------------------------------------------------------------

Q == INSTANCE AuthQuery WITH closed <- shut
S == INSTANCE Server WITH pc <- spc
H == INSTANCE Handshake

\* The configurations are made of a list of routes and a limit that is not negative.
ASSUME NetAssumption ==
  \A config \in Configs : config.limit \in Nat /\ config.routes \in Seq(S!RouteType)

\* One initial state of the components that do not run.
QueryOff == Q!Init /\ site = "google" /\ ~session /\ answer = "one"

ServerOff ==
  /\ routes = <<>> /\ limit = 0 /\ stopped = FALSE /\ loop = "running"
  /\ errors = 0 /\ open = 0
  /\ spc = [c \in Conns |-> "closed"]
  /\ conn = [c \in Conns |-> ToD1] /\ first = conn
  /\ chain = [c \in Conns |-> {}]
  /\ at = [c \in Conns |-> "none"]
  /\ told = [c \in Conns |-> 0]

HandshakeOff ==
  /\ setup = [who |-> "cancel", mode |-> "empty", database |-> "empty", creds |-> "nil",
              tls |-> FALSE, accepts |-> "nil", knows |-> TRUE]
  /\ up = <<>> /\ down = <<>> /\ gone = {} /\ sends = 0
  /\ D = [pc |-> "start", tls |-> FALSE, key |-> "none", proofs |-> 0]
  /\ A = [pc |-> "startup", tls |-> FALSE, user |-> "empty", database |-> "empty",
          auth |-> FALSE, proved |-> FALSE, key |-> "none"]

NetInit ==
  /\ Init
  /\ which \in {"pipe", "query", "server", "handshake"}
  /\ IF which = "query" THEN Q!Init ELSE QueryOff
  /\ IF which = "server" THEN S!Init ELSE ServerOff
  /\ IF which = "handshake" THEN H!Init ELSE HandshakeOff

NetNext ==
  /\ UNCHANGED which
  /\ \/ /\ which = "pipe" /\ Next
        /\ UNCHANGED <<queryVars, serverVars, handshakeVars>>
     \/ /\ which = "query" /\ Q!Next
        /\ UNCHANGED <<vars, serverVars, handshakeVars>>
     \/ /\ which = "server" /\ S!Next
        /\ UNCHANGED <<vars, queryVars, handshakeVars>>
     \/ /\ which = "handshake" /\ H!Next
        /\ UNCHANGED <<vars, queryVars, serverVars>>

\* The fairness of each component, for the component that runs.
PipeFairness ==
  /\ \A g \in Inward \cup Outward :
       /\ WF_vars(which = "pipe" /\ pc[g] = "awake" /\ \E n \in 1..2 : Read(g, n))
       /\ WF_vars(which = "pipe" /\ CloseIn(g))
  /\ \A d \in {"out", "in"} : WF_vars(which = "pipe" /\ Fires(d))

QueryFairness ==
  /\ WF_queryVars(which = "query" /\ Q!Query)
  /\ WF_queryVars(which = "query" /\ Q!Serve)
  /\ WF_queryVars(which = "query" /\ Q!Collect)

ServerFairness ==
  /\ \A c \in Conns :
       /\ WF_serverVars(which = "server" /\ S!Accept(c))
       /\ WF_serverVars(which = "server" /\ spc[c] # "pool" /\ S!Goroutine(c))
  /\ WF_serverVars(which = "server" /\ S!AcceptClosed)

HandshakeFairness ==
  /\ WF_handshakeVars(which = "handshake" /\ H!Dialer)
  /\ WF_handshakeVars(which = "handshake" /\ H!Acceptor)
  /\ WF_handshakeVars(which = "handshake" /\ H!Secure)
  /\ WF_handshakeVars(which = "handshake" /\ H!YLeaves)

NetSpec ==
  /\ NetInit /\ [][NetNext]_<<which, vars, queryVars, serverVars, handshakeVars>>
  /\ PipeFairness /\ QueryFairness /\ ServerFairness /\ HandshakeFairness

-----------------------------------------------------------------------------

\* When Bank.Wait returns nil, the result of the query is there, and no goroutine,
\* packet or server is left behind.
QueryDone == which = "query" => Q!QueryDone

\* The caller of the query does not wait for ever.
WaitReturns == which = "query" => Q!WaitReturns

\* No more connections than max_connections are served.
LimitHolds == which = "server" => S!LimitHolds

\* A connection reaches a pool only through every handler before it, or its client
\* is told why it does not, once.
Routed == which = "server" => S!Routed

\* The accept loop outlives failures of Accept, and ends after Stop.
LoopLives == which = "server" => S!LoopLives

\* require_ssl refuses only clients that are not encrypted.
OnlyPlainRefused == which = "server" => S!OnlyPlainRefused

\* The two sides of a finished handshake agree on what they have set up; with
\* ssl_mode require nothing but the request for TLS was sent in the clear, and a
\* client was let in only if it proved that it knows the password.
Trusted == which = "handshake" => H!Trusted

\* The two sides of a handshake never wait for each other.
BothReturn == which = "handshake" => H!BothReturn
=============================================================================
