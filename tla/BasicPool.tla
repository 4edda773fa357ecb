------------------------------ MODULE BasicPool ------------------------------
(***************************************************************************)
(* The basic pool (handlers/pool/pools/basic): one goroutine per client    *)
(* that acquires a server, brings its parameters in line with the client's *)
(* (fed/middlewares/ps), lets the bouncer run a transaction and gives the  *)
(* server back, and the cancel requests that look a client up meanwhile.   *)
(*                                                                         *)
(* Below it, the server pool is what the module Spool shows it to be: a    *)
(* free server is handed to one client (Acquire), returns (Release, with   *)
(* the reset query in session pooling) or is dropped (RemoveServer) and    *)
(* later replaced.  The bouncer is reduced to its outcomes and to the      *)
(* parameters a transaction sets; prepared statements are in Eqp.          *)
(*                                                                         *)
(* Parameters are the ones PostgreSQL reports, all of Tracked among them.  *)
(* (It reports search_path, which is tracked by default                    *)
(* (gatcaddyfile/pool.go:28), only from version 18 on: before that nothing *)
(* here is about search_path.)  A Go map is a function to Values and       *)
(* Absent; a client that asks for "" is left out.                          *)
(***************************************************************************)
EXTENDS Integers, FiniteSets

CONSTANTS Clients, Servers,
          Names,         \* parameters
          Tracked,       \* config.TrackedParameters
          Values,        \* of a parameter
          Absent,        \* not in the map
          None,          \* nil
          MaxSets        \* bound on the SETs of one client's transactions

ASSUME BasicAssumption ==
  None \notin Servers /\ Absent \notin Values /\ Tracked \subseteq Names

VARIABLES mode,      \* "session" or "transaction": the two configurations of config.go
          pc,        \* where the goroutine of a client is
          server,    \* the variable server of serve
          serverErr, \* serverErr # nil
          ready,     \* conn.Ready
          clients,   \* the keys of the map clients
          peer,      \* Client.peer
          todo,      \* the names that Sync has yet to look at
          cps,       \* ps.Client: synced and parameters (or the initial parameters)
          sps,       \* ps.Server: parameters (or the initial parameters)
          idle,      \* the servers the server pool can hand out
          gone,      \* the servers that were removed
          initial,   \* the parameters of a new connection to a server
          real,      \* the parameters in effect on a server
          told,      \* the parameters a client was told by ParameterStatus
          want,      \* the parameters a client asked for or set itself
          off,       \* <<s, n>>: the server refused n and the mirror says otherwise
          sets       \* the SETs a client has run

clientVars == <<pc, server, serverErr, ready, clients, peer, todo>>
paramVars == <<cps, sps, initial, real, told, want, off, sets>>
vars == <<mode, clientVars, paramVars, idle, gone>>

Maybe == Values \cup {Absent}
Nothing == [n \in Names |-> Absent]

TypeOK ==
  /\ mode \in {"session", "transaction"}
  /\ pc \in [Clients -> {"new", "await", "pair", "top", "release", "read", "bounce",
                         "leave", "unlist", "gone"}]
  /\ server \in [Clients -> Servers \cup {None}]
  /\ serverErr \in [Clients -> BOOLEAN]
  /\ ready \in [Clients -> BOOLEAN]
  /\ clients \subseteq Clients
  /\ peer \in [Clients -> Servers \cup {None}]
  /\ todo \in [Clients -> SUBSET Names]
  /\ cps \in [Clients -> [synced : BOOLEAN, params : [Names -> Maybe]]]
  /\ sps \in [Servers -> [Names -> Maybe]]
  /\ idle \subseteq Servers
  /\ gone \subseteq Servers
  /\ initial \in [Servers -> [Names -> Values]]
  /\ real \in [Servers -> [Names -> Values]]
  /\ told \in [Clients -> [Names -> Maybe]]
  /\ want \in [Clients -> [Names -> Maybe]]
  /\ off \subseteq Servers \X Names
  /\ sets \in [Clients -> 0..MaxSets]

Dynamic == mode = "transaction"      \* ParameterStatusSyncDynamic
ReleaseAfterTransaction == mode = "transaction"

Init ==
  /\ mode \in {"session", "transaction"}
  /\ pc = [c \in Clients |-> "new"]
  /\ server = [c \in Clients |-> None]
  /\ serverErr = [c \in Clients |-> FALSE]
  /\ ready = [c \in Clients |-> FALSE]
  /\ clients = {}
  /\ peer = [c \in Clients |-> None]
  /\ todo = [c \in Clients |-> {}]
  /\ \E v \in Values : initial = [s \in Servers |-> [n \in Names |-> v]]
  /\ want \in [Clients -> [Names -> Maybe]]
  /\ cps = [c \in Clients |-> [synced |-> FALSE, params |-> want[c]]]
  /\ sps = initial
  /\ real = initial
  /\ told = [c \in Clients |-> Nothing]
  /\ idle = Servers
  /\ gone = {}
  /\ off = {}
  /\ sets = [c \in Clients |-> 0]

At(c, from, to) == pc[c] = from /\ pc' = [pc EXCEPT ![c] = to]

\* Client.SetState, as far as the peer goes.
SetState(c, p) == peer' = [peer EXCEPT ![c] = p]

-----------------------------------------------------------------------------
(* The server pool.                                                        *)

\* A removed server's place is taken by a new connection.
NewServer(s) ==
  /\ s \in gone
  /\ gone' = gone \ {s} /\ idle' = idle \cup {s}
  /\ real' = [real EXCEPT ![s] = initial[s]]
  /\ sps' = [sps EXCEPT ![s] = initial[s]]
  /\ off' = {p \in off : p[1] # s}
  /\ UNCHANGED <<mode, clientVars, cps, initial, told, want, sets>>

RemoveServer(s) == gone' = gone \cup {s} /\ UNCHANGED <<idle, real, off>>

\* The reset query of session pooling may fail: the server is removed.
Release(s) ==
  \/ /\ idle' = idle \cup {s} /\ UNCHANGED gone
     /\ IF mode = "session"
        THEN real' = [real EXCEPT ![s] = initial[s]] /\ off' = {p \in off : p[1] # s}
        ELSE UNCHANGED <<real, off>>
  \/ /\ mode = "session"
     /\ RemoveServer(s)

-----------------------------------------------------------------------------
(* serve.                                                                  *)

\* addClient, AddClient, SetState(AwaitingServer, nil).
Connect(c) ==
  /\ At(c, "new", "await")
  /\ clients' = clients \cup {c}
  /\ SetState(c, None)
  /\ UNCHANGED <<mode, server, serverErr, ready, todo, paramVars, idle, gone>>

\* Acquire returns a server and Pair begins: the names of both sides are due.
Acquire(c, s) ==
  /\ At(c, "await", "pair")
  /\ s \in idle /\ idle' = idle \ {s}
  /\ server' = [server EXCEPT ![c] = s]
  /\ SetState(c, s)
  /\ todo' = [todo EXCEPT ![c] = {n \in Names : cps[c].params[n] # Absent
                                                \/ sps[s][n] # Absent}]
  /\ UNCHANGED <<mode, serverErr, ready, clients, paramVars, gone>>

\* Acquire times out, or the pool is closed.
AcquireFails(c) ==
  /\ At(c, "await", "leave")
  /\ UNCHANGED <<mode, server, serverErr, ready, clients, peer, todo, paramVars, idle, gone>>

\* A ParameterStatus goes to the client through ps.Client: one that repeats what a
\* synced client knows is dropped.
Tell(c, n, v) ==
  /\ told' = IF Dynamic /\ cps[c].synced /\ cps[c].params[n] = v THEN told
             ELSE [told EXCEPT ![c][n] = v]
  /\ cps' = IF Dynamic THEN [cps EXCEPT ![c].params[n] = v] ELSE cps

\* backends.SetParameter: an error of the SET statement is not reported, only one
\* of the connection.  The server's own ParameterStatus passes ps.Server.
SetParameter(s, n, v) ==
  \/ real' = [real EXCEPT ![s][n] = v] /\ off' = off \ {<<s, n>>}
  \/ real[s][n] # v /\ off' = off \cup {<<s, n>>} /\ UNCHANGED real

\* Mutant: a tracked parameter is set on the server but the mirror is left alone.
SyncDynamicForgets(c, s, n) ==
  LET value == cps[c].params[n]
      expected == sps[s][n]
  IN  IF value = expected
      THEN /\ IF cps[c].synced THEN UNCHANGED <<told, cps>> ELSE Tell(c, n, expected)
           /\ UNCHANGED <<sps, real, off>>
      ELSE IF value # Absent /\ n \in Tracked
      THEN /\ SetParameter(s, n, value)
           /\ UNCHANGED sps
           /\ IF cps[c].synced THEN UNCHANGED <<told, cps>> ELSE Tell(c, n, value)
      ELSE Tell(c, n, expected) /\ UNCHANGED <<sps, real, off>>

\* sync of sync.go, for one name.
SyncDynamic(c, s, n) ==
  LET value == cps[c].params[n]
      expected == sps[s][n]
  IN  IF value = expected
      THEN /\ IF cps[c].synced THEN UNCHANGED <<told, cps>> ELSE Tell(c, n, expected)
           /\ UNCHANGED <<sps, real, off>>
      ELSE IF value # Absent /\ n \in Tracked
      THEN /\ SetParameter(s, n, value)
           /\ sps' = [sps EXCEPT ![s][n] = value]
           /\ IF cps[c].synced THEN UNCHANGED <<told, cps>> ELSE Tell(c, n, value)
      ELSE Tell(c, n, expected) /\ UNCHANGED <<sps, real, off>>

\* syncInitialParameters, for one name.
SyncInitial(c, s, n) ==
  LET value == cps[c].params[n]
      setServer == value # Absent /\ value # sps[s][n] /\ n \in Tracked
  IN  /\ Tell(c, n, IF setServer THEN value ELSE sps[s][n])
      /\ IF setServer THEN SetParameter(s, n, value) ELSE UNCHANGED <<real, off>>
      /\ UNCHANGED sps

\* The names of the client come before those only the server has.
SyncName(c) ==
  /\ pc[c] = "pair"
  /\ LET own == {n \in todo[c] : cps[c].params[n] # Absent}
     IN  \E n \in (IF own # {} THEN own ELSE todo[c]) :
           /\ IF Dynamic THEN SyncDynamic(c, server[c], n) ELSE SyncInitial(c, server[c], n)
           /\ todo' = [todo EXCEPT ![c] = @ \ {n}]
  /\ UNCHANGED <<mode, pc, server, serverErr, ready, clients, peer, initial, want, sets,
                 idle, gone>>

\* All synced; SetState(Active).  The first time ReadyForQuery follows, else the
\* packet that was read before the server was acquired.
Paired(c) ==
  /\ todo[c] = {}
  /\ At(c, "pair", IF ready[c] THEN "bounce" ELSE "top")
  /\ cps' = IF Dynamic THEN [cps EXCEPT ![c].synced = TRUE] ELSE cps
  /\ ready' = [ready EXCEPT ![c] = TRUE]
  /\ UNCHANGED <<mode, server, serverErr, clients, peer, todo, sps, initial, real, told,
                 want, off, sets, idle, gone>>

\* The connection of the client, or of the server, fails while they are paired.
PairFails(c, serverFailed) ==
  /\ At(c, "pair", "leave")
  /\ serverErr' = [serverErr EXCEPT ![c] = serverFailed]
  /\ todo' = [todo EXCEPT ![c] = {}]
  /\ UNCHANGED <<mode, server, ready, clients, peer, paramVars, idle, gone>>

\* Mutant: the client keeps the server as its peer.
TopKeepsPeer(c) ==
  /\ At(c, "top", IF ReleaseAfterTransaction THEN "release" ELSE "read")
  /\ UNCHANGED <<mode, server, serverErr, ready, clients, peer, todo, paramVars, idle, gone>>

\* The head of the loop: SetState(Idle, nil) before the server is released.
Top(c) ==
  /\ At(c, "top", IF ReleaseAfterTransaction THEN "release" ELSE "read")
  /\ IF ReleaseAfterTransaction THEN SetState(c, None) ELSE UNCHANGED peer
  /\ UNCHANGED <<mode, server, serverErr, ready, clients, todo, paramVars, idle, gone>>

LoopRelease(c) ==
  /\ At(c, "release", "read")
  /\ Release(server[c])
  /\ server' = [server EXCEPT ![c] = None]
  /\ UNCHANGED <<mode, serverErr, ready, clients, peer, todo, cps, sps, initial, told,
                 want, sets>>

\* ReadPacket of the client's next packet, or its error.
Read(c) ==
  /\ At(c, "read", IF server[c] = None THEN "await" ELSE "bounce")
  /\ UNCHANGED <<mode, server, serverErr, ready, clients, peer, todo, paramVars, idle, gone>>

ReadFails(c) ==
  /\ At(c, "read", "leave")
  /\ UNCHANGED <<mode, server, serverErr, ready, clients, peer, todo, paramVars, idle, gone>>

\* Within a transaction the client sets a parameter: the server reports it, through
\* ps.Server and the bouncer, to ps.Client.
ClientSets(c, n, v) ==
  /\ pc[c] = "bounce" /\ sets[c] < MaxSets
  /\ LET s == server[c]
     IN  /\ real' = [real EXCEPT ![s][n] = v]
         /\ sps' = IF Dynamic THEN [sps EXCEPT ![s][n] = v] ELSE sps
         /\ off' = off \ {<<s, n>>}
  /\ Tell(c, n, v)
  /\ want' = [want EXCEPT ![c][n] = v]
  /\ sets' = [sets EXCEPT ![c] = @ + 1]
  /\ UNCHANGED <<mode, clientVars, initial, idle, gone>>

\* Bounce returns; how is one of "ok", "client" and "server".
Bounced(c, how) ==
  /\ At(c, "bounce", IF how = "ok" THEN "top" ELSE "leave")
  /\ serverErr' = [serverErr EXCEPT ![c] = how = "server"]
  /\ UNCHANGED <<mode, server, ready, clients, peer, todo, paramVars, idle, gone>>

\* The deferred calls run last to first: the server is removed or released, then the
\* client leaves the server pool, then the map.  Its peer stays set.
Leave(c) ==
  /\ At(c, "leave", "unlist")
  /\ server' = [server EXCEPT ![c] = None]
  /\ IF server[c] = None THEN UNCHANGED <<idle, gone, real, off>>
     ELSE IF serverErr[c] THEN RemoveServer(server[c])
     ELSE Release(server[c])
  /\ UNCHANGED <<mode, serverErr, ready, clients, peer, todo, cps, sps, initial, told,
                 want, sets>>

\* The client is dropped: what was known of it is forgotten.
RemoveClient(c) ==
  /\ At(c, "unlist", "gone")
  /\ clients' = clients \ {c}
  /\ SetState(c, None)
  /\ cps' = [cps EXCEPT ![c] = [synced |-> FALSE, params |-> Nothing]]
  /\ told' = [told EXCEPT ![c] = Nothing]
  /\ want' = [want EXCEPT ![c] = Nothing]
  /\ sets' = [sets EXCEPT ![c] = 0]
  /\ UNCHANGED <<mode, server, serverErr, ready, todo, sps, initial, real, off, idle, gone>>

-----------------------------------------------------------------------------

Next ==
  \/ \E c \in Clients :
       \/ Connect(c) \/ SyncName(c) \/ Paired(c) \/ Top(c) \/ LoopRelease(c)
       \/ Leave(c) \/ RemoveClient(c)
       \/ \E s \in Servers : Acquire(c, s)
       \/ AcquireFails(c)
       \/ \E f \in BOOLEAN : PairFails(c, f)
       \/ Read(c) \/ ReadFails(c)
       \/ \E n \in Names, v \in Values : ClientSets(c, n, v)
       \/ \E how \in {"ok", "client", "server"} : Bounced(c, how)
  \/ \E s \in Servers : NewServer(s)

Spec == Init /\ [][Next]_vars

-----------------------------------------------------------------------------

Leaving(c) == pc[c] \in {"leave", "unlist", "gone"}

\* Every server is free, removed, or in the hands of exactly one client's goroutine;
\* whatever path serve leaves by, it gives its server back once.
NoServerLost ==
  /\ idle \cap gone = {}
  /\ \A s \in Servers : s \notin idle \cup gone <=> \E c \in Clients : server[c] = s
  /\ \A c, d \in Clients : server[c] = server[d] /\ server[c] # None => c = d
  /\ \A c \in Clients : pc[c] \in {"new", "await", "unlist", "gone"} => server[c] = None

\* What Cancel finds: while a client is served, the peer it is listed with is the
\* server it holds, so that a cancel request that is carried out at once cancels no
\* other client.  (A client that is leaving is still listed with the server it gave
\* back, and a cancel that is delayed may meet the next user of the server.)
PeerTrue ==
  \A c \in clients : ~Leaving(c) /\ peer[c] # None => peer[c] = server[c]

\* Both: a server is where serve and Cancel think it is.
ServersTrue == NoServerLost /\ PeerTrue

\* The types of what these two are about.
HandsType ==
  /\ pc \in [Clients -> {"new", "await", "pair", "top", "release", "read", "bounce",
                         "leave", "unlist", "gone"}]
  /\ server \in [Clients -> Servers \cup {None}]
  /\ peer \in [Clients -> Servers \cup {None}]
  /\ clients \subseteq Clients /\ idle \subseteq Servers /\ gone \subseteq Servers

\* What keeps them, whatever the parameters do: where serve counts on having a
\* server, and where it has no peer.
HandsInv ==
  /\ HandsType
  /\ NoServerLost
  /\ \A c \in Clients : pc[c] \in {"pair", "top", "release", "bounce"} => server[c] # None
  /\ \A c \in Clients : ~Leaving(c) => peer[c] \in {None, server[c]}
  /\ \A c \in Clients : pc[c] = "release" => peer[c] = None

\* What a paired client believes is what is in effect on its server: every value it
\* was last told holds there, except one the server refused to take.
ToldTrue ==
  \A c \in Clients : pc[c] = "bounce" =>
    \A n \in Names : \/ told[c][n] = real[server[c]][n]
                     \/ <<server[c], n>> \in off

\* A client's session survives the changes of server: the tracked parameters it asked
\* for or set hold on every server its transactions run on, whoever used it before.
SessionKept ==
  \A c \in Clients : pc[c] = "bounce" =>
    \A n \in Tracked : \/ want[c][n] \in {Absent, real[server[c]][n]}
                       \/ <<server[c], n>> \in off

\* Together: a client that is being served has the parameters that it set, and knows
\* the ones it has.
ParametersTrue == ToldTrue /\ SessionKept
=============================================================================
