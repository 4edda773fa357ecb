--------------------------- MODULE PoolsProofs ---------------------------
(***************************************************************************)
(* The basic pool, with any number of clients, servers and parameters.  No *)
(* server is lost or shared, and a client that is being served is listed   *)
(* with its own server (HandsInv is the inductive invariant); what a       *)
(* client has been told of its parameters, and what it asked for, is true  *)
(* on the server it is given (ParamInv).                                   *)
(*                                                                         *)
(* A client of the hybrid pool holds what it should: at most one server,   *)
(* the one it is dealing with, and none wherever it waits (HoldInv).       *)
(*                                                                         *)
(* The ring is a queue of any length: its tail is as many slots behind its *)
(* head as it has items (RingOK).                                          *)
(***************************************************************************)
EXTENDS MCPools, Integers, Sequences, TLAPS

\* Every goroutine starts without a server, and all servers are free.
LEMMA HandsInitially == Init => HandsInv
BY Zenon, BasicAssumption DEF Init, HandsInv, HandsType, NoServerLost, Leaving

\* A goroutine that moves on with its server and its peer as they are keeps the
\* invariant, if the place it comes to allows for both.
LEMMA MovesOn ==
  ASSUME HandsInv, NEW c \in Clients,
         NEW to \in {"await", "pair", "top", "release", "read", "bounce", "leave",
                     "unlist", "gone"},
         pc' = [pc EXCEPT ![c] = to],
         to \in {"await", "unlist", "gone"} => server[c] = None,
         to \in {"pair", "top", "release", "bounce"} => server[c] # None,
         NEW p \in {peer[c], None}, peer' = [peer EXCEPT ![c] = p],
         to \notin {"leave", "unlist", "gone"} => p \in {None, server[c]},
         to = "release" => p = None,
         UNCHANGED <<server, idle, gone>>, clients' \subseteq Clients
  PROVE  HandsInv'
<1> USE DEF HandsInv, HandsType
<1>1. HandsType'
  BY Zenon
<1>2. NoServerLost'
  BY Zenon DEF NoServerLost
<1>3. \A d \in Clients : pc'[d] \in {"pair", "top", "release", "bounce"} => server'[d] # None
  BY Zenon
<1>4. \A d \in Clients : ~Leaving(d)' => peer'[d] \in {None, server'[d]}
  BY Zenon DEF Leaving
<1>5. \A d \in Clients : pc'[d] = "release" => peer'[d] = None
  BY Zenon
<1> QED  BY Zenon, <1>1, <1>2, <1>3, <1>4, <1>5

\* A goroutine that gives its server back, to the free or to the removed ones,
\* keeps the invariant.
LEMMA GivesBack ==
  ASSUME HandsInv, NEW c \in Clients, server[c] # None,
         NEW to \in {"read", "unlist"}, pc' = [pc EXCEPT ![c] = to],
         server' = [server EXCEPT ![c] = None],
         \/ idle' = idle \cup {server[c]} /\ gone' = gone
         \/ gone' = gone \cup {server[c]} /\ idle' = idle,
         to = "read" => peer[c] = None,
         UNCHANGED <<peer, clients>>
  PROVE  HandsInv'
<1> USE DEF HandsInv, HandsType
<1>1. server[c] \in Servers /\ server[c] \notin idle \cup gone
  BY DEF NoServerLost
<1>2. HandsType'
  BY Zenon, <1>1
<1>3. idle' \cup gone' = idle \cup gone \cup {server[c]} /\ idle' \cap gone' = {}
  BY <1>1 DEF NoServerLost
<1>4. \A s \in Servers : s \notin idle' \cup gone' <=> \E d \in Clients : server'[d] = s
  <2>1. SUFFICES ASSUME NEW s \in Servers
                 PROVE  s \notin idle' \cup gone' <=> \E d \in Clients : server'[d] = s
    BY Zenon
  <2>2. CASE s = server[c]
    <3>1. \A d \in Clients : server'[d] # s
      BY Zenon, <2>2, BasicAssumption DEF NoServerLost
    <3> QED  BY Zenon, <1>3, <2>2, <3>1
  <2>3. CASE s # server[c]
    <3>1. \A d \in Clients : server'[d] = s <=> server[d] = s
      BY Zenon, <2>3, BasicAssumption
    <3> QED  BY Zenon, <1>3, <2>3, <3>1 DEF NoServerLost
  <2> QED  BY Zenon, <2>2, <2>3
<1>5. \A d, e \in Clients : server'[d] = server'[e] /\ server'[d] # None => d = e
  BY Zenon DEF NoServerLost
<1>6. \A d \in Clients : pc'[d] \in {"new", "await", "unlist", "gone"} => server'[d] = None
  BY Zenon DEF NoServerLost
<1>7. \A d \in Clients : pc'[d] \in {"pair", "top", "release", "bounce"} => server'[d] # None
  BY Zenon
<1>8. \A d \in Clients : ~Leaving(d)' => peer'[d] \in {None, server'[d]}
  BY Zenon DEF Leaving
<1>9. \A d \in Clients : pc'[d] = "release" => peer'[d] = None
  BY Zenon
<1> QED  BY Zenon, <1>2, <1>3, <1>4, <1>5, <1>6, <1>7, <1>8, <1>9 DEF NoServerLost

\* Every step keeps the invariant.
LEMMA HandsStep ==
  ASSUME HandsInv, [Next]_vars
  PROVE  HandsInv'
<1> USE DEF At, SetState, clientVars, paramVars
<1>1. ASSUME NEW c \in Clients, Connect(c) PROVE HandsInv'
  <2>1. server[c] = None
    BY Zenon, <1>1 DEF Connect, HandsInv, NoServerLost
  <2> QED  BY Zenon, <1>1, <2>1, MovesOn DEF Connect, HandsInv, HandsType
<1>2. ASSUME NEW c \in Clients, NEW s \in Servers, Acquire(c, s) PROVE HandsInv'
  <2> USE <1>2 DEF HandsInv, HandsType, Acquire
  <2>1. server[c] = None /\ \A d \in Clients : server[d] # s
    BY Zenon DEF NoServerLost
  <2>2. HandsType'
    BY Zenon
  <2>3. \A x \in Servers : x \notin idle' \cup gone' <=> \E d \in Clients : server'[d] = x
    <3>1. SUFFICES ASSUME NEW x \in Servers
                   PROVE  x \notin idle' \cup gone' <=> \E d \in Clients : server'[d] = x
      BY Zenon
    <3>2. CASE x = s
      BY <3>2 DEF NoServerLost
    <3>3. CASE x # s
      <4>1. \A d \in Clients : server'[d] = x <=> server[d] = x
        BY Zenon, <2>1, <3>3, BasicAssumption
      <4> QED  BY Zenon, <3>3, <4>1 DEF NoServerLost
    <3> QED  BY Zenon, <3>2, <3>3
  <2>4. NoServerLost'
    BY <2>1, <2>3, BasicAssumption DEF NoServerLost
  <2>5. \A d \in Clients : pc'[d] \in {"pair", "top", "release", "bounce"} => server'[d] # None
    BY Zenon, BasicAssumption
  <2>6. \A d \in Clients : ~Leaving(d)' => peer'[d] \in {None, server'[d]}
    BY Zenon DEF Leaving
  <2>7. \A d \in Clients : pc'[d] = "release" => peer'[d] = None
    BY Zenon
  <2> QED  BY Zenon, <2>2, <2>4, <2>5, <2>6, <2>7
<1>3. ASSUME NEW c \in Clients, AcquireFails(c) PROVE HandsInv'
  BY Zenon, <1>3, MovesOn DEF AcquireFails, HandsInv, HandsType
<1>4. ASSUME NEW c \in Clients, SyncName(c) PROVE HandsInv'
  BY Zenon, <1>4 DEF SyncName, HandsInv, HandsType, NoServerLost, Leaving
<1>5. ASSUME NEW c \in Clients, Paired(c) PROVE HandsInv'
  <2>1. server[c] # None /\ peer[c] \in {None, server[c]}
    BY Zenon, <1>5 DEF Paired, HandsInv, Leaving
  <2> QED  BY Zenon, <1>5, <2>1, MovesOn DEF Paired, HandsInv, HandsType
<1>6. ASSUME NEW c \in Clients, NEW f \in BOOLEAN, PairFails(c, f) PROVE HandsInv'
  BY Zenon, <1>6, MovesOn DEF PairFails, HandsInv, HandsType
<1>7. ASSUME NEW c \in Clients, Top(c) PROVE HandsInv'
  <2>1. server[c] # None /\ peer[c] \in {None, server[c]}
    BY Zenon, <1>7 DEF Top, HandsInv, Leaving
  <2>2. CASE ReleaseAfterTransaction
    BY Zenon, <1>7, <2>1, <2>2, MovesOn DEF Top, HandsInv, HandsType
  <2>3. CASE ~ReleaseAfterTransaction
    BY Zenon, <1>7, <2>1, <2>3, MovesOn DEF Top, HandsInv, HandsType
  <2> QED  BY Zenon, <2>2, <2>3
<1>8. ASSUME NEW c \in Clients, LoopRelease(c) PROVE HandsInv'
  <2>1. server[c] # None /\ peer[c] = None
    BY Zenon, <1>8 DEF LoopRelease, HandsInv
  <2> QED  BY Zenon, <1>8, <2>1, GivesBack DEF LoopRelease, Release, RemoveServer
<1>9. ASSUME NEW c \in Clients, Read(c) PROVE HandsInv'
  <2>1. peer[c] \in {None, server[c]}
    BY Zenon, <1>9 DEF Read, HandsInv, Leaving
  <2> QED  BY Zenon, <1>9, <2>1, MovesOn DEF Read, HandsInv, HandsType
<1>10. ASSUME NEW c \in Clients, ReadFails(c) PROVE HandsInv'
  BY Zenon, <1>10, MovesOn DEF ReadFails, HandsInv, HandsType
<1>11. ASSUME NEW c \in Clients, NEW n \in Names, NEW v \in Values, ClientSets(c, n, v)
       PROVE  HandsInv'
  BY Zenon, <1>11 DEF ClientSets, HandsInv, HandsType, NoServerLost, Leaving
<1>12. ASSUME NEW c \in Clients, NEW how \in {"ok", "client", "server"}, Bounced(c, how)
       PROVE  HandsInv'
  <2>1. server[c] # None /\ peer[c] \in {None, server[c]}
    BY Zenon, <1>12 DEF Bounced, HandsInv, Leaving
  <2> QED  BY Zenon, <1>12, <2>1, MovesOn DEF Bounced, HandsInv, HandsType
<1>13. ASSUME NEW c \in Clients, Leave(c) PROVE HandsInv'
  <2>1. CASE server[c] = None
    <3>1. server' = server
      BY Zenon, <1>13, <2>1 DEF Leave, HandsInv, HandsType
    <3> QED  BY ZenonT(40), <1>13, <2>1, <3>1, MovesOn DEF Leave, HandsInv, HandsType
  <2>2. CASE server[c] # None
    BY Zenon, <1>13, <2>2, GivesBack DEF Leave, Release, RemoveServer
  <2> QED  BY Zenon, <2>1, <2>2
<1>14. ASSUME NEW c \in Clients, RemoveClient(c) PROVE HandsInv'
  <2>1. server[c] = None
    BY Zenon, <1>14 DEF RemoveClient, HandsInv, NoServerLost
  <2> QED  BY Zenon, <1>14, <2>1, MovesOn DEF RemoveClient, HandsInv, HandsType
<1>15. ASSUME NEW s \in Servers, NewServer(s) PROVE HandsInv'
  BY Zenon, <1>15 DEF NewServer, HandsInv, HandsType, NoServerLost, Leaving
<1>16. ASSUME UNCHANGED vars PROVE HandsInv'
  BY Zenon, <1>16 DEF vars, HandsInv, HandsType, NoServerLost, Leaving
<1> QED
  BY Zenon, <1>1, <1>2, <1>3, <1>4, <1>5, <1>6, <1>7, <1>8, <1>9, <1>10, <1>11, <1>12, <1>13,
     <1>14, <1>15, <1>16 DEF Next

\* HandsInv holds throughout, and implies the two properties below.
LEMMA Hands == Spec => []HandsInv
<1>1. HandsInv /\ [Next]_vars => HandsInv'
  BY Zenon, HandsStep
<1> QED  BY HandsInitially, <1>1, PTL DEF Spec

\* No path through serve loses a server or gives it back twice, and no two
\* clients hold one server: every server is free, removed, or held by one client.
THEOREM ServersConserved == Spec => []NoServerLost
<1>1. HandsInv => NoServerLost
  BY Zenon DEF HandsInv
<1> QED  BY Hands, <1>1, PTL

\* The server that Cancel finds for a client that is being served is the one the
\* client holds.
THEOREM CancelsOwnServer == Spec => []PeerTrue
<1>1. HandsInv => PeerTrue
  BY Zenon DEF HandsInv, HandsType, PeerTrue
<1> QED  BY Hands, <1>1, PTL

\* The basic pool knows where its servers are: serve gives each one back once,
\* whatever fails, and Cancel finds the one that works for the client.
THEOREM ServersKept == Spec => []ServersTrue
  BY ServersConserved, CancelsOwnServer, PTL DEF ServersTrue

-----------------------------------------------------------------------------
(* The parameters.  A client learns of them through two mirrors, its own   *)
(* and the one of its server; ParamInv says what each of them is worth.    *)

\* Where the parameters of client c have been brought in line with its server's:
\* while Sync is at work, the names it has dealt with.
Settled(c, n) ==
  \/ pc[c] = "pair" /\ n \notin todo[c]
  \/ pc[c] = "bounce"
  \/ mode = "session" /\ pc[c] \in {"top", "read"}

ParamTypes ==
  /\ mode \in {"session", "transaction"}
  /\ todo \in [Clients -> SUBSET Names]
  /\ cps \in [Clients -> [synced : BOOLEAN, params : [Names -> Maybe]]]
  /\ sps \in [Servers -> [Names -> Values]]
  /\ initial \in [Servers -> [Names -> Values]]
  /\ real \in [Servers -> [Names -> Values]]
  /\ told \in [Clients -> [Names -> Maybe]]
  /\ want \in [Clients -> [Names -> Maybe]]

\* Transaction pooling: the mirror of a server is true, up to what the server
\* refused; the mirror of a client is what it was told, once it is synced; and it
\* keeps what the client wants.
MirrorsTrue ==
  /\ \A s \in Servers, n \in Names : sps[s][n] = real[s][n] \/ <<s, n>> \in off
  /\ \A c \in Clients, n \in Names : cps[c].synced => told[c][n] = cps[c].params[n]
  /\ \A c \in Clients, n \in Names :
       Settled(c, n) => told[c][n] = cps[c].params[n] /\ told[c][n] = sps[server[c]][n]
  /\ \A c \in Clients, n \in Tracked : want[c][n] \in {Absent, cps[c].params[n]}
  /\ \A c \in Clients : pc[c] = "read" => server[c] = None

\* Session pooling: a server that is free, or that Sync has not come to, is as new;
\* a client is paired once, with the parameters of its startup packet.
FreshServers ==
  /\ sps = initial
  /\ \A s \in idle : real[s] = initial[s]
  /\ \A c \in Clients : pc[c] = "pair" =>
       \A n \in todo[c] : real[server[c]][n] = initial[server[c]][n]
  /\ \A c \in Clients : pc[c] \in {"new", "await", "pair"} => cps[c].params = want[c]
  /\ \A c \in Clients : pc[c] # "release" /\ (pc[c] = "read" => server[c] # None)
  /\ \A c \in Clients, n \in Names :
       Settled(c, n) => told[c][n] = real[server[c]][n] \/ <<server[c], n>> \in off
  /\ \A c \in Clients, n \in Tracked :
       Settled(c, n) => want[c][n] \in {Absent, real[server[c]][n]} \/ <<server[c], n>> \in off

ParamInv ==
  /\ HandsInv /\ ParamTypes
  /\ mode = "transaction" => MirrorsTrue
  /\ mode = "session" => FreshServers

\* The parameters start as the invariant says.
LEMMA ParamInitially == Init => ParamInv
<1> SUFFICES ASSUME Init PROVE ParamInv
  BY Zenon
<1>1. HandsInv
  BY Zenon, HandsInitially
<1>2. ParamTypes
  BY Zenon DEF Init, ParamTypes, Maybe, Nothing
<1>3. MirrorsTrue /\ FreshServers
  BY Zenon, <1>2, BasicAssumption DEF Init, MirrorsTrue, FreshServers, Settled, ParamTypes
<1> QED  BY Zenon, <1>1, <1>2, <1>3 DEF ParamInv

\* Every step keeps the types.
LEMMA ParamTypesStep ==
  ASSUME HandsInv, ParamTypes, Next
  PROVE  ParamTypes'
<1> USE DEF ParamTypes
<1>1. ASSUME NEW c \in Clients, Connect(c) PROVE ParamTypes'
  BY Zenon, <1>1 DEF Connect, paramVars
<1>2. ASSUME NEW c \in Clients, NEW s \in Servers, Acquire(c, s) PROVE ParamTypes'
  BY Zenon, <1>2 DEF Acquire, paramVars
<1>3. ASSUME NEW c \in Clients, AcquireFails(c) PROVE ParamTypes'
  BY Zenon, <1>3 DEF AcquireFails, paramVars
<1>4. ASSUME NEW c \in Clients, SyncName(c) PROVE ParamTypes'
  <2>1. server[c] \in Servers
    BY Zenon, <1>4 DEF SyncName, HandsInv, HandsType
  <2>2. PICK n \in todo[c] :
          /\ IF Dynamic THEN SyncDynamic(c, server[c], n) ELSE SyncInitial(c, server[c], n)
          /\ todo' = [todo EXCEPT ![c] = @ \ {n}]
    BY Zenon, <1>4 DEF SyncName
  <2>3. n \in Names
    BY Zenon, <2>2
  <2>4. cps[c].params[n] \in Maybe /\ sps[server[c]][n] \in Values
    BY <2>1, <2>3
  <2>5. ASSUME NEW v \in Maybe, Tell(c, n, v)
        PROVE  /\ told' \in [Clients -> [Names -> Maybe]]
               /\ cps' \in [Clients -> [synced : BOOLEAN, params : [Names -> Maybe]]]
    BY Zenon, <2>3, <2>5 DEF Tell
  <2>6. ASSUME NEW v \in Values, SetParameter(server[c], n, v)
        PROVE  real' \in [Servers -> [Names -> Values]]
    <3>1. [real EXCEPT ![server[c]][n] = v] \in [Servers -> [Names -> Values]]
      BY Zenon, <2>1, <2>3
    <3> QED  BY Zenon, <2>6, <3>1 DEF SetParameter
  <2>7. CASE Dynamic
    <3>1. UNCHANGED <<mode, initial, want>> /\ todo' \in [Clients -> SUBSET Names]
      BY Zenon, <1>4, <2>2 DEF SyncName
    <3>2. SyncDynamic(c, server[c], n)
      BY Zenon, <2>2, <2>7
    <3>3. /\ told' \in [Clients -> [Names -> Maybe]]
          /\ cps' \in [Clients -> [synced : BOOLEAN, params : [Names -> Maybe]]]
      BY Zenon, <2>4, <2>5, <3>2 DEF SyncDynamic, Maybe
    <3>4. real' \in [Servers -> [Names -> Values]] /\ sps' \in [Servers -> [Names -> Values]]
      <4>1. CASE UNCHANGED <<sps, real, off>>
        BY Zenon, <4>1
      <4>2. CASE ~UNCHANGED <<sps, real, off>>
        <5>1. /\ cps[c].params[n] \in Values
              /\ SetParameter(server[c], n, cps[c].params[n])
              /\ sps' = [sps EXCEPT ![server[c]][n] = cps[c].params[n]]
          BY Zenon, <2>4, <3>2, <4>2 DEF SyncDynamic, Maybe
        <5> QED  BY Zenon, <2>1, <2>3, <2>6, <5>1
      <4> QED  BY Zenon, <4>1, <4>2
    <3> QED  BY Zenon, <3>1, <3>3, <3>4
  <2>8. CASE ~Dynamic
    BY Zenon, <1>4, <2>1, <2>2, <2>3, <2>4, <2>5, <2>6, <2>8 DEF SyncName, SyncInitial, Maybe
  <2> QED  BY Zenon, <2>7, <2>8
<1>5. ASSUME NEW c \in Clients, Paired(c) PROVE ParamTypes'
  BY Zenon, <1>5 DEF Paired
<1>6. ASSUME NEW c \in Clients, NEW f \in BOOLEAN, PairFails(c, f) PROVE ParamTypes'
  BY Zenon, <1>6 DEF PairFails, paramVars
<1>7. ASSUME NEW c \in Clients, Top(c) PROVE ParamTypes'
  BY Zenon, <1>7 DEF Top, paramVars
<1>8. ASSUME NEW c \in Clients, LoopRelease(c) \/ Leave(c) PROVE ParamTypes'
  <2>1. /\ UNCHANGED <<mode, todo, cps, sps, initial, told, want>>
        /\ \/ UNCHANGED real
           \/ real' = [real EXCEPT ![server[c]] = initial[server[c]]]
    BY Zenon, <1>8 DEF LoopRelease, Leave, Release, RemoveServer
  <2> QED  BY Zenon, <2>1
<1>9. ASSUME NEW c \in Clients, Read(c) \/ ReadFails(c) PROVE ParamTypes'
  BY Zenon, <1>9 DEF Read, ReadFails, paramVars
<1>10. ASSUME NEW c \in Clients, NEW n \in Names, NEW v \in Values, ClientSets(c, n, v)
       PROVE  ParamTypes'
  <2>1. server[c] \in Servers
    BY Zenon, <1>10 DEF ClientSets, HandsInv, HandsType
  <2> QED  BY Zenon, <1>10, <2>1 DEF ClientSets, Tell, Maybe, clientVars
<1>11. ASSUME NEW c \in Clients, NEW how \in {"ok", "client", "server"}, Bounced(c, how)
       PROVE  ParamTypes'
  BY Zenon, <1>11 DEF Bounced, paramVars
<1>12. ASSUME NEW c \in Clients, RemoveClient(c) PROVE ParamTypes'
  BY Zenon, <1>12 DEF RemoveClient, Nothing, Maybe
<1>13. ASSUME NEW s \in Servers, NewServer(s) PROVE ParamTypes'
  BY Zenon, <1>13 DEF NewServer, clientVars
<1> QED
  BY Zenon, <1>1, <1>2, <1>3, <1>4, <1>5, <1>6, <1>7, <1>8, <1>9, <1>10, <1>11, <1>12, <1>13 DEF Next

\* A step that leaves the parameters and the servers of the clients alone keeps the
\* mirrors of transaction pooling, if it takes no client to where they count.
LEMMA MirrorsMove ==
  ASSUME MirrorsTrue, mode = "transaction", UNCHANGED <<mode, sps, told, want>>,
         HandsInv,
         \A s \in Servers, n \in Names :
           sps[s][n] = real[s][n] \/ <<s, n>> \in off
             => sps[s][n] = real'[s][n] \/ <<s, n>> \in off',
         \A d \in Clients : cps'[d].params = cps[d].params,
         \A d \in Clients, n \in Names : Settled(d, n)' => Settled(d, n) /\ server'[d] = server[d],
         \A d \in Clients, n \in Names :
           cps'[d].synced => cps[d].synced \/ told[d][n] = cps[d].params[n],
         \A d \in Clients : pc'[d] = "read" => server'[d] = None
  PROVE  MirrorsTrue'
<1>1. \A s \in Servers, n \in Names : sps'[s][n] = real'[s][n] \/ <<s, n>> \in off'
  BY Zenon DEF MirrorsTrue
<1>2. \A c \in Clients, n \in Names : cps'[c].synced => told'[c][n] = cps'[c].params[n]
  BY DEF MirrorsTrue
<1>3. \A c \in Clients, n \in Names :
        Settled(c, n)' => told'[c][n] = cps'[c].params[n] /\ told'[c][n] = sps'[server'[c]][n]
  BY DEF MirrorsTrue
<1>4. \A c \in Clients, n \in Tracked : want'[c][n] \in {Absent, cps'[c].params[n]}
  BY Zenon DEF MirrorsTrue
<1> QED  BY Zenon, <1>1, <1>2, <1>3, <1>4 DEF MirrorsTrue

\* One name of Sync in transaction pooling: client and server then agree on it.
LEMMA MirrorsSync ==
  ASSUME HandsInv, ParamTypes, MirrorsTrue, mode = "transaction",
         NEW c \in Clients, SyncName(c)
  PROVE  MirrorsTrue'
<1>1. PICK s : s = server[c]
  BY Zenon
<1>2. s \in Servers
  BY Zenon, <1>1 DEF SyncName, HandsInv, HandsType
<1>3. PICK n \in todo[c] : SyncDynamic(c, s, n) /\ todo' = [todo EXCEPT ![c] = @ \ {n}]
  BY Zenon, <1>1 DEF SyncName, Dynamic
<1>4. n \in Names
  BY Zenon, <1>3 DEF ParamTypes
<1>5. /\ UNCHANGED <<mode, pc, server, want>> /\ pc[c] = "pair"
      /\ todo' = [todo EXCEPT ![c] = @ \ {n}]
  BY Zenon, <1>3 DEF SyncName
<1>6. /\ told' = told \/ told' = [told EXCEPT ![c][n] = sps'[s][n]]
      /\ cps' = cps \/ cps' = [cps EXCEPT ![c].params[n] = sps'[s][n]]
      /\ told'[c][n] = cps'[c].params[n] /\ told'[c][n] = sps'[s][n]
      /\ cps'[c].synced = cps[c].synced
  <2> USE <1>2, <1>3, <1>4 DEF SyncDynamic, ParamTypes
  <2>1. CASE cps[c].params[n] = sps[s][n]
    <3>1. CASE cps[c].synced
      <4>1. told[c][n] = cps[c].params[n]
        BY Zenon, <1>4, <3>1 DEF MirrorsTrue
      <4>2. UNCHANGED <<told, cps, sps>>
        BY Zenon, <2>1, <3>1
      <4> QED  BY Zenon, <2>1, <4>1, <4>2
    <3>2. CASE ~cps[c].synced
      BY <2>1, <3>2 DEF Tell, Dynamic
    <3> QED  BY Zenon, <3>1, <3>2
  <2>2. CASE /\ cps[c].params[n] # sps[s][n]
             /\ cps[c].params[n] # Absent /\ n \in Tracked
    <3>0. sps'[s][n] = cps[c].params[n]
      BY <2>2
    <3>1. CASE cps[c].synced
      <4>1. told[c][n] = cps[c].params[n]
        BY Zenon, <1>4, <3>1 DEF MirrorsTrue
      <4>2. UNCHANGED <<told, cps>>
        BY Zenon, <2>2, <3>1
      <4> QED  BY Zenon, <3>0, <4>1, <4>2
    <3>2. CASE ~cps[c].synced
      BY <2>2, <3>0, <3>2 DEF Tell, Dynamic
    <3> QED  BY Zenon, <3>1, <3>2
  <2>3. CASE /\ cps[c].params[n] # sps[s][n]
             /\ ~ (cps[c].params[n] # Absent /\ n \in Tracked)
    BY <2>3 DEF Tell, Dynamic
  <2> QED  BY Zenon, <2>1, <2>2, <2>3
<1>7. /\ \A x \in Servers, k \in Names : <<x, k>> # <<s, n>> => sps'[x][k] = sps[x][k]
      /\ \A x \in Servers, k \in Names : sps'[x][k] = real'[x][k] \/ <<x, k>> \in off'
  <2> USE <1>2, <1>3, <1>4 DEF SyncDynamic, ParamTypes
  <2>1. CASE UNCHANGED <<sps, real, off>>
    BY Zenon, <2>1 DEF MirrorsTrue
  <2>2. CASE ~UNCHANGED <<sps, real, off>>
    <3>1. PICK v : v = cps[c].params[n]
      BY Zenon
    <3>2. v \in Values /\ SetParameter(s, n, v) /\ sps' = [sps EXCEPT ![s][n] = v]
      BY <2>2, <3>1 DEF Maybe
    <3>3. \A x \in Servers, k \in Names :
            sps'[x][k] = IF x = s /\ k = n THEN v ELSE sps[x][k]
      BY Zenon, <3>2
    <3>4. CASE real' = [real EXCEPT ![s][n] = v] /\ off' = off \ {<<s, n>>}
      <4>1. \A x \in Servers, k \in Names :
              real'[x][k] = IF x = s /\ k = n THEN v ELSE real[x][k]
        BY Zenon, <3>4
      <4>2. \A x \in Servers, k \in Names : ~ (x = s /\ k = n) =>
              (<<x, k>> \in off' <=> <<x, k>> \in off)
        BY Zenon, <3>4
      <4> QED  BY <3>3, <4>1, <4>2 DEF MirrorsTrue
    <3>5. CASE off' = off \cup {<<s, n>>} /\ UNCHANGED real
      BY Zenon, <3>3, <3>5 DEF MirrorsTrue
    <3> QED  BY Zenon, <3>2, <3>4, <3>5 DEF SetParameter
  <2> QED  BY Zenon, <2>1, <2>2
<1>8. /\ \A d \in Clients, k \in Names : <<d, k>> # <<c, n>> =>
           told'[d][k] = told[d][k] /\ cps'[d].params[k] = cps[d].params[k]
      /\ \A d \in Clients : cps'[d].synced = cps[d].synced
  <2>1. \A d \in Clients, k \in Names : <<d, k>> # <<c, n>> =>
           told'[d][k] = told[d][k]
    BY <1>4, <1>6 DEF ParamTypes
  <2>2. CASE cps' = cps
    BY Zenon, <2>1, <2>2
  <2>3. CASE cps' = [cps EXCEPT ![c].params[n] = sps'[s][n]]
    <3>1. \A d \in Clients, k \in Names : <<d, k>> # <<c, n>> =>
             cps'[d].params[k] = cps[d].params[k]
      BY <1>4, <2>3 DEF ParamTypes
    <3>2. \A d \in Clients : cps'[d].synced = cps[d].synced
      BY Zenon, <2>3 DEF ParamTypes
    <3> QED  BY Zenon, <2>1, <3>1, <3>2
  <2> QED  BY Zenon, <1>6, <2>2, <2>3
<1>9. \A d \in Clients, k \in Names : cps'[d].synced => told'[d][k] = cps'[d].params[k]
  <2> SUFFICES ASSUME NEW d \in Clients, NEW k \in Names, cps'[d].synced
               PROVE  told'[d][k] = cps'[d].params[k]
    BY Zenon
  <2>1. cps[d].synced
    BY Zenon, <1>8
  <2>2. told[d][k] = cps[d].params[k]
    BY Zenon, <2>1 DEF MirrorsTrue
  <2>3. CASE d = c /\ k = n
    BY Zenon, <1>6, <2>3
  <2>4. CASE ~ (d = c /\ k = n)
    BY Zenon, <1>8, <2>2, <2>4
  <2> QED  BY Zenon, <2>3, <2>4
<1>10. \A d \in Clients, k \in Names :
         Settled(d, k)' => /\ told'[d][k] = cps'[d].params[k]
                           /\ told'[d][k] = sps'[server'[d]][k]
  <2> SUFFICES ASSUME NEW d \in Clients, NEW k \in Names, Settled(d, k)'
               PROVE  told'[d][k] = cps'[d].params[k] /\ told'[d][k] = sps'[server'[d]][k]
    BY Zenon
  <2>1. CASE d = c /\ k = n
    BY Zenon, <1>1, <1>5, <1>6, <2>1
  <2>2. CASE d = c /\ k # n
    <3>1. Settled(c, k)
      BY Zenon, <1>5, <2>2 DEF Settled, ParamTypes
    <3> QED  BY <1>1, <1>2, <1>5, <1>7, <1>8, <2>2, <3>1 DEF MirrorsTrue
  <2>3. CASE d # c
    <3>1. Settled(d, k)
      BY Zenon, <1>5, <2>3 DEF Settled, ParamTypes
    <3>2. server[d] \in Servers /\ server[d] # s
      BY <1>1, <1>2, <2>3, <3>1 DEF Settled, HandsInv, HandsType, NoServerLost
    <3> QED  BY <1>5, <1>7, <1>8, <2>3, <3>1, <3>2 DEF MirrorsTrue
  <2> QED  BY Zenon, <2>1, <2>2, <2>3
<1>11. \A d \in Clients, k \in Tracked : want'[d][k] \in {Absent, cps'[d].params[k]}
  <2> SUFFICES ASSUME NEW d \in Clients, NEW k \in Tracked, want[d][k] # Absent
               PROVE  want[d][k] = cps'[d].params[k]
    BY Zenon, <1>5
  <2>1. k \in Names /\ want[d][k] = cps[d].params[k]
    BY Zenon, BasicAssumption DEF MirrorsTrue
  <2>2. CASE d = c /\ k = n
    <3>1. cps'[c].params[n] = cps[c].params[n]
      BY <1>2, <1>3, <1>4, <2>1, <2>2, <1>6 DEF SyncDynamic, ParamTypes
    <3> QED  BY Zenon, <2>1, <2>2, <3>1
  <2>3. CASE ~ (d = c /\ k = n)
    BY Zenon, <1>8, <2>1, <2>3
  <2> QED  BY Zenon, <2>2, <2>3
<1>12. \A d \in Clients : pc'[d] = "read" => server'[d] = None
  BY Zenon, <1>5 DEF MirrorsTrue
<1> QED  BY Zenon, <1>7, <1>9, <1>10, <1>11, <1>12 DEF MirrorsTrue

\* Every step keeps the mirrors of transaction pooling.
LEMMA MirrorsStep ==
  ASSUME HandsInv, ParamTypes, MirrorsTrue, mode = "transaction", Next
  PROVE  MirrorsTrue'
<1> USE DEF At
<1>1. ASSUME NEW c \in Clients, Connect(c) PROVE MirrorsTrue'
  BY Zenon, <1>1, MirrorsMove DEF Connect, paramVars, Settled, HandsInv, HandsType, MirrorsTrue
<1>2. ASSUME NEW c \in Clients, NEW s \in Servers, Acquire(c, s) PROVE MirrorsTrue'
  <2>1. ASSUME NEW n \in Names PROVE n \in todo'[c]
    <3>1. sps[s][n] # Absent
      BY BasicAssumption DEF ParamTypes
    <3> QED  BY Zenon, <1>2, <3>1 DEF Acquire, ParamTypes
  <2>2. ASSUME NEW d \in Clients, NEW n \in Names, Settled(d, n)'
        PROVE  Settled(d, n) /\ server'[d] = server[d]
    BY Zenon, <1>2, <2>1, <2>2 DEF Acquire, Settled, HandsInv, HandsType, ParamTypes
  <2>3. \A d \in Clients : pc'[d] = "read" => server'[d] = None
    BY Zenon, <1>2 DEF Acquire, HandsInv, HandsType, MirrorsTrue
  <2> QED  BY Zenon, <1>2, <2>2, <2>3, MirrorsMove DEF Acquire, paramVars
<1>3. ASSUME NEW c \in Clients, AcquireFails(c) PROVE MirrorsTrue'
  BY Zenon, <1>3, MirrorsMove DEF AcquireFails, paramVars, Settled, HandsInv, HandsType, MirrorsTrue
<1>4. ASSUME NEW c \in Clients, SyncName(c) PROVE MirrorsTrue'
  BY Zenon, <1>4, MirrorsSync
<1>5. ASSUME NEW c \in Clients, Paired(c) PROVE MirrorsTrue'
  <2>1. \A d \in Clients : cps'[d].params = cps[d].params
    BY <1>5 DEF Paired, ParamTypes
  <2>2. \A n \in Names : Settled(c, n)
    BY Zenon, <1>5 DEF Paired, Settled
  <2>3. \A d \in Clients, n \in Names : Settled(d, n)' => Settled(d, n) /\ server'[d] = server[d]
    BY Zenon, <1>5, <2>2 DEF Paired, Settled, HandsInv, HandsType
  <2>4. \A d \in Clients : d # c => cps'[d] = cps[d]
    BY Zenon, <1>5 DEF Paired, ParamTypes
  <2>5. \A d \in Clients, n \in Names :
          cps'[d].synced => cps[d].synced \/ told[d][n] = cps[d].params[n]
    BY Zenon, <2>2, <2>4 DEF MirrorsTrue
  <2>6. \A d \in Clients : pc'[d] = "read" => server'[d] = None
    BY Zenon, <1>5 DEF Paired, HandsInv, HandsType, MirrorsTrue
  <2> QED  BY Zenon, <1>5, <2>1, <2>3, <2>5, <2>6, MirrorsMove DEF Paired
<1>6. ASSUME NEW c \in Clients, NEW f \in BOOLEAN, PairFails(c, f) PROVE MirrorsTrue'
  BY Zenon, <1>6, MirrorsMove DEF PairFails, paramVars, Settled, HandsInv, HandsType, ParamTypes,
                           MirrorsTrue
<1>7. ASSUME NEW c \in Clients, Top(c) PROVE MirrorsTrue'
  BY Zenon, <1>7, MirrorsMove DEF Top, ReleaseAfterTransaction, paramVars, Settled, HandsInv,
                           HandsType, MirrorsTrue
<1>8. ASSUME NEW c \in Clients, LoopRelease(c) \/ Leave(c) PROVE MirrorsTrue'
  <2>1. /\ UNCHANGED <<mode, todo, cps, sps, told, want, real, off>>
        /\ \E to \in {"read", "unlist"} : pc' = [pc EXCEPT ![c] = to]
        /\ pc[c] \in {"release", "leave"} /\ server' = [server EXCEPT ![c] = None]
    BY Zenon, <1>8 DEF LoopRelease, Leave, Release, RemoveServer
  <2>2. \A d \in Clients, n \in Names : Settled(d, n)' => Settled(d, n) /\ server'[d] = server[d]
    BY Zenon, <2>1 DEF Settled, HandsInv, HandsType
  <2>3. \A d \in Clients : pc'[d] = "read" => server'[d] = None
    BY Zenon, <2>1 DEF HandsInv, HandsType, MirrorsTrue
  <2> QED  BY Zenon, <2>1, <2>2, <2>3, MirrorsMove
<1>9. ASSUME NEW c \in Clients, Read(c) \/ ReadFails(c) PROVE MirrorsTrue'
  <2>1. server[c] = None
    BY Zenon, <1>9 DEF Read, ReadFails, MirrorsTrue
  <2>2. /\ UNCHANGED <<mode, todo, paramVars, server>>
        /\ \E to \in {"await", "leave"} : pc' = [pc EXCEPT ![c] = to]
    BY Zenon, <1>9, <2>1 DEF Read, ReadFails
  <2> QED  BY Zenon, <2>2, MirrorsMove DEF paramVars, Settled, HandsInv, HandsType, MirrorsTrue
<1>10. ASSUME NEW c \in Clients, NEW n \in Names, NEW v \in Values, ClientSets(c, n, v)
       PROVE  MirrorsTrue'
  <2>1. PICK s : s = server[c]
    BY Zenon
  <2>2. /\ s \in Servers /\ pc[c] = "bounce" /\ UNCHANGED <<mode, pc, server, todo>>
        /\ \A d \in Clients : d # c => server[d] # s
    BY Zenon, <1>10, <2>1 DEF ClientSets, clientVars, HandsInv, HandsType, NoServerLost
  <2>3. /\ real' = [real EXCEPT ![s][n] = v] /\ sps' = [sps EXCEPT ![s][n] = v]
        /\ off' = off \ {<<s, n>>} /\ want' = [want EXCEPT ![c][n] = v]
        /\ cps' = [cps EXCEPT ![c].params[n] = v]
        /\ told' = IF cps[c].synced /\ cps[c].params[n] = v THEN told
                   ELSE [told EXCEPT ![c][n] = v]
    BY Zenon, <1>10, <2>1 DEF ClientSets, Tell, Dynamic
  <2>4. told[c][n] = cps[c].params[n]
    BY Zenon, <2>2 DEF MirrorsTrue, Settled
  <2>5. \A x \in Servers, k \in Names :
          /\ sps'[x][k] = IF x = s /\ k = n THEN v ELSE sps[x][k]
          /\ real'[x][k] = IF x = s /\ k = n THEN v ELSE real[x][k]
    BY Zenon, <2>2, <2>3 DEF ParamTypes
  <2>6. \A x \in Servers, k \in Names : sps'[x][k] = real'[x][k] \/ <<x, k>> \in off'
    <3>1. \A x \in Servers, k \in Names : ~ (x = s /\ k = n) =>
            (<<x, k>> \in off' <=> <<x, k>> \in off)
      BY Zenon, <2>3
    <3> QED  BY Zenon, <2>5, <3>1 DEF MirrorsTrue
  <2>7. \A d \in Clients, k \in Names :
          /\ told'[d][k] = IF d = c /\ k = n THEN v ELSE told[d][k]
          /\ cps'[d].params[k] = IF d = c /\ k = n THEN v ELSE cps[d].params[k]
          /\ want'[d][k] = IF d = c /\ k = n THEN v ELSE want[d][k]
    <3>1. CASE cps[c].synced /\ cps[c].params[n] = v
      BY Zenon, <2>3, <2>4, <3>1 DEF ParamTypes
    <3>2. CASE ~ (cps[c].synced /\ cps[c].params[n] = v)
      BY <2>3, <3>2 DEF ParamTypes
    <3> QED  BY Zenon, <3>1, <3>2
  <2>8. \A d \in Clients : cps'[d].synced = cps[d].synced
    BY Zenon, <2>3 DEF ParamTypes
  <2>9. \A d \in Clients, k \in Names : cps'[d].synced => told'[d][k] = cps'[d].params[k]
    <3> SUFFICES ASSUME NEW d \in Clients, NEW k \in Names, cps'[d].synced
                 PROVE  told'[d][k] = cps'[d].params[k]
      BY Zenon
    <3>1. cps[d].synced
      BY Zenon, <2>8
    <3>2. told[d][k] = cps[d].params[k]
      BY Zenon, <3>1 DEF MirrorsTrue
    <3> QED  BY Zenon, <2>7, <3>2
  <2>10. \A d \in Clients, k \in Names :
           Settled(d, k)' => /\ told'[d][k] = cps'[d].params[k]
                             /\ told'[d][k] = sps'[server'[d]][k]
    <3> SUFFICES ASSUME NEW d \in Clients, NEW k \in Names, Settled(d, k)'
                 PROVE  told'[d][k] = cps'[d].params[k] /\ told'[d][k] = sps'[server'[d]][k]
      BY Zenon
    <3>1. Settled(d, k) /\ server'[d] = server[d]
      BY Zenon, <2>2 DEF Settled
    <3>2. server[d] \in Servers /\ (server[d] = s <=> d = c)
      BY Zenon, <2>1, <2>2, <3>1 DEF Settled, HandsInv, HandsType
    <3>3. told[d][k] = cps[d].params[k] /\ told[d][k] = sps[server[d]][k]
      BY Zenon, <3>1 DEF MirrorsTrue
    <3>4. sps'[server'[d]][k] = IF d = c /\ k = n THEN v ELSE sps[server[d]][k]
      BY <2>5, <3>1, <3>2
    <3>5. CASE d = c /\ k = n
      BY Zenon, <2>7, <3>4, <3>5
    <3>6. CASE ~ (d = c /\ k = n)
      <4>1. told'[d][k] = told[d][k] /\ cps'[d].params[k] = cps[d].params[k]
        BY Zenon, <2>7, <3>6
      <4> QED  BY Zenon, <3>3, <3>4, <3>6, <4>1
    <3> QED  BY Zenon, <3>5, <3>6
  <2>11. \A d \in Clients, k \in Tracked : want'[d][k] \in {Absent, cps'[d].params[k]}
    BY <2>7, BasicAssumption DEF MirrorsTrue
  <2>12. \A d \in Clients : pc'[d] = "read" => server'[d] = None
    BY Zenon, <2>2 DEF MirrorsTrue
  <2> QED  BY Zenon, <2>6, <2>9, <2>10, <2>11, <2>12 DEF MirrorsTrue
<1>11. ASSUME NEW c \in Clients, NEW how \in {"ok", "client", "server"}, Bounced(c, how)
       PROVE  MirrorsTrue'
  <2>1. /\ UNCHANGED <<mode, todo, paramVars, server>>
        /\ \E to \in {"top", "leave"} : pc' = [pc EXCEPT ![c] = to]
    BY Zenon, <1>11 DEF Bounced
  <2> QED  BY Zenon, <2>1, MirrorsMove DEF paramVars, Settled, HandsInv, HandsType, MirrorsTrue
<1>12. ASSUME NEW c \in Clients, RemoveClient(c) PROVE MirrorsTrue'
  <2> USE <1>12 DEF RemoveClient
  <2>1. /\ \A d \in Clients \ {c} : cps'[d] = cps[d] /\ told'[d] = told[d] /\ want'[d] = want[d]
        /\ told'[c] = Nothing /\ cps'[c].params = Nothing /\ want'[c] = Nothing
        /\ ~cps'[c].synced
    BY Zenon DEF ParamTypes
  <2>2. \A n \in Names : Nothing[n] = Absent
    BY Zenon DEF Nothing
  <2>3. \A d \in Clients, n \in Names : Settled(d, n)' => Settled(d, n) /\ d # c
    BY Zenon DEF Settled, HandsInv, HandsType
  <2>4. \A d \in Clients, n \in Names : cps'[d].synced => told'[d][n] = cps'[d].params[n]
    BY <2>1 DEF MirrorsTrue
  <2>5. \A d \in Clients, n \in Names :
          Settled(d, n)' => /\ told'[d][n] = cps'[d].params[n]
                            /\ told'[d][n] = sps'[server'[d]][n]
    BY <2>1, <2>3 DEF MirrorsTrue
  <2>6. \A d \in Clients, n \in Tracked : want'[d][n] \in {Absent, cps'[d].params[n]}
    BY <2>1, <2>2, BasicAssumption DEF MirrorsTrue
  <2>7. \A d \in Clients : pc'[d] = "read" => server'[d] = None
    BY Zenon DEF HandsInv, HandsType, MirrorsTrue
  <2> QED  BY Zenon, <2>4, <2>5, <2>6, <2>7 DEF MirrorsTrue
<1>13. ASSUME NEW s \in Servers, NewServer(s) PROVE MirrorsTrue'
  <2> USE <1>13 DEF NewServer, clientVars
  <2>0. UNCHANGED <<mode, pc, server, todo, cps, told, want>>
    BY Zenon
  <2>1. \A x \in Servers : x # s => sps'[x] = sps[x] /\ real'[x] = real[x]
    BY Zenon DEF ParamTypes
  <2>2. sps'[s] = real'[s]
    BY Zenon DEF ParamTypes
  <2>3. \A x \in Servers, n \in Names : x # s => (<<x, n>> \in off' <=> <<x, n>> \in off)
    BY Zenon
  <2>4. \A x \in Servers, n \in Names : sps'[x][n] = real'[x][n] \/ <<x, n>> \in off'
    BY Zenon, <2>1, <2>2, <2>3 DEF MirrorsTrue
  <2>5. \A d \in Clients, n \in Names : Settled(d, n)' =>
          Settled(d, n) /\ server[d] \in Servers /\ server[d] # s
    BY Zenon DEF Settled, HandsInv, HandsType, NoServerLost
  <2>6. \A d \in Clients, n \in Names :
          Settled(d, n)' => /\ told'[d][n] = cps'[d].params[n]
                            /\ told'[d][n] = sps'[server'[d]][n]
    BY <2>0, <2>1, <2>5 DEF MirrorsTrue
  <2> QED  BY <2>0, <2>4, <2>6 DEF MirrorsTrue
<1> QED
  BY Zenon, <1>1, <1>2, <1>3, <1>4, <1>5, <1>6, <1>7, <1>8, <1>9, <1>10, <1>11, <1>12, <1>13 DEF Next

\* A step that leaves the parameters, and the servers of the clients that count on
\* them, alone keeps what session pooling needs.
LEMMA FreshMove ==
  ASSUME FreshServers, mode = "session", HandsInv,
         UNCHANGED <<mode, cps, sps, initial, told, want>>,
         \A s \in idle' : real'[s] = initial[s],
         \A d \in Clients : pc'[d] = "pair" =>
           /\ cps[d].params = want[d] /\ real'[server'[d]] = real[server'[d]]
           /\ \/ pc[d] = "pair" /\ todo'[d] = todo[d] /\ server'[d] = server[d]
              \/ server'[d] \in idle,
         \A d \in Clients : pc'[d] \in {"new", "await"} => pc[d] \in {"new", "await"},
         \A d \in Clients : pc'[d] # "release" /\ (pc'[d] = "read" => server'[d] # None),
         \A d \in Clients, n \in Names : Settled(d, n)' =>
           /\ Settled(d, n) /\ server'[d] = server[d] /\ real'[server[d]] = real[server[d]]
           /\ <<server[d], n>> \in off => <<server[d], n>> \in off'
  PROVE  FreshServers'
<1>1. sps' = initial'
  BY Zenon DEF FreshServers
<1>2. \A c \in Clients : pc'[c] = "pair" =>
        \A n \in todo'[c] : real'[server'[c]][n] = initial'[server'[c]][n]
  BY DEF FreshServers
<1>3. \A c \in Clients : pc'[c] \in {"new", "await", "pair"} => cps'[c].params = want'[c]
  BY Zenon DEF FreshServers
<1>4. \A c \in Clients, n \in Names :
        Settled(c, n)' => told'[c][n] = real'[server'[c]][n] \/ <<server'[c], n>> \in off'
  <2> SUFFICES ASSUME NEW c \in Clients, NEW n \in Names, Settled(c, n)'
               PROVE  told'[c][n] = real'[server'[c]][n] \/ <<server'[c], n>> \in off'
    BY Zenon
  <2>1. told[c][n] = real[server[c]][n] \/ <<server[c], n>> \in off
    BY Zenon DEF FreshServers
  <2> QED  BY Zenon, <2>1
<1>5. \A c \in Clients, n \in Tracked : Settled(c, n)' =>
        want'[c][n] \in {Absent, real'[server'[c]][n]} \/ <<server'[c], n>> \in off'
  BY Zenon, BasicAssumption DEF FreshServers
<1> QED  BY Zenon, <1>1, <1>2, <1>3, <1>4, <1>5 DEF FreshServers

\* One name of Sync in session pooling: the client is told what the server now has.
LEMMA FreshSync ==
  ASSUME HandsInv, ParamTypes, FreshServers, mode = "session",
         NEW c \in Clients, SyncName(c)
  PROVE  FreshServers'
<1>1. PICK s : s = server[c]
  BY Zenon
<1>2. /\ s \in Servers /\ s \notin idle
      /\ \A d \in Clients : d # c => server[d] # s
  BY Zenon, <1>1 DEF SyncName, HandsInv, HandsType, NoServerLost
<1>3. PICK n \in todo[c] : SyncInitial(c, s, n) /\ todo' = [todo EXCEPT ![c] = @ \ {n}]
  BY Zenon, <1>1 DEF SyncName, Dynamic
<1>4. n \in Names /\ todo[c] \subseteq Names
  BY Zenon, <1>3 DEF ParamTypes
<1>5. /\ UNCHANGED <<mode, pc, server, want, initial, idle, sps, cps>> /\ pc[c] = "pair"
      /\ todo' = [todo EXCEPT ![c] = @ \ {n}]
  BY Zenon, <1>3 DEF SyncName, SyncInitial, Tell, Dynamic
<1>6. /\ sps[s][n] = real[s][n] /\ cps[c].params[n] = want[c][n]
  BY Zenon, <1>1, <1>2, <1>3, <1>5 DEF FreshServers
<1>7. /\ told'[c][n] = real'[s][n] \/ <<s, n>> \in off'
      /\ n \in Tracked => want[c][n] \in {Absent, real'[s][n]} \/ <<s, n>> \in off'
      /\ \A d \in Clients, k \in Names : ~ (d = c /\ k = n) => told'[d][k] = told[d][k]
      /\ \A x \in Servers, k \in Names : ~ (x = s /\ k = n) => real'[x][k] = real[x][k]
      /\ \A x \in Servers, k \in Names :
           ~ (x = s /\ k = n) => (<<x, k>> \in off' <=> <<x, k>> \in off)
      /\ real' \in [Servers -> [Names -> Values]]
  <2>1. CASE cps[c].params[n] # Absent /\ cps[c].params[n] # sps[s][n] /\ n \in Tracked
    <3>1. PICK v : v = cps[c].params[n]
      BY Zenon
    <3>2. /\ v \in Values /\ SetParameter(s, n, v)
          /\ told' = [told EXCEPT ![c][n] = v]
      BY <1>3, <1>4, <2>1, <3>1 DEF SyncInitial, Tell, Dynamic, ParamTypes, Maybe
    <3>3. /\ told'[c][n] = v
          /\ \A d \in Clients, k \in Names : ~ (d = c /\ k = n) => told'[d][k] = told[d][k]
      BY Zenon, <1>4, <3>2 DEF ParamTypes
    <3>4. CASE real' = [real EXCEPT ![s][n] = v] /\ off' = off \ {<<s, n>>}
      <4>1. /\ real' \in [Servers -> [Names -> Values]]
            /\ \A x \in Servers, k \in Names :
                 real'[x][k] = IF x = s /\ k = n THEN v ELSE real[x][k]
        BY Zenon, <1>2, <1>4, <3>2, <3>4 DEF ParamTypes
      <4>2. \A x \in Servers, k \in Names : ~ (x = s /\ k = n) =>
              (<<x, k>> \in off' <=> <<x, k>> \in off)
        BY Zenon, <3>4
      <4> QED  BY Zenon, <1>2, <1>4, <1>6, <3>1, <3>3, <4>1, <4>2
    <3>5. CASE off' = off \cup {<<s, n>>} /\ UNCHANGED real
      <4>1. <<s, n>> \in off'
        BY Zenon, <3>5
      <4>2. \A x \in Servers, k \in Names : ~ (x = s /\ k = n) =>
              (<<x, k>> \in off' <=> <<x, k>> \in off)
        BY Zenon, <3>5
      <4> QED  BY Zenon, <3>3, <3>5, <4>1, <4>2 DEF ParamTypes
    <3> QED  BY Zenon, <3>2, <3>4, <3>5 DEF SetParameter
  <2>2. CASE ~ (cps[c].params[n] # Absent /\ cps[c].params[n] # sps[s][n] /\ n \in Tracked)
    <3>1. UNCHANGED <<real, off>> /\ told' = [told EXCEPT ![c][n] = sps[s][n]]
      BY Zenon, <1>3, <2>2 DEF SyncInitial, Tell, Dynamic
    <3>2. /\ told'[c][n] = sps[s][n]
          /\ \A d \in Clients, k \in Names : ~ (d = c /\ k = n) => told'[d][k] = told[d][k]
      BY Zenon, <1>4, <3>1 DEF ParamTypes
    <3> QED  BY Zenon, <1>6, <2>2, <3>1, <3>2 DEF ParamTypes
  <2> QED  BY Zenon, <2>1, <2>2
<1>8. \A x \in idle : real'[x] = initial[x]
  <2> SUFFICES ASSUME NEW x \in idle PROVE real'[x] = initial[x]
    BY Zenon
  <2>1. x \in Servers /\ x # s
    BY Zenon, <1>2 DEF HandsInv, HandsType
  <2>2. real[x] = initial[x]
    BY Zenon DEF FreshServers
  <2>3. \A k \in Names : real'[x][k] = initial[x][k]
    BY Zenon, <1>7, <2>1, <2>2
  <2> QED  BY <1>7, <2>1, <2>3 DEF ParamTypes
<1>9. \A d \in Clients : pc[d] = "pair" =>
        \A k \in todo'[d] : real'[server[d]][k] = initial[server[d]][k]
  <2> SUFFICES ASSUME NEW d \in Clients, pc[d] = "pair", NEW k \in todo'[d]
               PROVE  real'[server[d]][k] = initial[server[d]][k]
    BY Zenon
  <2>1. k \in todo[d] /\ k \in Names /\ ~ (d = c /\ k = n)
    BY Zenon, <1>5 DEF ParamTypes
  <2>2. server[d] \in Servers /\ (server[d] = s => d = c)
    BY Zenon, <1>2 DEF HandsInv, HandsType
  <2>3. real'[server[d]][k] = real[server[d]][k]
    BY Zenon, <1>7, <2>1, <2>2
  <2> QED  BY Zenon, <2>1, <2>3 DEF FreshServers
<1>10. ASSUME NEW d \in Clients, NEW k \in Names, Settled(d, k)', ~ (d = c /\ k = n)
       PROVE  /\ Settled(d, k) /\ told'[d][k] = told[d][k]
              /\ real'[server[d]][k] = real[server[d]][k]
              /\ <<server[d], k>> \in off' <=> <<server[d], k>> \in off
  <2>1. Settled(d, k)
    BY Zenon, <1>5, <1>10 DEF Settled, ParamTypes
  <2>2. server[d] \in Servers /\ (server[d] = s => d = c)
    BY <1>2, <2>1 DEF Settled, HandsInv, HandsType, FreshServers
  <2> QED  BY Zenon, <1>7, <1>10, <2>1, <2>2
<1>11. \A d \in Clients, k \in Names :
         Settled(d, k)' => told'[d][k] = real'[server[d]][k] \/ <<server[d], k>> \in off'
  <2> SUFFICES ASSUME NEW d \in Clients, NEW k \in Names, Settled(d, k)'
               PROVE  told'[d][k] = real'[server[d]][k] \/ <<server[d], k>> \in off'
    BY Zenon
  <2>1. CASE d = c /\ k = n
    BY Zenon, <1>1, <1>7, <2>1
  <2>2. CASE ~ (d = c /\ k = n)
    BY Zenon, <1>10, <2>2 DEF FreshServers
  <2> QED  BY Zenon, <2>1, <2>2
<1>12. \A d \in Clients, k \in Tracked : Settled(d, k)' =>
         want[d][k] \in {Absent, real'[server[d]][k]} \/ <<server[d], k>> \in off'
  <2> SUFFICES ASSUME NEW d \in Clients, NEW k \in Tracked, Settled(d, k)'
               PROVE  want[d][k] \in {Absent, real'[server[d]][k]} \/ <<server[d], k>> \in off'
    BY Zenon
  <2>1. CASE d = c /\ k = n
    BY Zenon, <1>1, <1>7, <2>1
  <2>2. CASE ~ (d = c /\ k = n)
    BY Zenon, <1>10, <2>2, BasicAssumption DEF FreshServers
  <2> QED  BY Zenon, <2>1, <2>2
<1> QED  BY Zenon, <1>5, <1>8, <1>9, <1>11, <1>12 DEF FreshServers

\* Every step keeps what session pooling needs: a server is reset before it is free.
LEMMA FreshStep ==
  ASSUME HandsInv, ParamTypes, FreshServers, mode = "session", Next
  PROVE  FreshServers'
<1> USE DEF At
<1>1. ASSUME NEW c \in Clients, NEW to \in {"await", "top", "read", "bounce", "leave"},
             pc' = [pc EXCEPT ![c] = to], todo' = [todo EXCEPT ![c] = todo'[c]],
             UNCHANGED <<mode, server, cps, sps, initial, real, told, want, off, idle>>,
             to = "await" => pc[c] = "new",
             to \in {"top", "read", "bounce"} =>
               server[c] # None /\ \A n \in Names : Settled(c, n)
      PROVE  FreshServers'
  <2>1. \A d \in Clients : d # c => pc'[d] = pc[d] /\ todo'[d] = todo[d]
    BY Zenon, <1>1 DEF HandsInv, HandsType, ParamTypes
  <2>2. pc'[c] = to
    BY Zenon, <1>1 DEF HandsInv, HandsType
  <2>3. \A d \in Clients, n \in Names : Settled(d, n)' => Settled(d, n)
    BY Zenon, <1>1, <2>1, <2>2 DEF Settled
  <2>4. \A s \in idle' : real'[s] = initial[s]
    BY Zenon, <1>1 DEF FreshServers
  <2>5. \A d \in Clients : pc'[d] = "pair" =>
          pc[d] = "pair" /\ todo'[d] = todo[d] /\ cps[d].params = want[d]
    BY Zenon, <1>1, <2>1, <2>2 DEF FreshServers
  <2>6. \A d \in Clients : pc'[d] # "release" /\ (pc'[d] = "read" => server'[d] # None)
    BY Zenon, <1>1, <2>1, <2>2 DEF FreshServers
  <2>7. \A d \in Clients : pc'[d] \in {"new", "await"} => pc[d] \in {"new", "await"}
    BY Zenon, <1>1, <2>1, <2>2
  <2> QED  BY Zenon, <1>1, <2>3, <2>4, <2>5, <2>6, <2>7, FreshMove
<1>2. ASSUME NEW c \in Clients, Connect(c) PROVE FreshServers'
  BY Zenon, <1>1, <1>2 DEF Connect, paramVars, ParamTypes
<1>3. ASSUME NEW c \in Clients, NEW s \in Servers, Acquire(c, s) PROVE FreshServers'
  <2> USE <1>3 DEF Acquire, paramVars
  <2>1. ASSUME NEW n \in Names PROVE n \in todo'[c]
    <3>1. sps[s][n] # Absent
      BY BasicAssumption DEF ParamTypes
    <3> QED  BY Zenon, <3>1 DEF ParamTypes
  <2>2. /\ pc'[c] = "pair" /\ server'[c] = s
        /\ \A d \in Clients : d # c => /\ pc'[d] = pc[d] /\ todo'[d] = todo[d]
                                       /\ server'[d] = server[d]
    BY Zenon DEF HandsInv, HandsType, ParamTypes
  <2>3. \A d \in Clients, n \in Names : Settled(d, n)' => Settled(d, n) /\ d # c
    BY Zenon, <2>1, <2>2 DEF Settled
  <2>4. \A x \in idle' : real'[x] = initial[x]
    BY Zenon DEF FreshServers
  <2>5. \A d \in Clients : pc'[d] = "pair" =>
          /\ cps[d].params = want[d]
          /\ \/ pc[d] = "pair" /\ todo'[d] = todo[d] /\ server'[d] = server[d]
             \/ server'[d] \in idle
    BY Zenon, <2>2 DEF FreshServers
  <2>6. \A d \in Clients : pc'[d] # "release" /\ (pc'[d] = "read" => server'[d] # None)
    BY Zenon, <2>2 DEF FreshServers
  <2>7. \A d \in Clients : pc'[d] \in {"new", "await"} => pc[d] \in {"new", "await"}
    BY Zenon, <2>2
  <2> QED  BY Zenon, <2>2, <2>3, <2>4, <2>5, <2>6, <2>7, FreshMove
<1>4. ASSUME NEW c \in Clients, AcquireFails(c) PROVE FreshServers'
  BY Zenon, <1>1, <1>4 DEF AcquireFails, paramVars, ParamTypes
<1>5. ASSUME NEW c \in Clients, SyncName(c) PROVE FreshServers'
  BY Zenon, <1>5, FreshSync
<1>6. ASSUME NEW c \in Clients, Paired(c) PROVE FreshServers'
  <2>1. server[c] # None /\ \A n \in Names : Settled(c, n)
    BY Zenon, <1>6 DEF Paired, Settled, HandsInv
  <2> QED  BY Zenon, <1>1, <1>6, <2>1 DEF Paired, Dynamic, ParamTypes
<1>7. ASSUME NEW c \in Clients, NEW f \in BOOLEAN, PairFails(c, f) PROVE FreshServers'
  <2>1. todo' = [todo EXCEPT ![c] = todo'[c]]
    BY Zenon, <1>7 DEF PairFails, ParamTypes
  <2> QED  BY Zenon, <1>1, <1>7, <2>1 DEF PairFails, paramVars
<1>8. ASSUME NEW c \in Clients, Top(c) PROVE FreshServers'
  <2>1. server[c] # None /\ \A n \in Names : Settled(c, n)
    BY Zenon, <1>8 DEF Top, Settled, HandsInv
  <2> QED  BY Zenon, <1>1, <1>8, <2>1 DEF Top, ReleaseAfterTransaction, paramVars, ParamTypes
<1>9. ASSUME NEW c \in Clients, Read(c) PROVE FreshServers'
  <2>1. server[c] # None /\ \A n \in Names : Settled(c, n)
    BY Zenon, <1>9 DEF Read, Settled, FreshServers
  <2> QED  BY Zenon, <1>1, <1>9, <2>1 DEF Read, paramVars, ParamTypes
<1>10. ASSUME NEW c \in Clients, ReadFails(c) PROVE FreshServers'
  BY Zenon, <1>1, <1>10 DEF ReadFails, paramVars, ParamTypes
<1>11. ASSUME NEW c \in Clients, NEW how \in {"ok", "client", "server"}, Bounced(c, how)
       PROVE  FreshServers'
  <2>1. server[c] # None /\ \A n \in Names : Settled(c, n)
    BY Zenon, <1>11 DEF Bounced, Settled, HandsInv
  <2> QED  BY Zenon, <1>1, <1>11, <2>1 DEF Bounced, paramVars, ParamTypes
<1>12. ASSUME NEW c \in Clients, LoopRelease(c) PROVE FALSE
  BY Zenon, <1>12 DEF LoopRelease, FreshServers
<1>13. ASSUME NEW c \in Clients, Leave(c) PROVE FreshServers'
  <2> USE <1>13 DEF Leave
  <2>0. PICK s : s = server[c]
    BY Zenon
  <2>1. \A d \in Clients : d # c => /\ pc'[d] = pc[d] /\ server'[d] = server[d]
                                    /\ s # None => server[d] # s
    BY Zenon, <2>0 DEF HandsInv, HandsType, NoServerLost
  <2>2. pc'[c] = "unlist" /\ pc[c] = "leave"
    BY Zenon DEF HandsInv, HandsType
  <2>3. \/ UNCHANGED <<idle, real, off>>
        \/ /\ idle' = idle \cup {s} /\ real' = [real EXCEPT ![s] = initial[s]]
           /\ off' = {p \in off : p[1] # s} /\ s # None
    BY Zenon, <2>0 DEF Release, RemoveServer
  <2>4. \A x \in Servers : x # s => real'[x] = real[x]
    BY Zenon, <2>3 DEF ParamTypes
  <2>5. \A x \in Servers, n \in Names : x # s => (<<x, n>> \in off' <=> <<x, n>> \in off)
    BY Zenon, <2>3
  <2>6. \A x \in idle' : real'[x] = initial[x]
    <3>1. s # None => s \in Servers
      BY Zenon, <2>0 DEF HandsInv, HandsType
    <3> QED  BY <2>3, <3>1 DEF FreshServers, ParamTypes, HandsInv, HandsType
  <2>7. ASSUME NEW d \in Clients,
               pc'[d] = "pair" \/ \E n \in Names : Settled(d, n)'
        PROVE  /\ d # c /\ server'[d] = server[d]
               /\ server[d] \in Servers /\ server[d] # s
    <3>1. d # c
      BY Zenon, <2>2, <2>7 DEF Settled
    <3>2. server[d] \in Servers
      BY <2>1, <2>7, <3>1 DEF Settled, HandsInv, HandsType, FreshServers
    <3> QED  BY Zenon, <2>1, <3>1, <3>2, BasicAssumption
  <2>8. \A d \in Clients, n \in Names : Settled(d, n)' => Settled(d, n)
    BY Zenon, <2>1, <2>2 DEF Settled
  <2>9. \A d \in Clients : pc'[d] # "release" /\ (pc'[d] = "read" => server'[d] # None)
    BY Zenon, <2>1, <2>2 DEF FreshServers
  <2>10. \A d \in Clients : pc'[d] \in {"new", "await"} => pc[d] \in {"new", "await"}
    BY Zenon, <2>1, <2>2
  <2>11. \A d \in Clients : pc'[d] = "pair" =>
           /\ cps[d].params = want[d] /\ real'[server'[d]] = real[server'[d]]
           /\ pc[d] = "pair" /\ todo'[d] = todo[d] /\ server'[d] = server[d]
    BY Zenon, <2>1, <2>2, <2>4, <2>7 DEF FreshServers
  <2>12. \A d \in Clients, n \in Names : Settled(d, n)' =>
           /\ Settled(d, n) /\ server'[d] = server[d] /\ real'[server[d]] = real[server[d]]
           /\ <<server[d], n>> \in off => <<server[d], n>> \in off'
    BY Zenon, <2>4, <2>5, <2>7, <2>8
  <2> QED  BY Zenon, <2>6, <2>9, <2>10, <2>11, <2>12, FreshMove
<1>14. ASSUME NEW c \in Clients, NEW n \in Names, NEW v \in Values, ClientSets(c, n, v)
       PROVE  FreshServers'
  <2>1. PICK s : s = server[c]
    BY Zenon
  <2>2. /\ s \in Servers /\ s \notin idle /\ pc[c] = "bounce"
        /\ UNCHANGED <<mode, pc, server, todo, cps, sps, initial, idle>>
        /\ \A d \in Clients : d # c => server[d] # s
    BY Zenon, <1>14, <2>1 DEF ClientSets, Tell, Dynamic, clientVars, HandsInv, HandsType, NoServerLost
  <2>3. /\ real' = [real EXCEPT ![s][n] = v] /\ off' = off \ {<<s, n>>}
        /\ want' = [want EXCEPT ![c][n] = v] /\ told' = [told EXCEPT ![c][n] = v]
    BY Zenon, <1>14, <2>1 DEF ClientSets, Tell, Dynamic
  <2>4. \A x \in Servers : x # s => real'[x] = real[x]
    BY Zenon, <2>2, <2>3 DEF ParamTypes
  <2>5. /\ \A x \in Servers, k \in Names :
             real'[x][k] = IF x = s /\ k = n THEN v ELSE real[x][k]
        /\ \A x \in Servers, k \in Names :
             ~ (x = s /\ k = n) => (<<x, k>> \in off' <=> <<x, k>> \in off)
    <3>1. \A x \in Servers, k \in Names :
            real'[x][k] = IF x = s /\ k = n THEN v ELSE real[x][k]
      BY Zenon, <2>2, <2>3 DEF ParamTypes
    <3>2. \A x \in Servers, k \in Names :
            ~ (x = s /\ k = n) => (<<x, k>> \in off' <=> <<x, k>> \in off)
      BY Zenon, <2>3
    <3> QED  BY Zenon, <3>1, <3>2
  <2>6. \A d \in Clients, k \in Names :
          /\ told'[d][k] = IF d = c /\ k = n THEN v ELSE told[d][k]
          /\ want'[d][k] = IF d = c /\ k = n THEN v ELSE want[d][k]
    BY Zenon, <2>3 DEF ParamTypes
  <2>7. \A x \in idle' : real'[x] = initial'[x]
    BY Zenon, <2>2, <2>4 DEF FreshServers, HandsInv, HandsType
  <2>8. \A d \in Clients : pc'[d] = "pair" =>
          \A k \in todo'[d] : real'[server'[d]][k] = initial'[server'[d]][k]
    <3> SUFFICES ASSUME NEW d \in Clients, pc[d] = "pair"
                 PROVE  real'[server[d]] = real[server[d]]
      BY SMTT(30), <2>2 DEF FreshServers
    <3>1. server[d] \in Servers /\ server[d] # s
      BY Zenon, <2>2 DEF HandsInv, HandsType
    <3> QED  BY Zenon, <2>4, <3>1
  <2>9. \A d \in Clients : pc'[d] \in {"new", "await", "pair"} => cps'[d].params = want'[d]
    <3>1. \A d \in Clients : d # c => want'[d] = want[d]
      BY Zenon, <2>3 DEF ParamTypes
    <3> QED  BY Zenon, <2>2, <3>1 DEF FreshServers
  <2>10. ASSUME NEW d \in Clients, NEW k \in Names, Settled(d, k)'
         PROVE  /\ Settled(d, k) /\ server'[d] = server[d]
                /\ server[d] \in Servers /\ (server[d] = s <=> d = c)
    <3>1. Settled(d, k)
      BY Zenon, <2>2, <2>10 DEF Settled
    <3> QED  BY <2>1, <2>2, <3>1 DEF Settled, HandsInv, HandsType, FreshServers
  <2>11. \A d \in Clients, k \in Names : Settled(d, k)' =>
           told'[d][k] = real'[server'[d]][k] \/ <<server'[d], k>> \in off'
    <3> SUFFICES ASSUME NEW d \in Clients, NEW k \in Names, Settled(d, k)'
                 PROVE  told'[d][k] = real'[server'[d]][k] \/ <<server'[d], k>> \in off'
      BY Zenon
    <3>1. told[d][k] = real[server[d]][k] \/ <<server[d], k>> \in off
      BY Zenon, <2>10 DEF FreshServers
    <3>2. CASE d = c /\ k = n
      BY <2>5, <2>6, <2>10, <3>2
    <3>3. CASE ~ (d = c /\ k = n)
      BY <2>5, <2>6, <2>10, <3>1, <3>3
    <3> QED  BY Zenon, <3>2, <3>3
  <2>12. \A d \in Clients, k \in Tracked : Settled(d, k)' =>
           want'[d][k] \in {Absent, real'[server'[d]][k]} \/ <<server'[d], k>> \in off'
    <3> SUFFICES ASSUME NEW d \in Clients, NEW k \in Tracked, Settled(d, k)'
                 PROVE  \/ want'[d][k] \in {Absent, real'[server'[d]][k]}
                        \/ <<server'[d], k>> \in off'
      BY Zenon
    <3>0. k \in Names
      BY Zenon, BasicAssumption
    <3>1. want[d][k] \in {Absent, real[server[d]][k]} \/ <<server[d], k>> \in off
      BY Zenon, <2>10, <3>0 DEF FreshServers
    <3>2. CASE d = c /\ k = n
      BY <2>5, <2>6, <2>10, <3>0, <3>2
    <3>3. CASE ~ (d = c /\ k = n)
      BY <2>5, <2>6, <2>10, <3>0, <3>1, <3>3
    <3> QED  BY Zenon, <3>2, <3>3
  <2> QED  BY Zenon, <2>2, <2>7, <2>8, <2>9, <2>11, <2>12 DEF FreshServers
<1>15. ASSUME NEW c \in Clients, RemoveClient(c) PROVE FreshServers'
  <2> USE <1>15 DEF RemoveClient
  <2>1. /\ pc'[c] = "gone"
        /\ \A d \in Clients \ {c} : /\ cps'[d] = cps[d] /\ told'[d] = told[d]
                                    /\ want'[d] = want[d] /\ pc'[d] = pc[d]
    BY Zenon DEF ParamTypes, HandsInv, HandsType
  <2>2. \A d \in Clients, n \in Names : Settled(d, n)' => Settled(d, n) /\ d # c
    BY Zenon, <2>1 DEF Settled
  <2>3. \A d \in Clients, n \in Names : Settled(d, n)' =>
          told'[d][n] = real'[server'[d]][n] \/ <<server'[d], n>> \in off'
    BY Zenon, <2>1, <2>2 DEF FreshServers
  <2>4. \A d \in Clients, n \in Tracked : Settled(d, n)' =>
          want'[d][n] \in {Absent, real'[server'[d]][n]} \/ <<server'[d], n>> \in off'
    BY Zenon, <2>1, <2>2, BasicAssumption DEF FreshServers
  <2>5. \A d \in Clients : pc'[d] \in {"new", "await", "pair"} => cps'[d].params = want'[d]
    BY Zenon, <2>1 DEF FreshServers
  <2>6. \A d \in Clients : pc'[d] # "release" /\ (pc'[d] = "read" => server'[d] # None)
    BY Zenon, <2>1 DEF FreshServers
  <2>7. \A d \in Clients : pc'[d] = "pair" =>
          \A n \in todo'[d] : real'[server'[d]][n] = initial'[server'[d]][n]
    BY Zenon, <2>1 DEF FreshServers
  <2> QED  BY Zenon, <2>3, <2>4, <2>5, <2>6, <2>7 DEF FreshServers
<1>16. ASSUME NEW s \in Servers, NewServer(s) PROVE FreshServers'
  <2> USE <1>16 DEF NewServer, clientVars
  <2>1. \A x \in Servers : x # s => real'[x] = real[x]
    BY Zenon DEF ParamTypes
  <2>2. real'[s] = initial[s] /\ sps' = sps
    BY Zenon DEF ParamTypes, FreshServers
  <2>3. \A x \in Servers, n \in Names : x # s => (<<x, n>> \in off' <=> <<x, n>> \in off)
    BY Zenon
  <2>4. ASSUME NEW d \in Clients, pc[d] = "pair" \/ \E n \in Names : Settled(d, n)
        PROVE  server[d] \in Servers /\ server[d] # s
    <3>1. server[d] \in Servers
      BY Zenon, <2>4 DEF Settled, HandsInv, HandsType, FreshServers
    <3> QED  BY Zenon, <3>1 DEF HandsInv, HandsType, NoServerLost
  <2>5. \A x \in idle' : real'[x] = initial[x]
    BY Zenon, <2>1, <2>2 DEF FreshServers, HandsInv, HandsType
  <2>6. \A d \in Clients, n \in Names : Settled(d, n)' => Settled(d, n)
    BY Zenon DEF Settled
  <2>7. \A d \in Clients, n \in Names : Settled(d, n)' =>
           /\ Settled(d, n) /\ server'[d] = server[d] /\ real'[server[d]] = real[server[d]]
           /\ <<server[d], n>> \in off => <<server[d], n>> \in off'
    BY Zenon, <2>1, <2>3, <2>4, <2>6
  <2>8. \A d \in Clients : pc'[d] = "pair" =>
          cps[d].params = want[d] /\ real'[server'[d]] = real[server'[d]]
    BY Zenon, <2>1, <2>4 DEF FreshServers
  <2>9. \A d \in Clients : pc'[d] # "release" /\ (pc'[d] = "read" => server'[d] # None)
    BY Zenon DEF FreshServers
  <2> QED  BY Zenon, <2>2, <2>5, <2>7, <2>8, <2>9, FreshMove
<1> QED
  BY Zenon, <1>2, <1>3, <1>4, <1>5, <1>6, <1>7, <1>8, <1>9, <1>10, <1>11, <1>12, <1>13, <1>14,
     <1>15, <1>16 DEF Next

\* ParamInv holds throughout.
LEMMA Params == Spec => []ParamInv
<1>1. ASSUME ParamInv, [Next]_vars PROVE ParamInv'
  <2>1. HandsInv'
    BY Zenon, <1>1, HandsStep DEF ParamInv
  <2>2. CASE UNCHANGED vars
    <3>1. UNCHANGED <<mode, pc, server, todo, cps, sps, initial, real, told, want, off, idle>>
      BY Zenon, <2>2 DEF vars, clientVars, paramVars
    <3>2. ParamTypes' <=> ParamTypes
      BY Zenon, <3>1 DEF ParamTypes
    <3>3. \A c, n : Settled(c, n)' <=> Settled(c, n)
      BY Zenon, <3>1 DEF Settled
    <3>4. MirrorsTrue' <=> MirrorsTrue
      BY Zenon, <3>1, <3>3 DEF MirrorsTrue
    <3>5. FreshServers' <=> FreshServers
      BY Zenon, <3>1, <3>3 DEF FreshServers
    <3> QED  BY Zenon, <1>1, <2>1, <3>1, <3>2, <3>4, <3>5 DEF ParamInv
  <2>3. CASE Next
    <3>1. ParamTypes'
      BY Zenon, <1>1, <2>3, ParamTypesStep DEF ParamInv
    <3>2. mode' = mode
      BY Zenon, <2>3 DEF Next, Connect, SyncName, Paired, Top, LoopRelease, Leave, RemoveClient,
                  Acquire, AcquireFails, PairFails, Read, ReadFails, ClientSets, Bounced,
                  NewServer
    <3>3. mode = "transaction" => MirrorsTrue'
      BY Zenon, <1>1, <2>3, MirrorsStep DEF ParamInv
    <3>4. mode = "session" => FreshServers'
      BY Zenon, <1>1, <2>3, FreshStep DEF ParamInv
    <3> QED  BY Zenon, <2>1, <3>1, <3>2, <3>3, <3>4 DEF ParamInv
  <2> QED  BY Zenon, <1>1, <2>2, <2>3
<1>2. ParamInv /\ [Next]_vars => ParamInv'
  BY Zenon, <1>1
<1> QED  BY ParamInitially, <1>2, PTL DEF Spec

\* Sync, ps.Client and ps.Server do their work, in both kinds of pooling and however
\* the clients take turns on the servers: a client that is being served has the
\* tracked parameters that it asked for or set, and what it was last told of every
\* parameter is in effect, except where its server refused to take a value.
THEOREM ParametersKept == Spec => []ParametersTrue
<1>1. ParamInv => ParametersTrue
  <2> SUFFICES ASSUME ParamInv PROVE ParametersTrue
    BY Zenon
  <2>1. ASSUME NEW c \in Clients, pc[c] = "bounce", NEW n \in Names
        PROVE  /\ Settled(c, n) /\ server[c] \in Servers
               /\ told[c][n] = real[server[c]][n] \/ <<server[c], n>> \in off
    <3>1. Settled(c, n) /\ server[c] \in Servers
      BY Zenon, <2>1 DEF Settled, ParamInv, HandsInv, HandsType
    <3>2. CASE mode = "transaction"
      BY Zenon, <3>1, <3>2 DEF ParamInv, MirrorsTrue
    <3>3. CASE mode = "session"
      BY Zenon, <3>1, <3>3 DEF ParamInv, FreshServers
    <3> QED  BY Zenon, <3>1, <3>2, <3>3 DEF ParamInv, ParamTypes
  <2>2. ASSUME NEW c \in Clients, pc[c] = "bounce", NEW n \in Tracked
        PROVE  want[c][n] \in {Absent, real[server[c]][n]} \/ <<server[c], n>> \in off
    <3>1. n \in Names
      BY Zenon, BasicAssumption
    <3>2. Settled(c, n) /\ server[c] \in Servers
      BY Zenon, <2>1, <2>2, <3>1
    <3>3. CASE mode = "transaction"
      <4>1. want[c][n] \in {Absent, sps[server[c]][n]}
        BY <3>1, <3>2, <3>3 DEF ParamInv, MirrorsTrue
      <4>2. sps[server[c]][n] = real[server[c]][n] \/ <<server[c], n>> \in off
        BY Zenon, <3>1, <3>2, <3>3 DEF ParamInv, MirrorsTrue
      <4> QED  BY Zenon, <4>1, <4>2
    <3>4. CASE mode = "session"
      BY Zenon, <3>2, <3>4 DEF ParamInv, FreshServers
    <3> QED  BY Zenon, <3>3, <3>4 DEF ParamInv, ParamTypes
  <2> QED  BY Zenon, <2>1, <2>2 DEF ParametersTrue, ToldTrue, SessionKept
<1> QED  BY Params, <1>1, PTL

-----------------------------------------------------------------------------
(* The hybrid pool.                                                        *)

\* Where a client can stand.
HStates ==
  {"first", "paired", "top", "idle", "read", "acquire", "pairing", "bounce", "answering",
   "peerread", "bounced", "fallen", "acquirePrimary", "leave", "gone"}

\* What a client holds and what Cancel finds, wherever it stands: the inductive
\* invariant.
HoldInv ==
  /\ hpc \in HStates
  /\ held \subseteq H!Pools
  /\ taken = [p \in H!Pools |-> IF p \in held THEN 1 ELSE 0]
  /\ hpc \in {"first", "acquire", "fallen", "acquirePrimary", "idle", "read", "gone"} => held = {}
  /\ hpc \in {"paired", "pairing", "bounce", "answering", "peerread", "bounced", "top"} =>
       held = {where} /\ hpeer = where
  /\ hpc \in {"first", "read", "acquire", "acquirePrimary"} => hpeer = "none"
  /\ hpc = "leave" => hpeer = "none" \/ hpeer \in held
  /\ hpc \in {"first", "paired", "top", "idle", "read", "acquire", "pairing"} => moved = {}
  /\ hpc \in {"fallen", "acquirePrimary"} => moved # {}
  /\ hpc \in {"answering", "bounced"} /\ peerError = "readonly" /\ where = "replica" => moved # {}
  /\ hpc \notin {"answering", "bounced", "leave", "gone"} => peerError # "readonly"
  /\ hpc \in {"pairing", "bounce", "answering", "peerread", "bounced"} =>
       /\ where = "replica" \/ moved = {} => peerIsReplica
       /\ where # "replica" /\ moved # {} => ~peerIsReplica

\* Every step of a client of the hybrid pool keeps it.
LEMMA HoldStep ==
  ASSUME HoldInv, H!Next
  PROVE  HoldInv'
<1> USE DEF H!Goto, H!SetState, HStates
<1>1. ASSUME NEW ps \in SUBSET held, H!GiveBack(ps)
      PROVE  /\ held' \subseteq H!Pools /\ held' = held \ ps
             /\ taken' = [p \in H!Pools |-> IF p \in held' THEN 1 ELSE 0]
  BY <1>1 DEF HoldInv, H!GiveBack
<1>2. ASSUME NEW p \in H!Pools, held = {}, H!Take(p)
      PROVE  /\ held' \subseteq H!Pools /\ held' = {p}
             /\ taken' = [q \in H!Pools |-> IF q \in held' THEN 1 ELSE 0]
  BY <1>2 DEF HoldInv, H!Take
<1>3. ASSUME NEW k \in H!Kinds, NEW last \in BOOLEAN, H!ClientSends(k, last) PROVE HoldInv'
  <2>1. UNCHANGED <<hpc, held, taken, where, hpeer, peerIsReplica, moved, peerError>>
    BY Zenon, <1>3 DEF H!ClientSends, H!serveVars
  <2> QED  BY Zenon, <2>1 DEF HoldInv
<1>4. ASSUME NEW p \in H!Pools, H!First(p) PROVE HoldInv'
  <2>1. /\ hpc = "first" /\ hpc' = "paired" /\ H!Take(p) /\ where' = p /\ hpeer' = p
        /\ UNCHANGED <<moved, peerError>>
    BY Zenon, <1>4 DEF H!First, H!txnVars
  <2> QED  BY Zenon, <1>2, <2>1 DEF HoldInv
<1>5. ASSUME NEW p \in H!Pools, H!Acquire(p) PROVE HoldInv'
  <2>1. /\ hpc = "acquire" /\ hpc' = "pairing" /\ H!Take(p) /\ where' = p /\ hpeer' = p
        /\ peerIsReplica' /\ UNCHANGED <<moved, peerError>>
    BY Zenon, <1>5 DEF H!Acquire
  <2> QED  BY Zenon, <1>2, <2>1 DEF HoldInv
<1>6. ASSUME H!FirstReady \/ H!Paired \/ H!Answered PROVE HoldInv'
  <2>1. /\ UNCHANGED <<held, taken, where, hpeer, peerIsReplica, moved, peerError>>
        /\ \/ hpc = "paired" /\ hpc' = "top"
           \/ hpc = "pairing" /\ hpc' = "bounce"
           \/ hpc = "answering" /\ hpc' = "bounced"
           \/ hpc = "answering" /\ hpc' = "peerread" /\ peerError = ""
    BY Zenon, <1>6 DEF H!FirstReady, H!Paired, H!Answered, H!txnVars
  <2> QED  BY Zenon, <2>1 DEF HoldInv
<1>7. ASSUME H!AcquireFails \/ H!ServerFails PROVE HoldInv'
  <2>1. /\ UNCHANGED <<held, taken, where, hpeer, peerIsReplica, moved, peerError>>
        /\ hpc \in {"first", "acquire", "acquirePrimary", "paired", "pairing", "bounce", "answering",
                   "peerread"}
        /\ hpc' = "leave"
    BY Zenon, <1>7 DEF H!AcquireFails, H!ServerFails, H!txnVars
  <2> QED  BY Zenon, <2>1 DEF HoldInv
<1>8. ASSUME H!Top \/ H!Leave PROVE HoldInv'
  <2>1. /\ UNCHANGED <<moved, peerError>> /\ H!GiveBack(held)
        /\ \/ hpc = "top" /\ hpc' = "idle"
           \/ hpc = "leave" /\ hpc' = "gone"
    BY Zenon, <1>8 DEF H!Top, H!Leave, H!txnVars
  <2>2. held' = {} /\ held' \subseteq H!Pools
        /\ taken' = [p \in H!Pools |-> IF p \in held' THEN 1 ELSE 0]
    BY Zenon, <1>1, <2>1
  <2> QED  BY Zenon, <2>1, <2>2 DEF HoldInv
<1>9. ASSUME H!Idle \/ H!ReadFirst \/ H!Fallen PROVE HoldInv'
  <2>1. /\ UNCHANGED <<held, taken, where, moved, peerError>> /\ hpeer' = "none"
        /\ \/ hpc = "idle" /\ hpc' = "read"
           \/ hpc = "read" /\ hpc' = "acquire"
           \/ hpc = "fallen" /\ hpc' = "acquirePrimary"
    BY Zenon, <1>9 DEF H!Idle, H!ReadFirst, H!Fallen, H!txnVars
  <2> QED  BY Zenon, <2>1 DEF HoldInv
<1>10. ASSUME H!ReadFails \/ H!ClientFails PROVE HoldInv'
  <2>1. /\ UNCHANGED <<held, taken, where, hpeer, peerIsReplica, moved>> /\ peerError' = "gone"
        /\ \/ hpc \in {"read", "paired", "pairing"} /\ hpc' = "leave"
           \/ hpc = "peerread" /\ hpc' = "bounced"
           \/ hpc = "answering" /\ hpc' = "answering"
    BY Zenon, <1>10 DEF H!ReadFails, H!ClientFails
  <2> QED  BY Zenon, <2>1 DEF HoldInv
<1>11. ASSUME H!Deliver \/ H!PeerRead PROVE HoldInv'
  <2>1. /\ UNCHANGED <<held, taken, where, hpeer, peerIsReplica, moved, peerError>>
        /\ \/ hpc = "bounce" /\ hpc' \in {"answering", "peerread"}
           \/ hpc = "peerread" /\ hpc' = "bounce"
    BY Zenon, <1>11 DEF H!Deliver, H!PeerRead
  <2> QED  BY Zenon, <2>1 DEF HoldInv
<1>12. ASSUME H!Forward PROVE HoldInv'
  <2>1. /\ UNCHANGED <<held, taken, where, hpeer, peerIsReplica>>
        /\ hpc = "answering" /\ hpc' = "answering"
        /\ \/ UNCHANGED <<peerError, moved>>
           \/ where = "replica" /\ moved' # {}
           \/ where # "replica" /\ UNCHANGED moved
    BY Zenon, <1>12 DEF H!Forward, H!serveVars
  <2>2. CASE where = "replica" /\ moved' # {}
    BY Zenon, <2>1, <2>2 DEF HoldInv
  <2>3. CASE UNCHANGED <<peerError, moved>> \/ (where # "replica" /\ UNCHANGED moved)
    BY Zenon, <2>1, <2>3 DEF HoldInv
  <2> QED  BY Zenon, <2>1, <2>2, <2>3
<1>13. ASSUME H!Fallback PROVE HoldInv'
  <2>1. /\ hpc = "bounced" /\ hpc' = "fallen" /\ where = "replica" /\ peerError = "readonly"
        /\ H!GiveBack({"replica"}) /\ peerError' = "" /\ UNCHANGED <<hpeer, moved>>
    BY Zenon, <1>13 DEF H!Fallback
  <2>2. held = {"replica"} /\ moved # {}
    BY Zenon, <2>1 DEF HoldInv
  <2>3. held' = {} /\ held' \subseteq H!Pools
        /\ taken' = [p \in H!Pools |-> IF p \in held' THEN 1 ELSE 0]
    BY Zenon, <1>1, <2>1, <2>2
  <2> QED  BY Zenon, <2>1, <2>2, <2>3 DEF HoldInv
<1>14. ASSUME H!PairPrimary \/ H!PairPrimaryFails PROVE HoldInv'
  <2>1. /\ hpc = "acquirePrimary" /\ H!Take("primary") /\ where' = "primary"
        /\ UNCHANGED <<moved, peerError>>
        /\ \/ hpc' = "bounce" /\ hpeer' = "primary" /\ ~peerIsReplica'
           \/ hpc' = "leave" /\ UNCHANGED hpeer
    BY Zenon, <1>14 DEF H!PairPrimary, H!PairPrimaryFails, H!txnVars
  <2>2. "primary" \in H!Pools /\ held = {} /\ moved # {} /\ hpeer = "none" /\ peerError # "readonly"
    BY Zenon, <2>1 DEF HoldInv, H!Pools
  <2>3. held' = {"primary"} /\ held' \subseteq H!Pools
        /\ taken' = [p \in H!Pools |-> IF p \in held' THEN 1 ELSE 0]
    BY Zenon, <1>2, <2>1, <2>2
  <2> QED  BY Zenon, <2>1, <2>2, <2>3 DEF HoldInv
<1>15. ASSUME H!Bounced PROVE HoldInv'
  <2>1. /\ hpc = "bounced"
        /\ UNCHANGED <<held, taken, where, hpeer, peerIsReplica, peerError>>
        /\ \/ hpc' = "top" /\ moved' = {} /\ peerError = ""
           \/ hpc' = "leave" /\ UNCHANGED moved
    BY Zenon, <1>15 DEF H!Bounced
  <2> QED  BY Zenon, <2>1 DEF HoldInv
<1> QED
  BY Zenon, <1>3, <1>4, <1>5, <1>6, <1>7, <1>8, <1>9, <1>10, <1>11, <1>12, <1>13, <1>14, <1>15
     DEF H!Next

\* Whatever fails, and however often a transaction is moved to the primary, a client
\* of the hybrid pool has given back all it took when it is gone, and it waits for a
\* server of one pool without holding one of the other.  A cancel request reaches the
\* replica that works for the client, and the primary to which its transaction was moved;
\* it is dropped when pair was called with the primary, and it reaches no server that the
\* client does not hold, except between giving it back and the SetState that follows.
THEOREM HybridHoldsRightly == PoolsSpec => []HoldsRightly
<1>1. PoolsInit => HoldInv
  <2> SUFFICES ASSUME PoolsInit PROVE HoldInv
    BY Zenon
  <2>1. /\ hpc = "first" /\ held = {} /\ taken = [p \in H!Pools |-> 0] /\ hpeer = "none"
        /\ moved = {} /\ peerError = ""
    BY Zenon DEF PoolsInit, H!Init
  <2> QED  BY ZenonT(40), <2>1 DEF HoldInv, HStates
<1>2. HoldInv /\ [PoolsNext]_<<which, vars, hybridVars, statementVars, queueVars>> => HoldInv'
  <2> SUFFICES ASSUME HoldInv, [PoolsNext]_<<which, vars, hybridVars, statementVars, queueVars>>
               PROVE  HoldInv'
    BY Zenon
  <2>1. CASE H!Next
    BY Zenon, <2>1, HoldStep
  <2>2. CASE UNCHANGED hybridVars
    BY Zenon, <2>2 DEF hybridVars, HoldInv
  <2> QED  BY Zenon, <2>1, <2>2 DEF PoolsNext
<1>3. HoldInv => HoldsRightly
  <2> SUFFICES ASSUME HoldInv PROVE HoldsRightly
    BY Zenon
  <2>1. H!Cancels \subseteq {hpeer}
    BY Zenon DEF H!Cancels
  <2>2. ASSUME hpc \in {"bounce", "answering", "peerread"}
        PROVE  H!Cancels = IF where = "replica" \/ moved # {} THEN {where} ELSE {}
    <3>1. hpeer = where /\ where \in H!Pools
      BY Zenon, <2>2 DEF HoldInv
    <3>2. CASE where = "replica"
      <4>1. peerIsReplica
        BY Zenon, <2>2, <3>2 DEF HoldInv
      <4> QED  BY Zenon, <3>1, <3>2, <4>1 DEF H!Cancels
    <3>3. CASE where = "primary" /\ moved # {}
      <4>1. ~peerIsReplica
        BY Zenon, <2>2, <3>3 DEF HoldInv
      <4> QED  BY Zenon, <3>1, <3>3, <4>1 DEF H!Cancels
    <3>4. CASE where = "primary" /\ moved = {}
      <4>1. peerIsReplica
        BY Zenon, <2>2, <3>4 DEF HoldInv
      <4> QED  BY Zenon, <3>1, <3>4, <4>1 DEF H!Cancels
    <3> QED  BY Zenon, <3>1, <3>2, <3>3, <3>4 DEF H!Pools
  <2>3. ASSUME hpc \notin {"idle", "fallen", "gone"} PROVE H!Cancels \subseteq held
    <3>1. CASE hpeer \in held
      BY Zenon, <2>1, <3>1
    <3>2. CASE hpeer = "none"
      BY Zenon, <3>2 DEF H!Cancels, H!Pools
    <3> QED  BY Zenon, <2>3, <3>1, <3>2 DEF HoldInv, HStates
  <2> QED
    BY Zenon, <2>2, <2>3 DEF HoldInv, HoldsRightly, H!HoldsRightly, H!CancelFinds, H!GivesBack,
       H!WaitsEmptyHanded
<1> QED  BY <1>1, <1>2, <1>3, PTL DEF PoolsSpec

-----------------------------------------------------------------------------
(* The ring.  Sound is the inductive invariant, of the fields one by one.  *)

\* What a slot of the array may hold, and the arrays.
Item == Values \cup {None}
Slots == Seq(Item)

\* The slot of position p of the array b, which wraps around.
Wrap(b, p) == IF p >= Len(b) THEN p - Len(b) ELSE p

\* The slots next to slot p, and the array with v in slot p.
Before(b, p) == IF p = 0 THEN Len(b) - 1 ELSE p - 1
Behind(b, p) == IF p + 1 = Len(b) THEN 0 ELSE p + 1
Put(b, p, v) == [b EXCEPT ![p + 1] = v]

\* The n items from the head h on.
Window(b, h, n) == [i \in 1..n |-> b[Wrap(b, h + (i - 1)) + 1]]

\* The tail t is n slots behind the head h.
Sound(b, h, t, n) ==
  /\ b \in Slots /\ h \in Nat /\ t \in Nat /\ n \in Nat /\ n <= Len(b)
  /\ IF Len(b) = 0 THEN h = 0 /\ t = 0 ELSE h < Len(b) /\ t = Wrap(b, h + n) /\ t < Len(b)

\* A ring with these fields.
Fields(b, h, t, n) == [buf |-> b, head |-> h, tail |-> t, length |-> n]

RingOK(r) == \E b, h, t, n : r = Fields(b, h, t, n) /\ Sound(b, h, t, n)

\* What Get returns for the positions of a ring is its window.
LEMMA ItemsAre ==
  ASSUME NEW b, NEW h, NEW t, NEW n
  PROVE  R!Items(Fields(b, h, t, n)) = Window(b, h, n)
BY DEF R!Items, R!Get, R!At, R!Capacity, Window, Wrap, Fields

\* A window is made of slots of the array.
LEMMA WindowIs ==
  ASSUME NEW b, NEW h, NEW t, NEW n, Sound(b, h, t, n)
  PROVE  /\ Window(b, h, n) \in Slots /\ Len(Window(b, h, n)) = n
         /\ \A i \in 1..n : /\ Window(b, h, n)[i] = b[Wrap(b, h + (i - 1)) + 1]
                            /\ Wrap(b, h + (i - 1)) \in 0..(Len(b) - 1)
<1> b \in Slots /\ h \in Nat /\ t \in Nat /\ n \in Nat
  BY DEF Sound
<1>1. \A i \in 1..n : Wrap(b, h + (i - 1)) \in 0..(Len(b) - 1)
  BY DEF Sound, Wrap, Slots
<1>2. \A i \in 1..n : b[Wrap(b, h + (i - 1)) + 1] \in Item
  <2> TAKE i \in 1..n
  <2>1. Wrap(b, h + (i - 1)) \in 0..(Len(b) - 1)
    BY Zenon, <1>1
  <2>2. Wrap(b, h + (i - 1)) + 1 \in 1..Len(b)
    BY <2>1 DEF Slots
  <2> QED  BY <2>2 DEF Slots
<1> QED  BY <1>1, <1>2 DEF Window, Slots

\* A sequence with the items of a window is the window.
LEMMA IsWindow ==
  ASSUME NEW b, NEW h, NEW n \in Nat, NEW s \in Slots, Len(s) = n,
         \A i \in 1..n : s[i] = b[Wrap(b, h + (i - 1)) + 1]
  PROVE  Window(b, h, n) = s
BY DEF Window, Slots

\* What two sequences make one after the other.
LEMMA Concatenated ==
  ASSUME NEW S, NEW one \in Seq(S), NEW two \in Seq(S)
  PROVE  /\ one \o two \in Seq(S) /\ Len(one \o two) = Len(one) + Len(two)
         /\ \A i \in 1..(Len(one) + Len(two)) :
              (one \o two)[i] = IF i <= Len(one) THEN one[i] ELSE two[i - Len(one)]
OBVIOUS

\* The part from h on followed by the part before h is the whole, turned.
LEMMA Joined ==
  ASSUME NEW S, NEW b \in Seq(S), NEW h \in Nat, h <= Len(b),
         NEW one \in Seq(S), Len(one) = Len(b) - h,
         \A i \in 1..(Len(b) - h) : one[i] = b[h + i],
         NEW two \in Seq(S), Len(two) = h, \A i \in 1..h : two[i] = b[i]
  PROVE  /\ one \o two \in Seq(S) /\ Len(one \o two) = Len(b)
         /\ \A i \in 1..Len(b) :
              (one \o two)[i] = IF h + i <= Len(b) THEN b[h + i] ELSE b[h + i - Len(b)]
<1> DEFINE old == one \o two
<1>1. /\ old \in Seq(S) /\ Len(old) = Len(one) + Len(two)
      /\ \A i \in 1..(Len(one) + Len(two)) :
           old[i] = IF i <= Len(one) THEN one[i] ELSE two[i - Len(one)]
  BY Zenon, Concatenated
<1> HIDE DEF old
<1>2. Len(b) \in Nat /\ Len(one) + Len(two) = Len(b)
  OBVIOUS
<1>3. ASSUME NEW i \in 1..Len(b)
      PROVE  old[i] = IF h + i <= Len(b) THEN b[h + i] ELSE b[h + i - Len(b)]
  <2>1. CASE h + i <= Len(b)
    <3>1. i \in 1..(Len(b) - h) /\ i <= Len(one)
      BY <1>2, <2>1
    <3> QED  BY Zenon, <1>1, <1>2, <2>1, <3>1
  <2>2. CASE ~(h + i <= Len(b))
    <3>1. ~(i <= Len(one)) /\ i - Len(one) = h + i - Len(b) /\ h + i - Len(b) \in 1..h
      BY <1>2, <2>2
    <3> QED  BY Zenon, <1>1, <1>2, <2>2, <3>1
  <2> QED  BY Zenon, <2>1, <2>2
<1> QED  BY Zenon, <1>1, <1>2, <1>3 DEF old

\* What copy(buf, r.buf[r.head:]) and copy(buf[n:], r.buf[:r.head]) in grow make of the
\* old array.
LEMMA Rotated ==
  ASSUME NEW S, NEW b \in Seq(S), NEW h \in Nat, h <= Len(b)
  PROVE  LET old == SubSeq(b, h + 1, Len(b)) \o SubSeq(b, 1, h)
         IN  /\ old \in Seq(S) /\ Len(old) = Len(b)
             /\ \A i \in 1..Len(b) :
                  old[i] = IF h + i <= Len(b) THEN b[h + i] ELSE b[h + i - Len(b)]
<1> DEFINE one == SubSeq(b, h + 1, Len(b))
           two == SubSeq(b, 1, h)
<1>1. one \in Seq(S) /\ Len(one) = Len(b) - h /\ \A i \in 1..(Len(b) - h) : one[i] = b[h + i]
  OBVIOUS
<1>2. two \in Seq(S) /\ Len(two) = h /\ \A i \in 1..h : two[i] = b[i]
  OBVIOUS
<1> HIDE DEF one, two
<1> DEFINE old == one \o two
<1>3. /\ old \in Seq(S) /\ Len(old) = Len(b)
      /\ \A i \in 1..Len(b) :
           old[i] = IF h + i <= Len(b) THEN b[h + i] ELSE b[h + i - Len(b)]
  BY <1>1, <1>2, Joined
<1> QED  BY Zenon, <1>3 DEF one, two

\* The new array of grow begins with the old items.
LEMMA Padded ==
  ASSUME NEW S, NEW old \in Seq(S), NEW size \in Nat, size >= Len(old), NEW z \in S
  PROVE  LET new == [i \in 1..size |-> IF i <= Len(old) THEN old[i] ELSE z]
         IN  new \in Seq(S) /\ Len(new) = size /\ \A i \in 1..Len(old) : new[i] = old[i]
OBVIOUS

\* An item put before the head joins the window at its front.
LEMMA FrontPushed ==
  ASSUME NEW b, NEW h, NEW t, NEW n, Sound(b, h, t, n),
         n < Len(b), NEW v \in Item
  PROVE  LET k == Before(b, h)
             d == Put(b, k, v)
         IN  /\ Sound(d, k, t, n + 1)
             /\ Window(d, k, n + 1) = <<v>> \o Window(b, h, n)
<1> b \in Slots /\ h \in Nat /\ t \in Nat /\ n \in Nat
  BY DEF Sound
<1> DEFINE c == Len(b)
           k == Before(b, h)
           d == Put(b, k, v)
           w == Window(b, h, n)
           s == <<v>> \o w
<1>1. c \in Nat /\ n < c /\ h < c /\ k \in 0..(c - 1)
      /\ (h = 0 => k = c - 1) /\ (h # 0 => k = h - 1)
      /\ t = Wrap(b, h + n) /\ t < c
  BY DEF Sound, Slots, Before, Behind
<1>2. w \in Slots /\ Len(w) = n
      /\ \A i \in 1..n : w[i] = b[Wrap(b, h + (i - 1)) + 1] /\ Wrap(b, h + (i - 1)) \in 0..(c - 1)
  BY Zenon, WindowIs
<1>3. d \in Slots /\ Len(d) = c /\ d[k + 1] = v
      /\ \A i \in 0..(c - 1) : i # k => d[i + 1] = b[i + 1]
  <2> HIDE DEF k
  <2> QED  BY <1>1 DEF Slots, Put, Item
<1> HIDE DEF w, k, d
<1>4. s \in Slots /\ Len(s) = n + 1 /\ s[1] = v /\ \A i \in 1..n : s[i + 1] = w[i]
  BY <1>2 DEF Slots
<1> HIDE DEF s
<1>5. \A i \in 1..(n + 1) : s[i] = d[Wrap(d, k + (i - 1)) + 1]
  <2> TAKE i \in 1..(n + 1)
  <2>1. CASE i = 1
    <3>1. Wrap(d, k + (i - 1)) = k
      BY <1>1, <1>3, <2>1 DEF Wrap
    <3> QED  BY <1>3, <1>4, <2>1, <3>1
  <2>2. CASE i # 1
    <3> DEFINE j == i - 1
    <3>1. j \in 1..n /\ i = j + 1
      BY <2>2
    <3> HIDE DEF j
    <3>2. Wrap(d, k + (i - 1)) = Wrap(b, h + (j - 1)) /\ Wrap(b, h + (j - 1)) # k
      BY <1>1, <1>3, <3>1 DEF Wrap
    <3> QED  BY Zenon, <1>2, <1>3, <1>4, <3>1, <3>2
  <2> QED  BY <2>1, <2>2
<1>6. Window(d, k, n + 1) = s
  <2> DEFINE len == n + 1
  <2>1. len \in Nat
    OBVIOUS
  <2>2. s \in Slots /\ Len(s) = len /\ \A i \in 1..len : s[i] = d[Wrap(d, k + (i - 1)) + 1]
    BY Zenon, <1>4, <1>5
  <2> HIDE DEF len
  <2>3. Window(d, k, len) = s
    BY <2>1, <2>2, IsWindow
  <2> QED  BY Zenon, <2>3 DEF len
<1>7. Sound(d, k, t, n + 1)
  BY <1>1, <1>3 DEF Sound, Wrap
<1> QED  BY Zenon, <1>6, <1>7 DEF s, w, k, d

\* An item put in the tail joins the window at its back.
LEMMA BackPushed ==
  ASSUME NEW b, NEW h, NEW t, NEW n, Sound(b, h, t, n),
         n < Len(b), NEW v \in Item
  PROVE  LET u == Behind(b, t)
             d == Put(b, t, v)
         IN  /\ Sound(d, h, u, n + 1)
             /\ t = Before(b, u)
             /\ Window(d, h, n + 1) = Append(Window(b, h, n), v)
<1> b \in Slots /\ h \in Nat /\ t \in Nat /\ n \in Nat
  BY DEF Sound
<1> DEFINE c == Len(b)
           u == Behind(b, t)
           d == Put(b, t, v)
           w == Window(b, h, n)
           s == Append(w, v)
<1>1. c \in Nat /\ n < c /\ h < c /\ u \in 0..(c - 1)
      /\ (t + 1 = c => u = 0) /\ (t + 1 # c => u = t + 1)
      /\ t = Wrap(b, h + n) /\ t < c
  BY DEF Sound, Slots, Before, Behind
<1>2. w \in Slots /\ Len(w) = n
      /\ \A i \in 1..n : w[i] = b[Wrap(b, h + (i - 1)) + 1] /\ Wrap(b, h + (i - 1)) \in 0..(c - 1)
  BY Zenon, WindowIs
<1>3. d \in Slots /\ Len(d) = c /\ d[t + 1] = v
      /\ \A i \in 0..(c - 1) : i # t => d[i + 1] = b[i + 1]
  BY <1>1 DEF Slots, Put, Item
<1> HIDE DEF w, u, d
<1>4. s \in Slots /\ Len(s) = n + 1 /\ s[n + 1] = v /\ \A i \in 1..n : s[i] = w[i]
  BY <1>2 DEF Slots
<1> HIDE DEF s
<1>5. \A i \in 1..(n + 1) : s[i] = d[Wrap(d, h + (i - 1)) + 1]
  <2> TAKE i \in 1..(n + 1)
  <2>1. CASE i = n + 1
    <3>1. Wrap(d, h + (i - 1)) = t
      BY <1>1, <1>3, <2>1 DEF Wrap
    <3> QED  BY <1>3, <1>4, <2>1, <3>1
  <2>2. CASE i # n + 1
    <3>1. i \in 1..n
      BY <2>2
    <3>2. Wrap(d, h + (i - 1)) = Wrap(b, h + (i - 1)) /\ Wrap(b, h + (i - 1)) # t
      BY <1>1, <1>3, <3>1 DEF Wrap
    <3> QED  BY Zenon, <1>2, <1>3, <1>4, <3>1, <3>2
  <2> QED  BY <2>1, <2>2
<1>6. Window(d, h, n + 1) = s
  <2> DEFINE len == n + 1
  <2>1. len \in Nat
    OBVIOUS
  <2>2. s \in Slots /\ Len(s) = len /\ \A i \in 1..len : s[i] = d[Wrap(d, h + (i - 1)) + 1]
    BY Zenon, <1>4, <1>5
  <2> HIDE DEF len
  <2>3. Window(d, h, len) = s
    BY <2>1, <2>2, IsWindow
  <2> QED  BY Zenon, <2>3 DEF len
<1>7. Sound(d, h, u, n + 1)
  <2>1. u = Wrap(d, h + (n + 1))
    BY <1>1, <1>3 DEF Wrap
  <2> QED  BY <1>1, <1>3, <2>1 DEF Sound
<1>8. t = Before(b, u)
  BY <1>1 DEF Before
<1> QED  BY Zenon, <1>6, <1>7, <1>8 DEF s, w, u, d

\* The window without the item at the head.
LEMMA FrontPopped ==
  ASSUME NEW b, NEW h, NEW t, NEW n, Sound(b, h, t, n),
         n # 0
  PROVE  LET k == Behind(b, h)
             d == Put(b, h, None)
         IN  /\ Sound(d, k, t, n - 1)
             /\ b[h + 1] = Head(Window(b, h, n))
             /\ Window(d, k, n - 1) = Tail(Window(b, h, n))
<1> b \in Slots /\ h \in Nat /\ t \in Nat /\ n \in Nat
  BY DEF Sound
<1> DEFINE c == Len(b)
           k == Behind(b, h)
           d == Put(b, h, None)
           w == Window(b, h, n)
           s == Tail(w)
<1>1. c \in Nat /\ n <= c /\ h < c /\ k \in 0..(c - 1)
      /\ (h + 1 = c => k = 0) /\ (h + 1 # c => k = h + 1)
      /\ t = Wrap(b, h + n) /\ t < c
  BY DEF Sound, Slots, Before, Behind
<1>2. w \in Slots /\ Len(w) = n
      /\ \A i \in 1..n : w[i] = b[Wrap(b, h + (i - 1)) + 1] /\ Wrap(b, h + (i - 1)) \in 0..(c - 1)
  BY Zenon, WindowIs
<1>3. d \in Slots /\ Len(d) = c /\ \A i \in 0..(c - 1) : i # h => d[i + 1] = b[i + 1]
  BY <1>1 DEF Slots, Put, Item
<1> HIDE DEF w, k, d
<1>4. s \in Slots /\ Len(s) = n - 1 /\ Head(w) = w[1] /\ \A i \in 1..(n - 1) : s[i] = w[i + 1]
  BY <1>2 DEF Slots
<1> HIDE DEF s
<1>5. \A i \in 1..(n - 1) : s[i] = d[Wrap(d, k + (i - 1)) + 1]
  <2> TAKE i \in 1..(n - 1)
  <2> DEFINE j == i + 1
  <2>1. j \in 1..n /\ i = j - 1
    OBVIOUS
  <2>2. s[i] = w[j]
    BY <1>4
  <2> HIDE DEF j
  <2>3. Wrap(d, k + (i - 1)) = Wrap(b, h + (j - 1)) /\ Wrap(b, h + (j - 1)) # h
    BY <1>1, <1>3, <2>1 DEF Wrap
  <2> QED  BY Zenon, <1>2, <1>3, <2>1, <2>2, <2>3
<1>6. Window(d, k, n - 1) = s
  <2> DEFINE len == n - 1
  <2>1. len \in Nat
    OBVIOUS
  <2>2. s \in Slots /\ Len(s) = len /\ \A i \in 1..len : s[i] = d[Wrap(d, k + (i - 1)) + 1]
    BY Zenon, <1>4, <1>5
  <2> HIDE DEF len
  <2>3. Window(d, k, len) = s
    BY <2>1, <2>2, IsWindow
  <2> QED  BY Zenon, <2>3 DEF len
<1>7. Sound(d, k, t, n - 1)
  <2>1. t = Wrap(d, k + (n - 1))
    BY <1>1, <1>3 DEF Wrap
  <2> QED  BY <1>1, <1>3, <2>1 DEF Sound
<1>9. b[h + 1] = Head(w)
  <2>1. 1 \in 1..n /\ Wrap(b, h + (1 - 1)) = h
    BY <1>1 DEF Wrap
  <2> QED  BY Zenon, <1>2, <1>4, <2>1
<1> QED  BY Zenon, <1>6, <1>7, <1>9 DEF s, w, k, d

\* The window without the item before the tail.
LEMMA BackPopped ==
  ASSUME NEW b, NEW h, NEW t, NEW n, Sound(b, h, t, n),
         n # 0
  PROVE  LET u == Before(b, t)
             d == Put(b, u, None)
             w == Window(b, h, n)
         IN  /\ Sound(d, h, u, n - 1)
             /\ b[u + 1] = w[Len(w)]
             /\ Window(d, h, n - 1) = SubSeq(w, 1, Len(w) - 1)
<1> b \in Slots /\ h \in Nat /\ t \in Nat /\ n \in Nat
  BY DEF Sound
<1> DEFINE c == Len(b)
           u == Before(b, t)
           d == Put(b, u, None)
           w == Window(b, h, n)
           s == SubSeq(w, 1, Len(w) - 1)
<1>1. c \in Nat /\ n <= c /\ h < c /\ u \in 0..(c - 1)
      /\ (t = 0 => u = c - 1) /\ (t # 0 => u = t - 1)
      /\ t = Wrap(b, h + n) /\ t < c
  BY DEF Sound, Slots, Before, Behind
<1>2. w \in Slots /\ Len(w) = n
      /\ \A i \in 1..n : w[i] = b[Wrap(b, h + (i - 1)) + 1] /\ Wrap(b, h + (i - 1)) \in 0..(c - 1)
  BY Zenon, WindowIs
<1>3. d \in Slots /\ Len(d) = c /\ \A i \in 0..(c - 1) : i # u => d[i + 1] = b[i + 1]
  <2> HIDE DEF u
  <2> QED  BY <1>1 DEF Slots, Put, Item
<1> HIDE DEF w, u, d
<1>4. s \in Slots /\ Len(s) = n - 1 /\ \A i \in 1..(n - 1) : s[i] = w[i]
  BY <1>2 DEF Slots
<1> HIDE DEF s
<1>5. \A i \in 1..(n - 1) : s[i] = d[Wrap(d, h + (i - 1)) + 1]
  <2> TAKE i \in 1..(n - 1)
  <2>1. i \in 1..n
    OBVIOUS
  <2>2. Wrap(d, h + (i - 1)) = Wrap(b, h + (i - 1)) /\ Wrap(b, h + (i - 1)) # u
    BY <1>1, <1>3, <2>1 DEF Wrap
  <2> QED  BY Zenon, <1>2, <1>3, <1>4, <2>1, <2>2
<1>6. Window(d, h, n - 1) = s
  <2> DEFINE len == n - 1
  <2>1. len \in Nat
    OBVIOUS
  <2>2. s \in Slots /\ Len(s) = len /\ \A i \in 1..len : s[i] = d[Wrap(d, h + (i - 1)) + 1]
    BY Zenon, <1>4, <1>5
  <2> HIDE DEF len
  <2>3. Window(d, h, len) = s
    BY <2>1, <2>2, IsWindow
  <2> QED  BY Zenon, <2>3 DEF len
<1>7. Sound(d, h, u, n - 1)
  <2>1. u = Wrap(d, h + (n - 1))
    BY <1>1, <1>3 DEF Wrap
  <2> QED  BY <1>1, <1>3, <2>1 DEF Sound
<1>9. b[u + 1] = w[Len(w)]
  <2>1. n \in 1..n /\ Wrap(b, h + (n - 1)) = u
    BY <1>1 DEF Wrap
  <2> QED  BY Zenon, <1>2, <2>1
<1> QED  BY Zenon, <1>6, <1>7, <1>9 DEF s, w, u, d

\* grow moves the items to the front of a larger array, in their order.
LEMMA Grown ==
  ASSUME NEW b, NEW h, NEW t, NEW n, Sound(b, h, t, n),
         ~(n < Len(b))
  PROVE  \E d :
           /\ R!Grow(Fields(b, h, t, n)) = Fields(d, 0, n, n)
           /\ Sound(d, 0, n, n) /\ n < Len(d) /\ Window(d, 0, n) = Window(b, h, n)
<1> b \in Slots /\ h \in Nat /\ t \in Nat /\ n \in Nat
  BY DEF Sound
<1> DEFINE size == IF Len(b) = 0 THEN 2 ELSE 2 * Len(b)
           old == SubSeq(b, h + 1, Len(b)) \o SubSeq(b, 1, h)
           d == [i \in 1..size |-> IF i <= Len(old) THEN old[i] ELSE None]
<1>1. h <= Len(b) /\ Len(b) \in Nat /\ n = Len(b)
  BY DEF Sound, Slots
<1>2. old \in Slots /\ Len(old) = n
      /\ \A i \in 1..n : old[i] = IF h + i <= n THEN b[h + i] ELSE b[h + i - n]
  BY Zenon, <1>1, Rotated DEF Slots
<1>3. R!Grow(Fields(b, h, t, n)) = Fields(d, 0, n, n)
  <2> HIDE DEF d
  <2>1. R!Grow(Fields(b, h, t, n)) =
          [Fields(b, h, t, n)
             EXCEPT !.buf = d, !.head = 0, !.tail = n]
    BY Zenon DEF R!Grow, R!Capacity, d, Fields
  <2> QED  BY Zenon, <2>1 DEF Fields
<1> HIDE DEF old
<1>4. size \in Nat /\ size > n
  BY <1>1
<1> HIDE DEF size
<1>5. d \in Slots /\ Len(d) = size /\ \A i \in 1..n : d[i] = old[i]
  <2>1. size >= Len(old) /\ None \in Item
    BY <1>2, <1>4 DEF Item
  <2>2. d \in Slots /\ Len(d) = size /\ \A i \in 1..Len(old) : d[i] = old[i]
    BY <1>2, <1>4, <2>1, Padded DEF Slots
  <2> QED  BY Zenon, <1>2, <2>2
<1> HIDE DEF d
<1>7. \A i \in 1..n : d[Wrap(d, 0 + (i - 1)) + 1] = b[Wrap(b, h + (i - 1)) + 1]
  <2> TAKE i \in 1..n
  <2>1. Wrap(d, 0 + (i - 1)) + 1 = i
    BY <1>4, <1>5 DEF Wrap
  <2>2. Wrap(b, h + (i - 1)) + 1 = IF h + i <= n THEN h + i ELSE h + i - n
    BY <1>1 DEF Wrap
  <2>3. d[i] = old[i]
    BY <1>5
  <2>4. old[i] = IF h + i <= n THEN b[h + i] ELSE b[h + i - n]
    BY <1>2
  <2> QED  BY Zenon, <2>1, <2>2, <2>3, <2>4
<1>8. Window(d, 0, n) = Window(b, h, n)
  BY Zenon, <1>7 DEF Window
<1>9. Sound(d, 0, n, n)
  BY <1>4, <1>5 DEF Sound, Wrap
<1>10. n < Len(d)
  BY <1>4, <1>5
<1> QED  BY Zenon, <1>3, <1>8, <1>9, <1>10

\* After the test for room at the start of a push, there is room, and the items are
\* what they were.
LEMMA RoomMade ==
  ASSUME NEW r, RingOK(r)
  PROVE  \E b, h, t, n :
           /\ R!Room(r) = Fields(b, h, t, n)
           /\ Sound(b, h, t, n) /\ n < Len(b) /\ R!Items(r) = Window(b, h, n)
<1>1. PICK b, h, t, n :
        r = Fields(b, h, t, n) /\ Sound(b, h, t, n)
  BY Zenon DEF RingOK
<1>2. R!Items(r) = Window(b, h, n)
  BY Zenon, <1>1, ItemsAre
<1>3. r.length = n /\ R!Capacity(r) = Len(b)
  BY <1>1 DEF R!Capacity, Fields
<1>4. CASE n = Len(b)
  <2>1. R!Room(r) = R!Grow(r)
    BY Zenon, <1>3, <1>4 DEF R!Room
  <2>2. Sound(b, h, t, n) /\ ~(n < Len(b))
    BY <1>1, <1>4 DEF Sound
  <2>3. PICK d :
          /\ R!Grow(Fields(b, h, t, n)) = Fields(d, 0, n, n)
          /\ Sound(d, 0, n, n) /\ n < Len(d) /\ Window(d, 0, n) = Window(b, h, n)
    BY <2>2, Grown
  <2>4. R!Room(r) = Fields(d, 0, n, n)
    BY Zenon, <1>1, <2>1, <2>3
  <2> QED  BY Zenon, <1>2, <2>3, <2>4
<1>5. CASE n # Len(b)
  <2>1. R!Room(r) = r
    BY Zenon, <1>3, <1>5 DEF R!Room
  <2>2. n < Len(b)
    BY <1>1, <1>5 DEF Sound, Slots
  <2> QED  BY Zenon, <1>1, <1>2, <2>1, <2>2
<1> QED  BY Zenon, <1>4, <1>5

\* PushFront leaves a ring, with the item at its front.
LEMMA RingPushFront ==
  ASSUME RingOK(ring), NEW v \in Values, R!PushFront(v)
  PROVE  RingOK(ring') /\ R!Abstract!PushFront(v)
<1>1. PICK b, h, t, n :
        /\ R!Room(ring) = Fields(b, h, t, n)
        /\ Sound(b, h, t, n) /\ n < Len(b) /\ R!Items(ring) = Window(b, h, n)
  BY Zenon, RoomMade
<1> DEFINE k == Before(b, h)
           d == Put(b, k, v)
<1>2. /\ Sound(d, k, t, n + 1)
      /\ Window(d, k, n + 1) = <<v>> \o Window(b, h, n)
  <2>1. v \in Item
    BY DEF Item
  <2>2. Sound(b, h, t, n) /\ n < Len(b)
    BY Zenon, <1>1
  <2> QED  BY Zenon, <2>1, <2>2, FrontPushed
<1>3. ring' = Fields(d, k, t, n + 1)
  <2>1. R!DecHead(ring) = Fields(b, k, t, n + 1)
    <3> DEFINE g == Fields(b, h, t, n)
    <3>1. R!DecHead(ring) = [g EXCEPT !.length = g.length + 1,
                                    !.head = IF g.head = 0 THEN R!Capacity(g) - 1 ELSE g.head - 1]
      BY Zenon, <1>1 DEF R!DecHead
    <3> QED  BY Zenon, <3>1 DEF R!Capacity, Before, Fields
  <2>2. ring' = [R!DecHead(ring) EXCEPT !.buf[R!DecHead(ring).head + 1] = v]
    BY Zenon DEF R!PushFront
  <2> HIDE DEF k
  <2> QED  BY <2>1, <2>2 DEF Put, Fields
<1> HIDE DEF k, d
<1>5. RingOK(ring')
  BY Zenon, <1>2, <1>3 DEF RingOK
<1>6. R!Items(ring)' = Window(d, k, n + 1)
  BY Zenon, <1>3, ItemsAre
<1> QED  BY Zenon, <1>1, <1>2, <1>5, <1>6 DEF R!PushFront, R!Abstract!PushFront

\* PushBack leaves a ring, with the item at its back.
LEMMA RingPushBack ==
  ASSUME RingOK(ring), NEW v \in Values, R!PushBack(v)
  PROVE  RingOK(ring') /\ R!Abstract!PushBack(v)
<1>1. PICK b, h, t, n :
        /\ R!Room(ring) = Fields(b, h, t, n)
        /\ Sound(b, h, t, n) /\ n < Len(b) /\ R!Items(ring) = Window(b, h, n)
  BY Zenon, RoomMade
<1> DEFINE u == Behind(b, t)
           d == Put(b, t, v)
<1>2. /\ Sound(d, h, u, n + 1) /\ t = Before(b, u)
      /\ Window(d, h, n + 1) = Append(Window(b, h, n), v)
  <2>1. v \in Item
    BY DEF Item
  <2>2. Sound(b, h, t, n) /\ n < Len(b)
    BY Zenon, <1>1
  <2> QED  BY <2>1, <2>2, BackPushed
<1>3. ring' = Fields(d, h, u, n + 1)
  <2> DEFINE q == Fields(b, h, u, n + 1)
  <2>1. R!IncTail(ring) = q
    <3> DEFINE g == Fields(b, h, t, n)
    <3>1. R!IncTail(ring) = [g EXCEPT !.length = g.length + 1,
                                    !.tail = IF g.tail + 1 = R!Capacity(g) THEN 0 ELSE g.tail + 1]
      BY Zenon, <1>1 DEF R!IncTail
    <3> QED  BY Zenon, <3>1 DEF R!Capacity, Behind, Fields
  <2> HIDE DEF u
  <2>2. R!TailSub1(q) = t
    BY <1>2 DEF R!TailSub1, R!Capacity, Before, Fields
  <2>3. ring' = [q EXCEPT !.buf[t + 1] = v]
    BY Zenon, <2>1, <2>2 DEF R!PushBack
  <2> QED  BY <2>3 DEF Put, Fields
<1> HIDE DEF u, d
<1>5. RingOK(ring')
  BY Zenon, <1>2, <1>3 DEF RingOK
<1>6. R!Items(ring)' = Window(d, h, n + 1)
  BY Zenon, <1>3, ItemsAre
<1> QED  BY Zenon, <1>1, <1>2, <1>5, <1>6 DEF R!PushBack, R!Abstract!PushBack

\* PopFront leaves a ring, and returns the item it takes from the front.
LEMMA RingPopFront ==
  ASSUME RingOK(ring), R!PopFront
  PROVE  RingOK(ring') /\ R!Abstract!PopFront
<1>1. PICK b, h, t, n : ring = Fields(b, h, t, n) /\ Sound(b, h, t, n)
  BY Zenon DEF RingOK
<1> DEFINE k == Behind(b, h)
           d == Put(b, h, None)
<1>2. n # 0
  BY <1>1 DEF R!PopFront, Fields
<1>3. /\ Sound(d, k, t, n - 1) /\ b[h + 1] = Head(Window(b, h, n))
      /\ Window(d, k, n - 1) = Tail(Window(b, h, n))
  BY Zenon, <1>1, <1>2, FrontPopped
<1>4. ring' = Fields(d, k, t, n - 1) /\ popped' = b[h + 1]
  <2>1. [ring EXCEPT !.buf[ring.head + 1] = None] = Fields(d, h, t, n)
    BY <1>1 DEF Fields, Put
  <2>2. Len(d) = Len(b)
    BY <1>1 DEF Sound, Slots, Put
  <2>3. ring' = R!IncHead(Fields(d, h, t, n))
    BY Zenon, <2>1 DEF R!PopFront
  <2> HIDE DEF d
  <2>4. R!IncHead(Fields(d, h, t, n)) = Fields(d, k, t, n - 1)
    <3> DEFINE g == Fields(d, h, t, n)
    <3>1. R!IncHead(g) = [g EXCEPT !.length = g.length - 1,
                                 !.head = IF g.head + 1 = R!Capacity(g) THEN 0 ELSE g.head + 1]
      BY Zenon DEF R!IncHead
    <3>2. h \in Nat /\ n \in Nat
      BY <1>1 DEF Sound
    <3> QED  BY Zenon, <2>2, <3>1, <3>2 DEF Fields, Behind, R!Capacity
  <2>5. popped' = b[h + 1]
    BY <1>1 DEF R!PopFront, R!At, Fields
  <2> QED  BY Zenon, <2>3, <2>4, <2>5
<1> HIDE DEF k, d
<1>5. RingOK(ring')
  BY Zenon, <1>3, <1>4 DEF RingOK
<1>6. R!Items(ring)' = Window(d, k, n - 1) /\ R!Items(ring) = Window(b, h, n)
  BY Zenon, <1>1, <1>4, ItemsAre
<1>7. Window(b, h, n) # <<>>
  <2>1. Len(Window(b, h, n)) = n
    BY Zenon, <1>1, WindowIs
  <2> QED  BY <1>2, <2>1
<1> QED  BY Zenon, <1>3, <1>4, <1>5, <1>6, <1>7 DEF R!Abstract!PopFront

\* PopBack leaves a ring, and returns the item it takes from the back.
LEMMA RingPopBack ==
  ASSUME RingOK(ring), R!PopBack
  PROVE  RingOK(ring') /\ R!Abstract!PopBack
<1>1. PICK b, h, t, n : ring = Fields(b, h, t, n) /\ Sound(b, h, t, n)
  BY Zenon DEF RingOK
<1> DEFINE u == Before(b, t)
           d == Put(b, u, None)
           w == Window(b, h, n)
<1>2. n # 0
  BY <1>1 DEF R!PopBack, Fields
<1>3. /\ Sound(d, h, u, n - 1) /\ b[u + 1] = w[Len(w)]
      /\ Window(d, h, n - 1) = SubSeq(w, 1, Len(w) - 1)
  <2>1. Sound(b, h, t, n)
    BY Zenon, <1>1
  <2> QED  BY <1>2, <2>1, BackPopped
<1>4. ring' = Fields(d, h, u, n - 1) /\ popped' = b[u + 1]
  <2> DEFINE q == Fields(b, h, u, n - 1)
  <2>1. R!DecTail(ring) = q
    <3> DEFINE g == Fields(b, h, t, n)
    <3>1. R!DecTail(ring) = [g EXCEPT !.length = g.length - 1,
                                    !.tail = IF g.tail = 0 THEN R!Capacity(g) - 1 ELSE g.tail - 1]
      BY Zenon, <1>1 DEF R!DecTail
    <3>2. t \in Nat /\ n \in Nat
      BY <1>1 DEF Sound
    <3> QED  BY Zenon, <3>1, <3>2 DEF Fields, Before, R!Capacity
  <2> HIDE DEF u
  <2>2. ring' = [q EXCEPT !.buf[q.tail + 1] = None] /\ popped' = R!At(q, q.tail)
    BY Zenon, <2>1 DEF R!PopBack
  <2> QED  BY <2>2 DEF Fields, Put, R!At
<1> HIDE DEF u, d, w
<1>5. RingOK(ring')
  BY Zenon, <1>3, <1>4 DEF RingOK
<1>6. R!Items(ring)' = Window(d, h, n - 1) /\ R!Items(ring) = w
  BY Zenon, <1>1, <1>4, ItemsAre DEF w
<1>7. w # <<>>
  <2>1. Len(w) = n
    BY Zenon, <1>1, WindowIs DEF w
  <2> QED  BY <1>2, <2>1
<1> QED  BY Zenon, <1>3, <1>4, <1>5, <1>6, <1>7 DEF R!Abstract!PopBack, R!Abstract!Front

\* Clear leaves a ring without items.
LEMMA RingClear ==
  ASSUME RingOK(ring), R!Clear
  PROVE  RingOK(ring') /\ R!Abstract!Clear
<1>1. PICK b, h, t, n : ring = Fields(b, h, t, n) /\ Sound(b, h, t, n)
  BY Zenon DEF RingOK
<1>2. ring' = Fields(b, 0, 0, 0)
  BY Zenon, <1>1 DEF R!Clear, Fields
<1>3. Sound(b, 0, 0, 0)
  BY <1>1 DEF Sound, Wrap, Slots
<1>4. R!Items(ring)' = Window(b, 0, 0)
  BY Zenon, <1>2, ItemsAre
<1>5. Window(b, 0, 0) = <<>>
  BY DEF Window
<1> QED  BY Zenon, <1>2, <1>3, <1>4, <1>5 DEF RingOK, R!Clear, R!Abstract!Clear

\* The zero value is a ring without items.
LEMMA RingInitially == R!Init => RingOK(ring) /\ R!Abstract!Init
<1> SUFFICES ASSUME R!Init PROVE RingOK(ring) /\ R!Abstract!Init
  OBVIOUS
<1>1. ring = Fields(<<>>, 0, 0, 0)
  BY DEF R!Init, Fields
<1>2. Sound(<<>>, 0, 0, 0)
  BY DEF Sound, Slots
<1>3. R!Items(ring) = Window(<<>>, 0, 0)
  BY Zenon, <1>1, ItemsAre
<1>4. Window(<<>>, 0, 0) = <<>>
  BY DEF Window
<1> QED  BY Zenon, <1>1, <1>2, <1>3, <1>4 DEF RingOK, R!Init, R!Abstract!Init

\* Every method that changes a ring leaves a ring, and is a step of the queue.
LEMMA RingStep ==
  ASSUME RingOK(ring), R!Next
  PROVE  RingOK(ring') /\ R!Abstract!Next
BY Zenon, RingPushFront, RingPushBack, RingPopFront, RingPopBack, RingClear
   DEF R!Next, R!Abstract!Next

\* Whatever the capacity the ring has grown to and wherever its items wrap around the
\* end of the array, and for any number of items: the operations of util/ring are
\* those of a double-ended queue of what Get returns.
THEOREM RingIsDeque == PoolsSpec => IsDeque
<1>1. PoolsInit => RingOK(ring) /\ R!Abstract!Init
  BY Zenon, RingInitially DEF PoolsInit
<1>2. RingOK(ring) /\ [PoolsNext]_<<which, vars, hybridVars, statementVars, queueVars>>
        => RingOK(ring)' /\ [R!Abstract!Next]_<<R!Items(ring), popped>>
  <2> SUFFICES ASSUME RingOK(ring),
                      [PoolsNext]_<<which, vars, hybridVars, statementVars, queueVars>>
               PROVE  RingOK(ring)' /\ [R!Abstract!Next]_<<R!Items(ring), popped>>
    BY Zenon
  <2>1. CASE R!Next
    BY Zenon, <2>1, RingStep
  <2>2. CASE UNCHANGED queueVars
    BY Zenon, <2>2 DEF queueVars
  <2> QED  BY Zenon, <2>1, <2>2 DEF PoolsNext
<1> QED  BY <1>1, <1>2, PTL DEF PoolsSpec, IsDeque, R!IsDeque, R!Abstract!Spec
=============================================================================
