---------------------------- MODULE SpoolProofs ----------------------------
(***************************************************************************)
(* The server pool, for any number of clients, recipes, connections and    *)
(* goroutines that change recipes: two clients never work on one server,   *)
(* chef, maps and pooler agree on the servers there are, and the scale     *)
(* loop does not sleep while a client waits.                               *)
(*                                                                         *)
(* SpoolInv is inductive.  It takes the invariants of the parts from       *)
(* PoolerProofs and KitchenProofs, and adds who owns what a client works   *)
(* on (UseInv), what ScaleUp has in hand (HandInv), and which connections  *)
(* books and maps may disagree on between two steps (MapsInv).             *)
(***************************************************************************)
EXTENDS Spool, TLAPS

-----------------------------------------------------------------------------
(* Clients and the pooler. *)

PP == INSTANCE PoolerProofs WITH Servers <- Conns

\* No server is the missing one.
LEMMA NilApart == Nil \notin Conns
BY Zenon, SpoolAssumption

\* A call of the pooler keeps its promises.
LEMMA PoolerCall == ASSUME P!PoolerInv, [P!Next]_(P!vars) PROVE P!PoolerInv'
<1>1. PP!PoolerInv
  BY Zenon DEF P!PoolerInv, P!TypeOK, P!Exclusive, P!Conserved, P!WorkConserving,
     P!Consistent, PP!PoolerInv, PP!TypeOK, PP!Exclusive, PP!Conserved,
     PP!WorkConserving, PP!Consistent
<1>2. [PP!Next]_(PP!vars)
  BY Zenon DEF P!Next, P!vars, P!AddServer, P!DeleteServer, P!Acquire, P!GiveUp,
     P!Release, P!Close, P!Place, PP!Next, PP!vars, PP!AddServer, PP!DeleteServer,
     PP!Acquire, PP!GiveUp, PP!Release, PP!Close, PP!Place
<1>3. PP!PoolerInv'
  BY Zenon, <1>1, <1>2, NilApart, PP!PoolerStep
<1> QED
  BY Zenon, <1>3 DEF P!PoolerInv, P!TypeOK, P!Exclusive, P!Conserved, P!WorkConserving,
     P!Consistent, PP!PoolerInv, PP!TypeOK, PP!Exclusive, PP!Conserved,
     PP!WorkConserving, PP!Consistent

\* What a client's place in Acquire and Release says of the server it owns.
ClientOK(c) ==
  /\ Using(c) \/ pc[c] = "remove" => srv[c] = owner[c] /\ owner[c] # Nil
  /\ pc[c] = "got" => owner[c] # Nil
  /\ c \in waiters => pc[c] = "blocked"
  /\ pc[c] \in {"released", "removing"} => srv[c] # Nil

Places == {"out", "acquire", "blocked", "got", "pairing", "active", "reset", "released",
           "remove", "removing"}

UseInv ==
  /\ P!PoolerInv
  /\ pc \in [Clients -> Places]
  /\ srv \in [Clients -> Conns \cup {Nil}]
  /\ \A c \in Clients : ClientOK(c)

\* A client that owns a server of the pooler and deletes it, never to release it.
LEMMA AbandonStep ==
  ASSUME P!PoolerInv, NEW c \in Clients, owner[c] # Nil, Abandon(c, owner[c])
  PROVE  P!PoolerInv'
<1>1. P!TypeOK'
  BY Zenon DEF Abandon, P!PoolerInv, P!TypeOK
<1>2. P!Exclusive'
  BY Zenon, NilApart DEF Abandon, P!PoolerInv, P!TypeOK, P!Exclusive
<1>3. P!Conserved'
  BY Zenon DEF Abandon, P!PoolerInv, P!TypeOK, P!Conserved
<1>4. P!WorkConserving' /\ P!Consistent'
  BY Zenon DEF Abandon, P!PoolerInv, P!TypeOK, P!WorkConserving, P!Consistent
<1> QED  BY Zenon, <1>1, <1>2, <1>3, <1>4 DEF P!PoolerInv

\* A call of the pooler by client c gives a server to waiters only, or to c.
LEMMA OwnersKept ==
  ASSUME P!PoolerInv, NEW d \in Clients,
         \/ \E s \in Conns : P!AddServer(s) \/ P!DeleteServer(s)
         \/ \E c \in Clients : c # d /\ (P!Acquire(c) \/ P!GiveUp(c) \/ P!Release(c))
         \/ P!Close
         \/ \E c \in Clients : c # d /\ Abandon(c, owner[c])
         \/ UNCHANGED poolerVars
  PROVE  /\ d \in waiters' => d \in waiters
         /\ d \notin waiters => owner'[d] = owner[d]
<1>1. owner \in [Clients -> Conns \cup {Nil}]
  BY Zenon DEF P!PoolerInv, P!TypeOK
<1>2. ASSUME NEW s, NEW own, P!Place(s, own), own \in [Clients -> Conns \cup {Nil}]
      PROVE  /\ d \in waiters' => d \in waiters
             /\ d \notin waiters => owner'[d] = own[d]
  BY Zenon, <1>2 DEF P!Place
<1>3. ASSUME NEW s \in Conns, P!AddServer(s) \/ P!DeleteServer(s)
      PROVE  /\ d \in waiters' => d \in waiters
             /\ d \notin waiters => owner'[d] = owner[d]
  BY Zenon, <1>1, <1>2, <1>3 DEF P!AddServer, P!DeleteServer
<1>4. ASSUME NEW c \in Clients, c # d, P!Acquire(c) \/ P!GiveUp(c) \/ Abandon(c, owner[c])
      PROVE  /\ d \in waiters' => d \in waiters
             /\ d \notin waiters => owner'[d] = owner[d]
  BY Zenon, <1>1, <1>4 DEF P!Acquire, P!GiveUp, Abandon
<1>5. ASSUME NEW c \in Clients, c # d, P!Release(c)
      PROVE  /\ d \in waiters' => d \in waiters
             /\ d \notin waiters => owner'[d] = owner[d]
  <2> DEFINE own == [owner EXCEPT ![c] = Nil]
  <2>1. own \in [Clients -> Conns \cup {Nil}] /\ own[d] = owner[d]
    BY Zenon, <1>1, <1>5
  <2>2. P!Place(owner[c], own) \/ (owner' = own /\ waiters' = waiters)
    BY Zenon, <1>5 DEF P!Release
  <2> HIDE DEF own
  <2> QED  BY Zenon, <1>2, <2>1, <2>2
<1> QED  BY Zenon, <1>3, <1>4, <1>5 DEF P!Close, poolerVars

\* A client that a step is not about stays right.
LEMMA OtherClient ==
  ASSUME UseInv, NEW d \in Clients, pc'[d] = pc[d], srv'[d] = srv[d],
         d \in waiters' => d \in waiters,
         d \notin waiters => owner'[d] = owner[d]
  PROVE  ClientOK(d)'
<1>1. ClientOK(d)
  BY Zenon DEF UseInv
<1>2. pc[d] # "blocked" => d \notin waiters
  BY Zenon, <1>1 DEF ClientOK
<1>3. Using(d) => pc[d] # "blocked"
  BY Zenon DEF Using
<1>4. Using(d)' <=> Using(d)
  BY Zenon DEF Using
<1> QED
  <2>1. (Using(d) \/ pc[d] = "remove" => srv[d] = owner[d] /\ owner[d] # Nil)'
    BY Zenon, <1>1, <1>2, <1>3, <1>4 DEF ClientOK
  <2>2. (pc[d] = "got" => owner[d] # Nil)'
    BY Zenon, <1>1, <1>2 DEF ClientOK
  <2>3. (d \in waiters => pc[d] = "blocked")'
    BY Zenon, <1>1 DEF ClientOK
  <2>4. (pc[d] \in {"released", "removing"} => srv[d] # Nil)'
    BY Zenon, <1>1 DEF ClientOK
  <2> QED  BY Zenon, <2>1, <2>2, <2>3, <2>4 DEF ClientOK

\* The steps in which no client moves.
LEMMA OthersUse ==
  ASSUME UseInv, UNCHANGED <<pc, srv>>,
         \/ \E s \in Conns : P!AddServer(s) \/ P!DeleteServer(s)
         \/ P!Close
         \/ UNCHANGED poolerVars
  PROVE  UseInv'
<1>1. P!PoolerInv'
  <2>1. [P!Next]_(P!vars)
    BY Zenon DEF P!Next, P!vars, poolerVars
  <2> QED  BY Zenon, <2>1, PoolerCall DEF UseInv
<1>2. ASSUME NEW d \in Clients PROVE ClientOK(d)'
  BY Zenon, OtherClient, OwnersKept DEF UseInv
<1> QED  BY Zenon, <1>1, <1>2 DEF UseInv

\* The steps of client c: what is left to show is about c itself.
LEMMA ClientUse ==
  ASSUME UseInv, NEW c \in Clients, NEW p \in Places, NEW s \in Conns \cup {Nil},
         pc' = [pc EXCEPT ![c] = p],
         srv' = [srv EXCEPT ![c] = s],
         \/ P!Acquire(c) \/ P!GiveUp(c) \/ P!Release(c)
         \/ (owner[c] # Nil /\ Abandon(c, owner[c]))
         \/ \E x \in Conns : P!DeleteServer(x)
         \/ UNCHANGED poolerVars,
         ClientOK(c)'
  PROVE  UseInv'
<1>1. P!PoolerInv'
  <2>1. CASE owner[c] # Nil /\ Abandon(c, owner[c])
    BY Zenon, <2>1, AbandonStep DEF UseInv
  <2>2. CASE ~(owner[c] # Nil /\ Abandon(c, owner[c]))
    <3>1. [P!Next]_(P!vars)
      BY Zenon, <2>2 DEF P!Next, P!vars, poolerVars
    <3> QED  BY Zenon, <3>1, PoolerCall DEF UseInv
  <2> QED  BY Zenon, <2>1, <2>2
<1>2. pc' \in [Clients -> Places] /\ srv' \in [Clients -> Conns \cup {Nil}]
  BY Zenon DEF UseInv
<1>3. ASSUME NEW d \in Clients, d # c PROVE ClientOK(d)'
  <2>1. pc'[d] = pc[d] /\ srv'[d] = srv[d]
    BY Zenon, <1>3 DEF UseInv
  <2> QED  BY Zenon, <1>3, <2>1, OtherClient, OwnersKept DEF UseInv
<1> QED  BY Zenon, <1>1, <1>2, <1>3 DEF UseInv

\* Every step of a client keeps UseInv: one case for each step of Acquire,
\* Release and RemoveServer.
LEMMA ClientStep == ASSUME UseInv, NEW c \in Clients, Client(c) PROVE UseInv'
<1>a. /\ owner \in [Clients -> Conns \cup {Nil}]
      /\ pc \in [Clients -> Places] /\ srv \in [Clients -> Conns \cup {Nil}]
      /\ waiters \in SUBSET Clients
      /\ ClientOK(c)
  BY Zenon DEF UseInv, P!PoolerInv, P!TypeOK
<1>b. srv = [srv EXCEPT ![c] = srv[c]] /\ srv[c] \in Conns \cup {Nil}
  BY Zenon, <1>a
<1>c. pc[c] # "blocked" => c \notin waiters
  BY Zenon, <1>a DEF ClientOK
<1>1. CASE AcquireCall(c)
  <2>1. PICK p \in {"got", "blocked"} :
          pc' = [pc EXCEPT ![c] = p] /\ (p = "got" <=> owner'[c] # Nil)
    BY Zenon, <1>1 DEF AcquireCall
  <2>2. P!Acquire(c) /\ srv' = srv /\ p \in Places
    BY Zenon, <1>1 DEF AcquireCall, Places
  <2>3. pc'[c] = p
    BY Zenon, <1>a, <2>1
  <2>4. c \in waiters' => owner'[c] = Nil
    BY Zenon, <1>a, <2>2 DEF P!Acquire
  <2>5. ClientOK(c)'
    BY Zenon, <2>1, <2>3, <2>4 DEF ClientOK, Using
  <2> QED  BY Zenon, <1>b, <2>1, <2>2, <2>5, ClientUse
<1>2. CASE AcquireClosed(c)
  <2>1. pc' = [pc EXCEPT ![c] = "out"] /\ srv' = srv /\ UNCHANGED poolerVars /\ c \notin waiters
    BY Zenon, <1>2, <1>c DEF AcquireClosed
  <2>2. ClientOK(c)'
    BY Zenon, <1>a, <2>1 DEF ClientOK, Using, poolerVars
  <2> QED  BY Zenon, <1>b, <2>1, <2>2, ClientUse DEF Places
<1>3. CASE AcquireWake(c)
  <2> DEFINE p == IF owner[c] # Nil THEN "got" ELSE "out"
  <2>1. pc' = [pc EXCEPT ![c] = p] /\ srv' = srv /\ UNCHANGED poolerVars /\ c \notin waiters
    BY Zenon, <1>3 DEF AcquireWake
  <2>2. p \in Places
    BY Zenon DEF Places
  <2>3. ClientOK(c)'
    BY Zenon, <1>a, <2>1 DEF ClientOK, Using, poolerVars
  <2> HIDE DEF p
  <2> QED  BY Zenon, <1>b, <2>1, <2>2, <2>3, ClientUse
<1>4. CASE AcquireTimeout(c)
  <2>1. pc' = [pc EXCEPT ![c] = "out"] /\ srv' = srv /\ P!GiveUp(c)
    BY Zenon, <1>4 DEF AcquireTimeout
  <2>2. c \notin waiters'
    BY Zenon, <2>1 DEF P!GiveUp
  <2>3. ClientOK(c)'
    BY Zenon, <1>a, <2>1, <2>2 DEF ClientOK, Using
  <2> QED  BY Zenon, <1>b, <2>1, <2>3, ClientUse DEF Places
<1>5. CASE AcquireLookup(c)
  <2>1. /\ pc[c] = "got" /\ pc' = [pc EXCEPT ![c] = "pairing"]
        /\ srv' = [srv EXCEPT ![c] = owner[c]] /\ UNCHANGED poolerVars
    BY Zenon, <1>5 DEF AcquireLookup
  <2>2. owner[c] # Nil /\ c \notin waiters /\ owner[c] \in Conns \cup {Nil}
    BY Zenon, <1>a, <1>c, <2>1 DEF ClientOK
  <2>3. ClientOK(c)'
    BY Zenon, <1>a, <2>1, <2>2 DEF ClientOK, Using, poolerVars
  <2> QED  BY Zenon, <2>1, <2>2, <2>3, ClientUse DEF Places
<1>6. CASE AcquireMissing(c)
  <2>1. /\ pc[c] = "got" /\ pc' = [pc EXCEPT ![c] = "acquire"]
        /\ srv' = srv /\ Abandon(c, owner[c])
    BY Zenon, <1>6 DEF AcquireMissing
  <2>2. owner[c] # Nil /\ c \notin waiters'
    BY Zenon, <1>a, <1>c, <2>1 DEF ClientOK, Abandon
  <2>3. ClientOK(c)'
    BY Zenon, <1>a, <2>1, <2>2 DEF ClientOK, Using
  <2> QED  BY Zenon, <1>b, <2>1, <2>2, <2>3, ClientUse DEF Places
<1>7. CASE Pair(c) \/ ReleaseReset(c)
  <2>1. PICK p \in {"active", "reset"} : pc' = [pc EXCEPT ![c] = p]
    BY Zenon, <1>7 DEF Pair, ReleaseReset
  <2>2. Using(c) /\ srv' = srv /\ UNCHANGED poolerVars /\ pc[c] # "blocked"
    BY Zenon, <1>7 DEF Pair, ReleaseReset, Using
  <2>3. ClientOK(c)'
    BY Zenon, <1>a, <1>c, <2>1, <2>2 DEF ClientOK, Using, poolerVars
  <2> QED  BY Zenon, <1>b, <2>1, <2>2, <2>3, ClientUse DEF Places
<1>8. CASE ReleasePooler(c)
  <2>1. Using(c) /\ pc' = [pc EXCEPT ![c] = "released"] /\ srv' = srv /\ P!Release(c)
    BY Zenon, <1>8 DEF ReleasePooler, Using
  <2>2. srv[c] # Nil /\ c \notin waiters
    BY Zenon, <1>a, <1>c, <2>1 DEF ClientOK, Using
  <2>3. c \notin waiters'
    BY Zenon, <2>1, <2>2 DEF P!Release, P!Place
  <2>4. ClientOK(c)'
    BY Zenon, <1>a, <2>1, <2>2, <2>3 DEF ClientOK, Using
  <2> QED  BY Zenon, <1>b, <2>1, <2>4, ClientUse DEF Places
<1>9. CASE ReleaseState(c)
  <2>1. /\ pc[c] # "blocked" /\ pc' = [pc EXCEPT ![c] = "out"]
        /\ srv' = [srv EXCEPT ![c] = Nil] /\ UNCHANGED poolerVars
    BY Zenon, <1>9 DEF ReleaseState
  <2>2. ClientOK(c)'
    BY Zenon, <1>a, <1>c, <2>1 DEF ClientOK, Using, poolerVars
  <2> QED  BY Zenon, <2>1, <2>2, ClientUse DEF Places
<1>10. CASE RemoveBurn(c)
  <2>1. Using(c) /\ pc' = [pc EXCEPT ![c] = "remove"] /\ srv' = srv /\ UNCHANGED poolerVars
    BY Zenon, <1>10 DEF RemoveBurn, Using
  <2>2. srv[c] = owner[c] /\ owner[c] # Nil /\ c \notin waiters
    BY Zenon, <1>a, <1>c, <2>1 DEF ClientOK, Using
  <2>3. ClientOK(c)'
    BY Zenon, <1>a, <2>1, <2>2 DEF ClientOK, Using, poolerVars
  <2> QED  BY Zenon, <1>b, <2>1, <2>3, ClientUse DEF Places
<1>11. CASE RemovePooler(c)
  <2>1. /\ pc[c] = "remove" /\ pc' = [pc EXCEPT ![c] = "removing"] /\ srv' = srv
        /\ Abandon(c, srv[c])
    BY Zenon, <1>11 DEF RemovePooler
  <2>2. srv[c] = owner[c] /\ owner[c] # Nil /\ c \notin waiters'
    BY Zenon, <1>a, <1>c, <2>1 DEF ClientOK, Abandon
  <2>3. ClientOK(c)'
    BY Zenon, <1>a, <2>1, <2>2 DEF ClientOK, Using
  <2> QED  BY Zenon, <1>b, <2>1, <2>2, <2>3, ClientUse DEF Places
<1>12. CASE RemoveMaps(c)
  <2>1. /\ pc[c] = "removing" /\ pc' = [pc EXCEPT ![c] = "out"]
        /\ srv' = [srv EXCEPT ![c] = Nil] /\ P!DeleteServer(srv[c])
    BY Zenon, <1>12 DEF RemoveMaps
  <2>2. srv[c] \in Conns /\ c \notin waiters'
    BY Zenon, <1>a, <1>c, <2>1 DEF ClientOK, P!DeleteServer
  <2>3. ClientOK(c)'
    BY Zenon, <1>a, <2>1, <2>2 DEF ClientOK, Using
  <2> QED  BY Zenon, <2>1, <2>2, <2>3, ClientUse DEF Places
<1> QED
  BY Zenon, <1>1, <1>2, <1>3, <1>4, <1>5, <1>6, <1>7, <1>8, <1>9, <1>10, <1>11, <1>12
     DEF Client

\* ScaleUp has a connection in hand between Cook and its entry in the maps.
HandInv == new # Nil <=> loop = "add"

\* UseInv is kept by every step of the pool.
LEMMA UseStep == ASSUME UseInv, TypeOK, HandInv, [Next]_vars PROVE UseInv'
<1>1. ASSUME NEW s \in Conns, PoolAdd(s), UNCHANGED <<pc, srv>> PROVE UseInv'
  BY Zenon, <1>1, OthersUse DEF PoolAdd
<1>2. ASSUME NEW t \in Learners, Admin(t) PROVE UseInv'
  <2>1. CASE (\E n \in Names, r \in Recipes : AddRecipeDial(t, n, r))
             \/ AddRecipeLearn(t) \/ (\E n \in Names : RemoveRecipe(t, n))
    BY Zenon, <2>1, OthersUse DEF AddRecipeDial, AddRecipeLearn, RemoveRecipe,
       clientVars
  <2>2. apply[t].removed \subseteq Conns /\ apply[t].added \subseteq Conns
    BY Zenon DEF TypeOK
  <2>3. CASE ApplyRemoved(t)
    BY Zenon, <2>2, <2>3, OthersUse DEF ApplyRemoved, clientVars
  <2>4. CASE ApplyAdded(t)
    BY Zenon, <2>2, <2>4, <1>1 DEF ApplyAdded, clientVars
  <2> QED  BY Zenon, <1>2, <2>1, <2>3, <2>4 DEF Admin
<1>3. CASE ScaleLoop
  <2>1. CASE LoopAdd
    <3>1. new \in Conns
      BY Zenon, <2>1 DEF LoopAdd, TypeOK, HandInv
    <3> QED  BY Zenon, <2>1, <3>1, <1>1 DEF LoopAdd, clientVars
  <2>2. CASE \E s \in Conns : DownKeep(s) \/ DownIgnite(s)
    BY Zenon, <2>2, OthersUse DEF DownKeep, DownIgnite, clientVars, otherVars
  <2>3. CASE LoopWaiting \/ LoopBackoff \/ LoopScale \/ LoopCook
             \/ (\E c \in Conns : LoopCooked(c)) \/ LoopFail \/ LoopIdle \/ DownDone
             \/ LoopStop
    <3>1. UNCHANGED poolerVars /\ UNCHANGED clientVars
      BY Zenon, <2>3 DEF LoopWaiting, LoopBackoff, LoopScale, LoopCook, LoopCooked,
         LoopFail, LoopIdle, DownDone, LoopStop, otherVars
    <3> QED  BY Zenon, <3>1, OthersUse DEF clientVars
  <2> QED  BY Zenon, <1>3, <2>1, <2>2, <2>3 DEF ScaleLoop
<1>4. CASE CloseSignal \/ CloseChef \/ ClosePooler \/ CloseMaps
  BY Zenon, <1>4, OthersUse DEF CloseSignal, CloseChef, ClosePooler, CloseMaps,
     clientVars
<1>5. CASE UNCHANGED vars
  BY Zenon, <1>5, OthersUse DEF vars, clientVars
<1> QED  BY Zenon, <1>2, <1>3, <1>4, <1>5, ClientStep DEF Next

\* The types of the pool's own state.
PoolTypes ==
  /\ byID \in SUBSET Conns
  /\ state \in [Conns -> {"idle", "pairing", "active", "reset"}]
  /\ mu \in Learners \cup {"loop", Nil}
  /\ apply \in [Learners -> [removed : SUBSET Conns, added : SUBSET Conns]]
  /\ signal \in BOOLEAN
  /\ loop \in {"select", "scale", "cook", "add", "down", "stopped"}
  /\ new \in Conns \cup {Nil}
  /\ down \in SUBSET Conns
  /\ backoff \in Nat
  /\ armed \in BOOLEAN
  /\ closing \in {"no", "signalled", "chef", "pooler", "done"}

\* The types of the three parts are those of the whole.
LEMMA TypesOf == K!TypeOK /\ UseInv /\ PoolTypes <=> K!TypeOK /\ UseInv /\ TypeOK
BY Zenon DEF TypeOK, PoolTypes, UseInv, P!PoolerInv, Places

\* A client changes the state of a server, the maps and the waiting channel.
LEMMA ClientTypes == ASSUME PoolTypes, NEW c \in Clients, Client(c) PROVE PoolTypes'
<1>1. UNCHANGED <<mu, apply, new, down, backoff, armed, closing>>
  BY Zenon DEF Client, AcquireCall, AcquireClosed, AcquireWake, AcquireTimeout,
     AcquireLookup, AcquireMissing, Pair, ReleaseReset, ReleasePooler, ReleaseState,
     RemoveBurn, RemovePooler, RemoveMaps, loopVars
<1>2. byID' \subseteq byID
  BY Zenon DEF Client, AcquireCall, AcquireClosed, AcquireWake, AcquireTimeout,
     AcquireLookup, AcquireMissing, Pair, ReleaseReset, ReleasePooler, ReleaseState,
     RemoveBurn, RemovePooler, RemoveMaps
<1>3. \/ state' = state
      \/ \E s, v : /\ v \in {"idle", "pairing", "active", "reset"}
                  /\ state' = [state EXCEPT ![s] = v]
  BY Zenon DEF Client, AcquireCall, AcquireClosed, AcquireWake, AcquireTimeout,
     AcquireLookup, AcquireMissing, Pair, ReleaseReset, ReleasePooler, ReleaseState,
     RemoveBurn, RemovePooler, RemoveMaps
<1>4. state' \in [Conns -> {"idle", "pairing", "active", "reset"}]
  BY Zenon, <1>3 DEF PoolTypes
<1>5. signal' \in {signal, Buffered} /\ loop' \in {loop, "scale"}
  BY Zenon DEF Client, AcquireCall, AcquireClosed, AcquireWake, AcquireTimeout,
     AcquireLookup, AcquireMissing, Pair, ReleaseReset, ReleasePooler, ReleaseState,
     RemoveBurn, RemovePooler, RemoveMaps, loopVars
<1> QED  BY Zenon, <1>1, <1>2, <1>4, <1>5, SpoolAssumption DEF PoolTypes

\* So does a change of recipes, which also has a list to work off.
LEMMA AdminTypes ==
  ASSUME PoolTypes, K!TypeOK, NEW t \in Learners, Admin(t) PROVE PoolTypes'
<1> DEFINE Changes == [removed : SUBSET Conns, added : SUBSET Conns]
<1>1. UNCHANGED <<signal, loop, new, down, backoff, armed, closing>>
  BY Zenon DEF Admin, AddRecipeDial, AddRecipeLearn, RemoveRecipe, ApplyRemoved,
     ApplyAdded,
     loopVars
<1>2. CASE \E n \in Names, r \in Recipes : AddRecipeDial(t, n, r)
  BY Zenon, <1>1, <1>2 DEF PoolTypes, AddRecipeDial
<1>3. CASE AddRecipeLearn(t) \/ \E n \in Names : RemoveRecipe(t, n)
  <2>1. PICK rm \in SUBSET Conns, ad \in SUBSET Conns :
          apply' = [apply EXCEPT ![t] = [removed |-> rm, added |-> ad]]
    <3>1. \A r : K!ConnsOf(r) \in SUBSET Conns
      BY Zenon DEF K!ConnsOf
    <3>2. learn[t].added \in SUBSET Conns
      BY Zenon DEF K!TypeOK
    <3>3. CASE AddRecipeLearn(t)
      <4>1. (IF byName[learn[t].name] = Nil THEN {} ELSE K!ConnsOf(byName[learn[t].name]))
              \in SUBSET Conns
        BY Zenon, <3>1
      <4> QED  BY Zenon, <3>2, <3>3, <4>1 DEF AddRecipeLearn
    <3>4. CASE \E n \in Names : RemoveRecipe(t, n)
      <4>1. {} \in SUBSET Conns
        BY Zenon
      <4> QED  BY Zenon, <3>1, <3>4, <4>1 DEF RemoveRecipe
    <3> QED  BY Zenon, <1>3, <3>3, <3>4
  <2>2. apply' \in [Learners -> Changes]
    BY Zenon, <2>1 DEF PoolTypes
  <2>3. UNCHANGED <<mu, byID, state>>
    BY Zenon, <1>3 DEF AddRecipeLearn, RemoveRecipe
  <2> QED  BY Zenon, <1>1, <2>2, <2>3 DEF PoolTypes
<1>4. CASE ApplyRemoved(t) \/ ApplyAdded(t)
  <2>1. apply[t] \in Changes
    BY Zenon DEF PoolTypes
  <2>2. mu' \in {Nil, t}
    BY Zenon, <1>4 DEF ApplyRemoved, ApplyAdded, HoldMu
  <2>3. CASE ApplyRemoved(t)
    <3>1. apply' \in [Learners -> Changes]
      BY <2>1, <2>3 DEF PoolTypes, ApplyRemoved
    <3>2. byID' \subseteq byID /\ state' = state
      BY Zenon, <2>3 DEF ApplyRemoved
    <3> QED  BY Zenon, <1>1, <2>2, <3>1, <3>2 DEF PoolTypes
  <2>4. CASE ApplyAdded(t)
    <3>1. apply' \in [Learners -> Changes]
      BY <2>1, <2>4 DEF PoolTypes, ApplyAdded
    <3>2. byID' \in SUBSET Conns /\ state' \in [Conns -> {"idle", "pairing", "active", "reset"}]
      BY <2>1, <2>4 DEF PoolTypes, ApplyAdded
    <3> QED  BY Zenon, <1>1, <2>2, <3>1, <3>2 DEF PoolTypes
  <2> QED  BY Zenon, <1>4, <2>3, <2>4
<1> QED  BY Zenon, <1>2, <1>3, <1>4 DEF Admin

\* The scale loop never touches the list of a recipe change.
LEMMA LoopTypes == ASSUME PoolTypes, HandInv, ScaleLoop PROVE PoolTypes'
<1>1. UNCHANGED <<apply, closing>> /\ signal' \in {signal, FALSE}
  BY Zenon DEF ScaleLoop, LoopWaiting, LoopBackoff, LoopScale, LoopCook, LoopCooked,
     LoopFail, LoopAdd, LoopIdle, DownKeep, DownIgnite, DownDone, LoopStop, otherVars
<1>2. mu' \in {mu, "loop", Nil} /\ (down' \subseteq down \/ down' = byID)
  BY Zenon DEF ScaleLoop, LoopWaiting, LoopBackoff, LoopScale, LoopCook, LoopCooked,
     LoopFail, LoopAdd, LoopIdle, DownKeep, DownIgnite, DownDone, LoopStop, loopVars
<1>3. loop' \in {loop, "select", "scale", "cook", "add", "down", "stopped"}
  BY Zenon DEF ScaleLoop, LoopWaiting, LoopBackoff, LoopScale, LoopCook, LoopCooked,
     LoopFail, LoopAdd, LoopIdle, DownKeep, DownIgnite, DownDone, LoopStop, loopVars
<1>4. new' \in {new, Nil} \cup Conns
  BY Zenon DEF ScaleLoop, LoopWaiting, LoopBackoff, LoopScale, LoopCook, LoopCooked,
     LoopFail, LoopAdd, LoopIdle, DownKeep, DownIgnite, DownDone, LoopStop, loopVars
<1>5. byID' \in SUBSET Conns /\ state' \in [Conns -> {"idle", "pairing", "active", "reset"}]
  <2>1. CASE LoopAdd
    <3>1. new \in Conns
      BY Zenon, <2>1 DEF LoopAdd, PoolTypes, HandInv
    <3> QED  BY Zenon, <2>1, <3>1 DEF LoopAdd, PoolTypes
  <2>2. CASE ~LoopAdd
    <3>1. byID' \subseteq byID /\ state' = state
      BY Zenon, <2>2 DEF ScaleLoop, LoopWaiting, LoopBackoff, LoopScale, LoopCook,
         LoopCooked, LoopFail, LoopIdle, DownKeep, DownIgnite, DownDone, LoopStop,
         otherVars
    <3> QED  BY Zenon, <3>1 DEF PoolTypes
  <2> QED  BY Zenon, <2>1, <2>2
<1>6. backoff' \in {backoff, 0, InitialTime, MaxTime, 2 * backoff}
      /\ armed' \in {armed, FALSE, backoff' # 0}
  BY Zenon DEF ScaleLoop, LoopWaiting, LoopBackoff, LoopScale, LoopCook, LoopCooked,
     LoopFail, LoopAdd, LoopIdle, DownKeep, DownIgnite, DownDone, LoopStop, loopVars
<1>7. backoff' \in Nat
  BY <1>6, SpoolAssumption DEF PoolTypes
<1>8. armed' \in BOOLEAN
  BY Zenon, <1>6 DEF PoolTypes
<1>9. /\ signal' \in BOOLEAN /\ mu' \in Learners \cup {"loop", Nil} /\ down' \in SUBSET Conns
      /\ new' \in Conns \cup {Nil}
      /\ loop' \in {"select", "scale", "cook", "add", "down", "stopped"}
  BY Zenon, <1>1, <1>2, <1>3, <1>4 DEF PoolTypes
<1> QED  BY Zenon, <1>1, <1>5, <1>7, <1>8, <1>9 DEF PoolTypes

\* PoolTypes is kept by every step of the pool.
LEMMA TypesStep == ASSUME PoolTypes, K!TypeOK, HandInv, [Next]_vars PROVE PoolTypes'
<1>1. CASE CloseSignal \/ CloseChef \/ ClosePooler \/ CloseMaps
  <2>1. UNCHANGED <<mu, state, apply, signal, loop, new, down, backoff, armed>>
    BY Zenon, <1>1 DEF CloseSignal, CloseChef, ClosePooler, CloseMaps, loopVars
  <2>2. byID' \in {byID, {}} /\ closing' \in {"signalled", "chef", "pooler", "done"}
    BY Zenon, <1>1 DEF CloseSignal, CloseChef, ClosePooler, CloseMaps
  <2> QED  BY Zenon, <2>1, <2>2 DEF PoolTypes
<1>2. CASE UNCHANGED vars
  BY Zenon, <1>2 DEF vars, loopVars, PoolTypes
<1> QED  BY Zenon, <1>1, <1>2, ClientTypes, AdminTypes, LoopTypes DEF Next

-----------------------------------------------------------------------------
(* The scale loop. *)

\* The loop sleeps with its timer running while it backs off, and with a signal
\* or the timer to come while a client waits.
WakeInv ==
  /\ armed => backoff # 0 /\ loop \in {"select", "down", "stopped"}
  /\ loop \in {"select", "down"} => /\ backoff # 0 => armed
                                    /\ waiters # {} => signal \/ armed

\* A waiter that leaves, and a step of somebody else, wake nobody up late.
LEMMA OthersWake ==
  ASSUME WakeInv, UNCHANGED <<armed, backoff, loop>>,
         \/ waiters' \subseteq waiters /\ signal' = signal
         \/ signal'
  PROVE  WakeInv'
BY Zenon DEF WakeInv

\* Only Acquire makes a client wait.
LEMMA FewerWait ==
  ASSUME \/ \E s : P!AddServer(s) \/ P!DeleteServer(s) \/ PoolAdd(s)
         \/ \E c : P!GiveUp(c) \/ P!Release(c) \/ Abandon(c, owner[c]) \/ Abandon(c, srv[c])
         \/ P!Close
         \/ UNCHANGED poolerVars
  PROVE  waiters' \subseteq waiters
<1>1. ASSUME NEW s, NEW own, P!Place(s, own) PROVE waiters' \subseteq waiters
  BY Zenon, <1>1 DEF P!Place
<1> QED
  BY Zenon, <1>1 DEF PoolAdd, P!AddServer, P!DeleteServer, P!GiveUp, P!Release, Abandon,
     P!Close,
     poolerVars

\* A client that has to wait has signalled.
LEMMA ClientWakes ==
  ASSUME Buffered = TRUE, UseInv, WakeInv, NEW c \in Clients, Client(c)
  PROVE  WakeInv'
<1>1. UNCHANGED <<armed, backoff>>
  BY Zenon DEF Client, AcquireCall, AcquireClosed, AcquireWake, AcquireTimeout,
     AcquireLookup, AcquireMissing, Pair, ReleaseReset, ReleasePooler, ReleaseState,
     RemoveBurn, RemovePooler, RemoveMaps, loopVars
<1>2. CASE AcquireCall(c)
  <2>1. CASE owner'[c] = Nil /\ signal' = Buffered
              /\ loop' = IF ~Buffered /\ loop = "select" /\ backoff = 0 THEN "scale" ELSE loop
    <3>1. loop' = loop /\ signal'
      BY Zenon, <2>1
    <3> QED  BY Zenon, <1>1, <3>1, OthersWake
  <2>2. CASE owner'[c] # Nil /\ UNCHANGED <<signal, loop>>
    <3>1. P!Acquire(c)
      BY Zenon, <1>2 DEF AcquireCall
    <3>2. waiters' \subseteq waiters
      BY Zenon, <2>2, <3>1 DEF P!Acquire
    <3> QED  BY Zenon, <1>1, <2>2, <3>2, OthersWake
  <2> QED  BY Zenon, <1>2, <2>1, <2>2 DEF AcquireCall
<1>3. CASE ~AcquireCall(c)
  <2>1. UNCHANGED <<signal, loop>>
    BY Zenon, <1>3 DEF Client, AcquireClosed, AcquireWake, AcquireTimeout,
       AcquireLookup, AcquireMissing, Pair, ReleaseReset, ReleasePooler, ReleaseState,
       RemoveBurn, RemovePooler, RemoveMaps, loopVars
  <2>2. waiters' \subseteq waiters
    BY Zenon, <1>3, FewerWait DEF Client, AcquireClosed, AcquireWake, AcquireTimeout,
       AcquireLookup, AcquireMissing, Pair, ReleaseReset, ReleasePooler, ReleaseState,
       RemoveBurn, RemovePooler, RemoveMaps
  <2> QED  BY Zenon, <1>1, <2>1, <2>2, OthersWake
<1> QED  BY Zenon, <1>2, <1>3

\* The loop goes back to its select only when nobody waits, or with its timer set.
LEMMA LoopWakes ==
  ASSUME InitialTime # 0, MaxTime # 0, PoolTypes, WakeInv, ScaleLoop
  PROVE  WakeInv'
<1>1. CASE LoopWaiting
  <2>1. /\ loop = "select" /\ loop' = IF backoff # 0 THEN "select" ELSE "scale"
        /\ UNCHANGED <<backoff, armed>>
    BY Zenon, <1>1 DEF LoopWaiting
  <2>2. CASE backoff # 0
    <3>1. loop' = "select" /\ armed'
      BY Zenon, <2>1, <2>2 DEF WakeInv
    <3> QED  BY Zenon, <2>1, <2>2, <3>1 DEF WakeInv
  <2>3. CASE backoff = 0
    <3>1. loop' = "scale" /\ ~armed'
      BY Zenon, <2>1, <2>3 DEF WakeInv
    <3>2. "scale" \notin {"select", "down"}
      BY Zenon
    <3> QED  BY Zenon, <3>1, <3>2 DEF WakeInv
  <2> QED  BY Zenon, <2>2, <2>3
<1>2. CASE LoopBackoff
  <2>1. loop' = "scale" /\ ~armed'
    BY Zenon, <1>2 DEF LoopBackoff, WakeInv
  <2>2. "scale" \notin {"select", "down"}
    BY Zenon
  <2> QED  BY Zenon, <2>1, <2>2 DEF WakeInv
<1>3. CASE LoopScale \/ LoopAdd \/ (\E c \in Conns : LoopCooked(c))
  <2>1. loop \in {"scale", "add", "cook"} /\ armed' = armed
    BY Zenon, <1>3 DEF LoopScale, LoopAdd, LoopCooked
  <2>2. ~armed
    BY Zenon, <2>1 DEF WakeInv
  <2>3. loop' \in {"cook", "scale", "add"} \/ (loop' = "select" /\ backoff' = 0 /\ waiters' = {})
    BY Zenon, <1>3 DEF LoopScale, LoopAdd, LoopCooked, poolerVars
  <2>4. ~armed'
    BY Zenon, <2>1, <2>2
  <2> QED  BY Zenon, <2>3, <2>4 DEF WakeInv
<1>4. CASE LoopCook \/ (\E s \in Conns : DownKeep(s) \/ DownIgnite(s))
  <2>1. UNCHANGED <<armed, backoff, loop, signal>>
    BY Zenon, <1>4 DEF LoopCook, DownKeep, DownIgnite, loopVars
  <2>2. waiters' \subseteq waiters
    BY Zenon, <1>4, FewerWait DEF LoopCook, DownKeep, DownIgnite
  <2> QED  BY Zenon, <2>1, <2>2, OthersWake
<1>5. CASE LoopFail
  <2>1. loop' = "select" /\ armed' = (backoff' # 0)
    BY Zenon, <1>5 DEF LoopFail
  <2>2. backoff' # 0
    BY <1>5, SpoolAssumption DEF LoopFail, PoolTypes
  <2> QED  BY Zenon, <2>1, <2>2 DEF WakeInv
<1>6. CASE LoopIdle \/ DownDone \/ LoopStop
  <2>1. UNCHANGED <<armed, backoff, signal, waiters>> /\ loop \in {"select", "down"}
    BY Zenon, <1>6 DEF LoopIdle, DownDone, LoopStop, poolerVars
  <2>2. loop' \in {"select", "down", "stopped"}
    BY Zenon, <1>6 DEF LoopIdle, DownDone, LoopStop
  <2> QED  BY Zenon, <2>1, <2>2 DEF WakeInv
<1> QED  BY Zenon, <1>1, <1>2, <1>3, <1>4, <1>5, <1>6 DEF ScaleLoop

\* WakeInv is kept by every step of a pool over rob.
LEMMA WakeStep ==
  ASSUME Buffered = TRUE, InitialTime # 0, MaxTime # 0, UseInv, PoolTypes, WakeInv,
         [Next]_vars
  PROVE  WakeInv'
<1>1. ASSUME NEW t \in Learners, Admin(t) PROVE WakeInv'
  <2>1. UNCHANGED <<armed, backoff, loop, signal>>
    BY Zenon, <1>1 DEF Admin, AddRecipeDial, AddRecipeLearn, RemoveRecipe, ApplyRemoved,
       ApplyAdded, loopVars
  <2>2. waiters' \subseteq waiters
    BY Zenon, <1>1, FewerWait DEF Admin, AddRecipeDial, AddRecipeLearn, RemoveRecipe,
       ApplyRemoved, ApplyAdded
  <2> QED  BY Zenon, <2>1, <2>2, OthersWake
<1>2. CASE CloseSignal \/ CloseChef \/ ClosePooler \/ CloseMaps \/ UNCHANGED vars
  <2>1. UNCHANGED <<armed, backoff, loop, signal>>
    BY Zenon, <1>2 DEF CloseSignal, CloseChef, ClosePooler, CloseMaps, vars, loopVars
  <2>2. waiters' \subseteq waiters
    BY Zenon, <1>2, FewerWait DEF CloseSignal, CloseChef, ClosePooler, CloseMaps, vars
  <2> QED  BY Zenon, <2>1, <2>2, OthersWake
<1> QED  BY Zenon, <1>1, <1>2, ClientWakes, LoopWakes DEF Next

-----------------------------------------------------------------------------
(* The maps. *)

\* What a Learn has dialled and not registered is in no books, open and its own.
Hands ==
  \A t \in Learners :
    /\ learn[t].recipe = Nil => learn[t].added = {}
    /\ \A c \in learn[t].added :
         /\ byConn[c] = Nil /\ c \in open
         /\ \A x \in Learners : c \in learn[x].added => x = t

\* Nobody refers to a connection before the Learn that dialled it registers it.
Fresh == \A t \in Learners : \A c \in learn[t].added : c \notin Referenced

\* A connection on its way out of the maps is out of the books.
Leaving ==
  /\ \A t \in Learners : \A s \in apply[t].removed : byConn[s] = Nil
  /\ \A c \in Clients : pc[c] \in {"remove", "removing"} => byConn[srv[c]] = Nil

\* A change of recipes is applied before its goroutine learns again.
Applied == \A t \in Learners : learn[t].recipe # Nil => apply[t] = NoChange

MapsInv == Fresh /\ Leaving /\ Applied /\ NoOrphan /\ PoolerKnown

\* What it is to be referred to.
LEMMA InReferenced ==
  \A s : s \in Referenced <=>
     \/ s \in byID \/ s \in servers \/ s = new
     \/ \E c \in Clients : s = owner[c] \/ s = srv[c]
     \/ \E t \in Learners : s \in apply[t].removed \/ s \in apply[t].added
<1> TAKE s
<1>1. s \in {owner[c] : c \in Clients} \cup {srv[c] : c \in Clients}
        <=> \E c \in Clients : s = owner[c] \/ s = srv[c]
  BY Zenon
<1>2. s \in UNION {apply[t].removed \cup apply[t].added : t \in Learners}
        <=> \E t \in Learners : s \in apply[t].removed \cup apply[t].added
  BY Zenon
<1> QED  BY Zenon, <1>1, <1>2 DEF Referenced

\* The same after a step.
LEMMA InReferencedP ==
  \A s : s \in Referenced' <=>
     \/ s \in byID' \/ s \in servers' \/ s = new'
     \/ \E c \in Clients : s = owner'[c] \/ s = srv'[c]
     \/ \E t \in Learners : s \in apply'[t].removed \/ s \in apply'[t].added
<1> TAKE s
<1>1. s \in {owner'[c] : c \in Clients} \cup {srv'[c] : c \in Clients}
        <=> \E c \in Clients : s = owner'[c] \/ s = srv'[c]
  BY Zenon
<1>2. s \in UNION {apply'[t].removed \cup apply'[t].added : t \in Learners}
        <=> \E t \in Learners : s \in apply'[t].removed \cup apply'[t].added
  BY Zenon
<1> QED  BY Zenon, <1>1, <1>2 DEF Referenced

\* Fresh survives a step after which nothing more is referred to.
LEMMA FreshKept ==
  ASSUME K!TypeOK, Fresh, learn' = learn,
         \A s \in Conns : s \in Referenced' => s \in Referenced
  PROVE  Fresh'
<1>1. ASSUME NEW t \in Learners PROVE learn[t].added \subseteq Conns
  BY Zenon DEF K!TypeOK
<1> QED  BY Zenon, <1>1 DEF Fresh

\* Leaving survives a step in which the books lose connections and nobody
\* begins to remove one.
LEMMA LeavingKept ==
  ASSUME PoolTypes, UseInv, Leaving,
         \A s \in Conns : s \in Referenced /\ byConn[s] = Nil => byConn'[s] = Nil,
         \A t \in Learners : apply'[t].removed \subseteq apply[t].removed,
         \A c \in Clients : pc'[c] \in {"remove", "removing"} =>
            pc[c] \in {"remove", "removing"} /\ srv'[c] = srv[c]
  PROVE  Leaving'
<1>1. ASSUME NEW t \in Learners, NEW s \in apply'[t].removed PROVE byConn'[s] = Nil
  <2>1. s \in apply[t].removed /\ s \in Conns
    BY Zenon, <1>1 DEF PoolTypes
  <2> QED  BY Zenon, <2>1, InReferenced DEF Leaving
<1>2. ASSUME NEW c \in Clients, pc'[c] \in {"remove", "removing"} PROVE byConn'[srv'[c]] = Nil
  <2>1. pc[c] \in {"remove", "removing"} /\ srv'[c] = srv[c] /\ ClientOK(c)
    BY Zenon, <1>2 DEF UseInv
  <2>2. srv[c] \in Conns
    BY Zenon, <2>1 DEF UseInv, ClientOK
  <2> QED  BY Zenon, <2>1, <2>2, InReferenced DEF Leaving
<1> QED  BY Zenon, <1>1, <1>2 DEF Leaving

\* Where the servers and the owners after a call of the pooler come from.
LEMMA OwnersFrom ==
  ASSUME P!PoolerInv,
         \/ \E s \in Conns : P!DeleteServer(s)
         \/ \E c \in Clients : P!Acquire(c) \/ P!GiveUp(c) \/ P!Release(c)
                               \/ Abandon(c, owner[c]) \/ Abandon(c, srv[c])
         \/ P!Close
         \/ UNCHANGED poolerVars
  PROVE  /\ servers' \subseteq servers
         /\ \A d \in Clients : \/ owner'[d] \in servers \cup {Nil}
                               \/ \E x \in Clients : owner'[d] = owner[x]
<1>1. owner \in [Clients -> Conns \cup {Nil}] /\ idle \subseteq servers
  BY Zenon DEF P!PoolerInv, P!TypeOK, P!Consistent
<1>2. ASSUME NEW s, NEW own \in [Clients -> Conns \cup {Nil}], P!Place(s, own),
             NEW d \in Clients
      PROVE  owner'[d] \in {s, own[d]}
  BY Zenon, <1>2 DEF P!Place
<1>4. ASSUME NEW c \in Clients, P!Acquire(c) \/ P!GiveUp(c) \/ Abandon(c, owner[c])
                                \/ Abandon(c, srv[c])
      PROVE  /\ servers' \subseteq servers
             /\ \A d \in Clients : owner'[d] \in idle \cup {owner[d], Nil}
  BY Zenon, <1>1, <1>4 DEF P!Acquire, P!GiveUp, Abandon
<1>5. ASSUME NEW c \in Clients, P!Release(c)
      PROVE  /\ servers' \subseteq servers
             /\ \A d \in Clients : owner'[d] \in {owner[c], owner[d], Nil}
  <2> DEFINE own == [owner EXCEPT ![c] = Nil]
  <2>1. own \in [Clients -> Conns \cup {Nil}] /\ \A d \in Clients : own[d] \in {owner[d], Nil}
    BY Zenon, <1>1
  <2>2. P!Place(owner[c], own) \/ owner' = own
    BY Zenon, <1>5 DEF P!Release
  <2>3. servers' \subseteq servers
    BY Zenon, <1>5 DEF P!Release
  <2> HIDE DEF own
  <2> QED  BY Zenon, <1>2, <2>1, <2>2, <2>3
<1>6. CASE (\E s \in Conns : P!DeleteServer(s)) \/ P!Close \/ UNCHANGED poolerVars
  BY Zenon, <1>6 DEF P!DeleteServer, P!Close, poolerVars
<1> QED  BY Zenon, <1>1, <1>4, <1>5, <1>6

\* The steps that leave books, maps and recipe changes alone.
LEMMA QuietMaps ==
  ASSUME K!TypeOK, PoolTypes, UseInv, MapsInv,
         UNCHANGED <<byConn, learn, byID, new, apply>>,
         closing' = "no" => closing = "no",
         closing' \in {"no", "signalled", "chef"} => closing \in {"no", "signalled", "chef"},
         servers' \subseteq servers,
         \A c \in Clients : \/ owner'[c] \in servers \cup {Nil}
                            \/ \E x \in Clients : owner'[c] = owner[x],
         \A c \in Clients : srv'[c] \in {srv[c], owner[c], Nil},
         \A c \in Clients : pc'[c] \in {"remove", "removing"} =>
            pc[c] \in {"remove", "removing"} /\ srv'[c] = srv[c]
  PROVE  MapsInv'
<1>1. ASSUME NEW s \in Conns, s \in Referenced' PROVE s \in Referenced
  <2>1. s # Nil
    BY Zenon, NilApart
  <2> QED  BY Zenon, <1>1, <2>1, InReferenced, InReferencedP
<1>2. Fresh'
  BY Zenon, <1>1, FreshKept DEF MapsInv
<1>3. Leaving'
  BY Zenon, LeavingKept DEF MapsInv
<1>4. Applied' /\ NoOrphan' /\ PoolerKnown'
  BY Zenon DEF MapsInv, Applied, NoOrphan, PoolerKnown
<1> QED  BY Zenon, <1>2, <1>3, <1>4 DEF MapsInv

\* AddRecipe has dialled: what it dialled is new to the pool.
LEMMA DialMaps ==
  ASSUME K!TypeOK, PoolTypes, UseInv, MapsInv, Hands, NEW t \in Learners,
         NEW n \in Names, NEW r \in Recipes, AddRecipeDial(t, n, r)
  PROVE  MapsInv'
<1>1. UNCHANGED <<byConn, byID, new, apply, closing, servers, owner, srv, pc>>
  BY Zenon DEF AddRecipeDial, K!LearnDial, poolerVars, clientVars, loopVars
<1>2. PICK added \in SUBSET K!NewConns :
        /\ learn' = [learn EXCEPT ![t] = [name |-> n, recipe |-> r, added |-> added]]
        /\ open' = open \cup added
  BY Zenon DEF AddRecipeDial, K!LearnDial
<1>3. learn'[t].added = added /\ \A x \in Learners \ {t} : learn'[x] = learn[x]
  BY Zenon, <1>2 DEF K!TypeOK
<1>4. Referenced' = Referenced
  BY Zenon, <1>1 DEF Referenced
<1>5. Fresh'
  <2>1. ASSUME NEW c \in added PROVE c \notin Referenced
    BY Zenon, <1>2, <2>1 DEF AddRecipeDial, K!NewConns
  <2> QED  BY Zenon, <1>3, <1>4, <2>1 DEF MapsInv, Fresh
<1>6. Leaving' /\ NoOrphan' /\ PoolerKnown'
  BY Zenon, <1>1 DEF MapsInv, Leaving, NoOrphan, PoolerKnown
<1>7. Applied'
  BY Zenon, <1>1, <1>3 DEF MapsInv, Applied, AddRecipeDial
<1> QED  BY Zenon, <1>5, <1>6, <1>7 DEF MapsInv

\* AddRecipe registers what it dialled, and forgets the old recipe of the name.
LEMMA LearnMaps ==
  ASSUME K!TypeOK, PoolTypes, UseInv, MapsInv, Hands, NEW t \in Learners,
         AddRecipeLearn(t)
  PROVE  MapsInv'
<1> DEFINE old == byName[learn[t].name]
           gone == IF old = Nil THEN {} ELSE K!ConnsOf(old)
           got == learn[t].added
<1>1. UNCHANGED <<byID, new, closing, servers, owner, srv, pc>>
  BY Zenon DEF AddRecipeLearn, poolerVars, clientVars, loopVars
<1>2. /\ learn[t].recipe # Nil
      /\ byConn' = [c \in Conns |-> IF c \in got THEN learn[t].recipe
                                    ELSE IF old # Nil /\ byConn[c] = old THEN Nil ELSE byConn[c]]
      /\ learn' = [learn EXCEPT ![t] = K!NotLearning]
      /\ apply' = [apply EXCEPT ![t] = [removed |-> gone, added |-> got]]
  BY Zenon DEF AddRecipeLearn, K!LearnCommit
<1>3. apply[t] = NoChange
  BY Zenon, <1>2 DEF MapsInv, Applied
<1>4. /\ apply'[t].removed = gone /\ apply'[t].added = got
      /\ \A x \in Learners \ {t} : apply'[x] = apply[x]
  BY Zenon, <1>2 DEF PoolTypes
<1>5. /\ learn'[t].recipe = Nil /\ learn'[t].added = {}
      /\ \A x \in Learners \ {t} : learn'[x] = learn[x]
  BY Zenon, <1>2 DEF K!TypeOK, K!NotLearning
<1>6. got \subseteq Conns /\ \A x \in Learners : learn[x].added \subseteq Conns
  BY Zenon DEF K!TypeOK
<1>7. \A c \in gone : c \in Conns /\ byConn[c] # Nil /\ byConn[c] = old /\ old # Nil
  BY Zenon DEF K!ConnsOf
<1>8. \A c \in got : byConn[c] = Nil
  BY Zenon DEF Hands
<1>9. \A c \in Conns : /\ c \in got => byConn'[c] = learn[t].recipe
                       /\ c \in gone => byConn'[c] = Nil
                       /\ c \notin got /\ byConn[c] = Nil => byConn'[c] = Nil
                       /\ c \notin got /\ byConn'[c] # Nil => byConn[c] # Nil
  BY Zenon, <1>2, <1>7, <1>8
<1> HIDE DEF old, gone, got
<1>10. ASSUME NEW s, s \in Referenced' PROVE s \in Referenced \cup gone \cup got
  BY Zenon, <1>1, <1>4, <1>10, InReferenced, InReferencedP
<1>11. Fresh'
  <2> SUFFICES ASSUME NEW x \in Learners, NEW c \in learn'[x].added PROVE c \notin Referenced'
    BY Zenon DEF Fresh
  <2>1. x # t /\ c \in learn[x].added
    BY Zenon, <1>5
  <2>2. c \notin Referenced
    BY Zenon, <2>1 DEF MapsInv, Fresh
  <2>3. c \notin got
    BY Zenon, <2>1 DEF Hands, got
  <2>4. c \notin gone
    BY Zenon, <2>1, <1>7 DEF Hands
  <2> QED  BY Zenon, <1>10, <2>2, <2>3, <2>4
<1>12. \A s \in Referenced : s \notin got
  BY Zenon DEF MapsInv, Fresh, got
<1>13. Leaving'
  <2>1. ASSUME NEW x \in Learners, NEW s \in apply'[x].removed PROVE byConn'[s] = Nil
    <3>1. CASE x = t
      BY Zenon, <2>1, <3>1, <1>4, <1>7, <1>9
    <3>2. CASE x # t
      <4>1. s \in apply[x].removed /\ apply[x].removed \subseteq Conns
        BY Zenon, <2>1, <3>2, <1>4 DEF PoolTypes
      <4>2. s \in Referenced /\ byConn[s] = Nil
        BY Zenon, <4>1, InReferenced DEF MapsInv, Leaving
      <4> QED  BY Zenon, <4>1, <4>2, <1>9, <1>12
    <3> QED  BY Zenon, <3>1, <3>2
  <2>2. ASSUME NEW c \in Clients, pc'[c] \in {"remove", "removing"} PROVE byConn'[srv'[c]] = Nil
    <3>1. pc[c] \in {"remove", "removing"} /\ srv'[c] = srv[c] /\ ClientOK(c)
      BY Zenon, <2>2, <1>1 DEF UseInv
    <3>2. srv[c] \in Conns
      BY Zenon, <3>1 DEF UseInv, ClientOK
    <3>3. srv[c] \in Referenced /\ byConn[srv[c]] = Nil
      BY Zenon, <3>1, InReferenced DEF MapsInv, Leaving
    <3> QED  BY Zenon, <3>1, <3>2, <3>3, <1>9, <1>12
  <2> QED  BY Zenon, <2>1, <2>2 DEF Leaving
<1>14. Applied'
  BY Zenon, <1>4, <1>5 DEF MapsInv, Applied
<1>15. NoOrphan'
  <2> SUFFICES ASSUME closing' = "no", NEW s \in Conns, byConn'[s] # Nil
               PROVE  s \in byID' \/ s = new' \/ \E x \in Learners : s \in apply'[x].added
    BY Zenon DEF NoOrphan
  <2>1. CASE s \in got
    BY Zenon, <2>1, <1>4
  <2>2. CASE s \notin got
    <3>1. s \in byID \/ s = new \/ \E x \in Learners : s \in apply[x].added
      BY Zenon, <2>2, <1>1, <1>9 DEF MapsInv, NoOrphan
    <3>2. s \notin apply[t].added
      BY <1>3 DEF NoChange
    <3> QED  BY Zenon, <3>1, <3>2, <1>1, <1>4
  <2> QED  BY Zenon, <2>1, <2>2
<1>16. PoolerKnown'
  BY Zenon, <1>1 DEF MapsInv, PoolerKnown
<1> QED  BY Zenon, <1>11, <1>13, <1>14, <1>15, <1>16 DEF MapsInv

\* RemoveRecipe forgets a recipe with its connections.
LEMMA ForgetMaps ==
  ASSUME K!TypeOK, PoolTypes, UseInv, MapsInv, Hands, NEW t \in Learners,
         NEW n \in Names, RemoveRecipe(t, n)
  PROVE  MapsInv'
<1> DEFINE gone == K!ConnsOf(byName[n])
<1>1. UNCHANGED <<learn, byID, new, closing, servers, owner, srv, pc>>
  BY Zenon DEF RemoveRecipe, K!Forget, poolerVars, clientVars, loopVars
<1>2. /\ apply[t] = NoChange /\ learn[t] = K!NotLearning /\ byName[n] # Nil
      /\ byConn' = [c \in Conns |-> IF byConn[c] = byName[n] THEN Nil ELSE byConn[c]]
      /\ apply' = [apply EXCEPT ![t] = [removed |-> gone, added |-> {}]]
  BY Zenon DEF RemoveRecipe, K!Forget, K!DropConns
<1>3. /\ apply'[t].removed = gone /\ apply'[t].added = {}
      /\ \A x \in Learners \ {t} : apply'[x] = apply[x]
  BY Zenon, <1>2 DEF PoolTypes
<1>4. \A c \in gone : c \in Conns /\ byConn[c] # Nil /\ byConn'[c] = Nil
  BY Zenon, <1>2 DEF K!ConnsOf
<1>5. \A c \in Conns : byConn[c] = Nil => byConn'[c] = Nil
  BY Zenon, <1>2
<1> HIDE DEF gone
<1>6. ASSUME NEW s, s \in Referenced' PROVE s \in Referenced \cup gone
  BY Zenon, <1>1, <1>3, <1>6, InReferenced, InReferencedP
<1>7. Fresh'
  BY Zenon, <1>1, <1>4, <1>6 DEF MapsInv, Fresh, Hands
<1>8. Leaving'
  <2>1. ASSUME NEW x \in Learners, NEW s \in apply'[x].removed PROVE byConn'[s] = Nil
    <3>1. CASE x = t
      BY Zenon, <2>1, <3>1, <1>3, <1>4
    <3>2. CASE x # t
      <4>1. s \in apply[x].removed /\ apply[x].removed \subseteq Conns
        BY Zenon, <2>1, <3>2, <1>3 DEF PoolTypes
      <4> QED  BY Zenon, <4>1, <1>5 DEF MapsInv, Leaving
    <3> QED  BY Zenon, <3>1, <3>2
  <2>2. ASSUME NEW c \in Clients, pc'[c] \in {"remove", "removing"} PROVE byConn'[srv'[c]] = Nil
    <3>1. pc[c] \in {"remove", "removing"} /\ srv'[c] = srv[c] /\ ClientOK(c)
      BY Zenon, <2>2, <1>1 DEF UseInv
    <3>2. srv[c] \in Conns
      BY Zenon, <3>1 DEF UseInv, ClientOK
    <3> QED  BY Zenon, <3>1, <3>2, <1>5 DEF MapsInv, Leaving
  <2> QED  BY Zenon, <2>1, <2>2 DEF Leaving
<1>9. Applied'
  <2>1. learn[t].recipe = Nil
    BY <1>2 DEF K!NotLearning
  <2> QED  BY Zenon, <2>1, <1>1, <1>3 DEF MapsInv, Applied
<1>10. NoOrphan'
  <2> SUFFICES ASSUME closing' = "no", NEW s \in Conns, byConn'[s] # Nil
               PROVE  s \in byID' \/ s = new' \/ \E x \in Learners : s \in apply'[x].added
    BY Zenon DEF NoOrphan
  <2>1. s \in byID \/ s = new \/ \E x \in Learners : s \in apply[x].added
    BY Zenon, <1>1, <1>5 DEF MapsInv, NoOrphan
  <2>2. s \notin apply[t].added
    BY <1>2 DEF NoChange
  <2> QED  BY Zenon, <2>1, <2>2, <1>1, <1>3
<1>11. PoolerKnown'
  BY Zenon, <1>1 DEF MapsInv, PoolerKnown
<1> QED  BY Zenon, <1>7, <1>8, <1>9, <1>10, <1>11 DEF MapsInv

\* NoOrphan survives a step in which the books get nothing new, and what leaves
\* the maps is in no books.
LEMMA OrphanKept ==
  ASSUME NoOrphan, closing' = "no" => closing = "no",
         \A s \in Conns : byConn'[s] # Nil => byConn[s] # Nil,
         \A s \in Conns : byConn'[s] # Nil => (s \in byID => s \in byID'),
         \A s \in Conns : s = new => s = new' \/ s \in byID',
         \A t \in Learners : \A s \in apply[t].added : s \in apply'[t].added \/ s \in byID'
  PROVE  NoOrphan'
<1> SUFFICES ASSUME closing' = "no", NEW s \in Conns, byConn'[s] # Nil
             PROVE  s \in byID' \/ s = new' \/ \E x \in Learners : s \in apply'[x].added
  BY Zenon DEF NoOrphan
<1>1. s \in byID \/ s = new \/ \E x \in Learners : s \in apply[x].added
  BY Zenon DEF NoOrphan
<1> QED  BY Zenon, <1>1

\* A change of recipes takes a server out of the maps and the pooler.
LEMMA RemovedMaps ==
  ASSUME K!TypeOK, PoolTypes, UseInv, MapsInv, NEW t \in Learners, ApplyRemoved(t)
  PROVE  MapsInv'
<1>1. UNCHANGED <<byConn, learn, new, closing, srv, pc>>
  BY Zenon DEF ApplyRemoved, kitchenVars, clientVars, loopVars
<1>2. PICK s \in apply[t].removed :
        /\ apply' = [apply EXCEPT ![t].removed = @ \ {s}]
        /\ byID' = byID \ {s}
        /\ IF s \in byID THEN P!DeleteServer(s) ELSE UNCHANGED poolerVars
  BY Zenon DEF ApplyRemoved
<1>3. s \in Conns /\ byConn[s] = Nil
  <2>1. apply[t].removed \subseteq Conns
    BY Zenon DEF PoolTypes
  <2> QED  BY Zenon, <2>1 DEF MapsInv, Leaving
<1>4. \A x \in Learners : /\ apply'[x].removed \subseteq apply[x].removed
                          /\ apply'[x].added = apply[x].added
                          /\ x # t => apply'[x] = apply[x]
  BY Zenon, <1>2 DEF PoolTypes
<1>a. apply[t] # NoChange
  BY <1>2 DEF NoChange
<1>5. owner' = owner /\ servers' \subseteq servers /\ (s \in byID => s \notin servers')
  BY Zenon, <1>2 DEF P!DeleteServer, poolerVars
<1>6. \A x : x \in Referenced' => x \in Referenced
  BY Zenon, <1>1, <1>2, <1>4, <1>5, InReferenced, InReferencedP
<1>7. Fresh'
  BY Zenon, <1>1, <1>6, FreshKept DEF MapsInv
<1>8. Leaving'
  BY Zenon, <1>1, <1>4, LeavingKept DEF MapsInv
<1>9. Applied'
  BY Zenon, <1>1, <1>4, <1>a DEF MapsInv, Applied
<1>10. NoOrphan'
  BY Zenon, <1>1, <1>2, <1>3, <1>4, OrphanKept DEF MapsInv
<1>11. PoolerKnown'
  BY Zenon, <1>1, <1>2, <1>5 DEF MapsInv, PoolerKnown
<1> QED  BY Zenon, <1>7, <1>8, <1>9, <1>10, <1>11 DEF MapsInv

\* pooler.AddServer of a server that is entered in the maps.
LEMMA PoolAdded ==
  ASSUME P!PoolerInv, NEW s, PoolAdd(s)
  PROVE  /\ servers' \subseteq servers \cup {s}
         /\ \A d \in Clients : \/ owner'[d] \in servers \cup {s, Nil}
                               \/ \E x \in Clients : owner'[d] = owner[x]
<1>1. owner \in [Clients -> Conns \cup {Nil}]
  BY Zenon DEF P!PoolerInv, P!TypeOK
<1>2. ASSUME P!Place(s, owner), NEW d \in Clients PROVE owner'[d] \in {s, owner[d]}
  BY Zenon, <1>1, <1>2 DEF P!Place
<1> QED  BY Zenon, <1>2 DEF PoolAdd, P!AddServer, poolerVars

\* A change of recipes enters a server it has dialled.
LEMMA AddedMaps ==
  ASSUME K!TypeOK, PoolTypes, UseInv, MapsInv, NEW t \in Learners, ApplyAdded(t)
  PROVE  MapsInv'
<1>1. UNCHANGED <<byConn, learn, new, closing, srv, pc>>
  BY Zenon DEF ApplyAdded, kitchenVars, clientVars, loopVars
<1>2. PICK s \in apply[t].added :
        /\ apply' = [apply EXCEPT ![t].added = @ \ {s}]
        /\ byID' = byID \cup {s}
        /\ PoolAdd(s)
  BY Zenon DEF ApplyAdded
<1>3. \A x \in Learners : /\ apply'[x].removed = apply[x].removed
                          /\ apply'[x].added \subseteq apply[x].added
                          /\ apply[x].added \subseteq apply'[x].added \cup {s}
                          /\ x # t => apply'[x] = apply[x]
  BY Zenon, <1>2 DEF PoolTypes
<1>4. apply[t] # NoChange
  BY <1>2 DEF NoChange
<1>5. /\ servers' \subseteq servers \cup {s}
      /\ \A d \in Clients : \/ owner'[d] \in servers \cup {s, Nil}
                            \/ \E x \in Clients : owner'[d] = owner[x]
  BY Zenon, <1>2, PoolAdded DEF UseInv
<1>6. ASSUME NEW x \in Conns, x \in Referenced' PROVE x \in Referenced
  <2>1. x # Nil
    BY Zenon, NilApart
  <2>2. x \in byID' \cup servers' => x \in byID \/ x \in servers \/ x = s
    BY Zenon, <1>2, <1>5
  <2>3. s \in Referenced
    BY Zenon, <1>2, InReferenced
  <2>4. (\E d \in Clients : x = owner'[d]) =>
          x \in servers \/ x = s \/ \E d \in Clients : x = owner[d]
    BY Zenon, <1>5, <2>1
  <2>5. \A y \in Learners : x \in apply'[y].removed \/ x \in apply'[y].added =>
                             x \in apply[y].removed \/ x \in apply[y].added
    BY Zenon, <1>3
  <2> QED  BY Zenon, <1>1, <1>6, <2>2, <2>3, <2>4, <2>5, InReferenced, InReferencedP
<1>7. Fresh'
  BY Zenon, <1>1, <1>6, FreshKept DEF MapsInv
<1>8. Leaving'
  BY Zenon, <1>1, <1>3, LeavingKept DEF MapsInv
<1>9. Applied'
  BY Zenon, <1>1, <1>3, <1>4 DEF MapsInv, Applied
<1>10. NoOrphan'
  BY Zenon, <1>1, <1>2, <1>3, OrphanKept DEF MapsInv
<1>11. PoolerKnown'
  BY Zenon, <1>1, <1>2, <1>5 DEF MapsInv, PoolerKnown
<1> QED  BY Zenon, <1>7, <1>8, <1>9, <1>10, <1>11 DEF MapsInv

\* RemoveServer has burned the connection: it is in no books.
LEMMA BurnMaps ==
  ASSUME K!TypeOK, PoolTypes, UseInv, MapsInv, NEW c \in Clients, RemoveBurn(c)
  PROVE  MapsInv'
<1>1. UNCHANGED <<byID, new, apply, closing, servers, owner, srv>>
  BY Zenon DEF RemoveBurn, poolerVars, loopVars
<1>2. learn' = learn /\ Using(c) /\ pc' = [pc EXCEPT ![c] = "remove"]
  BY Zenon DEF RemoveBurn, K!Burn, K!Discard, kitchenVars, Using
<1>3. srv[c] \in Conns
  BY Zenon, <1>2 DEF UseInv, ClientOK
<1>4. byConn'[srv[c]] = Nil /\ \A s \in Conns : s # srv[c] => byConn'[s] = byConn[s]
  <2>1. byConn \in [Conns -> Recipes \cup {Nil}]
    BY Zenon DEF K!TypeOK
  <2>2. byConn' = [byConn EXCEPT ![srv[c]] = Nil] \/ (byConn[srv[c]] = Nil /\ byConn' = byConn)
    BY Zenon DEF RemoveBurn, K!Burn, K!Discard, kitchenVars
  <2> QED  BY Zenon, <1>3, <2>1, <2>2
<1>5. Referenced' = Referenced
  BY Zenon, <1>1 DEF Referenced
<1>6. Fresh'
  BY Zenon, <1>2, <1>5, FreshKept DEF MapsInv
<1>7. Leaving'
  <2>1. ASSUME NEW t \in Learners, NEW s \in apply'[t].removed PROVE byConn'[s] = Nil
    <3>1. s \in apply[t].removed /\ s \in Conns
      BY Zenon, <1>1, <2>1 DEF PoolTypes
    <3> QED  BY Zenon, <1>4, <3>1 DEF MapsInv, Leaving
  <2>2. ASSUME NEW d \in Clients, pc'[d] \in {"remove", "removing"} PROVE byConn'[srv'[d]] = Nil
    <3>1. CASE d = c
      BY Zenon, <1>1, <1>4, <3>1
    <3>2. CASE d # c
      <4>1. pc[d] \in {"remove", "removing"} /\ ClientOK(d)
        BY Zenon, <1>2, <2>2, <3>2 DEF UseInv
      <4>2. srv[d] \in Conns
        BY Zenon, <4>1 DEF UseInv, ClientOK
      <4> QED  BY Zenon, <1>1, <1>4, <4>1, <4>2 DEF MapsInv, Leaving
    <3> QED  BY Zenon, <3>1, <3>2
  <2> QED  BY Zenon, <2>1, <2>2 DEF Leaving
<1>8. Applied' /\ PoolerKnown'
  BY Zenon, <1>1, <1>2 DEF MapsInv, Applied, PoolerKnown
<1>9. NoOrphan'
  BY Zenon, <1>1, <1>4, OrphanKept DEF MapsInv
<1> QED  BY Zenon, <1>6, <1>7, <1>8, <1>9 DEF MapsInv

\* RemoveServer takes the server out of the maps and the pooler.
LEMMA RemoveMapsMaps ==
  ASSUME K!TypeOK, PoolTypes, UseInv, MapsInv, NEW c \in Clients, RemoveMaps(c)
  PROVE  MapsInv'
<1>1. /\ UNCHANGED <<byConn, learn, new, apply, closing>> /\ byID' = byID \ {srv[c]}
      /\ P!DeleteServer(srv[c]) /\ pc[c] = "removing"
      /\ srv' = [srv EXCEPT ![c] = Nil] /\ pc' = [pc EXCEPT ![c] = "out"]
  BY Zenon DEF RemoveMaps, kitchenVars, loopVars
<1>2. byConn[srv[c]] = Nil
  BY Zenon, <1>1 DEF MapsInv, Leaving
<1>3. \A d \in Clients : srv'[d] \in {srv[d], Nil}
  BY Zenon, <1>1 DEF UseInv
<1>4. \A d \in Clients : pc'[d] \in {"remove", "removing"} =>
         pc[d] \in {"remove", "removing"} /\ srv'[d] = srv[d]
  BY Zenon, <1>1 DEF UseInv
<1>5. servers' = servers \ {srv[c]} /\ owner' = owner
  BY Zenon, <1>1 DEF P!DeleteServer
<1>6. ASSUME NEW s \in Conns, s \in Referenced' PROVE s \in Referenced
  <2>1. s # Nil
    BY Zenon, NilApart
  <2> QED  BY Zenon, <1>1, <1>3, <1>5, <1>6, <2>1, InReferenced, InReferencedP
<1>7. Fresh'
  BY Zenon, <1>1, <1>6, FreshKept DEF MapsInv
<1>8. Leaving'
  BY Zenon, <1>1, <1>4, LeavingKept DEF MapsInv
<1>9. Applied' /\ PoolerKnown'
  BY Zenon, <1>1, <1>5 DEF MapsInv, Applied, PoolerKnown
<1>10. NoOrphan'
  BY Zenon, <1>1, <1>2, OrphanKept DEF MapsInv
<1> QED  BY Zenon, <1>7, <1>8, <1>9, <1>10 DEF MapsInv

\* Cook has dialled a connection for ScaleUp.
LEMMA CookedMaps ==
  ASSUME K!TypeOK, PoolTypes, UseInv, HandInv, MapsInv, Hands, NEW c \in Conns,
         LoopCooked(c)
  PROVE  MapsInv'
<1>1. /\ UNCHANGED <<learn, byID, apply, closing, servers, owner, srv, pc>>
      /\ new' = c /\ byConn' = [byConn EXCEPT ![c] = cur] /\ loop = "cook"
      /\ c \notin Referenced /\ c \in K!NewConns
  BY Zenon DEF LoopCooked, K!CookDialOk, otherVars, clientVars, poolerVars
<1>2. new = Nil
  BY Zenon, <1>1 DEF HandInv
<1>3. \A s \in Conns : s # c => byConn'[s] = byConn[s]
  BY Zenon, <1>1 DEF K!TypeOK
<1>4. \A s : s \in Referenced' => s \in Referenced \/ s = c
  BY Zenon, <1>1, InReferenced, InReferencedP
<1>5. Fresh'
  <2>1. \A t \in Learners : c \notin learn[t].added
    BY Zenon, <1>1 DEF Hands, K!NewConns
  <2> QED  BY Zenon, <1>1, <1>4, <2>1 DEF MapsInv, Fresh
<1>6. Leaving'
  BY Zenon, <1>1, <1>3, LeavingKept DEF MapsInv
<1>7. Applied' /\ PoolerKnown'
  BY Zenon, <1>1 DEF MapsInv, Applied, PoolerKnown
<1>8. NoOrphan'
  <2> SUFFICES ASSUME closing' = "no", NEW s \in Conns, byConn'[s] # Nil, s # c
               PROVE  s \in byID' \/ \E x \in Learners : s \in apply'[x].added
    BY Zenon, <1>1 DEF NoOrphan
  <2>1. s # Nil
    BY Zenon, NilApart
  <2>2. s \in byID \/ s = new \/ \E x \in Learners : s \in apply[x].added
    BY Zenon, <1>1, <1>3 DEF MapsInv, NoOrphan
  <2> QED  BY Zenon, <1>1, <1>2, <2>1, <2>2
<1> QED  BY Zenon, <1>5, <1>6, <1>7, <1>8 DEF MapsInv

\* ScaleUp enters its connection in the maps and the pooler.
LEMMA LoopAddMaps ==
  ASSUME K!TypeOK, PoolTypes, UseInv, MapsInv, LoopAdd
  PROVE  MapsInv'
<1>1. /\ UNCHANGED <<byConn, learn, apply, closing, srv, pc>>
      /\ new' = Nil /\ byID' = byID \cup {new} /\ PoolAdd(new)
  BY Zenon DEF LoopAdd, kitchenVars, clientVars
<1>2. /\ servers' \subseteq servers \cup {new}
      /\ \A d \in Clients : \/ owner'[d] \in servers \cup {new, Nil}
                            \/ \E x \in Clients : owner'[d] = owner[x]
  BY Zenon, <1>1, PoolAdded DEF UseInv
<1>3. ASSUME NEW s \in Conns, s \in Referenced' PROVE s \in Referenced
  <2>1. s # Nil
    BY Zenon, NilApart
  <2> QED  BY Zenon, <1>1, <1>2, <1>3, <2>1, InReferenced, InReferencedP
<1>4. Fresh'
  BY Zenon, <1>1, <1>3, FreshKept DEF MapsInv
<1>5. Leaving'
  BY Zenon, <1>1, LeavingKept DEF MapsInv
<1>6. Applied' /\ PoolerKnown'
  BY Zenon, <1>1, <1>2 DEF MapsInv, Applied, PoolerKnown
<1>7. NoOrphan'
  BY Zenon, <1>1, OrphanKept DEF MapsInv
<1> QED  BY Zenon, <1>4, <1>5, <1>6, <1>7 DEF MapsInv

\* ScaleDown disconnects a server, and Close all of them.
LEMMA DownMaps ==
  ASSUME K!TypeOK, PoolTypes, UseInv, MapsInv,
         (\E s \in Conns : DownIgnite(s)) \/ CloseChef \/ CloseMaps
  PROVE  MapsInv'
<1>1. UNCHANGED <<learn, new, apply, owner, srv, pc>>
  BY Zenon DEF DownIgnite, CloseChef, CloseMaps, K!Ignite, K!Discard, K!Close,
     P!DeleteServer,
     poolerVars, clientVars, loopVars, kitchenVars
<1>2. \A x \in Conns : byConn'[x] # Nil => byConn'[x] = byConn[x]
  <2>1. byConn \in [Conns -> Recipes \cup {Nil}]
    BY Zenon DEF K!TypeOK
  <2>2. CASE \E s \in Conns : DownIgnite(s)
    BY Zenon, <2>1, <2>2 DEF DownIgnite, K!Ignite, K!Discard
  <2>3. CASE CloseChef \/ CloseMaps
    BY Zenon, <2>3 DEF CloseChef, CloseMaps, K!Close, kitchenVars
  <2> QED  BY Zenon, <2>2, <2>3
<1>3. servers' \subseteq servers /\ byID' \subseteq byID
  BY Zenon DEF DownIgnite, CloseChef, CloseMaps, P!DeleteServer, poolerVars
<1>4. \A s : s \in Referenced' => s \in Referenced
  BY Zenon, <1>1, <1>3, InReferenced, InReferencedP
<1>5. Fresh'
  BY Zenon, <1>1, <1>4, FreshKept DEF MapsInv
<1>6. Leaving'
  BY Zenon, <1>1, <1>2, LeavingKept DEF MapsInv
<1>7. Applied'
  BY Zenon, <1>1 DEF MapsInv, Applied
<1>8. NoOrphan' /\ PoolerKnown'
  <2>1. CASE CloseMaps
    <3>1. closing' = "done"
      BY Zenon, <2>1 DEF CloseMaps
    <3> QED  BY Zenon, <3>1 DEF NoOrphan, PoolerKnown
  <2>2. CASE CloseChef
    <3>1. closing = "signalled" /\ closing' = "chef" /\ byID' = byID
      BY Zenon, <2>2 DEF CloseChef
    <3> QED  BY Zenon, <1>3, <3>1 DEF MapsInv, NoOrphan, PoolerKnown
  <2>3. ASSUME NEW s \in Conns, DownIgnite(s) PROVE NoOrphan' /\ PoolerKnown'
    <3>1. closing' = closing /\ byID' = byID \ {s} /\ servers' = servers \ {s}
      BY Zenon, <2>3 DEF DownIgnite, P!DeleteServer
    <3>2. byConn'[s] = Nil
      BY Zenon, <2>3 DEF DownIgnite, K!Ignite, K!Discard, K!TypeOK
    <3>3. NoOrphan'
      BY Zenon, <1>1, <1>2, <3>1, <3>2, OrphanKept DEF MapsInv
    <3> QED  BY Zenon, <3>1, <3>3 DEF MapsInv, PoolerKnown
  <2> QED  BY Zenon, <2>1, <2>2, <2>3
<1> QED  BY Zenon, <1>5, <1>6, <1>7, <1>8 DEF MapsInv

\* A client that acquires, pairs or releases touches neither books nor maps.
LEMMA ClientMaps ==
  ASSUME K!TypeOK, PoolTypes, UseInv, MapsInv, NEW c \in Clients, Client(c)
  PROVE  MapsInv'
<1>1. CASE RemoveBurn(c) \/ RemoveMaps(c)
  BY Zenon, <1>1, BurnMaps, RemoveMapsMaps
<1>2. CASE AcquireCall(c) \/ AcquireClosed(c) \/ AcquireWake(c) \/ AcquireTimeout(c)
           \/ AcquireLookup(c) \/ AcquireMissing(c) \/ Pair(c) \/ ReleaseReset(c)
           \/ ReleasePooler(c) \/ ReleaseState(c) \/ RemovePooler(c)
  <2>1. UNCHANGED <<byConn, learn, byID, new, apply, closing>>
    BY Zenon, <1>2 DEF AcquireCall, AcquireClosed, AcquireWake, AcquireTimeout,
       AcquireLookup, AcquireMissing, Pair, ReleaseReset, ReleasePooler, ReleaseState,
       RemovePooler,
       kitchenVars, loopVars
  <2>2. \/ P!Acquire(c) \/ P!GiveUp(c) \/ P!Release(c) \/ Abandon(c, owner[c])
        \/ Abandon(c, srv[c]) \/ UNCHANGED poolerVars
    BY Zenon, <1>2 DEF AcquireCall, AcquireClosed, AcquireWake, AcquireTimeout,
       AcquireLookup, AcquireMissing, Pair, ReleaseReset, ReleasePooler, ReleaseState,
       RemovePooler
  <2>3. /\ servers' \subseteq servers
        /\ \A d \in Clients : \/ owner'[d] \in servers \cup {Nil}
                              \/ \E x \in Clients : owner'[d] = owner[x]
    BY Zenon, <2>2, OwnersFrom DEF UseInv
  <2>4. \A d \in Clients : srv'[d] \in {srv[d], owner[d], Nil}
    <3>1. \/ srv' = srv \/ srv' = [srv EXCEPT ![c] = owner[c]]
          \/ srv' = [srv EXCEPT ![c] = Nil]
      BY Zenon, <1>2 DEF AcquireCall, AcquireClosed, AcquireWake, AcquireTimeout,
         AcquireLookup, AcquireMissing, Pair, ReleaseReset, ReleasePooler, ReleaseState,
         RemovePooler
    <3> QED  BY Zenon, <3>1 DEF UseInv
  <2>5. \A d \in Clients : pc'[d] \in {"remove", "removing"} =>
           pc[d] \in {"remove", "removing"} /\ srv'[d] = srv[d]
    <3>1. CASE RemovePooler(c)
      BY Zenon, <3>1 DEF RemovePooler, UseInv
    <3>2. CASE ~RemovePooler(c)
      <4>1. PICK p \in {"got", "blocked", "out", "pairing", "acquire", "active", "reset",
                         "released"} : pc' = [pc EXCEPT ![c] = p]
        BY Zenon, <1>2, <3>2 DEF AcquireCall, AcquireClosed, AcquireWake,
           AcquireTimeout, AcquireLookup, AcquireMissing, Pair, ReleaseReset,
           ReleasePooler, ReleaseState
      <4>2. \A d \in Clients : d # c => srv'[d] = srv[d]
        <5>1. \/ srv' = srv \/ srv' = [srv EXCEPT ![c] = owner[c]]
              \/ srv' = [srv EXCEPT ![c] = Nil]
          BY Zenon, <1>2 DEF AcquireCall, AcquireClosed, AcquireWake, AcquireTimeout,
             AcquireLookup, AcquireMissing, Pair, ReleaseReset, ReleasePooler,
             ReleaseState, RemovePooler
        <5> QED  BY Zenon, <5>1 DEF UseInv
      <4> QED  BY Zenon, <4>1, <4>2 DEF UseInv
    <3> QED  BY Zenon, <3>1, <3>2
  <2> QED  BY Zenon, <2>1, <2>3, <2>4, <2>5, QuietMaps
<1> QED  BY Zenon, <1>1, <1>2 DEF Client

\* MapsInv is kept by every step of the pool.
LEMMA MapsStep ==
  ASSUME K!TypeOK, PoolTypes, UseInv, HandInv, MapsInv, Hands, [Next]_vars
  PROVE  MapsInv'
<1>1. ASSUME NEW t \in Learners, Admin(t) PROVE MapsInv'
  BY Zenon, <1>1, DialMaps, LearnMaps, ForgetMaps, RemovedMaps, AddedMaps DEF Admin
<1>2. CASE \/ LoopWaiting \/ LoopBackoff \/ LoopScale \/ LoopCook \/ LoopFail \/ LoopIdle
           \/ (\E s \in Conns : DownKeep(s)) \/ DownDone \/ LoopStop
           \/ CloseSignal \/ ClosePooler \/ UNCHANGED vars
  <2>1. UNCHANGED <<byID, new, apply, srv, pc>>
    BY Zenon, <1>2 DEF LoopWaiting, LoopBackoff, LoopScale, LoopCook, LoopFail,
       LoopIdle, DownKeep, DownDone, LoopStop, CloseSignal, ClosePooler, vars,
       otherVars, clientVars,
       loopVars
  <2>2. UNCHANGED <<byConn, learn>>
    BY Zenon, <1>2 DEF LoopWaiting, LoopBackoff, LoopScale, LoopCook, LoopFail,
       LoopIdle, DownKeep, DownDone, LoopStop, CloseSignal, ClosePooler, vars,
       kitchenVars, K!CookStart, K!ScoreFast, K!ScoreDial, K!ScoreDone, K!CookSort,
       K!CookSkip, K!CookAllocate, K!CookDialErr, K!CookExhausted, K!recipeVars
  <2>3. UNCHANGED poolerVars \/ P!Close
    BY Zenon, <1>2 DEF LoopWaiting, LoopBackoff, LoopScale, LoopCook, LoopFail,
       LoopIdle, DownKeep, DownDone, LoopStop, CloseSignal, ClosePooler, vars
  <2>4. \/ closing' = closing \/ (closing = "no" /\ closing' = "signalled")
        \/ (closing = "chef" /\ closing' = "pooler")
    BY Zenon, <1>2 DEF LoopWaiting, LoopBackoff, LoopScale, LoopCook, LoopFail,
       LoopIdle, DownKeep, DownDone, LoopStop, CloseSignal, ClosePooler, vars, otherVars
  <2>5. /\ closing' = "no" => closing = "no"
        /\ closing' \in {"no", "signalled", "chef"} => closing \in {"no", "signalled", "chef"}
    BY Zenon, <2>4
  <2>6. /\ servers' \subseteq servers
        /\ \A d \in Clients : \/ owner'[d] \in servers \cup {Nil}
                              \/ \E x \in Clients : owner'[d] = owner[x]
    BY Zenon, <2>3, OwnersFrom DEF UseInv
  <2> QED  BY Zenon, <2>1, <2>2, <2>5, <2>6, QuietMaps
<1>3. CASE (\E c \in Conns : LoopCooked(c)) \/ LoopAdd
  BY Zenon, <1>3, CookedMaps, LoopAddMaps
<1>4. CASE (\E s \in Conns : DownIgnite(s)) \/ CloseChef \/ CloseMaps
  BY Zenon, <1>4, DownMaps
<1> QED  BY Zenon, <1>1, <1>2, <1>3, <1>4, ClientMaps DEF Next, ScaleLoop

-----------------------------------------------------------------------------
(* The chef in the pool. *)

KP == INSTANCE KitchenProofs

\* Both instances of the chef count alike.
LEMMA SameCardinality == \A S : K!Cardinality(S) = KP!Cardinality(S)
BY Zenon DEF K!Cardinality, KP!Cardinality

\* What is proved of the chef holds of the chef in the pool.
LEMMA SameChef == (K!Init => KP!Init) /\ ([K!Next]_(K!vars) => [KP!Next]_(KP!vars))
<1>1. ASSUME NEW t \in Learners, NEW n \in Names, NEW r \in Recipes, K!LearnDial(t, n, r)
      PROVE  KP!LearnDial(t, n, r)
  BY Zenon, SameCardinality, <1>1 DEF K!LearnDial, KP!LearnDial, K!NewConns,
       KP!NewConns, K!NewRecipes, KP!NewRecipes, K!cookVars, KP!cookVars, K!Elements,
       KP!Elements
<1>2. ASSUME NEW t \in Learners, K!LearnCommit(t) PROVE KP!LearnCommit(t)
  BY Zenon, SameCardinality, <1>2 DEF K!LearnCommit, KP!LearnCommit, K!Unlocked,
       KP!Unlocked, K!ConnsOf, KP!ConnsOf, K!Overwritten, KP!Overwritten, K!NotLearning,
       KP!NotLearning, K!Remove, KP!Remove, K!IsIndex, KP!IsIndex, K!RemoveIndex,
       KP!RemoveIndex
<1>3. ASSUME NEW n \in Names, K!Forget(n) PROVE KP!Forget(n)
  BY Zenon, SameCardinality, <1>3 DEF K!Forget, KP!Forget, K!Unlocked, KP!Unlocked,
       K!ConnsOf, KP!ConnsOf, K!DropConns, KP!DropConns, K!ViewAfterRemove,
       KP!ViewAfterRemove, K!Overwritten, KP!Overwritten, K!Remove, KP!Remove,
       K!IsIndex, KP!IsIndex, K!RemoveIndex, KP!RemoveIndex, K!Elements, KP!Elements
<1>4. ASSUME NEW c \in Conns, K!Burn(c) PROVE KP!Burn(c)
  BY Zenon, <1>4 DEF K!Burn, KP!Burn, K!Unlocked, KP!Unlocked, K!Discard, KP!Discard,
       K!cookVars, KP!cookVars
<1>5. ASSUME NEW c \in Conns, K!Ignite(c) PROVE KP!Ignite(c)
  BY Zenon, <1>5 DEF K!Ignite, KP!Ignite, K!Unlocked, KP!Unlocked, K!Discard,
       KP!Discard, K!cookVars, KP!cookVars
<1>6. K!Close => KP!Close
  BY Zenon, SameCardinality DEF K!Close, KP!Close, K!Unlocked, KP!Unlocked, K!ConnsOf,
       KP!ConnsOf, K!cookVars, KP!cookVars
<1>7. K!CookStart => KP!CookStart
  BY Zenon DEF K!CookStart, KP!CookStart, K!recipeVars, KP!recipeVars
<1>8. ASSUME NEW n \in Names, K!ScoreFast(n) PROVE KP!ScoreFast(n)
  BY Zenon, <1>8 DEF K!ScoreFast, KP!ScoreFast, K!recipeVars, KP!recipeVars
<1>9. ASSUME NEW n \in Names, K!ScoreDial(n) PROVE KP!ScoreDial(n)
  BY Zenon, <1>9 DEF K!ScoreDial, KP!ScoreDial, K!recipeVars, KP!recipeVars, K!NewConns,
       KP!NewConns
<1>10. K!ScoreDone => KP!ScoreDone
  BY Zenon DEF K!ScoreDone, KP!ScoreDone, K!recipeVars, KP!recipeVars
<1>11. K!CookSort => KP!CookSort
  BY Zenon, SameCardinality DEF K!CookSort, KP!CookSort, K!Sorted, KP!Sorted, K!Rating,
       KP!Rating, K!ConnsOf, KP!ConnsOf, K!Elements, KP!Elements
<1>12. K!CookSkip => KP!CookSkip
  BY Zenon DEF K!CookSkip, KP!CookSkip, K!CanAllocate, KP!CanAllocate, K!recipeVars,
       KP!recipeVars
<1>13. K!CookAllocate => KP!CookAllocate
  BY Zenon DEF K!CookAllocate, KP!CookAllocate, K!CanAllocate, KP!CanAllocate
<1>14. ASSUME NEW c \in Conns, K!CookDialOk(c) PROVE KP!CookDialOk(c)
  BY Zenon, <1>14 DEF K!CookDialOk, KP!CookDialOk, K!NewConns, KP!NewConns,
       K!CookReturn, KP!CookReturn
<1>15. K!CookDialErr => KP!CookDialErr
  BY Zenon DEF K!CookDialErr, KP!CookDialErr, K!CookReturn, KP!CookReturn
<1>16. K!CookExhausted => KP!CookExhausted
  BY Zenon DEF K!CookExhausted, KP!CookExhausted, K!CookReturn, KP!CookReturn,
       K!recipeVars, KP!recipeVars
<1>20. K!Init => KP!Init
  BY Zenon DEF K!Init, KP!Init, K!NotLearning, KP!NotLearning
<1>21. K!Next => KP!Next
  BY Zenon, <1>1, <1>2, <1>3, <1>4, <1>5, <1>6, <1>7, <1>8, <1>9, <1>10, <1>11, <1>12,
       <1>13, <1>14, <1>15, <1>16 DEF K!Next, KP!Next, K!Cook, KP!Cook
<1>22. UNCHANGED K!vars => UNCHANGED KP!vars
  BY Zenon DEF K!vars, KP!vars, K!recipeVars, KP!recipeVars, K!cookVars, KP!cookVars
<1> QED  BY Zenon, <1>20, <1>21, <1>22


\* Every step of the pool is a step of the chef or leaves the chef alone.
LEMMA ChefStep == ASSUME UseInv, [Next]_vars PROVE [K!Next]_(K!vars)
<1>1. UNCHANGED kitchenVars => UNCHANGED K!vars
  BY Zenon DEF kitchenVars, K!vars, K!recipeVars, K!cookVars
<1>2. ASSUME NEW c \in Clients, Client(c) PROVE [K!Next]_(K!vars)
  <2>1. UNCHANGED kitchenVars \/ (Using(c) /\ K!Burn(srv[c]))
    BY Zenon, <1>2 DEF Client, AcquireCall, AcquireClosed, AcquireWake, AcquireTimeout,
       AcquireLookup, AcquireMissing, Pair, ReleaseReset, ReleasePooler, ReleaseState,
       RemoveBurn, RemovePooler, RemoveMaps, Using
  <2>2. Using(c) => srv[c] \in Conns
    BY Zenon DEF UseInv, ClientOK
  <2> QED  BY Zenon, <1>1, <2>1, <2>2 DEF K!Next
<1>3. ASSUME NEW t \in Learners, Admin(t) PROVE [K!Next]_(K!vars)
  BY Zenon, <1>1, <1>3 DEF Admin, AddRecipeDial, AddRecipeLearn, RemoveRecipe,
     ApplyRemoved, ApplyAdded, K!Next
<1>4. CASE ScaleLoop
  BY Zenon, <1>1, <1>4 DEF ScaleLoop, LoopWaiting, LoopBackoff, LoopScale, LoopCook,
     LoopCooked, LoopFail, LoopAdd, LoopIdle, DownKeep, DownIgnite, DownDone, LoopStop,
     K!Next, K!Cook
<1>5. CASE CloseSignal \/ CloseChef \/ ClosePooler \/ CloseMaps \/ UNCHANGED vars
  BY Zenon, <1>1, <1>5 DEF CloseSignal, CloseChef, ClosePooler, CloseMaps, vars, K!Next
<1> QED  BY Zenon, <1>2, <1>3, <1>4, <1>5 DEF Next

\* What the rest of the proof uses of the chef's invariant.
LEMMA ChefFacts == ASSUME KP!KitchenInv PROVE K!TypeOK /\ Hands
<1>1. K!TypeOK
  BY Zenon DEF KP!KitchenInv, KP!Books, KP!TypeOK, K!TypeOK
<1>2. Hands
  <2>1. ASSUME NEW t \in Learners, NEW c \in learn[t].added PROVE c \in open
    <3>1. c \in UNION {learn[x].added : x \in Learners}
      BY Zenon, <2>1
    <3>2. KP!NoConnLeaked
      BY Zenon DEF KP!KitchenInv
    <3> QED  BY Zenon, <3>1, <3>2 DEF KP!NoConnLeaked
  <2>2. KP!HandsApart /\ KP!LearnOK
    BY Zenon DEF KP!KitchenInv
  <2> QED  BY Zenon, <2>1, <2>2 DEF KP!HandsApart, KP!LearnOK, Hands
<1> QED  BY Zenon, <1>1, <1>2

\* The assumption of the chef on its connections.
LEMMA FiniteConns == KP!IsFiniteSet(Conns)
BY Zenon, SpoolAssumption DEF IsFiniteSet, KP!IsFiniteSet

\* The chef's invariant is kept by every step of the pool.
LEMMA ChefKept == ASSUME UseInv, KP!KitchenInv, [Next]_vars PROVE KP!KitchenInv'
<1>1. [K!Next]_(K!vars)
  BY Zenon, ChefStep
<1>2. [KP!Next]_(KP!vars)
  BY Zenon, <1>1, SameChef
<1> QED  BY Zenon, <1>2, KP!KitchenStep, FiniteConns, SpoolAssumption

-----------------------------------------------------------------------------
(* The pool. *)

\* The inductive invariant.
SpoolInv ==
  /\ KP!KitchenInv
  /\ UseInv
  /\ PoolTypes
  /\ HandInv
  /\ MapsInv

\* The pool is right before the first call.
LEMMA SpoolInitially == Init => SpoolInv
<1> SUFFICES ASSUME Init PROVE SpoolInv
  BY Zenon
<1>1. KP!KitchenInv
  <2>1. KP!Init
    BY Zenon, SameChef DEF Init
  <2> QED  BY Zenon, <2>1, KP!KitchenInitially, FiniteConns, SpoolAssumption
<1>2. UseInv
  <2>1. PP!PoolerInv
    <3>1. PP!Init
      BY Zenon DEF Init, P!Init, PP!Init
    <3> QED  BY Zenon, <3>1, PP!PoolerInitially
  <2>2. P!PoolerInv
    BY Zenon, <2>1 DEF P!PoolerInv, P!TypeOK, P!Exclusive, P!Conserved,
       P!WorkConserving, P!Consistent, PP!PoolerInv, PP!TypeOK, PP!Exclusive,
       PP!Conserved, PP!WorkConserving, PP!Consistent
  <2>3. pc \in [Clients -> Places] /\ srv \in [Clients -> Conns \cup {Nil}]
    BY Zenon DEF Init, Places
  <2>4. ASSUME NEW c \in Clients PROVE ClientOK(c)
    BY Zenon DEF Init, P!Init, ClientOK, Using
  <2> QED  BY Zenon, <2>2, <2>3, <2>4 DEF UseInv
<1>3. PoolTypes
  BY Zenon DEF Init, PoolTypes, NoChange
<1>4. HandInv
  BY Zenon DEF Init, HandInv
<1>5. MapsInv
  <2>1. ASSUME NEW t \in Learners
        PROVE  learn[t].added = {} /\ learn[t].recipe = Nil /\ apply[t].removed = {}
    BY Zenon DEF Init, K!Init, K!NotLearning, NoChange
  <2>2. Fresh /\ Applied
    BY Zenon, <2>1 DEF Fresh, Applied
  <2>3. \A c \in Clients : pc[c] = "out"
    BY Zenon DEF Init
  <2>4. Leaving
    BY Zenon, <2>1, <2>3 DEF Leaving
  <2>5. NoOrphan /\ PoolerKnown
    BY Zenon DEF Init, K!Init, P!Init, NoOrphan, PoolerKnown
  <2> QED  BY Zenon, <2>2, <2>4, <2>5 DEF MapsInv
<1> QED  BY Zenon, <1>1, <1>2, <1>3, <1>4, <1>5 DEF SpoolInv

\* Only ScaleUp takes a connection in hand, and it lets it go.
LEMMA HandStep == ASSUME HandInv, [Next]_vars PROVE HandInv'
<1>1. CASE ScaleLoop
  <2>1. CASE \E c \in Conns : LoopCooked(c)
    BY Zenon, <2>1, NilApart DEF LoopCooked, HandInv
  <2>2. CASE LoopAdd
    BY Zenon, <2>2 DEF LoopAdd, HandInv
  <2>3. CASE ~LoopAdd /\ ~(\E c \in Conns : LoopCooked(c))
    <3>1. new' = new /\ (loop' = loop \/ (loop # "add" /\ loop' # "add"))
      BY Zenon, <1>1, <2>3 DEF ScaleLoop, LoopWaiting, LoopBackoff, LoopScale, LoopCook,
         LoopFail, LoopIdle, DownKeep, DownIgnite, DownDone, LoopStop, loopVars
    <3> QED  BY Zenon, <3>1 DEF HandInv
  <2> QED  BY Zenon, <2>1, <2>2, <2>3
<1>2. ASSUME NEW c \in Clients, Client(c) PROVE HandInv'
  <2>1. new' = new /\ (loop' = loop \/ (loop = "select" /\ loop' = "scale"))
    BY Zenon, <1>2 DEF Client, AcquireCall, AcquireClosed, AcquireWake, AcquireTimeout,
       AcquireLookup, AcquireMissing, Pair, ReleaseReset, ReleasePooler, ReleaseState,
       RemoveBurn, RemovePooler, RemoveMaps, loopVars
  <2> QED  BY Zenon, <2>1 DEF HandInv
<1>3. CASE (\E t \in Learners : Admin(t)) \/ CloseSignal \/ CloseChef \/ ClosePooler
           \/ CloseMaps \/ UNCHANGED vars
  <2>1. UNCHANGED <<new, loop>>
    BY Zenon, <1>3 DEF Admin, AddRecipeDial, AddRecipeLearn, RemoveRecipe, ApplyRemoved,
       ApplyAdded, CloseSignal, CloseChef, ClosePooler, CloseMaps, vars, loopVars
  <2> QED  BY Zenon, <2>1 DEF HandInv
<1> QED  BY Zenon, <1>1, <1>2, <1>3 DEF Next

\* SpoolInv is inductive.
LEMMA SpoolStep == SpoolInv /\ [Next]_vars => SpoolInv'
<1> SUFFICES ASSUME SpoolInv, [Next]_vars PROVE SpoolInv'
  BY Zenon
<1>1. KP!KitchenInv /\ UseInv /\ PoolTypes /\ HandInv /\ MapsInv
  BY Zenon DEF SpoolInv
<1>2. K!TypeOK /\ Hands
  BY Zenon, <1>1, ChefFacts
<1>3. TypeOK
  BY Zenon, <1>1, <1>2, TypesOf
<1>4. KP!KitchenInv'
  BY Zenon, <1>1, ChefKept
<1>5. UseInv'
  BY Zenon, <1>1, <1>3, UseStep
<1>6. PoolTypes' /\ HandInv'
  BY Zenon, <1>1, <1>2, TypesStep, HandStep
<1>7. MapsInv'
  BY Zenon, <1>1, <1>2, MapsStep
<1> QED  BY Zenon, <1>4, <1>5, <1>6, <1>7 DEF SpoolInv

\* Two clients never work on one server, whatever changes of recipes, the scale
\* loop, failed servers and Close do in between: who uses a server owns it in the
\* pooler from Acquire to Release.
THEOREM SpoolNotShared == Spec => []NotShared
<1>1. SpoolInv => NotShared
  <2> SUFFICES ASSUME SpoolInv, NEW c \in Clients, NEW d \in Clients, Using(c), Using(d),
                      srv[c] = srv[d]
               PROVE  c = d
    BY Zenon DEF NotShared
  <2>1. ClientOK(c) /\ ClientOK(d) /\ P!Exclusive
    BY Zenon DEF SpoolInv, UseInv, P!PoolerInv
  <2> QED  BY Zenon, <2>1 DEF ClientOK, P!Exclusive
<1> QED  BY SpoolInitially, SpoolStep, <1>1, PTL DEF Spec

\* What the chef has counted is in the maps or about to be entered, and what the
\* pooler can hand out is in the maps, in every interleaving of AddRecipe,
\* RemoveRecipe, ScaleUp, ScaleDown, RemoveServer and Close.
THEOREM SpoolMapsAgree == Spec => []MapsAgree
<1>1. SpoolInv => MapsAgree
  <2> SUFFICES ASSUME SpoolInv PROVE MapsAgree
    BY Zenon
  <2>1. KP!KitchenInv /\ UseInv /\ PoolTypes /\ MapsInv
    BY Zenon DEF SpoolInv
  <2>2. TypeOK
    BY Zenon, <2>1, ChefFacts, TypesOf
  <2> QED  BY Zenon, <2>1, <2>2 DEF MapsInv, MapsAgree
<1> QED  BY SpoolInitially, SpoolStep, <1>1, PTL DEF Spec

\* Over a pooler whose waiting channel has room for a signal, as rob's has, and
\* with a backoff that is not zero, the scale loop never sleeps in its select
\* with a client waiting and nothing to wake it.
THEOREM SpoolNoSilentWaiter ==
  ASSUME Buffered = TRUE, InitialTime # 0, MaxTime # 0
  PROVE  Spec => []NoSilentWaiter
<1>1. Init => WakeInv
  BY Zenon DEF Init, P!Init, WakeInv
<1>2. SpoolInv /\ WakeInv /\ [Next]_vars => WakeInv'
  BY Zenon, WakeStep DEF SpoolInv
<1>3. WakeInv => NoSilentWaiter
  BY Zenon DEF WakeInv, NoSilentWaiter
<1> QED  BY SpoolInitially, SpoolStep, <1>1, <1>2, <1>3, PTL DEF Spec

\* The pooler keeps its promises although the pool deletes servers that a client
\* owns and will not release.
THEOREM SpoolKeepsPooler == Spec => []P!PoolerInv
<1>1. SpoolInv => P!PoolerInv
  BY Zenon DEF SpoolInv, UseInv
<1> QED  BY SpoolInitially, SpoolStep, <1>1, PTL DEF Spec

\* The chef in the pool behaves as Kitchen specifies, so that what is proved of
\* Kitchen holds of it: its callers keep to what Kitchen expects of them.
THEOREM SpoolImplementsKitchen == Spec => K!Spec
<1>1. Init => K!Init
  BY Zenon DEF Init
<1>2. SpoolInv /\ [Next]_vars => [K!Next]_(K!vars)
  BY Zenon, ChefStep DEF SpoolInv
<1> QED  BY SpoolInitially, SpoolStep, <1>1, <1>2, PTL DEF Spec, K!Spec

=============================================================================
