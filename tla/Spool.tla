------------------------------- MODULE Spool -------------------------------
(***************************************************************************)
(* lib/gat/handlers/pool/spool: the server pool.  It composes the chef     *)
(* (Kitchen) with a pooler (Pooler), and adds the maps of servers, the     *)
(* state of a server, and the scale loop.                                  *)
(*                                                                         *)
(* Goroutines: one per client, one per caller of AddRecipe and             *)
(* RemoveRecipe, the scale loop, and whoever closes the pool.  A step is   *)
(* what one goroutine does under one mutex: Chef.mu, the pooler's mutex or *)
(* Pool.mu.  ScaleDown and the changes of recipes hold Pool.mu over many   *)
(* steps; mu is who holds it between steps.                                *)
(*                                                                         *)
(* A server has the one connection it was made for, so that a server, its  *)
(* id and its connection are one value here.                               *)
(***************************************************************************)
EXTENDS Integers, Sequences, FiniteSets

CONSTANTS
  Names, Recipes, Conns, Learners, Nil, Critics, MinConns, MaxConns,
  Priority, Scores, MaxInt,
  Clients,
  Buffered,      \* the waiting channel of the pooler: rob makes it with room
                 \* for one signal, lifo without a buffer
  ResetQuery,    \* TRUE iff a reset query is configured
  InitialTime,   \* ReconnectInitialTime
  MaxTime        \* ReconnectMaxTime

ASSUME SpoolAssumption ==
  /\ Nil \notin Names \cup Recipes \cup Conns
  /\ IsFiniteSet(Conns)
  /\ Critics \in BOOLEAN
  /\ MinConns \in Nat /\ MaxConns \in Nat
  /\ MaxConns = 0 \/ MinConns <= MaxConns
  /\ Priority \in [Recipes -> Int]
  /\ Scores \subseteq Int /\ 0 \in Scores
  /\ MaxInt \in Int
  /\ Buffered \in BOOLEAN
  /\ InitialTime \in Nat /\ MaxTime \in Nat

VARIABLES byName, byConn, order, count, score, rated, open, learn,
          cpc, todo, taster, cur, view, shared, idx

VARIABLES closed, servers, idle, waiters, owner

VARIABLES
  byID,      \* serversByID and serversByConn
  state,     \* Server.state
  mu,        \* who holds Pool.mu
  apply,     \* connections a recipe change has still to remove and to add
  pc,        \* where a client stands
  srv,       \* the server a client works on
  signal,    \* the waiting channel holds a signal
  loop,      \* where ScaleLoop stands
  new,       \* the connection ScaleUp got from Cook
  down,      \* servers ScaleDown has not looked at
  backoff,   \* backoffAmount
  armed,     \* the backoff timer is running
  closing    \* how far Close has come

K == INSTANCE Kitchen

P == INSTANCE Pooler WITH Servers <- Conns

kitchenVars == <<byName, byConn, order, count, score, rated, open, learn,
                 cpc, todo, taster, cur, view, shared, idx>>
poolerVars == <<closed, servers, idle, waiters, owner>>
clientVars == <<pc, srv>>
loopVars == <<loop, new, down, backoff, armed>>
vars == <<kitchenVars, poolerVars, byID, state, mu, apply, clientVars, signal,
          loopVars, closing>>

NoChange == [removed |-> {}, added |-> {}]

TypeOK ==
  /\ K!TypeOK
  /\ P!TypeOK
  /\ byID \in SUBSET Conns
  /\ state \in [Conns -> {"idle", "pairing", "active", "reset"}]
  /\ mu \in Learners \cup {"loop", Nil}
  /\ apply \in [Learners -> [removed : SUBSET Conns, added : SUBSET Conns]]
  /\ pc \in [Clients -> {"out", "acquire", "blocked", "got", "pairing", "active",
                         "reset", "released", "remove", "removing"}]
  /\ srv \in [Clients -> Conns \cup {Nil}]
  /\ signal \in BOOLEAN
  /\ loop \in {"select", "scale", "cook", "add", "down", "stopped"}
  /\ new \in Conns \cup {Nil}
  /\ down \in SUBSET Conns
  /\ backoff \in Nat
  /\ armed \in BOOLEAN
  /\ closing \in {"no", "signalled", "chef", "pooler", "done"}

Init ==
  /\ K!Init
  /\ P!Init
  /\ byID = {}
  /\ state = [c \in Conns |-> "idle"]
  /\ mu = Nil
  /\ apply = [t \in Learners |-> NoChange]
  /\ pc = [c \in Clients |-> "out"]
  /\ srv = [c \in Clients |-> Nil]
  /\ signal = FALSE
  /\ loop = "select"
  /\ new = Nil
  /\ down = {}
  /\ backoff = 0
  /\ armed = FALSE
  /\ closing = "no"

-----------------------------------------------------------------------------
\* Pool.mu can be taken.
Unlocked == mu = Nil

\* Connections the pool still refers to: a new one is none of these.
Referenced ==
  byID \cup servers \cup {owner[c] : c \in Clients} \cup {srv[c] : c \in Clients}
  \cup {new} \cup UNION {apply[t].removed \cup apply[t].added : t \in Learners}

\* pooler.AddServer.  After Close, lifo still takes the server, rob does not.
PoolAdd(s) == P!AddServer(s) \/ (closed /\ UNCHANGED poolerVars)

-----------------------------------------------------------------------------
\* AddRecipe: Learn, then the servers it removed and added.
AddRecipeDial(t, n, r) ==
  /\ apply[t] = NoChange
  /\ K!LearnDial(t, n, r)
  /\ (open' \ open) \cap Referenced = {}
  /\ UNCHANGED <<mu, poolerVars, byID, state, apply, clientVars, signal, loopVars,
                 closing>>

AddRecipeLearn(t) ==
  /\ K!LearnCommit(t)
  /\ LET old == byName[learn[t].name]
     IN  apply' = [apply EXCEPT ![t] =
                     [removed |-> IF old = Nil THEN {} ELSE K!ConnsOf(old),
                      added |-> learn[t].added]]
  /\ UNCHANGED <<mu, poolerVars, byID, state, clientVars, signal, loopVars, closing>>

RemoveRecipe(t, n) ==
  /\ apply[t] = NoChange /\ learn[t] = K!NotLearning
  /\ K!Forget(n)
  /\ apply' = [apply EXCEPT ![t] =
                 [removed |-> K!ConnsOf(byName[n]), added |-> {}]]
  /\ UNCHANGED <<mu, poolerVars, byID, state, clientVars, signal, loopVars, closing>>

\* t holds Pool.mu until nothing is left to apply.
HoldMu(t) ==
  /\ mu \in {Nil, t}
  /\ mu' = IF apply'[t] = NoChange THEN Nil ELSE t

\* Mutant: the pooler keeps the server.
ApplyRemovedFromMaps(t) ==
  /\ \E s \in apply[t].removed :
       /\ apply' = [apply EXCEPT ![t].removed = @ \ {s}]
       /\ byID' = byID \ {s}
  /\ HoldMu(t)
  /\ UNCHANGED <<kitchenVars, poolerVars, state, clientVars, signal, loopVars,
                 closing>>

\* removeServer, a no-op for a connection without a server.
ApplyRemoved(t) ==
  /\ \E s \in apply[t].removed :
       /\ apply' = [apply EXCEPT ![t].removed = @ \ {s}]
       /\ byID' = byID \ {s}
       /\ IF s \in byID THEN P!DeleteServer(s) ELSE UNCHANGED poolerVars
  /\ HoldMu(t)
  /\ UNCHANGED <<kitchenVars, state, clientVars, signal, loopVars, closing>>

\* addServer.
ApplyAdded(t) ==
  /\ apply[t].removed = {}
  /\ \E s \in apply[t].added :
       /\ apply' = [apply EXCEPT ![t].added = @ \ {s}]
       /\ byID' = byID \cup {s}
       /\ state' = [state EXCEPT ![s] = "idle"]
       /\ PoolAdd(s)
  /\ HoldMu(t)
  /\ UNCHANGED <<kitchenVars, clientVars, signal, loopVars, closing>>

-----------------------------------------------------------------------------
\* The loop of Acquire calls pooler.Acquire.  A client that has to wait
\* signals; without a buffer the signal is lost unless the scale loop is in
\* its select at that moment.
AcquireCall(c) ==
  /\ pc[c] \in {"out", "acquire"}
  /\ P!Acquire(c)
  /\ \/ /\ owner'[c] # Nil
        /\ pc' = [pc EXCEPT ![c] = "got"]
        /\ UNCHANGED <<signal, loop>>
     \/ /\ owner'[c] = Nil
        /\ pc' = [pc EXCEPT ![c] = "blocked"]
        /\ signal' = Buffered
        /\ loop' = IF ~Buffered /\ loop = "select" /\ backoff = 0
                   THEN "scale" ELSE loop
  /\ UNCHANGED <<mu, kitchenVars, byID, state, apply, srv, new, down, backoff,
                 armed, closing>>

\* pooler.Acquire returns at once because the pooler is closed.
AcquireClosed(c) ==
  /\ pc[c] = "acquire"
  /\ closed
  /\ pc' = [pc EXCEPT ![c] = "out"]
  /\ UNCHANGED <<mu, kitchenVars, poolerVars, byID, state, apply, srv, signal,
                 loopVars, closing>>

\* A blocked Acquire returns with the server, or empty-handed after a Close.
AcquireWake(c) ==
  /\ pc[c] = "blocked" /\ c \notin waiters
  /\ pc' = [pc EXCEPT ![c] = IF owner[c] # Nil THEN "got" ELSE "out"]
  /\ UNCHANGED <<mu, kitchenVars, poolerVars, byID, state, apply, srv, signal,
                 loopVars, closing>>

AcquireTimeout(c) ==
  /\ pc[c] = "blocked"
  /\ P!GiveUp(c)
  /\ pc' = [pc EXCEPT ![c] = "out"]
  /\ UNCHANGED <<mu, kitchenVars, byID, state, apply, srv, signal, loopVars, closing>>

\* The id is looked up under Pool.mu.
AcquireLookup(c) ==
  /\ Unlocked
  /\ pc[c] = "got"
  /\ owner[c] \in byID
  /\ state' = [state EXCEPT ![owner[c]] = "pairing"]
  /\ srv' = [srv EXCEPT ![c] = owner[c]]
  /\ pc' = [pc EXCEPT ![c] = "pairing"]
  /\ UNCHANGED <<mu, kitchenVars, poolerVars, byID, apply, signal, loopVars, closing>>

\* pooler.DeleteServer by the client that owns s and will not release it.
Abandon(c, s) ==
  /\ servers' = servers \ {s}
  /\ idle' = idle \ {s}
  /\ owner' = [owner EXCEPT ![c] = Nil]
  /\ UNCHANGED <<closed, waiters>>

\* The server is gone: delete it from the pooler and acquire again.
AcquireMissing(c) ==
  /\ Unlocked
  /\ pc[c] = "got"
  /\ owner[c] \notin byID
  /\ Abandon(c, owner[c])
  /\ pc' = [pc EXCEPT ![c] = "acquire"]
  /\ UNCHANGED <<mu, kitchenVars, byID, state, apply, srv, signal, loopVars, closing>>

\* The pool above sets the server active (basic.Pool.pair).
Pair(c) ==
  /\ pc[c] = "pairing"
  /\ pc' = [pc EXCEPT ![c] = "active"]
  /\ state' = [state EXCEPT ![srv[c]] = "active"]
  /\ UNCHANGED <<mu, kitchenVars, poolerVars, byID, apply, srv, signal, loopVars,
                 closing>>

\* Mutant: the server goes back to the pooler before the reset query runs.
ReleaseResetLast(c) ==
  /\ ResetQuery
  /\ pc[c] \in {"pairing", "active"}
  /\ P!Release(c)
  /\ pc' = [pc EXCEPT ![c] = "reset"]
  /\ state' = [state EXCEPT ![srv[c]] = "reset"]
  /\ UNCHANGED <<mu, kitchenVars, byID, apply, srv, signal, loopVars, closing>>

\* Release with a reset query: the state changes before the query runs.
ReleaseReset(c) ==
  /\ ResetQuery
  /\ pc[c] \in {"pairing", "active"}
  /\ pc' = [pc EXCEPT ![c] = "reset"]
  /\ state' = [state EXCEPT ![srv[c]] = "reset"]
  /\ UNCHANGED <<mu, kitchenVars, poolerVars, byID, apply, srv, signal, loopVars,
                 closing>>

\* Release gives the server back to the pooler.
ReleasePooler(c) ==
  /\ pc[c] \in IF ResetQuery THEN {"reset"} ELSE {"pairing", "active"}
  /\ P!Release(c)
  /\ pc' = [pc EXCEPT ![c] = "released"]
  /\ UNCHANGED <<mu, kitchenVars, byID, state, apply, srv, signal, loopVars, closing>>

\* The last line of Release, after the pooler may have passed the server on.
ReleaseState(c) ==
  /\ pc[c] = "released"
  /\ state' = [state EXCEPT ![srv[c]] = "idle"]
  /\ srv' = [srv EXCEPT ![c] = Nil]
  /\ pc' = [pc EXCEPT ![c] = "out"]
  /\ UNCHANGED <<mu, kitchenVars, poolerVars, byID, apply, signal, loopVars, closing>>

\* RemoveServer after an error of the server or of its reset query: Burn,
\* which does nothing when the chef does not know the connection, ...
RemoveBurn(c) ==
  /\ pc[c] \in {"pairing", "active", "reset"}
  /\ K!Unlocked
  /\ IF byConn[srv[c]] # Nil THEN K!Burn(srv[c]) ELSE UNCHANGED kitchenVars
  /\ pc' = [pc EXCEPT ![c] = "remove"]
  /\ UNCHANGED <<mu, poolerVars, byID, state, apply, srv, signal, loopVars, closing>>

\* ... pooler.DeleteServer, ...
RemovePooler(c) ==
  /\ pc[c] = "remove"
  /\ Abandon(c, srv[c])
  /\ pc' = [pc EXCEPT ![c] = "removing"]
  /\ UNCHANGED <<mu, kitchenVars, byID, state, apply, srv, signal, loopVars, closing>>

\* ... and the maps, with a second pooler.DeleteServer.
RemoveMaps(c) ==
  /\ Unlocked
  /\ pc[c] = "removing"
  /\ byID' = byID \ {srv[c]}
  /\ P!DeleteServer(srv[c])
  /\ srv' = [srv EXCEPT ![c] = Nil]
  /\ pc' = [pc EXCEPT ![c] = "out"]
  /\ UNCHANGED <<mu, kitchenVars, state, apply, signal, loopVars, closing>>

-----------------------------------------------------------------------------
otherVars == <<byID, state, apply, clientVars, closing>>

\* The select of ScaleLoop receives from Waiting().
LoopWaiting ==
  /\ loop = "select" /\ signal
  /\ signal' = FALSE
  /\ loop' = IF backoff # 0 THEN "select" ELSE "scale"
  /\ UNCHANGED <<mu, kitchenVars, poolerVars, otherVars, new, down, backoff, armed>>

LoopBackoff ==
  /\ loop = "select" /\ armed
  /\ armed' = FALSE
  /\ loop' = IF backoff = 0 THEN "select" ELSE "scale"
  /\ UNCHANGED <<mu, kitchenVars, poolerVars, otherVars, signal, new, down, backoff>>

\* for Waiters() > 0: scale up, ...
LoopScale ==
  /\ loop = "scale"
  /\ \/ /\ waiters # {}
        /\ K!CookStart
        /\ loop' = "cook"
        /\ UNCHANGED backoff
     \/ /\ waiters = {}
        /\ loop' = "select"
        /\ backoff' = 0
        /\ UNCHANGED kitchenVars
  /\ UNCHANGED <<mu, poolerVars, otherVars, signal, new, down, armed>>

LoopCook ==
  /\ loop = "cook"
  /\ \/ (\E n \in Names : K!ScoreFast(n) \/ K!ScoreDial(n)) \/ K!ScoreDone
     \/ K!CookSort \/ K!CookSkip \/ K!CookAllocate
     \/ K!CookDialErr /\ cpc' = "loop"
  /\ (open' \ open) \cap Referenced = {}
  /\ UNCHANGED <<mu, poolerVars, otherVars, signal, loopVars>>

LoopCooked(c) ==
  /\ loop = "cook"
  /\ c \notin Referenced
  /\ K!CookDialOk(c)
  /\ new' = c
  /\ loop' = "add"
  /\ UNCHANGED <<mu, poolerVars, otherVars, signal, down, backoff, armed>>

\* Mutant: the timer is not started.
LoopFailUnarmed ==
  /\ loop = "cook"
  /\ (K!CookDialErr /\ cpc' = "idle") \/ K!CookExhausted
  /\ backoff' = IF backoff = 0 THEN InitialTime ELSE 2 * backoff
  /\ loop' = "select"
  /\ UNCHANGED <<mu, poolerVars, otherVars, signal, new, down, armed>>

\* ... until Cook fails: start to back off, or back off further.
LoopFail ==
  /\ loop = "cook"
  /\ (K!CookDialErr /\ cpc' = "idle") \/ K!CookExhausted
  /\ backoff' = IF backoff = 0 THEN InitialTime
                ELSE IF MaxTime < 2 * backoff THEN MaxTime ELSE 2 * backoff
  /\ armed' = (backoff' # 0)
  /\ loop' = "select"
  /\ UNCHANGED <<mu, poolerVars, otherVars, signal, new, down>>

\* The rest of ScaleUp.
LoopAdd ==
  /\ Unlocked
  /\ loop = "add"
  /\ byID' = byID \cup {new}
  /\ state' = [state EXCEPT ![new] = "idle"]
  /\ PoolAdd(new)
  /\ new' = Nil
  /\ loop' = "scale"
  /\ UNCHANGED <<mu, kitchenVars, apply, clientVars, closing, signal, down, backoff,
                 armed>>

\* The idle timer fires: ScaleDown takes Pool.mu and looks at every server.
LoopIdle ==
  /\ loop = "select"
  /\ loop' = "down"
  /\ Unlocked
  /\ mu' = "loop"
  /\ down' = byID
  /\ UNCHANGED <<kitchenVars, poolerVars, otherVars, signal, new, backoff, armed>>

\* A server that is not idle, not idle for long enough, or that the chef keeps.
DownKeep(s) ==
  /\ loop = "down" /\ s \in down
  /\ down' = down \ {s}
  /\ UNCHANGED <<mu, kitchenVars, poolerVars, otherVars, signal, loop, new, backoff,
                 armed>>

\* A server that has been idle for longer than IdleTimeout.  A client that the
\* pooler gives s to in between waits for Pool.mu and then finds s gone.
DownIgnite(s) ==
  /\ loop = "down" /\ s \in down
  /\ state[s] = "idle"
  /\ K!Ignite(s)
  /\ down' = down \ {s}
  /\ byID' = byID \ {s}
  /\ P!DeleteServer(s)
  /\ UNCHANGED <<mu, state, apply, clientVars, closing, signal, loop, new, backoff,
                 armed>>

DownDone ==
  /\ loop = "down" /\ down = {}
  /\ loop' = "select"
  /\ mu' = Nil
  /\ UNCHANGED <<kitchenVars, poolerVars, otherVars, signal, new, down, backoff,
                 armed>>

LoopStop ==
  /\ loop = "select" /\ closing # "no"
  /\ loop' = "stopped"
  /\ UNCHANGED <<mu, kitchenVars, poolerVars, otherVars, signal, new, down, backoff,
                 armed>>

-----------------------------------------------------------------------------
\* Close: stop the loop, close the chef, close the pooler, clear the maps.
CloseSignal ==
  /\ closing = "no"
  /\ closing' = "signalled"
  /\ UNCHANGED <<mu, kitchenVars, poolerVars, byID, state, apply, clientVars, signal,
                 loopVars>>

CloseChef ==
  /\ closing = "signalled"
  /\ K!Close
  /\ closing' = "chef"
  /\ UNCHANGED <<mu, poolerVars, byID, state, apply, clientVars, signal, loopVars>>

ClosePooler ==
  /\ closing = "chef"
  /\ P!Close
  /\ closing' = "pooler"
  /\ UNCHANGED <<mu, kitchenVars, byID, state, apply, clientVars, signal, loopVars>>

CloseMaps ==
  /\ Unlocked
  /\ closing = "pooler"
  /\ byID' = {}
  /\ closing' = "done"
  /\ UNCHANGED <<mu, kitchenVars, poolerVars, state, apply, clientVars, signal,
                 loopVars>>

Client(c) ==
  \/ AcquireCall(c) \/ AcquireClosed(c) \/ AcquireWake(c) \/ AcquireTimeout(c)
  \/ AcquireLookup(c) \/ AcquireMissing(c) \/ Pair(c)
  \/ ReleaseReset(c) \/ ReleasePooler(c) \/ ReleaseState(c)
  \/ RemoveBurn(c) \/ RemovePooler(c) \/ RemoveMaps(c)

ScaleLoop ==
  \/ LoopWaiting \/ LoopBackoff \/ LoopScale \/ LoopCook
  \/ (\E c \in Conns : LoopCooked(c)) \/ LoopFail \/ LoopAdd
  \/ LoopIdle \/ (\E s \in Conns : DownKeep(s) \/ DownIgnite(s)) \/ DownDone
  \/ LoopStop

Admin(t) ==
  \/ \E n \in Names, r \in Recipes : AddRecipeDial(t, n, r)
  \/ AddRecipeLearn(t) \/ ApplyRemoved(t) \/ ApplyAdded(t)
  \/ \E n \in Names : RemoveRecipe(t, n)

Next ==
  \/ \E c \in Clients : Client(c)
  \/ \E t \in Learners : Admin(t)
  \/ ScaleLoop
  \/ CloseSignal \/ CloseChef \/ ClosePooler \/ CloseMaps

Spec == Init /\ [][Next]_vars

-----------------------------------------------------------------------------
\* Servers a client has been given by Acquire and has not given back.
Using(c) == pc[c] \in {"pairing", "active", "reset"}

\* Two clients never work on one server, whatever the recipes, the scale loop
\* and failed servers do in between.
NotShared ==
  \A c, d \in Clients : Using(c) /\ Using(d) /\ srv[c] = srv[d] => c = d

\* A connection that takes a place of its recipe is of use: it is in the maps,
\* or the goroutine that dialled it is about to enter it.
NoOrphan ==
  closing = "no" =>
    \A s \in Conns : byConn[s] # Nil =>
      s \in byID \cup {new} \cup UNION {apply[t].added : t \in Learners}

\* What the pooler can hand out is in the maps, so that Acquire finds it.
PoolerKnown == closing \in {"no", "signalled", "chef"} => servers \subseteq byID

\* Chef, maps and pooler agree on the servers there are: what the chef has counted
\* is in the maps, and what the pooler hands out is in the maps.
MapsAgree == TypeOK /\ NoOrphan /\ PoolerKnown

\* "Waiting is signalled when a client begins waiting": the scale loop does not
\* sit in its select while a client waits, unless a signal or the backoff timer
\* is about to wake it.
NoSilentWaiter ==
  loop = "select" /\ waiters # {} => signal \/ armed

\* "ServerIdleTimeout defines how long a server may be idle before it is
\* disconnected": ScaleDown does not disconnect a server that a client uses.
OnlyIdleIgnited ==
  [][\A s \in Conns : DownIgnite(s) =>
       \A c \in Clients : ~(Using(c) /\ srv[c] = s)]_vars

=============================================================================
