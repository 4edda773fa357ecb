------------------------------- MODULE Pooler -------------------------------
(***************************************************************************)
(* What the Pooler interface promises to a pool                            *)
(* (lib/gat/handlers/pool/pooler.go): which client has which server, seen  *)
(* from outside.  The two implementations, lifo.Pooler and the rob         *)
(* scheduler, are shown to implement this specification by LifoPooler and  *)
(* RobScheduler.                                                           *)
(*                                                                         *)
(* A client owns a server from the moment the pooler commits it to that    *)
(* client, which for a blocked Acquire is before Acquire returns.          *)
(***************************************************************************)
CONSTANTS Clients, Servers, Nil

VARIABLES
  closed,
  servers,   \* servers added and not deleted
  idle,      \* servers free to be acquired
  waiters,   \* clients that wait for a server
  owner      \* the server a client owns, or Nil

vars == <<closed, servers, idle, waiters, owner>>

TypeOK ==
  /\ closed \in BOOLEAN
  /\ servers \in SUBSET Servers
  /\ idle \in SUBSET Servers
  /\ waiters \in SUBSET Clients
  /\ owner \in [Clients -> Servers \cup {Nil}]

Init ==
  /\ closed = FALSE
  /\ servers = {}
  /\ idle = {}
  /\ waiters = {}
  /\ owner = [c \in Clients |-> Nil]

\* A server becomes available: it goes to a waiter if there is one, or else it
\* is idle.  own is who owns what by then.
Place(s, own) ==
  \/ /\ waiters = {}
     /\ idle' = idle \cup {s}
     /\ owner' = own
     /\ UNCHANGED waiters
  \/ \E c \in waiters :
       /\ waiters' = waiters \ {c}
       /\ owner' = [own EXCEPT ![c] = s]
       /\ UNCHANGED idle

\* Servers have fresh ids.
AddServer(s) ==
  /\ s \notin servers
  /\ \A c \in Clients : owner[c] # s
  /\ servers' = servers \cup {s}
  /\ Place(s, owner)
  /\ UNCHANGED closed

DeleteServer(s) ==
  /\ servers' = servers \ {s}
  /\ idle' = idle \ {s}
  /\ UNCHANGED <<closed, waiters, owner>>

Acquire(c) ==
  /\ ~closed
  /\ owner[c] = Nil /\ c \notin waiters
  /\ \/ \E s \in idle :
          /\ idle' = idle \ {s}
          /\ owner' = [owner EXCEPT ![c] = s]
          /\ UNCHANGED waiters
     \/ /\ idle = {}
        /\ waiters' = waiters \cup {c}
        /\ UNCHANGED <<idle, owner>>
  /\ UNCHANGED <<closed, servers>>

\* A waiter times out, or its client is deleted.
GiveUp(c) ==
  /\ c \in waiters
  /\ waiters' = waiters \ {c}
  /\ UNCHANGED <<closed, servers, idle, owner>>

Release(c) ==
  /\ owner[c] # Nil
  /\ LET own == [owner EXCEPT ![c] = Nil]
     IN  \/ /\ owner[c] \in servers
            /\ Place(owner[c], own)
         \/ /\ owner[c] \notin servers
            /\ owner' = own
            /\ UNCHANGED <<idle, waiters>>
  /\ UNCHANGED <<closed, servers>>

Close ==
  /\ closed' = TRUE
  /\ servers' = {}
  /\ idle' = {}
  /\ waiters' = {}
  /\ UNCHANGED owner

Next ==
  \/ \E s \in Servers : AddServer(s) \/ DeleteServer(s)
  \/ \E c \in Clients : Acquire(c) \/ GiveUp(c) \/ Release(c)
  \/ Close

Spec == Init /\ [][Next]_vars

-----------------------------------------------------------------------------
\* A server has at most one owner, and none while it is idle: two clients on
\* one connection would read each other's rows.
Exclusive ==
  /\ \A c, d \in Clients : owner[c] # Nil /\ owner[c] = owner[d] => c = d
  /\ \A c \in Clients : owner[c] \notin idle

\* A server that is still in the pooler is idle or somebody's: none leaks.
Conserved == \A s \in servers : s \in idle \/ \E c \in Clients : owner[c] = s

\* Nobody waits while a server is idle.
WorkConserving == waiters # {} => idle = {}

\* A deleted server is never handed out again, and a client that owns a server
\* is not queued for another one.
Consistent ==
  /\ idle \subseteq servers
  /\ \A c \in waiters : owner[c] = Nil

PoolerInv == TypeOK /\ Exclusive /\ Conserved /\ WorkConserving /\ Consistent

=============================================================================
