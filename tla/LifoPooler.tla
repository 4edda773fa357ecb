----------------------------- MODULE LifoPooler -----------------------------
(***************************************************************************)
(* lib/gat/handlers/pool/poolers/lifo/pooler.go: the default pooler.  The  *)
(* idle server released last is acquired first; blocked clients are served *)
(* first come, first served.                                               *)
(*                                                                         *)
(* Every method runs under one mutex except the select of a blocked        *)
(* Acquire.  Whether a sender of the waiting signal finds a receiver is    *)
(* the business of Spool; it changes no state here.                        *)
(***************************************************************************)
EXTENDS ReadyChannels, Slices

CONSTANTS Clients, Servers

ASSUME LifoAssumption == Nil \notin Servers \cup Chans

VARIABLES
  servers,   \* keys of the servers map
  queue,     \* idle servers, the last one is taken first
  waiters,   \* channels of the blocked clients, oldest first
  closed,
  pc,        \* where the Acquire of a client stands
  chan,      \* the channel that Acquire waits on
  hold,      \* the server a client has got from Acquire
  known      \* servers whose id has been used

chanVars == <<cc, buf, shut, wedged>>
callVars == <<pc, chan, hold>>
vars == <<servers, queue, waiters, closed, chanVars, callVars, known>>

TypeOK ==
  /\ servers \in SUBSET Servers
  /\ queue \in Seq(Servers)
  /\ waiters \in Seq(Chans)
  /\ closed \in BOOLEAN
  /\ ChannelsType(Servers)
  /\ pc \in [Clients -> {"idle", "waiting", "timedout"}]
  /\ chan \in [Clients -> Chans \cup {Nil}]
  /\ hold \in [Clients -> Servers \cup {Nil}]
  /\ known \in SUBSET Servers

Init ==
  /\ servers = {}
  /\ queue = <<>>
  /\ waiters = <<>>
  /\ closed = FALSE
  /\ ChannelsInit
  /\ pc = [c \in Clients |-> "idle"]
  /\ chan = [c \in Clients |-> Nil]
  /\ hold = [c \in Clients |-> Nil]
  /\ known = {}

-----------------------------------------------------------------------------
InUse == {chan[c] : c \in Clients} \cup Elements(waiters)

\* Mutant: the youngest waiter gets the server.
releaseNewest(s) ==
  \/ /\ waiters # <<>>
     /\ Send(waiters[Len(waiters)], s, buf)
     /\ waiters' = SubSeq(waiters, 1, Len(waiters) - 1)
     /\ UNCHANGED queue
  \/ /\ waiters = <<>>
     /\ queue' = Append(queue, s)
     /\ UNCHANGED <<waiters, buf, wedged>>

\* release: the oldest waiter gets the server, or else it is queued.
release(s) ==
  \/ /\ waiters # <<>>
     /\ Send(Head(waiters), s, buf)
     /\ waiters' = Tail(waiters)
     /\ UNCHANGED queue
  \/ /\ waiters = <<>>
     /\ queue' = Append(queue, s)
     /\ UNCHANGED <<waiters, buf, wedged>>

AddServer(s) ==
  /\ Unlocked /\ s \notin known
  /\ known' = known \cup {s}
  /\ servers' = servers \cup {s}
  /\ release(s)
  /\ UNCHANGED <<closed, cc, shut, callVars>>

DeleteServer(s) ==
  /\ Unlocked
  /\ queue' = Remove(queue, s)
  /\ servers' = servers \ {s}
  /\ UNCHANGED <<waiters, closed, chanVars, callVars, known>>

CanAcquire(c) == Unlocked /\ ~closed /\ pc[c] = "idle" /\ hold[c] = Nil

AcquireIdle(c) ==
  /\ CanAcquire(c)
  /\ queue # <<>>
  /\ hold' = [hold EXCEPT ![c] = queue[Len(queue)]]
  /\ queue' = SubSeq(queue, 1, Len(queue) - 1)
  /\ UNCHANGED <<servers, waiters, closed, chanVars, pc, chan, known>>

AcquireWait(c) ==
  /\ CanAcquire(c)
  /\ queue = <<>>
  /\ \E ready \in Chans :
       /\ GetChan(ready, InUse)
       /\ waiters' = Append(waiters, ready)
       /\ chan' = [chan EXCEPT ![c] = ready]
  /\ pc' = [pc EXCEPT ![c] = "waiting"]
  /\ UNCHANGED <<servers, queue, closed, wedged, hold, known>>

Return(c, s) ==
  /\ pc' = [pc EXCEPT ![c] = "idle"]
  /\ chan' = [chan EXCEPT ![c] = Nil]
  /\ hold' = [hold EXCEPT ![c] = s]

Receive(c) ==
  /\ pc[c] = "waiting"
  /\ RecvAndPut(chan[c])
  /\ Return(c, buf[chan[c]])
  /\ UNCHANGED <<servers, queue, waiters, closed, shut, wedged, known>>

\* The select takes the timer; a server may still arrive before the mutex is
\* taken.
TimerFires(c) ==
  /\ pc[c] = "waiting"
  /\ pc' = [pc EXCEPT ![c] = "timedout"]
  /\ UNCHANGED <<servers, queue, waiters, closed, chanVars, chan, hold, known>>

\* Mutant: the oldest waiter is taken out, whoever it is.
TimeoutFoundHead(c) ==
  /\ Unlocked /\ pc[c] = "timedout"
  /\ chan[c] \in Elements(waiters)
  /\ waiters' = Tail(waiters)
  /\ PutChan(chan[c])
  /\ Return(c, Nil)
  /\ UNCHANGED <<servers, queue, closed, buf, shut, wedged, known>>

\* The channel is still queued, and no channel is queued twice: take it out,
\* the others keep their order.
TimeoutFound(c) ==
  /\ Unlocked /\ pc[c] = "timedout"
  /\ chan[c] \in Elements(waiters)
  /\ waiters' = Remove(waiters, chan[c])
  /\ PutChan(chan[c])
  /\ Return(c, Nil)
  /\ UNCHANGED <<servers, queue, closed, buf, shut, wedged, known>>

\* The channel has been served or closed: receive under the mutex.
TimeoutLost(c) ==
  /\ Unlocked /\ pc[c] = "timedout"
  /\ chan[c] \notin Elements(waiters)
  /\ RecvLocked(chan[c])
  /\ IF Unlocked' THEN Return(c, buf[chan[c]]) ELSE UNCHANGED callVars
  /\ UNCHANGED <<servers, queue, waiters, closed, shut, known>>

\* Mutant: a deleted server is passed on.
ReleaseUnchecked(c) ==
  /\ Unlocked /\ hold[c] # Nil
  /\ hold' = [hold EXCEPT ![c] = Nil]
  /\ release(hold[c])
  /\ UNCHANGED <<servers, closed, cc, shut, pc, chan, known>>

Release(c) ==
  /\ Unlocked /\ hold[c] # Nil
  /\ hold' = [hold EXCEPT ![c] = Nil]
  /\ \/ hold[c] \in servers /\ release(hold[c])
     \/ hold[c] \notin servers /\ UNCHANGED <<queue, waiters, buf, wedged>>
  /\ UNCHANGED <<servers, closed, cc, shut, pc, chan, known>>

Close ==
  /\ Unlocked
  /\ closed' = TRUE
  /\ servers' = {}
  /\ queue' = <<>>
  /\ waiters' = <<>>
  /\ CloseAll(Elements(waiters), ~Distinct(waiters))
  /\ UNCHANGED <<cc, buf, callVars, known>>

Next ==
  \/ \E s \in Servers : AddServer(s) \/ DeleteServer(s)
  \/ \E c \in Clients :
       \/ AcquireIdle(c) \/ AcquireWait(c) \/ Receive(c)
       \/ TimerFires(c) \/ TimeoutFound(c) \/ TimeoutLost(c)
       \/ Release(c)
  \/ Close

Spec == Init /\ [][Next]_vars

\* Receive and Release are fair: a goroutine that can run does run, and a pool
\* gives every server it acquired back at the end of the transaction.
FairSpec ==
  /\ Spec
  /\ \A c \in Clients :
       /\ WF_vars(Receive(c))
       /\ WF_vars(TimeoutFound(c) \/ TimeoutLost(c))
       /\ WF_vars(Release(c))

-----------------------------------------------------------------------------
Blocked(c) == pc[c] # "idle"

Queued(c) == chan[c] \in Elements(waiters)

\* The server committed to a client: in its hands or in its channel.
Owned(c) ==
  IF hold[c] # Nil THEN hold[c] ELSE IF chan[c] # Nil THEN buf[chan[c]] ELSE Nil

\* A blocked Acquire can be woken: a server is in its channel, or the channel
\* is closed, or release and Close still find the channel among the waiters.
NoWaiterLost ==
  \A c \in Clients : Blocked(c) =>
    \/ buf[chan[c]] # Nil
    \/ chan[c] \in shut
    \/ Queued(c)

\* Channels in the pool are open and empty and not in use: a stale server in
\* one would go to whoever takes the channel next, at the same time as to the
\* client that already has it.
PooledChansClean ==
  /\ Distinct(cc)
  /\ \A c \in Elements(cc) : buf[c] = Nil /\ c \notin shut \cup InUse

\* No method blocks or panics while it holds the mutex; in particular "we lost
\* the race :(, we have a worker though" is true when Acquire says so.
NeverWedged == wedged = "no"

\* lifo.Pooler implements the Pooler interface, timeouts included.
P == INSTANCE Pooler WITH
       idle <- Elements(queue),
       waiters <- {c \in Clients : Queued(c)},
       owner <- [c \in Clients |-> Owned(c)]

ImplementsPooler == P!Spec

\* What that promises: no server has two owners or is handed out when deleted,
\* none leaks, and nobody waits while one is idle.
Promises == P!PoolerInv

\* A channel belongs to one call, which has no server yet.
CallsOK ==
  \A c \in Clients :
    /\ pc[c] = "idle" <=> chan[c] = Nil
    /\ chan[c] # Nil => hold[c] = Nil
    /\ \A d \in Clients : chan[c] # Nil /\ chan[c] = chan[d] => c = d

\* A queued channel is open and empty, and somebody waits on it.
WaitersOK ==
  /\ Distinct(waiters)
  /\ \A h \in Elements(waiters) :
       buf[h] = Nil /\ h \notin shut /\ \E c \in Clients : chan[c] = h

\* A channel that has been served is not closed.
FilledOK == \A h \in Chans : buf[h] = Nil \/ h \notin shut

\* Ids of servers are not used twice.
KnownOK ==
  /\ Distinct(queue)
  /\ servers \subseteq known
  /\ \A c \in Clients : Owned(c) \in known \cup {Nil}

\* The inductive invariant.
LifoInv ==
  /\ TypeOK /\ NeverWedged /\ FilledOK /\ CallsOK /\ WaitersOK /\ NoWaiterLost
  /\ PooledChansClean /\ KnownOK /\ Promises

\* First come, first served means that nobody starves: a client that waits is
\* served, times out or is woken by Close, unless no server is left.
NoStarvation == \A c \in Clients : Blocked(c) ~> (~Blocked(c) \/ servers = {})

=============================================================================
