---------------------------- MODULE RobScheduler ----------------------------
(***************************************************************************)
(* The fair-share scheduler of lib/rob/schedulers/v3: it hands workers     *)
(* (server connections) to users (clients).  A user that finds no idle     *)
(* worker files a job in a tree ordered by its stride, the time it has     *)
(* already used, and blocks on a channel; a released worker goes to the    *)
(* job of least stride.                                                    *)
(*                                                                         *)
(* Every public method runs under the mutex mu, so it is one action, with  *)
(* one exception: Acquire drops the mutex while it waits, and is split     *)
(* there.  A method that blocks or panics while it holds mu sets wedged,   *)
(* and no action that needs mu is enabled afterwards.                      *)
(*                                                                         *)
(* The callers keep the pool's discipline: ids are fresh (uuid.New), a     *)
(* user has one Acquire at a time and holds at most one worker.            *)
(***************************************************************************)
EXTENDS ReadyChannels, Slices, FiniteSets

CONSTANTS
  Users,        \* ids of users
  Workers,      \* ids of workers
  MaxElapsed,   \* bound: how long a worker is held, in ticks
  MaxAcquires   \* bound: calls of Acquire per user

ASSUME RobAssumption ==
  /\ Nil \notin Users \cup Workers \cup Chans
  /\ MaxElapsed \in Nat
  /\ MaxAcquires \in Nat

VARIABLES
  closed,       \* Scheduler.closed
  queue,        \* idle workers, the last one is taken first
  workers,      \* keys of the workers map
  workerUser,   \* Worker.User
  floor,        \* stride of the last job served
  users,        \* keys of the users map
  stride,       \* User.Stride
  scheduled,    \* User.Scheduled
  jobs,         \* the schedule tree, one record for each key
  waiting,      \* the one-slot signal channel is full
  pc,           \* where the Acquire of a user stands
  chan,         \* the channel that Acquire waits on
  hold,         \* the worker a user has got from Acquire
  known,        \* users and workers whose id has been used
  acquires,     \* calls of Acquire so far
  fired         \* the timer of some Acquire has fired

schedVars == <<closed, queue, workers, workerUser, floor, users, stride,
               scheduled, jobs, wedged>>
chanVars == <<cc, buf, shut, waiting>>
callVars == <<pc, chan, hold>>
vars == <<schedVars, chanVars, callVars, known, acquires, fired>>

Job == [stride : Nat, user : Users, ready : Chans]

TypeOK ==
  /\ closed \in BOOLEAN
  /\ queue \in Seq(Workers)
  /\ workers \in SUBSET Workers
  /\ workerUser \in [Workers -> Users \cup {Nil}]
  /\ floor \in Nat
  /\ users \in SUBSET Users
  /\ stride \in [Users -> Nat]
  /\ scheduled \in [Users -> BOOLEAN]
  /\ jobs \in SUBSET Job
  /\ ChannelsType(Workers)
  /\ waiting \in BOOLEAN
  /\ pc \in [Users -> {"idle", "waiting", "timedout"}]
  /\ chan \in [Users -> Chans \cup {Nil}]
  /\ hold \in [Users -> Workers \cup {Nil}]
  /\ known \in SUBSET (Users \cup Workers)
  /\ acquires \in [Users -> Nat]
  /\ fired \in BOOLEAN

Init ==
  /\ closed = FALSE
  /\ queue = <<>>
  /\ workers = {}
  /\ workerUser = [w \in Workers |-> Nil]
  /\ floor = 0
  /\ users = {}
  /\ stride = [u \in Users |-> 0]
  /\ scheduled = [u \in Users |-> FALSE]
  /\ jobs = {}
  /\ ChannelsInit
  /\ waiting = FALSE
  /\ pc = [u \in Users |-> "idle"]
  /\ chan = [u \in Users |-> Nil]
  /\ hold = [u \in Users |-> Nil]
  /\ known = {}
  /\ acquires = [u \in Users |-> 0]
  /\ fired = FALSE

-----------------------------------------------------------------------------
Occupied == {j.stride : j \in jobs}

JobsAt(s) == {j \in jobs : j.stride = s}

IsMin(j) == j \in jobs /\ \A k \in jobs : j.stride <= k.stride

IsMax(j) == j \in jobs /\ \A k \in jobs : k.stride <= j.stride

\* Channels that an Acquire or a job still refers to.
InUse == {chan[u] : u \in Users} \cup {j.ready : j \in jobs}

\* releaseWorker: charge the previous user, then serve the job of least
\* stride or queue the worker.  b is the channels' contents at the call.
ReleaseWorker(w, b) ==
  /\ \E e \in 0..MaxElapsed :
       stride' = IF workerUser[w] = Nil THEN stride
                 ELSE [stride EXCEPT ![workerUser[w]] = @ + e]
  /\ \/ /\ jobs = {}
        /\ queue' = Append(queue, w)
        /\ workerUser' = [workerUser EXCEPT ![w] = Nil]
        /\ buf' = b
        /\ UNCHANGED <<floor, jobs, scheduled, wedged>>
     \/ \E j \in jobs :
          /\ IsMin(j)
          /\ floor' = j.stride
          /\ jobs' = jobs \ JobsAt(j.stride)
          /\ scheduled' = [scheduled EXCEPT ![j.user] = FALSE]
          /\ workerUser' = [workerUser EXCEPT ![w] = j.user]
          /\ Send(j.ready, w, b)
          /\ UNCHANGED queue

-----------------------------------------------------------------------------
AddWorker(w) ==
  /\ Unlocked /\ w \notin known
  /\ ~closed
  /\ known' = known \cup {w}
  /\ workers' = workers \cup {w}
  /\ ReleaseWorker(w, buf)
  /\ UNCHANGED <<closed, users, cc, shut, waiting, callVars, acquires, fired>>

DeleteWorker(w) ==
  /\ Unlocked
  /\ ~closed
  /\ w \in workers
  /\ workers' = workers \ {w}
  /\ queue' = Remove(queue, w)
  /\ UNCHANGED <<closed, workerUser, floor, users, stride, scheduled, jobs,
                 wedged, chanVars, callVars, known, acquires, fired>>

\* A new user starts behind every job that is already waiting.
AddUser(u) ==
  /\ Unlocked /\ u \notin known
  /\ ~closed
  /\ known' = known \cup {u}
  /\ users' = users \cup {u}
  /\ \/ jobs = {} /\ stride' = [stride EXCEPT ![u] = floor]
     \/ \E j \in jobs : IsMax(j) /\ stride' = [stride EXCEPT ![u] = j.stride + 1]
  /\ UNCHANGED <<closed, queue, workers, workerUser, floor, scheduled, jobs,
                 wedged, chanVars, callVars, acquires, fired>>

\* Mutant: the job of a removed user stays filed.
DeleteUserKeepsJob(u) ==
  /\ Unlocked
  /\ ~closed
  /\ u \in users
  /\ users' = users \ {u}
  /\ CloseAll({j.ready : j \in IF scheduled[u] THEN JobsAt(stride[u]) ELSE {}}, FALSE)
  /\ UNCHANGED <<closed, queue, workers, workerUser, floor, stride, scheduled,
                 jobs, cc, buf, waiting, callVars, known, acquires, fired>>

\* Removing a user closes the channel its Acquire waits on.
DeleteUser(u) ==
  /\ Unlocked
  /\ ~closed
  /\ u \in users
  /\ users' = users \ {u}
  /\ \/ /\ ~(scheduled[u] /\ JobsAt(stride[u]) # {})
        /\ UNCHANGED <<jobs, shut, wedged>>
     \/ /\ scheduled[u]
        /\ \E j \in JobsAt(stride[u]) : CloseAll({j.ready}, FALSE)
        /\ jobs' = jobs \ JobsAt(stride[u])
  /\ UNCHANGED <<closed, queue, workers, workerUser, floor, stride, scheduled,
                 cc, buf, waiting, callVars, known, acquires, fired>>

CanAcquire(u) ==
  /\ Unlocked /\ pc[u] = "idle" /\ hold[u] = Nil
  /\ acquires[u] < MaxAcquires
  /\ ~closed /\ u \in users

\* Acquire finds an idle worker, the one queued last.
AcquireIdle(u) ==
  /\ CanAcquire(u)
  /\ queue # <<>>
  /\ LET w == queue[Len(queue)]
     IN  /\ workerUser' = [workerUser EXCEPT ![w] = u]
         /\ hold' = [hold EXCEPT ![u] = w]
  /\ queue' = SubSeq(queue, 1, Len(queue) - 1)
  /\ acquires' = [acquires EXCEPT ![u] = @ + 1]
  /\ UNCHANGED <<closed, workers, floor, users, stride, scheduled, jobs,
                 wedged, chanVars, pc, chan, known, fired>>

\* Mutant: the floor is ignored.
IsSlotNoFloor(s, u) ==
  s >= stride[u] /\ s \notin Occupied /\ stride[u]..(s - 1) \subseteq Occupied

\* s is the first free slot at or after both the user's stride and the floor.
IsSlot(s, u) ==
  LET from == IF stride[u] < floor THEN floor ELSE stride[u]
  IN  s >= from /\ s \notin Occupied /\ from..(s - 1) \subseteq Occupied

\* Acquire finds no idle worker: file a job, signal and wait.
AcquireWait(u) ==
  /\ CanAcquire(u)
  /\ queue = <<>>
  /\ \E c \in Chans, s \in 0..(stride[u] + floor + Cardinality(jobs)) :
       /\ GetChan(c, InUse)
       /\ IsSlot(s, u)
       /\ stride' = [stride EXCEPT ![u] = s]
       /\ jobs' = jobs \cup {[stride |-> s, user |-> u, ready |-> c]}
       /\ chan' = [chan EXCEPT ![u] = c]
  /\ scheduled' = [scheduled EXCEPT ![u] = TRUE]
  /\ waiting' = TRUE
  /\ pc' = [pc EXCEPT ![u] = "waiting"]
  /\ acquires' = [acquires EXCEPT ![u] = @ + 1]
  /\ UNCHANGED <<closed, queue, workers, workerUser, floor, users, hold,
                 wedged, known, fired>>

Return(u, w) ==
  /\ pc' = [pc EXCEPT ![u] = "idle"]
  /\ chan' = [chan EXCEPT ![u] = Nil]
  /\ hold' = [hold EXCEPT ![u] = w]

Receive(u) ==
  /\ pc[u] = "waiting"
  /\ RecvAndPut(chan[u])
  /\ Return(u, buf[chan[u]])
  /\ UNCHANGED <<schedVars, shut, waiting, known, acquires, fired>>

\* The select of Acquire takes the timer; the worker may still arrive before
\* the mutex is taken.
TimerFires(u) ==
  /\ pc[u] = "waiting"
  /\ pc' = [pc EXCEPT ![u] = "timedout"]
  /\ fired' = TRUE
  /\ UNCHANGED <<schedVars, chanVars, chan, hold, known, acquires>>

\* Mutant: the worker stays in the channel.
TimeoutRemovedKeepsCopy(u) ==
  /\ Unlocked /\ pc[u] = "timedout"
  /\ u \notin users
  /\ buf[chan[u]] \in workers
  /\ ReleaseWorker(buf[chan[u]], buf)
  /\ Return(u, Nil)
  /\ UNCHANGED <<closed, workers, users, cc, shut, waiting, known, acquires, fired>>

\* The user was removed while it waited: hand a worker that came back in.
TimeoutRemoved(u) ==
  /\ Unlocked /\ pc[u] = "timedout"
  /\ u \notin users
  /\ LET c == chan[u]
         v == buf[c]
         drained == [buf EXCEPT ![c] = Nil]
     IN  /\ cc' = IF v # Nil THEN Append(cc, c) ELSE cc
         /\ \/ /\ v # Nil /\ ~closed /\ v \in workers
               /\ ReleaseWorker(v, drained)
               /\ UNCHANGED <<closed, workers, users>>
            \/ /\ ~(v # Nil /\ ~closed /\ v \in workers)
               /\ buf' = drained
               /\ UNCHANGED schedVars
  /\ Return(u, Nil)
  /\ UNCHANGED <<shut, waiting, known, acquires, fired>>

\* A job is filed at the user's stride: take it out and give up.
TimeoutQueued(u) ==
  /\ Unlocked /\ pc[u] = "timedout"
  /\ u \in users
  /\ JobsAt(stride[u]) # {}
  /\ scheduled' = [scheduled EXCEPT ![u] = FALSE]
  /\ jobs' = jobs \ JobsAt(stride[u])
  /\ PutChan(chan[u])
  /\ Return(u, Nil)
  /\ UNCHANGED <<closed, queue, workers, workerUser, floor, users, stride,
                 wedged, buf, shut, waiting, known, acquires, fired>>

\* No job is filed at the user's stride: the worker must be in the channel.
\* The receive happens under mu, and nobody can send without mu.
TimeoutLost(u) ==
  /\ Unlocked /\ pc[u] = "timedout"
  /\ u \in users
  /\ JobsAt(stride[u]) = {}
  /\ RecvLocked(chan[u])
  /\ IF Unlocked' THEN Return(u, buf[chan[u]]) ELSE UNCHANGED callVars
  /\ UNCHANGED <<closed, queue, workers, workerUser, floor, users, stride,
                 scheduled, jobs, shut, waiting, known, acquires, fired>>

\* Mutant: a deleted worker is passed on.
ReleaseUnchecked(u) ==
  /\ Unlocked /\ hold[u] # Nil
  /\ hold' = [hold EXCEPT ![u] = Nil]
  /\ ReleaseWorker(hold[u], buf)
  /\ UNCHANGED <<closed, workers, users, cc, shut, waiting, pc, chan, known, acquires, fired>>

Release(u) ==
  /\ Unlocked /\ hold[u] # Nil
  /\ hold' = [hold EXCEPT ![u] = Nil]
  /\ \/ /\ ~closed /\ hold[u] \in workers
        /\ ReleaseWorker(hold[u], buf)
        /\ UNCHANGED <<closed, workers, users>>
     \/ /\ closed \/ hold[u] \notin workers
        /\ UNCHANGED <<schedVars, buf>>
  /\ UNCHANGED <<cc, shut, waiting, pc, chan, known, acquires, fired>>

\* The pool's scale loop takes the signal of Waiting().
TakeWaiting ==
  /\ waiting
  /\ waiting' = FALSE
  /\ UNCHANGED <<schedVars, cc, buf, shut, callVars, known, acquires, fired>>

Waiters == Cardinality({u \in users : scheduled[u]})

\* Close wakes every waiter with a closed channel.
Close ==
  /\ Unlocked
  /\ ~closed
  /\ closed' = TRUE
  /\ users' = {}
  /\ workers' = {}
  /\ queue' = <<>>
  /\ jobs' = {}
  /\ CloseAll({j.ready : j \in jobs},
              \E j, k \in jobs : j # k /\ j.ready = k.ready)
  /\ UNCHANGED <<workerUser, floor, stride, scheduled, cc, buf, waiting,
                 callVars, known, acquires, fired>>

Acquire(u) ==
  \/ AcquireIdle(u) \/ AcquireWait(u)
  \/ Receive(u) \/ TimerFires(u)
  \/ TimeoutRemoved(u) \/ TimeoutQueued(u) \/ TimeoutLost(u)

Next ==
  \/ \E w \in Workers : AddWorker(w) \/ DeleteWorker(w)
  \/ \E u \in Users : AddUser(u) \/ DeleteUser(u) \/ Acquire(u) \/ Release(u)
  \/ TakeWaiting
  \/ Close

Spec == Init /\ [][Next]_vars

-----------------------------------------------------------------------------
Blocked(u) == pc[u] \in {"waiting", "timedout"}

\* No worker sits idle while a job waits: releaseWorker prefers a job to the
\* queue, and Acquire files a job only when the queue is empty.
WorkConserving == jobs # {} => queue = <<>>

\* A worker is never in two places: two holders would interleave the
\* statements of two clients on one server connection.
NoWorkerShared ==
  /\ Distinct(queue)
  /\ \A c \in Chans : buf[c] # Nil =>
       buf[c] \notin Elements(queue) /\ \A d \in Chans : buf[d] = buf[c] => c = d
  /\ \A u \in Users : hold[u] # Nil =>
       /\ hold[u] \notin Elements(queue)
       /\ \A c \in Chans : buf[c] # hold[u]
       /\ \A v \in Users : hold[v] = hold[u] => u = v

\* Both, with or without timers: a worker is in one place only, and is not left
\* idle while somebody waits for one.
WorkersSafe == TypeOK /\ NoWorkerShared /\ WorkConserving

\* The next properties hold until a timer fires.  A timer can take out the job
\* of another user (LostRaceHasWorker), and nothing is sure from then on but
\* what the properties above say.

\* A blocked Acquire can be woken: its channel already holds a worker or is
\* closed, or a job in the schedule will send on exactly that channel.
NoWaiterLost ==
  ~fired => \A u \in Users : Blocked(u) =>
    \/ buf[chan[u]] # Nil
    \/ chan[u] \in shut
    \/ \E j \in jobs : j.user = u /\ j.ready = chan[u]

\* Waiters() counts exactly the users that have a job in the schedule; the
\* scale loop dials servers for as long as it is positive.
WaitersAreJobs ==
  ~fired =>
    /\ \A j \in jobs : j.user \in users /\ scheduled[j.user]
    /\ \A u \in users : scheduled[u] =>
         \E j \in jobs : j.user = u /\ j.stride = stride[u]
    /\ \A j, k \in jobs : (j.user = k.user \/ j.stride = k.stride) => j = k

\* Channels in the pool are open and empty, and no Acquire or job still uses
\* them: a stale worker would be delivered to whoever takes the channel next.
PooledChansClean ==
  ~fired =>
    /\ Distinct(cc)
    /\ \A c \in Elements(cc) : buf[c] = Nil /\ c \notin shut \cup InUse

\* No method blocks or panics while it holds the scheduler's mutex.
NeverWedged == ~fired => wedged = "no"

\* Until a timer fires, an Acquire that blocks is woken: it has a job that Waiters
\* counts, on a channel of its own, and no method blocks or panics under the mutex.
WaitersSafe == NoWaiterLost /\ WaitersAreJobs /\ PooledChansClean /\ NeverWedged

\* The comment at the end of Acquire: "we lost the race, but we got a worker".
LostRaceHasWorker == wedged # "recv_empty"

\* The floor, the stride below which no user may return to the schedule,
\* never falls: a user that has been idle cannot bank unused time.
FloorMonotone == [][floor' >= floor]_vars

\* The worker committed to a user: in its hands or in its channel.
Owned(u) ==
  IF hold[u] # Nil THEN hold[u] ELSE IF chan[u] # Nil THEN buf[chan[u]] ELSE Nil

P == INSTANCE Pooler WITH
       Clients <- Users, Servers <- Workers,
       servers <- workers,
       idle <- Elements(queue),
       waiters <- {u \in Users : \E j \in jobs : j.user = u},
       owner <- [u \in Users |-> Owned(u)]

\* The scheduler implements the Pooler interface, which poolers/rob gives it by
\* renaming its methods.
ImplementsPooler ==
  P!Init /\ [][fired' \/ P!Next \/ UNCHANGED P!vars]_vars

=============================================================================
