----------------------------- MODULE RobProofs -----------------------------
(***************************************************************************)
(* The rob scheduler never has a worker in two places, leaves none idle    *)
(* while a job waits and never lets its floor fall, for any users, workers *)
(* and channels, with timers that fire at any time.  Until one fires, it   *)
(* loses no waiter and implements the Pooler interface.                    *)
(*                                                                         *)
(* RobInv is inductive.  It adds to the properties that ids are fresh      *)
(* (KnownOK), that a blocked Acquire has a channel (CallsOK) and that no   *)
(* job is filed below the floor (AboveFloor).  WaitInv, which is inductive *)
(* together with it, adds what a timer may undo: whose channel is whose    *)
(* (CallsApart) and which job and worker belong to whom (JobsServed).      *)
(***************************************************************************)
EXTENDS RobScheduler, SlicesProofs

\* A worker that is anywhere has been added before.
KnownOK ==
  /\ Elements(queue) \subseteq known
  /\ \A c \in Chans : buf[c] # Nil => buf[c] \in known
  /\ \A u \in Users : hold[u] # Nil => hold[u] \in known

\* A blocked Acquire waits on a channel.
CallsOK == \A u \in Users : pc[u] # "idle" => chan[u] \in Chans

\* Acquire files no job below the floor, and the floor is the least stride.
AboveFloor == \A j \in jobs : floor <= j.stride

RobInv == WorkersSafe /\ KnownOK /\ CallsOK /\ AboveFloor

-----------------------------------------------------------------------------

\* The initial state.
LEMMA RobInitially == Init => RobInv
<1> SUFFICES ASSUME Init PROVE RobInv
  BY Zenon
<1> USE DEF Init, ChannelsInit
<1>1. Elements(queue) = {} /\ Distinct(queue)
  BY Zenon, EmptyElements
<1>2. TypeOK
  BY Zenon, EmptyElements DEF TypeOK, ChannelsType, Wedges
<1> QED
  BY Zenon, <1>1, <1>2 DEF RobInv, WorkersSafe, NoWorkerShared, WorkConserving, KnownOK,
     CallsOK, AboveFloor

\* A step that takes workers away, and puts at most one worker w into at most one
\* place, keeps workers apart.
LEMMA Placed ==
  ASSUME NoWorkerShared, KnownOK, NEW w,
         known \subseteq known', w = Nil \/ w \in known',
         Distinct(queue'), Elements(queue') \subseteq Elements(queue) \cup ({w} \ {Nil}),
         \A c \in Chans : buf'[c] \in {buf[c], Nil, w},
         \A u \in Users : hold'[u] \in {hold[u], Nil, w},
         w \in Elements(queue') /\ w # Nil =>
           (\A c \in Chans : buf'[c] # w) /\ (\A u \in Users : hold'[u] # w),
         \A c \in Chans : buf'[c] = w /\ w # Nil =>
           (\A d \in Chans : buf'[d] = w => c = d) /\ (\A u \in Users : hold'[u] # w),
         \A u, v \in Users : hold'[u] = w /\ hold'[v] = w /\ w # Nil => u = v
  PROVE  NoWorkerShared' /\ KnownOK'
<1>1. \A c \in Chans : buf'[c] # Nil =>
        buf'[c] \notin Elements(queue') /\ \A d \in Chans : buf'[d] = buf'[c] => c = d
  BY Zenon DEF NoWorkerShared
<1>2. \A u \in Users : hold'[u] # Nil =>
        /\ hold'[u] \notin Elements(queue')
        /\ \A c \in Chans : buf'[c] # hold'[u]
        /\ \A v \in Users : hold'[v] = hold'[u] => u = v
  BY Zenon DEF NoWorkerShared
<1>3. KnownOK'
  BY Zenon DEF KnownOK
<1> QED  BY Zenon, <1>1, <1>2, <1>3 DEF NoWorkerShared

\* releaseWorker, of a worker that is nowhere: it goes to one job or to the queue,
\* and the floor rises to the stride of that job.
LEMMA Released ==
  ASSUME RobInv, NEW w \in Workers, NEW b \in [Chans -> Workers \cup {Nil}],
         \A c \in Chans : b[c] \in {buf[c], Nil} /\ b[c] # w,
         w \notin Elements(queue),
         \A u \in Users : hold'[u] \in {hold[u], Nil} /\ hold'[u] # w,
         known \subseteq known', w \in known',
         ReleaseWorker(w, b)
  PROVE  /\ queue' \in Seq(Workers) /\ buf' \in [Chans -> Workers \cup {Nil}]
         /\ workerUser' \in [Workers -> Users \cup {Nil}] /\ floor' \in Nat
         /\ stride' \in [Users -> Nat] /\ scheduled' \in [Users -> BOOLEAN]
         /\ jobs' \in SUBSET Job /\ wedged' \in Wedges
         /\ NoWorkerShared' /\ WorkConserving' /\ KnownOK' /\ AboveFloor'
         /\ floor' >= floor
<1> USE DEF RobInv, WorkersSafe
<1>1. w # Nil
  BY Zenon, RobAssumption
<1>2. stride' \in [Users -> Nat]
  BY RobAssumption DEF ReleaseWorker, TypeOK
<1>3. CASE /\ jobs = {} /\ queue' = Append(queue, w)
           /\ workerUser' = [workerUser EXCEPT ![w] = Nil] /\ buf' = b
           /\ UNCHANGED <<floor, jobs, scheduled, wedged>>
  <2>1. /\ queue' \in Seq(Workers) /\ Elements(queue') = Elements(queue) \cup {w}
        /\ Distinct(queue')
    BY <1>3, AppendElements DEF TypeOK, NoWorkerShared
  <2>2. NoWorkerShared' /\ KnownOK'
    BY Zenon, <1>1, <1>3, <2>1, Placed
  <2> QED
    BY <1>2, <1>3, <2>1, <2>2 DEF TypeOK, ChannelsType, WorkConserving, AboveFloor
<1>4. ASSUME NEW j \in jobs, IsMin(j), floor' = j.stride,
             jobs' = jobs \ JobsAt(j.stride),
             scheduled' = [scheduled EXCEPT ![j.user] = FALSE],
             workerUser' = [workerUser EXCEPT ![w] = j.user],
             Send(j.ready, w, b), UNCHANGED queue
      PROVE  /\ queue' \in Seq(Workers) /\ buf' \in [Chans -> Workers \cup {Nil}]
             /\ workerUser' \in [Workers -> Users \cup {Nil}] /\ floor' \in Nat
             /\ scheduled' \in [Users -> BOOLEAN]
             /\ jobs' \in SUBSET Job /\ wedged' \in Wedges
             /\ NoWorkerShared' /\ WorkConserving' /\ KnownOK' /\ AboveFloor'
             /\ floor' >= floor
  <2>1. j.stride \in Nat /\ j.user \in Users /\ j.ready \in Chans
    BY Zenon DEF TypeOK, Job
  <2>2. buf' \in [Chans -> Workers \cup {Nil}] /\ wedged' \in Wedges
    BY Zenon, <1>4, <2>1 DEF Send, TypeOK, ChannelsType, Wedges
  <2>3. \A c \in Chans : buf'[c] = b[c] \/ (c = j.ready /\ buf'[c] = w)
    BY Zenon, <1>4, <2>1 DEF Send
  <2>4. NoWorkerShared' /\ KnownOK'
    <3>1. Distinct(queue') /\ Elements(queue') = Elements(queue)
      BY Zenon, <1>4 DEF NoWorkerShared
    <3>2. \A c \in Chans : buf'[c] \in {buf[c], Nil, w}
      BY Zenon, <2>3
    <3>3. \A c \in Chans : buf'[c] = w => c = j.ready
      BY Zenon, <2>3
    <3> QED  BY Zenon, <1>1, <3>1, <3>2, <3>3, Placed
  <2>5. floor' >= floor
    BY Zenon, <1>4, <2>1 DEF AboveFloor, TypeOK
  <2>6. AboveFloor'
    BY Zenon, <1>4 DEF AboveFloor, IsMin
  <2>7. WorkConserving'
    BY Zenon, <1>4 DEF WorkConserving
  <2> QED
    BY Zenon, <1>4, <2>1, <2>2, <2>4, <2>5, <2>6, <2>7 DEF TypeOK
<1> QED  BY Zenon, <1>2, <1>3, <1>4 DEF ReleaseWorker

-----------------------------------------------------------------------------
\* One lemma for each operation of the scheduler.

\* AddWorker registers a fresh id and hands the worker to a waiting user or to the queue.
LEMMA AddWorkerStep ==
  ASSUME RobInv, NEW w \in Workers, AddWorker(w)
  PROVE  RobInv' /\ floor' >= floor
<1> USE DEF RobInv, WorkersSafe
<1>1. /\ w \notin known /\ known' = known \cup {w} /\ workers' = workers \cup {w}
      /\ ReleaseWorker(w, buf)
      /\ UNCHANGED <<closed, users, cc, shut, waiting, pc, chan, hold, acquires, fired>>
  BY Zenon DEF AddWorker, callVars
<1>2. w \notin Elements(queue) /\ (\A c \in Chans : buf[c] # w) /\ (\A u \in Users : hold'[u] # w)
  BY Zenon, <1>1, RobAssumption DEF KnownOK
<1>3. buf \in [Chans -> Workers \cup {Nil}]
  BY Zenon DEF TypeOK, ChannelsType
<1>4. /\ queue' \in Seq(Workers) /\ buf' \in [Chans -> Workers \cup {Nil}]
      /\ workerUser' \in [Workers -> Users \cup {Nil}] /\ floor' \in Nat
      /\ stride' \in [Users -> Nat] /\ scheduled' \in [Users -> BOOLEAN]
      /\ jobs' \in SUBSET Job /\ wedged' \in Wedges
      /\ NoWorkerShared' /\ WorkConserving' /\ KnownOK' /\ AboveFloor'
      /\ floor' >= floor
  BY Zenon, <1>1, <1>2, <1>3, Released
<1>5. TypeOK'
  BY Zenon, <1>1, <1>4 DEF TypeOK, ChannelsType
<1>6. CallsOK'
  BY Zenon, <1>1 DEF CallsOK
<1> QED  BY Zenon, <1>4, <1>5, <1>6

\* DeleteWorker takes a worker out of the queue.
LEMMA DeleteWorkerStep ==
  ASSUME RobInv, NEW w \in Workers, DeleteWorker(w)
  PROVE  RobInv' /\ floor' >= floor
<1> USE DEF RobInv, WorkersSafe
<1>1. /\ workers' = workers \ {w} /\ queue' = Remove(queue, w)
      /\ UNCHANGED <<closed, workerUser, floor, users, stride, scheduled, jobs, wedged,
                     cc, buf, shut, waiting, pc, chan, hold, known, acquires, fired>>
  BY Zenon DEF DeleteWorker, chanVars, callVars
<1>2. /\ queue' \in Seq(Workers) /\ Distinct(queue')
      /\ Elements(queue') \subseteq Elements(queue)
  BY <1>1, RemoveProperties DEF TypeOK, NoWorkerShared
<1>3. NoWorkerShared' /\ KnownOK'
  BY Zenon, <1>1, <1>2, Placed
<1>4. WorkConserving'
  <2> SUFFICES ASSUME jobs' # {} PROVE queue' = <<>>
    BY Zenon DEF WorkConserving
  <2>1. Elements(queue) = {}
    BY Zenon, <1>1, EmptyElements DEF WorkConserving
  <2> QED  BY Zenon, <1>2, <2>1, NoElements
<1>5. TypeOK'
  BY Zenon, <1>1, <1>2 DEF TypeOK, ChannelsType
<1> QED  BY <1>1, <1>3, <1>4, <1>5 DEF CallsOK, AboveFloor, TypeOK

\* AddUser registers a fresh id, with a stride that is not below the floor.
LEMMA AddUserStep ==
  ASSUME RobInv, NEW u \in Users, AddUser(u)
  PROVE  RobInv' /\ floor' >= floor
<1> USE DEF RobInv, WorkersSafe
<1>1. /\ known' = known \cup {u} /\ users' = users \cup {u}
      /\ UNCHANGED <<closed, queue, workers, workerUser, floor, scheduled, jobs, wedged,
                     cc, buf, shut, waiting, pc, chan, hold, acquires, fired>>
  BY Zenon DEF AddUser, chanVars, callVars
<1>2. stride' \in [Users -> Nat]
  <2>1. floor \in Nat /\ \A j \in jobs : j.stride + 1 \in Nat
    BY DEF TypeOK, Job
  <2> QED  BY Zenon, <2>1 DEF AddUser, TypeOK
<1>3. TypeOK'
  BY Zenon, <1>1, <1>2 DEF TypeOK, ChannelsType
<1>4. NoWorkerShared' /\ KnownOK'
  BY Zenon, <1>1 DEF NoWorkerShared, KnownOK
<1>5. WorkConserving' /\ CallsOK' /\ AboveFloor'
  BY Zenon, <1>1 DEF WorkConserving, CallsOK, AboveFloor
<1>6. floor' >= floor
  BY <1>1 DEF TypeOK
<1> QED  BY Zenon, <1>3, <1>4, <1>5, <1>6

\* DeleteUser drops the job of a user and closes its channel.
LEMMA DeleteUserStep ==
  ASSUME RobInv, NEW u \in Users, DeleteUser(u)
  PROVE  RobInv' /\ floor' >= floor
<1> USE DEF RobInv, WorkersSafe
<1>1. /\ users' = users \ {u} /\ jobs' \subseteq jobs
      /\ UNCHANGED <<closed, queue, workers, workerUser, floor, stride, scheduled,
                     cc, buf, waiting, pc, chan, hold, known, acquires, fired>>
  BY Zenon DEF DeleteUser, callVars
<1>2. shut' \in SUBSET Chans /\ wedged' \in Wedges
  <2>1. CASE UNCHANGED <<shut, wedged>>
    BY Zenon, <2>1 DEF TypeOK, ChannelsType
  <2>2. CASE \E j \in JobsAt(stride[u]) : CloseAll({j.ready}, FALSE)
    <3>1. \A j \in JobsAt(stride[u]) : j.ready \in Chans
      BY Zenon DEF JobsAt, TypeOK, Job
    <3> QED  BY Zenon, <2>2, <3>1 DEF CloseAll, TypeOK, ChannelsType, Wedges
  <2> QED  BY Zenon, <2>1, <2>2 DEF DeleteUser
<1>3. TypeOK'
  BY Zenon, <1>1, <1>2 DEF TypeOK, ChannelsType
<1> QED
  BY <1>1, <1>3 DEF NoWorkerShared, WorkConserving, KnownOK, CallsOK, AboveFloor, TypeOK

\* Acquire takes the last worker of the queue.
LEMMA AcquireIdleStep ==
  ASSUME RobInv, NEW u \in Users, AcquireIdle(u)
  PROVE  RobInv' /\ floor' >= floor
<1> USE DEF RobInv, WorkersSafe
<1> DEFINE w == queue[Len(queue)]
<1>1. /\ queue # <<>> /\ workerUser' = [workerUser EXCEPT ![w] = u]
      /\ hold' = [hold EXCEPT ![u] = w] /\ queue' = SubSeq(queue, 1, Len(queue) - 1)
      /\ acquires' = [acquires EXCEPT ![u] = @ + 1]
      /\ UNCHANGED <<closed, workers, floor, users, stride, scheduled, jobs, wedged,
                     cc, buf, shut, waiting, pc, chan, known, fired>>
  BY Zenon DEF AcquireIdle, chanVars
<1>2. /\ queue' \in Seq(Workers) /\ w \in Workers /\ w \in Elements(queue)
      /\ Elements(queue') = Elements(queue) \ {w} /\ Distinct(queue')
  BY Zenon, <1>1, FrontElements DEF TypeOK, NoWorkerShared
<1>3. \A v \in Users : hold'[v] = hold[v] \/ (v = u /\ hold'[v] = w)
  BY Zenon, <1>1 DEF TypeOK
<1>4. w # Nil /\ w \in known /\ (\A c \in Chans : buf[c] # w) /\ (\A v \in Users : hold[v] # w)
  BY Zenon, <1>2, RobAssumption DEF KnownOK, NoWorkerShared
<1>5. NoWorkerShared' /\ KnownOK'
  <2> HIDE DEF w
  <2> QED  BY <1>1, <1>2, <1>3, <1>4, Placed
<1>6. TypeOK'
  <2> HIDE DEF w
  <2> QED  BY <1>1, <1>2 DEF TypeOK, ChannelsType
<1> QED  BY <1>1, <1>5, <1>6 DEF WorkConserving, CallsOK, AboveFloor, TypeOK

\* Acquire with an empty queue schedules a job and waits on a channel.
LEMMA AcquireWaitStep ==
  ASSUME RobInv, NEW u \in Users, AcquireWait(u)
  PROVE  RobInv' /\ floor' >= floor
<1> USE DEF RobInv, WorkersSafe
<1>1. /\ queue = <<>> /\ scheduled' = [scheduled EXCEPT ![u] = TRUE] /\ waiting' = TRUE
      /\ pc' = [pc EXCEPT ![u] = "waiting"] /\ acquires' = [acquires EXCEPT ![u] = @ + 1]
      /\ UNCHANGED <<closed, queue, workers, workerUser, floor, users, hold, wedged,
                     known, fired>>
  BY Zenon DEF AcquireWait
<1>2. PICK c \in Chans, s \in 0..(stride[u] + floor + Cardinality(jobs)) :
        /\ GetChan(c, InUse) /\ IsSlot(s, u) /\ stride' = [stride EXCEPT ![u] = s]
        /\ jobs' = jobs \cup {[stride |-> s, user |-> u, ready |-> c]}
        /\ chan' = [chan EXCEPT ![u] = c]
  BY Zenon DEF AcquireWait
<1>3. s \in Nat /\ floor <= s
  BY <1>2 DEF IsSlot, TypeOK
<1>4. jobs' \in SUBSET Job
  BY <1>2, <1>3 DEF TypeOK, Job
<1>5. /\ cc' \in Seq(Chans) /\ shut' \in SUBSET Chans
      /\ buf' \in [Chans -> Workers \cup {Nil}]
      /\ \A d \in Chans : buf'[d] \in {buf[d], Nil}
  <2> USE DEF TypeOK, ChannelsType
  <2>1. CASE cc # <<>> /\ cc' = SubSeq(cc, 1, Len(cc) - 1) /\ UNCHANGED <<buf, shut>>
    <3>1. cc' \in Seq(Chans)
      BY <2>1
    <3> QED  BY Zenon, <2>1, <3>1
  <2>2. CASE /\ buf' = [buf EXCEPT ![c] = Nil] /\ shut' = shut \ {c} /\ UNCHANGED cc
    BY Zenon, <2>2
  <2> QED  BY Zenon, <1>2, <2>1, <2>2 DEF GetChan
<1>6. NoWorkerShared' /\ KnownOK'
  <2>1. Distinct(queue') /\ Elements(queue') = Elements(queue) /\ hold' = hold
    BY Zenon, <1>1 DEF NoWorkerShared
  <2> QED  BY Zenon, <1>1, <1>5, <2>1, Placed
<1>7. TypeOK'
  BY <1>1, <1>2, <1>3, <1>4, <1>5 DEF TypeOK, ChannelsType
<1>8. AboveFloor'
  BY <1>1, <1>2, <1>3 DEF AboveFloor
<1>9. CallsOK'
  BY Zenon, <1>1, <1>2 DEF CallsOK, TypeOK
<1> QED  BY <1>1, <1>6, <1>7, <1>8, <1>9 DEF WorkConserving, TypeOK

\* What leaves the workers where they are keeps all but the types.
LEMMA Unmoved ==
  ASSUME RobInv, UNCHANGED <<queue, buf, hold, known, floor>>, jobs' \subseteq jobs
  PROVE  NoWorkerShared' /\ WorkConserving' /\ KnownOK' /\ AboveFloor' /\ floor' >= floor
<1> USE DEF RobInv, WorkersSafe
<1>1. NoWorkerShared' /\ KnownOK'
  BY Zenon DEF NoWorkerShared, KnownOK
<1>2. WorkConserving' /\ AboveFloor'
  BY Zenon DEF WorkConserving, AboveFloor
<1>3. floor' >= floor
  BY DEF TypeOK
<1> QED  BY Zenon, <1>1, <1>2, <1>3

\* An Acquire that takes what is in its channel.
LEMMA Received ==
  ASSUME RobInv, NEW u \in Users, pc[u] # "idle",
         buf' = [buf EXCEPT ![chan[u]] = Nil] \/ (buf[chan[u]] = Nil /\ UNCHANGED buf),
         cc' = Append(cc, chan[u]) \/ UNCHANGED cc,
         Return(u, buf[chan[u]]), wedged' \in Wedges,
         UNCHANGED <<closed, queue, workers, workerUser, floor, users, stride, scheduled,
                     jobs, shut, waiting, known, acquires, fired>>
  PROVE  RobInv' /\ floor' >= floor
<1> USE DEF RobInv, WorkersSafe
<1> DEFINE w == buf[chan[u]]
<1>1. chan[u] \in Chans /\ w \in Workers \cup {Nil}
  BY Zenon DEF CallsOK, TypeOK, ChannelsType
<1>2. /\ buf' \in [Chans -> Workers \cup {Nil}]
      /\ buf'[chan[u]] = Nil /\ \A c \in Chans : buf'[c] \in {buf[c], Nil}
  BY Zenon, <1>1 DEF TypeOK, ChannelsType
<1>3. cc' \in Seq(Chans)
  <2>1. cc \in Seq(Chans)
    BY Zenon DEF TypeOK, ChannelsType
  <2> QED  BY <1>1, <2>1
<1>4. \A v \in Users : hold'[v] = hold[v] \/ (v = u /\ hold'[v] = w)
  BY Zenon DEF Return, TypeOK
<1>5. w # Nil => /\ w \in known /\ w \notin Elements(queue)
                 /\ \A c \in Chans : buf'[c] # w
                 /\ \A v \in Users : hold[v] # w
  BY Zenon, <1>1, <1>2 DEF KnownOK, NoWorkerShared
<1>6. Distinct(queue') /\ Elements(queue') = Elements(queue)
  BY Zenon DEF NoWorkerShared
<1> HIDE DEF w
<1>7. NoWorkerShared' /\ KnownOK'
  BY <1>2, <1>4, <1>5, <1>6, Placed
<1>8. TypeOK'
  BY Zenon, <1>1, <1>2, <1>3 DEF Return, w, TypeOK, ChannelsType
<1>9. CallsOK'
  BY Zenon DEF Return, CallsOK, TypeOK
<1>10. WorkConserving' /\ AboveFloor' /\ floor' >= floor
  BY DEF WorkConserving, AboveFloor, TypeOK
<1> QED  BY Zenon, <1>7, <1>8, <1>9, <1>10

\* A waiting Acquire receives a worker, or nil from a closed channel.
LEMMA ReceiveStep ==
  ASSUME RobInv, NEW u \in Users, Receive(u)
  PROVE  RobInv' /\ floor' >= floor
<1>1. wedged' \in Wedges
  BY Zenon DEF Receive, schedVars, RobInv, WorkersSafe, TypeOK, ChannelsType
<1> QED  BY Zenon, <1>1, Received DEF Receive, RecvAndPut, PutChan, schedVars

\* A timeout that finds its job gone receives under the mutex.
LEMMA TimeoutLostStep ==
  ASSUME RobInv, NEW u \in Users, TimeoutLost(u)
  PROVE  RobInv' /\ floor' >= floor
<1> USE DEF RobInv, WorkersSafe
<1>1. wedged' \in Wedges /\ wedged \in Wedges
  BY Zenon DEF TimeoutLost, RecvLocked, TypeOK, ChannelsType, Wedges
<1>2. CASE Unlocked'
  BY Zenon, <1>1, <1>2, Received DEF TimeoutLost, RecvLocked
<1>3. CASE ~Unlocked'
  <2>1. buf[chan[u]] = Nil
    BY Zenon, <1>3 DEF TimeoutLost, RecvLocked, Unlocked
  <2>2. chan[u] \in Chans
    BY Zenon DEF TimeoutLost, CallsOK
  <2>3. UNCHANGED <<buf, cc>>
    BY Zenon, <2>1, <2>2 DEF TimeoutLost, RecvLocked, TypeOK, ChannelsType
  <2>4. UNCHANGED <<queue, hold, known, floor, jobs, pc, chan>>
    BY Zenon, <1>3 DEF TimeoutLost, callVars
  <2>5. TypeOK'
    BY Zenon, <1>1, <2>3, <2>4 DEF TimeoutLost, TypeOK, ChannelsType
  <2> QED  BY Zenon, <2>3, <2>4, <2>5, Unmoved DEF CallsOK
<1> QED  BY Zenon, <1>2, <1>3

\* The timer of an Acquire fires.
LEMMA TimerStep ==
  ASSUME RobInv, NEW u \in Users, TimerFires(u)
  PROVE  RobInv' /\ floor' >= floor
<1> USE DEF RobInv, WorkersSafe
<1>1. /\ pc[u] = "waiting" /\ pc' = [pc EXCEPT ![u] = "timedout"] /\ fired' = TRUE
      /\ UNCHANGED <<closed, queue, workers, workerUser, floor, users, stride, scheduled,
                     jobs, wedged, cc, buf, shut, waiting, chan, hold, known, acquires>>
  BY Zenon DEF TimerFires, schedVars, chanVars
<1>2. TypeOK' /\ CallsOK'
  BY Zenon, <1>1 DEF TypeOK, ChannelsType, CallsOK
<1> QED  BY Zenon, <1>1, <1>2, Unmoved

\* A timeout of a user whose job is gone gives back what it was sent.
LEMMA TimeoutRemovedStep ==
  ASSUME RobInv, NEW u \in Users, TimeoutRemoved(u)
  PROVE  RobInv' /\ floor' >= floor
<1> USE DEF RobInv, WorkersSafe
<1> DEFINE c == chan[u]
           v == buf[c]
           drained == [buf EXCEPT ![c] = Nil]
<1>1. /\ pc[u] = "timedout" /\ Return(u, Nil)
      /\ cc' = IF v # Nil THEN Append(cc, c) ELSE cc
      /\ UNCHANGED <<shut, waiting, known, acquires, fired>>
  BY Zenon DEF TimeoutRemoved
<1>2. c \in Chans /\ v \in Workers \cup {Nil}
  BY Zenon, <1>1 DEF CallsOK, TypeOK, ChannelsType
<1>3. /\ cc' \in Seq(Chans) /\ drained \in [Chans -> Workers \cup {Nil}]
      /\ \A d \in Chans : drained[d] \in {buf[d], Nil} /\ (d = c => drained[d] = Nil)
  <2>1. cc \in Seq(Chans) /\ buf \in [Chans -> Workers \cup {Nil}]
    BY Zenon DEF TypeOK, ChannelsType
  <2> QED  BY <1>1, <1>2, <2>1
<1>4. /\ pc' \in [Users -> {"idle", "waiting", "timedout"}]
      /\ chan' \in [Users -> Chans \cup {Nil}] /\ hold' \in [Users -> Workers \cup {Nil}]
      /\ CallsOK' /\ \A x \in Users : hold'[x] \in {hold[x], Nil}
  BY Zenon, <1>1 DEF Return, CallsOK, TypeOK
<1>5. CASE /\ v # Nil /\ v \in workers /\ ReleaseWorker(v, drained)
           /\ UNCHANGED <<closed, workers, users>>
  <2>1. /\ v \in Workers /\ v \in known' /\ v \notin Elements(queue)
        /\ (\A d \in Chans : drained[d] # v) /\ (\A x \in Users : hold'[x] # v)
    BY <1>1, <1>2, <1>3, <1>4, <1>5 DEF NoWorkerShared, KnownOK
  <2> HIDE DEF v, drained
  <2>2. /\ queue' \in Seq(Workers) /\ buf' \in [Chans -> Workers \cup {Nil}]
        /\ workerUser' \in [Workers -> Users \cup {Nil}] /\ floor' \in Nat
        /\ stride' \in [Users -> Nat] /\ scheduled' \in [Users -> BOOLEAN]
        /\ jobs' \in SUBSET Job /\ wedged' \in Wedges
        /\ NoWorkerShared' /\ WorkConserving' /\ KnownOK' /\ AboveFloor'
        /\ floor' >= floor
    BY Zenon, <1>1, <1>3, <1>4, <1>5, <2>1, Released
  <2>3. TypeOK'
    BY Zenon, <1>1, <1>3, <1>4, <1>5, <2>2 DEF TypeOK, ChannelsType
  <2> QED  BY Zenon, <1>4, <2>2, <2>3
<1>6. CASE buf' = drained /\ UNCHANGED schedVars
  <2>1. UNCHANGED <<closed, queue, workers, workerUser, floor, users, stride, scheduled,
                    jobs, wedged>>
    BY Zenon, <1>6 DEF schedVars
  <2>2. Distinct(queue') /\ Elements(queue') = Elements(queue)
    BY Zenon, <2>1 DEF NoWorkerShared
  <2> HIDE DEF v, drained
  <2>3. NoWorkerShared' /\ KnownOK'
    BY Zenon, <1>1, <1>3, <1>4, <1>6, <2>2, Placed
  <2>4. TypeOK'
    BY Zenon, <1>1, <1>3, <1>4, <1>6, <2>1 DEF TypeOK, ChannelsType
  <2>5. WorkConserving' /\ AboveFloor' /\ floor' >= floor
    BY <2>1 DEF WorkConserving, AboveFloor, TypeOK
  <2> QED  BY Zenon, <1>4, <2>3, <2>4, <2>5
<1> QED  BY Zenon, <1>5, <1>6 DEF TimeoutRemoved

\* A timeout takes its job out of the schedule and recycles its channel.
LEMMA TimeoutQueuedStep ==
  ASSUME RobInv, NEW u \in Users, TimeoutQueued(u)
  PROVE  RobInv' /\ floor' >= floor
<1> USE DEF RobInv, WorkersSafe
<1>1. /\ pc[u] = "timedout" /\ Return(u, Nil)
      /\ scheduled' = [scheduled EXCEPT ![u] = FALSE] /\ jobs' = jobs \ JobsAt(stride[u])
      /\ cc' = Append(cc, chan[u])
      /\ UNCHANGED <<closed, queue, workers, workerUser, floor, users, stride, wedged,
                     buf, shut, waiting, known, acquires, fired>>
  BY Zenon DEF TimeoutQueued, PutChan
<1>2. cc' \in Seq(Chans)
  <2>1. cc \in Seq(Chans) /\ chan[u] \in Chans
    BY Zenon, <1>1 DEF CallsOK, TypeOK, ChannelsType
  <2>2. cc' = Append(cc, chan[u])
    BY Zenon, <1>1
  <2> QED  BY Zenon, <2>1, <2>2, AppendElements
<1>3. /\ pc' \in [Users -> {"idle", "waiting", "timedout"}]
      /\ chan' \in [Users -> Chans \cup {Nil}] /\ hold' \in [Users -> Workers \cup {Nil}]
      /\ CallsOK' /\ \A x \in Users : hold'[x] \in {hold[x], Nil}
  BY Zenon, <1>1 DEF Return, CallsOK, TypeOK
<1>4. TypeOK'
  BY Zenon, <1>1, <1>2, <1>3 DEF TypeOK, ChannelsType
<1>5. Distinct(queue') /\ Elements(queue') = Elements(queue)
  BY Zenon, <1>1 DEF NoWorkerShared
<1>6. NoWorkerShared' /\ KnownOK'
  BY Zenon, <1>1, <1>3, <1>5, Placed
<1>7. WorkConserving' /\ AboveFloor' /\ floor' >= floor
  BY <1>1 DEF WorkConserving, AboveFloor, TypeOK
<1> QED  BY Zenon, <1>3, <1>4, <1>6, <1>7

\* Release charges the user and hands the worker on.
LEMMA ReleaseStep ==
  ASSUME RobInv, NEW u \in Users, Release(u)
  PROVE  RobInv' /\ floor' >= floor
<1> USE DEF RobInv, WorkersSafe
<1> DEFINE w == hold[u]
<1>1. /\ w # Nil /\ hold' = [hold EXCEPT ![u] = Nil]
      /\ UNCHANGED <<cc, shut, waiting, pc, chan, known, acquires, fired>>
  BY Zenon DEF Release
<1>2. /\ hold' \in [Users -> Workers \cup {Nil}] /\ CallsOK'
      /\ \A x \in Users : hold'[x] \in {hold[x], Nil} /\ (x = u => hold'[x] = Nil)
  BY Zenon, <1>1 DEF CallsOK, TypeOK
<1>3. CASE w \in workers /\ ReleaseWorker(w, buf) /\ UNCHANGED <<closed, workers, users>>
  <2>1. /\ w \in Workers /\ w \in known' /\ w \notin Elements(queue)
        /\ (\A d \in Chans : buf[d] # w) /\ (\A x \in Users : hold'[x] # w)
    BY Zenon, <1>1, <1>2 DEF TypeOK, NoWorkerShared, KnownOK
  <2>2. buf \in [Chans -> Workers \cup {Nil}]
    BY Zenon DEF TypeOK, ChannelsType
  <2> HIDE DEF w
  <2>3. /\ queue' \in Seq(Workers) /\ buf' \in [Chans -> Workers \cup {Nil}]
        /\ workerUser' \in [Workers -> Users \cup {Nil}] /\ floor' \in Nat
        /\ stride' \in [Users -> Nat] /\ scheduled' \in [Users -> BOOLEAN]
        /\ jobs' \in SUBSET Job /\ wedged' \in Wedges
        /\ NoWorkerShared' /\ WorkConserving' /\ KnownOK' /\ AboveFloor'
        /\ floor' >= floor
    BY Zenon, <1>1, <1>2, <1>3, <2>1, <2>2, Released
  <2>4. TypeOK'
    BY Zenon, <1>1, <1>2, <1>3, <2>3 DEF TypeOK, ChannelsType
  <2> QED  BY Zenon, <1>2, <2>3, <2>4
<1>4. CASE UNCHANGED <<schedVars, buf>>
  <2>1. UNCHANGED <<closed, queue, workers, workerUser, floor, users, stride, scheduled,
                    jobs, wedged, buf>>
    BY Zenon, <1>4 DEF schedVars
  <2>2. Distinct(queue') /\ Elements(queue') = Elements(queue)
    BY Zenon, <2>1 DEF NoWorkerShared
  <2>3. NoWorkerShared' /\ KnownOK'
    BY Zenon, <1>1, <1>2, <2>1, <2>2, Placed
  <2>4. TypeOK'
    BY Zenon, <1>1, <1>2, <2>1 DEF TypeOK, ChannelsType
  <2>5. WorkConserving' /\ AboveFloor' /\ floor' >= floor
    BY <2>1 DEF WorkConserving, AboveFloor, TypeOK
  <2> QED  BY Zenon, <1>2, <2>3, <2>4, <2>5
<1> QED  BY Zenon, <1>3, <1>4 DEF Release

\* Close empties the scheduler.
LEMMA CloseStep ==
  ASSUME RobInv, Close
  PROVE  RobInv' /\ floor' >= floor
<1> USE DEF RobInv, WorkersSafe
<1>1. /\ closed' = TRUE /\ users' = {} /\ workers' = {} /\ queue' = <<>> /\ jobs' = {}
      /\ UNCHANGED <<workerUser, floor, stride, scheduled, cc, buf, waiting, pc, chan, hold,
                     known, acquires, fired>>
  BY Zenon DEF Close, callVars
<1>2. shut' \in SUBSET Chans /\ wedged' \in Wedges
  <2>1. {j.ready : j \in jobs} \subseteq Chans
    BY Zenon DEF TypeOK, Job
  <2> QED  BY Zenon, <2>1 DEF Close, CloseAll, TypeOK, ChannelsType, Wedges
<1>3. queue' \in Seq(Workers) /\ Distinct(queue') /\ Elements(queue') = {}
  BY Zenon, <1>1, EmptyElements
<1>4. NoWorkerShared' /\ KnownOK'
  BY Zenon, <1>1, <1>3, Placed
<1>5. TypeOK'
  BY Zenon, <1>1, <1>2, <1>3 DEF TypeOK, ChannelsType
<1>6. CallsOK'
  BY Zenon, <1>1 DEF CallsOK
<1>7. WorkConserving' /\ AboveFloor' /\ floor' >= floor
  BY <1>1 DEF WorkConserving, AboveFloor, TypeOK
<1> QED  BY Zenon, <1>4, <1>5, <1>6, <1>7

\* The scale loop takes a signal, or nothing happens.
LEMMA QuietStep ==
  ASSUME RobInv, TakeWaiting \/ UNCHANGED vars
  PROVE  RobInv' /\ floor' >= floor
<1> USE DEF RobInv, WorkersSafe
<1>1. /\ UNCHANGED <<closed, queue, workers, workerUser, floor, users, stride, scheduled,
                     jobs, wedged, cc, buf, shut, pc, chan, hold, known, acquires, fired>>
      /\ waiting' \in BOOLEAN
  BY Zenon DEF TakeWaiting, vars, schedVars, chanVars, callVars, TypeOK
<1>2. TypeOK' /\ CallsOK'
  BY Zenon, <1>1 DEF TypeOK, ChannelsType, CallsOK
<1> QED  BY Zenon, <1>1, <1>2, Unmoved

-----------------------------------------------------------------------------

\* Every step keeps RobInv, and the floor does not fall.
LEMMA RobStep == RobInv /\ [Next]_vars => RobInv' /\ floor' >= floor
<1> SUFFICES ASSUME RobInv, [Next]_vars PROVE RobInv' /\ floor' >= floor
  BY Zenon
<1>1. CASE \E w \in Workers : AddWorker(w) \/ DeleteWorker(w)
  BY Zenon, <1>1, AddWorkerStep, DeleteWorkerStep
<1>2. CASE \E u \in Users : AddUser(u) \/ DeleteUser(u)
  BY Zenon, <1>2, AddUserStep, DeleteUserStep
<1>3. CASE \E u \in Users : AcquireIdle(u) \/ AcquireWait(u)
  BY Zenon, <1>3, AcquireIdleStep, AcquireWaitStep
<1>4. CASE \E u \in Users : Receive(u) \/ TimerFires(u)
  BY Zenon, <1>4, ReceiveStep, TimerStep
<1>5. CASE \E u \in Users : TimeoutRemoved(u) \/ TimeoutQueued(u) \/ TimeoutLost(u)
  BY Zenon, <1>5, TimeoutRemovedStep, TimeoutQueuedStep, TimeoutLostStep
<1>6. CASE \E u \in Users : Release(u)
  BY Zenon, <1>6, ReleaseStep
<1>7. CASE Close
  BY Zenon, <1>7, CloseStep
<1>8. CASE TakeWaiting \/ UNCHANGED vars
  BY Zenon, <1>8, QuietStep
<1> QED
  BY Zenon, <1>1, <1>2, <1>3, <1>4, <1>5, <1>6, <1>7, <1>8 DEF Next, Acquire

\* The scheduler never has a worker in two places, and none is idle while a job
\* waits: whatever users and workers come and go, and whenever timers fire.
THEOREM RobWorkersSafe == Spec => []WorkersSafe
<1>1. RobInv /\ [Next]_vars => RobInv'
  BY Zenon, RobStep
<1> QED  BY RobInitially, <1>1, PTL DEF Spec, RobInv

\* The floor of the scheduler never falls, so a user that was idle cannot return
\* with a stride below that of the last job served.
THEOREM RobFloorMonotone == Spec => FloorMonotone
<1>1. RobInv /\ [Next]_vars => RobInv'
  BY Zenon, RobStep
<1>2. RobInv /\ [Next]_vars => [floor' >= floor]_vars
  BY Zenon, RobStep
<1> QED  BY RobInitially, <1>1, <1>2, PTL DEF Spec, FloorMonotone

-----------------------------------------------------------------------------
\* Until a timer fires, nobody waits in vain, and the scheduler implements the
\* interface Pooler.

\* An Acquire that waits has a channel of its own and no worker yet.
CallsApart ==
  /\ \A u \in Users : pc[u] # "timedout"
  /\ \A u \in Users : pc[u] = "idle" => chan[u] = Nil
  /\ \A u \in Users : pc[u] = "waiting" => hold[u] = Nil
  /\ \A u, v \in Users : chan[u] # Nil /\ chan[u] = chan[v] => u = v

\* A job waits on the channel of its user, which is open and empty, and a worker
\* is charged to the user that has it or that it was sent to.
JobsServed ==
  /\ \A j \in jobs : chan[j.user] = j.ready /\ buf[j.ready] = Nil /\ j.ready \notin shut
  /\ \A u \in Users : chan[u] # Nil /\ buf[chan[u]] # Nil =>
       chan[u] \notin shut /\ workerUser[buf[chan[u]]] = u
  /\ \A u \in Users : hold[u] # Nil => workerUser[hold[u]] = u

\* Ids that have not been used have left no trace, and Close leaves no worker.
FreshOK ==
  /\ users \cup workers \subseteq known
  /\ \A u \in Users \ known : ~scheduled[u]
  /\ \A w \in Workers \ known : workerUser[w] = Nil
  /\ closed => workers = {}

WaitInv == WaitersSafe /\ FreshOK /\ (~fired => CallsApart /\ JobsServed)

\* Before the first call.
LEMMA WaitInitially == Init => WaitInv
<1> SUFFICES ASSUME Init PROVE WaitInv
  BY Zenon
<1> USE DEF Init, ChannelsInit
<1>1. Elements(cc) = {} /\ Distinct(cc)
  BY Zenon, EmptyElements
<1>2. WaitersSafe
  BY Zenon, <1>1 DEF WaitersSafe, NoWaiterLost, Blocked, WaitersAreJobs, PooledChansClean,
     NeverWedged
<1>3. FreshOK /\ CallsApart /\ JobsServed
  BY Zenon DEF FreshOK, CallsApart, JobsServed
<1> QED  BY Zenon, <1>2, <1>3 DEF WaitInv

\* What WaitInv says of a job: nobody else has its stride, its user or its channel.
LEMMA JobFacts ==
  ASSUME RobInv, WaitInv, ~fired, NEW j \in jobs
  PROVE  /\ j.stride \in Nat /\ j.user \in Users /\ j.ready \in Chans
         /\ j.user \in users /\ scheduled[j.user] /\ j.stride = stride[j.user]
         /\ pc[j.user] = "waiting" /\ hold[j.user] = Nil
         /\ chan[j.user] = j.ready /\ buf[j.ready] = Nil /\ j.ready \notin shut
         /\ JobsAt(j.stride) = {j}
         /\ \A k \in jobs : k # j =>
              k.user # j.user /\ k.stride # j.stride /\ k.ready # j.ready
<1> USE DEF RobInv, WorkersSafe, WaitInv, WaitersSafe
<1>1. j.stride \in Nat /\ j.user \in Users /\ j.ready \in Chans
  BY Zenon DEF TypeOK, Job
<1>2. chan[j.user] = j.ready /\ buf[j.ready] = Nil /\ j.ready \notin shut
  BY Zenon DEF JobsServed
<1>3. pc[j.user] = "waiting" /\ hold[j.user] = Nil
  BY Zenon, <1>1, <1>2, RobAssumption DEF CallsApart, TypeOK
<1>4. j.user \in users /\ scheduled[j.user]
  BY Zenon DEF WaitersAreJobs
<1>5. \A k \in jobs : k.user = j.user \/ k.stride = j.stride => k = j
  BY Zenon DEF WaitersAreJobs
<1>6. j.stride = stride[j.user]
  BY Zenon, <1>4, <1>5 DEF WaitersAreJobs
<1>7. JobsAt(j.stride) = {j}
  BY Zenon, <1>5 DEF JobsAt
<1>8. \A k \in jobs : k.ready = j.ready => k = j
  <2> SUFFICES ASSUME NEW k \in jobs, k.ready = j.ready PROVE k = j
    BY Zenon
  <2>1. k.user \in Users /\ chan[k.user] = k.ready
    BY Zenon DEF TypeOK, Job, JobsServed
  <2>2. k.user = j.user
    BY Zenon, <1>1, <1>2, <2>1, RobAssumption DEF CallsApart
  <2> QED  BY Zenon, <1>5, <2>2
<1> QED  BY Zenon, <1>1, <1>2, <1>3, <1>4, <1>5, <1>6, <1>7, <1>8

\* releaseWorker while no timer has fired: the worker goes to the queue, or on the
\* channel of the one job at the least stride.
LEMMA CalmRelease ==
  ASSUME RobInv, WaitInv, ~fired, NEW w \in Workers, ReleaseWorker(w, buf)
  PROVE  /\ wedged' = "no"
         /\ \A u \in Users : stride'[u] = stride[u] \/ u = workerUser[w]
         /\ \/ /\ jobs = {} /\ jobs' = {} /\ buf' = buf /\ scheduled' = scheduled
               /\ queue' = Append(queue, w)
               /\ workerUser' = [workerUser EXCEPT ![w] = Nil]
            \/ \E j \in jobs :
                 /\ jobs' = jobs \ {j} /\ buf' = [buf EXCEPT ![j.ready] = w]
                 /\ scheduled' = [scheduled EXCEPT ![j.user] = FALSE]
                 /\ queue' = queue
                 /\ workerUser' = [workerUser EXCEPT ![w] = j.user]
<1> USE DEF RobInv, WorkersSafe, WaitInv, WaitersSafe
<1>1. wedged = "no"
  BY Zenon DEF NeverWedged
<1>2. \A u \in Users : stride'[u] = stride[u] \/ u = workerUser[w]
  BY Zenon DEF ReleaseWorker, TypeOK
<1>3. CASE /\ jobs = {} /\ queue' = Append(queue, w)
           /\ workerUser' = [workerUser EXCEPT ![w] = Nil] /\ buf' = buf
           /\ UNCHANGED <<floor, jobs, scheduled, wedged>>
  BY Zenon, <1>1, <1>2, <1>3
<1>4. ASSUME NEW j \in jobs, jobs' = jobs \ JobsAt(j.stride),
             scheduled' = [scheduled EXCEPT ![j.user] = FALSE],
             workerUser' = [workerUser EXCEPT ![w] = j.user],
             Send(j.ready, w, buf), UNCHANGED queue
      PROVE  /\ wedged' = "no" /\ jobs' = jobs \ {j}
             /\ buf' = [buf EXCEPT ![j.ready] = w]
  <2>1. JobsAt(j.stride) = {j} /\ buf[j.ready] = Nil /\ j.ready \notin shut
    BY Zenon, JobFacts
  <2> QED  BY Zenon, <1>1, <1>4, <2>1 DEF Send
<1> QED  BY Zenon, <1>2, <1>3, <1>4 DEF ReleaseWorker

\* A worker that nobody has and that is charged to nobody who waits can be released.
LEMMA CalmHandOver ==
  ASSUME RobInv, WaitInv, ~fired, NEW w \in Workers, ReleaseWorker(w, buf),
         \A u \in Users : u = workerUser[w] => pc[u] = "idle",
         \A c \in Chans : buf[c] # w,
         hold' \in [Users -> Workers \cup {Nil}],
         \A u \in Users : hold'[u] \in {hold[u], Nil} /\ hold'[u] # w,
         UNCHANGED <<users, cc, shut, pc, chan, fired>>
  PROVE  WaitersSafe' /\ CallsApart' /\ JobsServed'
<1> USE DEF RobInv, WorkersSafe, WaitInv
<1>1. \A j \in jobs : j.user # workerUser[w] /\ j.user \in Users /\ j.ready \in Chans
  BY Zenon, JobFacts
<1>2. wedged' = "no" /\ \A j \in jobs : stride'[j.user] = stride[j.user]
  BY Zenon, <1>1, CalmRelease
<1>3. w # Nil
  BY Zenon, RobAssumption
<1>4. CallsApart'
  BY Zenon DEF CallsApart
<1>5. CASE /\ jobs = {} /\ jobs' = {} /\ buf' = buf /\ scheduled' = scheduled
           /\ queue' = Append(queue, w)
           /\ workerUser' = [workerUser EXCEPT ![w] = Nil]
  <2>1. NoWaiterLost' /\ NeverWedged'
    BY Zenon, <1>2, <1>5 DEF WaitersSafe, NoWaiterLost, NeverWedged, Blocked
  <2>2. WaitersAreJobs'
    BY Zenon, <1>5 DEF WaitersSafe, WaitersAreJobs
  <2>3. PooledChansClean'
    BY <1>5 DEF WaitersSafe, PooledChansClean, InUse
  <2>4. JobsServed'
    BY <1>5 DEF JobsServed, CallsApart, TypeOK, ChannelsType
  <2> QED  BY Zenon, <1>4, <2>1, <2>2, <2>3, <2>4 DEF WaitersSafe
<1>6. ASSUME NEW j \in jobs, jobs' = jobs \ {j}, buf' = [buf EXCEPT ![j.ready] = w],
             scheduled' = [scheduled EXCEPT ![j.user] = FALSE],
             workerUser' = [workerUser EXCEPT ![w] = j.user]
      PROVE  WaitersSafe' /\ CallsApart' /\ JobsServed'
  <2>1. /\ j.user \in Users /\ j.ready \in Chans /\ chan[j.user] = j.ready
        /\ j.ready \notin shut /\ j.ready # Nil
        /\ \A k \in jobs : k # j => k.user # j.user /\ k.ready # j.ready
    BY Zenon, JobFacts, RobAssumption
  <2>2. /\ \A c \in Chans : c # j.ready => buf'[c] = buf[c]
        /\ buf'[j.ready] = w
        /\ \A x \in Workers : x # w => workerUser'[x] = workerUser[x]
        /\ workerUser'[w] = j.user
        /\ \A u \in Users : u # j.user => scheduled'[u] = scheduled[u]
        /\ ~scheduled'[j.user]
    BY Zenon, <1>6, <2>1 DEF TypeOK, ChannelsType
  <2>3. NoWaiterLost' /\ NeverWedged'
    <3> SUFFICES ASSUME NEW u \in Users, Blocked(u)
                 PROVE  \/ buf'[chan[u]] # Nil
                        \/ chan[u] \in shut
                        \/ \E k \in jobs' : k.user = u /\ k.ready = chan[u]
      BY Zenon, <1>2 DEF NoWaiterLost, NeverWedged, Blocked
    <3>1. chan[u] \in Chans
      BY Zenon DEF CallsOK, Blocked
    <3>2. CASE chan[u] = j.ready
      BY Zenon, <1>3, <2>2, <3>2
    <3>3. CASE chan[u] # j.ready
      BY Zenon, <1>6, <2>2, <3>1, <3>3 DEF WaitersSafe, NoWaiterLost
    <3> QED  BY Zenon, <3>2, <3>3
  <2>4. WaitersAreJobs'
    <3>1. \A k \in jobs' : k.user \in users /\ scheduled'[k.user]
      BY <1>1, <1>6, <2>1, <2>2 DEF WaitersSafe, WaitersAreJobs
    <3>2. ASSUME NEW u \in users, scheduled'[u]
          PROVE  \E k \in jobs' : k.user = u /\ k.stride = stride'[u]
      <4>1. u \in Users /\ u # j.user /\ scheduled[u]
        BY Zenon, <2>2, <3>2 DEF TypeOK
      <4>2. PICK k \in jobs : k.user = u /\ k.stride = stride[u]
        BY Zenon, <4>1 DEF WaitersSafe, WaitersAreJobs
      <4> QED  BY Zenon, <1>2, <1>6, <4>1, <4>2
    <3>3. \A k, l \in jobs' : k.user = l.user \/ k.stride = l.stride => k = l
      BY Zenon, <1>6 DEF WaitersSafe, WaitersAreJobs
    <3> QED  BY Zenon, <3>1, <3>2, <3>3 DEF WaitersAreJobs
  <2>5. PooledChansClean'
    <3>1. Distinct(cc) /\ \A c \in Elements(cc) : buf[c] = Nil /\ c \notin shut \cup InUse
      BY Zenon DEF WaitersSafe, PooledChansClean
    <3>2. InUse' \subseteq InUse /\ j.ready \in InUse
      BY Zenon, <1>6 DEF InUse
    <3>3. Elements(cc) \subseteq Chans
      BY Zenon, ElementsType DEF TypeOK, ChannelsType
    <3> QED  BY Zenon, <2>2, <3>1, <3>2, <3>3 DEF PooledChansClean
  <2>6. JobsServed'
    <3>1. \A k \in jobs' : chan[k.user] = k.ready /\ buf'[k.ready] = Nil /\ k.ready \notin shut
      BY Zenon, <1>1, <1>6, <2>1, <2>2 DEF JobsServed
    <3>2. ASSUME NEW u \in Users, chan[u] # Nil, buf'[chan[u]] # Nil
          PROVE  chan[u] \notin shut /\ workerUser'[buf'[chan[u]]] = u
      <4>1. chan[u] \in Chans
        BY Zenon, <3>2 DEF TypeOK
      <4>2. CASE chan[u] = j.ready
        BY <2>1, <2>2, <4>2 DEF CallsApart
      <4>3. CASE chan[u] # j.ready
        <5>1. buf'[chan[u]] = buf[chan[u]] /\ buf[chan[u]] \in Workers /\ buf[chan[u]] # w
          BY <2>2, <3>2, <4>1, <4>3 DEF TypeOK, ChannelsType
        <5> QED  BY <2>2, <3>2, <5>1 DEF JobsServed
      <4> QED  BY Zenon, <4>2, <4>3
    <3>3. \A u \in Users : hold'[u] # Nil => workerUser'[hold'[u]] = u
      BY <2>2 DEF JobsServed
    <3> QED  BY Zenon, <3>1, <3>2, <3>3 DEF JobsServed
  <2> QED  BY Zenon, <1>4, <2>3, <2>4, <2>5, <2>6 DEF WaitersSafe
<1> QED  BY Zenon, <1>5, <1>6, CalmRelease

\* Every step keeps FreshOK, whether or not timers have fired.
LEMMA FreshStep ==
  ASSUME RobInv, FreshOK, [Next]_vars
  PROVE  FreshOK'
<1> USE DEF RobInv, WorkersSafe
<1>1. ASSUME NEW w \in Workers, NEW b, w \in known', known \subseteq known',
             users' \cup workers' \subseteq known', closed' => workers' = {},
             ReleaseWorker(w, b)
      PROVE  FreshOK'
  <2>1. \A j \in jobs : j.user \in Users
    BY Zenon DEF TypeOK, Job
  <2>2. \A u \in Users : scheduled[u] = FALSE => scheduled'[u] = FALSE
    BY Zenon, <1>1, <2>1 DEF ReleaseWorker, TypeOK
  <2>3. \A x \in Workers : x # w => workerUser'[x] = workerUser[x]
    BY Zenon, <1>1 DEF ReleaseWorker, TypeOK
  <2> QED  BY Zenon, <1>1, <2>2, <2>3 DEF FreshOK, TypeOK
<1>2. ASSUME NEW w \in Workers, AddWorker(w) PROVE FreshOK'
  BY Zenon, <1>1, <1>2 DEF AddWorker, FreshOK
<1>3. ASSUME NEW w \in Workers, DeleteWorker(w) PROVE FreshOK'
  BY Zenon, <1>3 DEF DeleteWorker, FreshOK
<1>4. ASSUME NEW u \in Users, AddUser(u) \/ DeleteUser(u) PROVE FreshOK'
  <2>1. CASE AddUser(u)
    BY Zenon, <2>1 DEF AddUser, FreshOK
  <2>2. CASE DeleteUser(u)
    BY Zenon, <2>2 DEF DeleteUser, FreshOK
  <2> QED  BY Zenon, <1>4, <2>1, <2>2
<1>5. ASSUME NEW u \in Users, AcquireIdle(u) PROVE FreshOK'
  <2>1. queue[Len(queue)] \in Elements(queue) /\ queue[Len(queue)] \in Workers
    BY Zenon, <1>5, FrontElements DEF AcquireIdle, TypeOK, NoWorkerShared
  <2>2. queue[Len(queue)] \in known
    BY Zenon, <2>1 DEF KnownOK
  <2>3. \A x \in Workers : x # queue[Len(queue)] => workerUser'[x] = workerUser[x]
    BY Zenon, <1>5, <2>1 DEF AcquireIdle, TypeOK
  <2> QED  BY Zenon, <1>5, <2>2, <2>3 DEF AcquireIdle, FreshOK
<1>6. ASSUME NEW u \in Users, AcquireWait(u) PROVE FreshOK'
  <2>1. u \in known /\ \A x \in Users : x # u => scheduled'[x] = scheduled[x]
    BY Zenon, <1>6 DEF AcquireWait, CanAcquire, FreshOK, TypeOK
  <2> QED  BY Zenon, <1>6, <2>1 DEF AcquireWait, FreshOK
<1>7. ASSUME NEW u \in Users, Receive(u) \/ TimerFires(u) \/ TimeoutLost(u) PROVE FreshOK'
  BY <1>7 DEF Receive, TimerFires, TimeoutLost, schedVars, FreshOK
<1>8. ASSUME NEW u \in Users, TimeoutQueued(u) PROVE FreshOK'
  BY Zenon, <1>8 DEF TimeoutQueued, FreshOK, TypeOK
<1>9. ASSUME NEW u \in Users, TimeoutRemoved(u) PROVE FreshOK'
  <2>1. CASE UNCHANGED schedVars
    BY Zenon, <1>9, <2>1 DEF TimeoutRemoved, schedVars, FreshOK
  <2>2. CASE ~UNCHANGED schedVars
    <3>1. /\ buf[chan[u]] \in workers /\ UNCHANGED <<closed, workers, users, known>>
          /\ ReleaseWorker(buf[chan[u]], [buf EXCEPT ![chan[u]] = Nil])
      BY Zenon, <1>9, <2>2 DEF TimeoutRemoved
    <3>2. buf[chan[u]] \in Workers /\ buf[chan[u]] \in known'
      BY Zenon, <3>1 DEF TypeOK, FreshOK
    <3> QED  BY Zenon, <1>1, <3>1, <3>2 DEF FreshOK
  <2> QED  BY Zenon, <2>1, <2>2
<1>10. ASSUME NEW u \in Users, Release(u) PROVE FreshOK'
  <2>1. CASE hold[u] \in workers /\ ReleaseWorker(hold[u], buf) /\ UNCHANGED <<closed, workers, users>>
    <3>1. hold[u] \in Workers /\ hold[u] \in known' /\ known' = known
      BY Zenon, <1>10, <2>1 DEF Release, TypeOK, FreshOK
    <3> QED  BY Zenon, <1>1, <2>1, <3>1 DEF FreshOK
  <2>2. CASE UNCHANGED schedVars
    BY Zenon, <1>10, <2>2 DEF Release, schedVars, FreshOK
  <2> QED  BY Zenon, <1>10, <2>1, <2>2 DEF Release
<1>11. CASE Close
  BY Zenon, <1>11 DEF Close, FreshOK
<1>12. CASE TakeWaiting \/ UNCHANGED vars
  BY <1>12 DEF TakeWaiting, vars, schedVars, FreshOK
<1> QED
  BY Zenon, <1>2, <1>3, <1>4, <1>5, <1>6, <1>7, <1>8, <1>9, <1>10, <1>11, <1>12 DEF Next, Acquire

-----------------------------------------------------------------------------
\* One lemma for each operation, for as long as no timer has fired.

\* A new worker is charged to nobody.
LEMMA CalmAddWorker ==
  ASSUME RobInv, WaitInv, ~fired, NEW w \in Workers, AddWorker(w)
  PROVE  WaitersSafe' /\ CallsApart' /\ JobsServed'
<1> USE DEF RobInv, WorkersSafe, WaitInv
<1>1. /\ ReleaseWorker(w, buf) /\ w \notin known
      /\ UNCHANGED <<users, cc, shut, pc, chan, hold, fired>>
  BY Zenon DEF AddWorker, callVars
<1>2. workerUser[w] = Nil
  BY Zenon, <1>1 DEF FreshOK
<1>3. /\ \A u \in Users : u # workerUser[w]
      /\ \A c \in Chans : buf[c] # w
      /\ hold' \in [Users -> Workers \cup {Nil}]
      /\ \A u \in Users : hold'[u] \in {hold[u], Nil} /\ hold'[u] # w
  BY <1>1, <1>2, RobAssumption DEF KnownOK, TypeOK
<1> QED  BY Zenon, <1>1, <1>3, CalmHandOver

\* Release: the user that is charged does not wait.
LEMMA CalmReleaseUser ==
  ASSUME RobInv, WaitInv, ~fired, NEW u \in Users, Release(u)
  PROVE  WaitersSafe' /\ CallsApart' /\ JobsServed'
<1> USE DEF RobInv, WorkersSafe, WaitInv
<1>1. /\ hold[u] # Nil /\ hold' = [hold EXCEPT ![u] = Nil]
      /\ UNCHANGED <<cc, shut, pc, chan, fired>>
  BY Zenon DEF Release
<1>2. /\ hold[u] \in Workers /\ workerUser[hold[u]] = u /\ pc[u] = "idle"
      /\ \A c \in Chans : buf[c] # hold[u]
  BY <1>1 DEF CallsApart, JobsServed, NoWorkerShared, TypeOK
<1>3. /\ hold' \in [Users -> Workers \cup {Nil}]
      /\ \A v \in Users : hold'[v] \in {hold[v], Nil} /\ hold'[v] # hold[u]
  BY Zenon, <1>1 DEF NoWorkerShared, TypeOK
<1>4. CASE ReleaseWorker(hold[u], buf) /\ UNCHANGED users
  BY Zenon, <1>1, <1>2, <1>3, <1>4, CalmHandOver
<1>5. CASE UNCHANGED <<schedVars, buf>>
  <2>1. UNCHANGED <<workerUser, users, stride, scheduled, jobs, wedged, buf, cc, shut, pc,
                    chan, fired>>
    BY Zenon, <1>1, <1>5 DEF schedVars
  <2>2. NoWaiterLost' /\ NeverWedged'
    BY Zenon, <2>1 DEF WaitersSafe, NoWaiterLost, NeverWedged, Blocked
  <2>3. WaitersAreJobs' /\ PooledChansClean'
    BY <2>1 DEF WaitersSafe, WaitersAreJobs, PooledChansClean, InUse
  <2>4. CallsApart' /\ JobsServed'
    BY Zenon, <1>3, <2>1 DEF CallsApart, JobsServed
  <2> QED  BY Zenon, <2>2, <2>3, <2>4 DEF WaitersSafe
<1> QED  BY Zenon, <1>4, <1>5 DEF Release

\* What touches neither calls nor jobs nor channels.
LEMMA CalmQuiet ==
  ASSUME RobInv, WaitInv, ~fired,
         UNCHANGED <<workerUser, scheduled, jobs, wedged, buf, cc, shut, pc, chan, hold,
                     fired>>,
         \A u \in users' : scheduled[u] => u \in users /\ stride'[u] = stride[u],
         users \subseteq users'
  PROVE  WaitersSafe' /\ CallsApart' /\ JobsServed'
<1> USE DEF WaitInv
<1>1. NoWaiterLost' /\ NeverWedged'
  BY Zenon DEF WaitersSafe, NoWaiterLost, NeverWedged, Blocked
<1>2. WaitersAreJobs'
  BY ZenonT(40) DEF WaitersSafe, WaitersAreJobs
<1>3. PooledChansClean'
  BY DEF WaitersSafe, PooledChansClean, InUse
<1>4. CallsApart' /\ JobsServed'
  BY Zenon DEF CallsApart, JobsServed
<1> QED  BY Zenon, <1>1, <1>2, <1>3, <1>4 DEF WaitersSafe

\* DeleteWorker, AddUser and the signal of the scale loop.
LEMMA CalmOthers ==
  ASSUME RobInv, WaitInv, ~fired,
         \/ \E w \in Workers : DeleteWorker(w)
         \/ \E u \in Users : AddUser(u)
         \/ TakeWaiting
         \/ UNCHANGED vars
  PROVE  WaitersSafe' /\ CallsApart' /\ JobsServed'
<1> USE DEF RobInv, WorkersSafe, WaitInv
<1>1. ASSUME NEW w \in Workers, DeleteWorker(w)
      PROVE  WaitersSafe' /\ CallsApart' /\ JobsServed'
  BY Zenon, <1>1, CalmQuiet DEF DeleteWorker, chanVars, callVars
<1>2. ASSUME NEW u \in Users, AddUser(u)
      PROVE  WaitersSafe' /\ CallsApart' /\ JobsServed'
  <2>1. u \in Users \ known /\ ~scheduled[u] /\ users' = users \cup {u} /\ users \subseteq Users
    BY Zenon, <1>2 DEF AddUser, FreshOK, TypeOK
  <2>2. \A v \in Users : v # u => stride'[v] = stride[v]
    BY Zenon, <1>2 DEF AddUser, TypeOK
  <2>3. \A v \in users' : scheduled[v] => v \in users /\ stride'[v] = stride[v]
    BY Zenon, <2>1, <2>2
  <2> QED  BY Zenon, <1>2, <2>1, <2>3, CalmQuiet DEF AddUser, chanVars, callVars
<1>3. CASE TakeWaiting \/ UNCHANGED vars
  BY Zenon, <1>3, CalmQuiet DEF TakeWaiting, vars, schedVars, chanVars, callVars
<1> QED  BY Zenon, <1>1, <1>2, <1>3

\* DeleteUser closes the channel of the job it takes out.
LEMMA CalmDeleteUser ==
  ASSUME RobInv, WaitInv, ~fired, NEW u \in Users, DeleteUser(u)
  PROVE  WaitersSafe' /\ CallsApart' /\ JobsServed'
<1> USE DEF RobInv, WorkersSafe, WaitInv
<1>1. /\ u \in users /\ users' = users \ {u} /\ users \subseteq Users
      /\ UNCHANGED <<workerUser, stride, scheduled, cc, buf, pc, chan, hold, fired>>
  BY Zenon DEF DeleteUser, callVars, TypeOK
<1>2. CallsApart'
  BY Zenon, <1>1 DEF CallsApart
<1>3. CASE ~scheduled[u]
  <2>1. UNCHANGED <<jobs, shut, wedged>>
    BY Zenon, <1>3 DEF DeleteUser
  <2>2. NoWaiterLost' /\ NeverWedged'
    BY Zenon, <1>1, <2>1 DEF WaitersSafe, NoWaiterLost, NeverWedged, Blocked
  <2>3. WaitersAreJobs'
    BY <1>1, <1>3, <2>1 DEF WaitersSafe, WaitersAreJobs
  <2>4. PooledChansClean'
    BY Zenon, <1>1, <2>1 DEF WaitersSafe, PooledChansClean, InUse
  <2>5. JobsServed'
    BY Zenon, <1>1, <2>1 DEF JobsServed
  <2> QED  BY Zenon, <1>2, <2>2, <2>3, <2>4, <2>5 DEF WaitersSafe
<1>4. CASE scheduled[u]
  <2>1. PICK j \in jobs : j.user = u /\ j.stride = stride[u]
    BY Zenon, <1>1, <1>4 DEF WaitersSafe, WaitersAreJobs
  <2>2. /\ JobsAt(stride[u]) = {j} /\ j.ready \in Chans /\ chan[u] = j.ready
        /\ buf[j.ready] = Nil /\ j.ready \notin shut /\ j.ready # Nil
        /\ \A k \in jobs : k # j => k.user # u /\ k.ready # j.ready
    BY Zenon, <2>1, JobFacts, RobAssumption
  <2>3. /\ jobs' = jobs \ {j} /\ shut' = shut \cup {j.ready} /\ wedged' = wedged
    BY Zenon, <1>4, <2>2 DEF DeleteUser, CloseAll
  <2>4. NoWaiterLost' /\ NeverWedged'
    <3>1. \A v \in Users : Blocked(v) =>
            \/ buf[chan[v]] # Nil
            \/ chan[v] \in shut'
            \/ \E k \in jobs' : k.user = v /\ k.ready = chan[v]
      BY Zenon, <2>3 DEF WaitersSafe, NoWaiterLost
    <3> QED  BY Zenon, <1>1, <2>3, <3>1 DEF WaitersSafe, NoWaiterLost, NeverWedged, Blocked
  <2>5. WaitersAreJobs'
    <3>1. \A k \in jobs' : k.user \in users' /\ scheduled[k.user]
      BY Zenon, <1>1, <2>2, <2>3 DEF WaitersSafe, WaitersAreJobs
    <3>2. \A v \in users' : scheduled[v] => \E k \in jobs' : k.user = v /\ k.stride = stride[v]
      BY Zenon, <1>1, <2>1, <2>3 DEF WaitersSafe, WaitersAreJobs
    <3> QED  BY Zenon, <1>1, <2>3, <3>1, <3>2 DEF WaitersSafe, WaitersAreJobs
  <2>6. PooledChansClean'
    <3>1. InUse' \subseteq InUse /\ j.ready \in InUse
      BY Zenon, <1>1, <2>3 DEF InUse
    <3> QED  BY Zenon, <1>1, <2>3, <3>1 DEF WaitersSafe, PooledChansClean
  <2>7. JobsServed'
    <3>1. \A k \in jobs' : chan[k.user] = k.ready /\ buf[k.ready] = Nil /\ k.ready \notin shut'
      BY Zenon, <2>2, <2>3 DEF JobsServed
    <3>2. \A v \in Users : chan[v] # Nil /\ buf[chan[v]] # Nil =>
            chan[v] \notin shut' /\ workerUser[buf[chan[v]]] = v
      BY Zenon, <2>2, <2>3 DEF JobsServed
    <3> QED  BY Zenon, <1>1, <3>1, <3>2 DEF JobsServed
  <2> QED  BY Zenon, <1>2, <2>4, <2>5, <2>6, <2>7 DEF WaitersSafe
<1> QED  BY Zenon, <1>3, <1>4 DEF TypeOK

\* Acquire of an idle worker.
LEMMA CalmAcquireIdle ==
  ASSUME RobInv, WaitInv, ~fired, NEW u \in Users, AcquireIdle(u)
  PROVE  WaitersSafe' /\ CallsApart' /\ JobsServed'
<1> USE DEF RobInv, WorkersSafe, WaitInv
<1>1. PICK w \in Workers : w = queue[Len(queue)] /\ w \in Elements(queue)
  BY Zenon, FrontElements DEF AcquireIdle, TypeOK, NoWorkerShared
<1>2. /\ pc[u] = "idle" /\ workerUser' = [workerUser EXCEPT ![w] = u]
      /\ hold' = [hold EXCEPT ![u] = w]
      /\ UNCHANGED <<users, stride, scheduled, jobs, wedged, cc, buf, shut, pc, chan, fired>>
  BY Zenon, <1>1 DEF AcquireIdle, CanAcquire, chanVars
<1>3. NoWaiterLost' /\ NeverWedged'
  BY Zenon, <1>2 DEF WaitersSafe, NoWaiterLost, NeverWedged, Blocked
<1>4. WaitersAreJobs' /\ PooledChansClean'
  BY <1>2 DEF WaitersSafe, WaitersAreJobs, PooledChansClean, InUse
<1>5. CallsApart'
  BY Zenon, <1>2 DEF CallsApart, TypeOK
<1>6. JobsServed'
  <2>1. (\A c \in Chans : buf[c] # w) /\ (\A v \in Users : hold[v] # w) /\ w # Nil
    BY Zenon, <1>1, RobAssumption DEF NoWorkerShared
  <2>2. /\ \A x \in Workers : x # w => workerUser'[x] = workerUser[x]
        /\ workerUser'[w] = u
        /\ \A v \in Users : v # u => hold'[v] = hold[v]
        /\ hold'[u] = w
    BY Zenon, <1>2 DEF TypeOK
  <2>3. \A v \in Users : chan[v] # Nil /\ buf[chan[v]] # Nil =>
          chan[v] \notin shut /\ workerUser'[buf[chan[v]]] = v
    BY <2>1, <2>2 DEF JobsServed, TypeOK, ChannelsType
  <2>4. \A v \in Users : hold'[v] # Nil => workerUser'[hold'[v]] = v
    BY <2>1, <2>2 DEF JobsServed, TypeOK
  <2> QED  BY Zenon, <1>2, <2>3, <2>4 DEF JobsServed
<1> QED  BY Zenon, <1>3, <1>4, <1>5, <1>6 DEF WaitersSafe

\* The channel that Acquire gets from the pool is nobody's, open and empty.
LEMMA CalmGetChan ==
  ASSUME RobInv, WaitInv, ~fired, NEW c \in Chans, GetChan(c, InUse)
  PROVE  /\ c \notin InUse /\ buf'[c] = Nil /\ c \notin shut'
         /\ \A d \in InUse \cap Chans : buf'[d] = buf[d] /\ (d \in shut' <=> d \in shut)
         /\ Distinct(cc')
         /\ \A d \in Elements(cc') :
              /\ d # c /\ d \in Chans /\ buf'[d] = Nil /\ d \notin shut' \cup InUse
<1> USE DEF RobInv, WorkersSafe, WaitInv
<1>1. /\ Distinct(cc) /\ Elements(cc) \subseteq Chans /\ cc \in Seq(Chans)
      /\ \A d \in Elements(cc) : buf[d] = Nil /\ d \notin shut \cup InUse
  BY Zenon, ElementsType DEF WaitersSafe, PooledChansClean, TypeOK, ChannelsType
<1>2. CASE /\ cc # <<>> /\ c = cc[Len(cc)] /\ cc' = SubSeq(cc, 1, Len(cc) - 1)
           /\ UNCHANGED <<buf, shut>>
  <2>1. c \in Elements(cc) /\ Elements(cc') = Elements(cc) \ {c} /\ Distinct(cc')
    BY Zenon, <1>1, <1>2, FrontElements
  <2> QED  BY Zenon, <1>1, <1>2, <2>1
<1>3. CASE /\ cc = <<>> /\ c \notin InUse /\ buf' = [buf EXCEPT ![c] = Nil]
           /\ shut' = shut \ {c} /\ UNCHANGED cc
  <2>1. Elements(cc') = {} /\ Distinct(cc')
    BY Zenon, <1>3, EmptyElements
  <2> QED  BY Zenon, <1>3, <2>1 DEF TypeOK, ChannelsType
<1> QED  BY Zenon, <1>2, <1>3 DEF GetChan

\* Acquire that files a job.
LEMMA CalmAcquireWait ==
  ASSUME RobInv, WaitInv, ~fired, NEW u \in Users, AcquireWait(u)
  PROVE  WaitersSafe' /\ CallsApart' /\ JobsServed'
<1> USE DEF RobInv, WorkersSafe, WaitInv
<1>1. /\ pc[u] = "idle" /\ hold[u] = Nil /\ u \in users /\ users \subseteq Users
      /\ scheduled' = [scheduled EXCEPT ![u] = TRUE] /\ pc' = [pc EXCEPT ![u] = "waiting"]
      /\ UNCHANGED <<workerUser, users, hold, wedged, fired>>
  BY Zenon DEF AcquireWait, CanAcquire, TypeOK
<1>2. PICK c \in Chans, s \in 0..(stride[u] + floor + Cardinality(jobs)) :
        /\ GetChan(c, InUse) /\ IsSlot(s, u) /\ stride' = [stride EXCEPT ![u] = s]
        /\ jobs' = jobs \cup {[stride |-> s, user |-> u, ready |-> c]}
        /\ chan' = [chan EXCEPT ![u] = c]
  BY Zenon DEF AcquireWait
<1>3. PICK new : new = [stride |-> s, user |-> u, ready |-> c]
  BY Zenon
<1>4. new.stride = s /\ new.user = u /\ new.ready = c /\ jobs' = jobs \cup {new}
  BY Zenon, <1>2, <1>3
<1>5. /\ c \notin InUse /\ buf'[c] = Nil /\ c \notin shut' /\ c # Nil
      /\ \A d \in InUse \cap Chans : buf'[d] = buf[d] /\ (d \in shut' <=> d \in shut)
      /\ Distinct(cc')
      /\ \A d \in Elements(cc') : d # c /\ buf'[d] = Nil /\ d \notin shut' \cup InUse
  BY Zenon, <1>2, CalmGetChan, RobAssumption
<1>6. /\ \A v \in Users : v # u =>
           /\ chan'[v] = chan[v] /\ pc'[v] = pc[v] /\ stride'[v] = stride[v]
           /\ scheduled'[v] = scheduled[v]
      /\ chan'[u] = c /\ pc'[u] = "waiting" /\ stride'[u] = s /\ scheduled'[u] = TRUE
  BY Zenon, <1>1, <1>2 DEF TypeOK
<1>7. \A v \in Users : chan[v] # c /\ (chan[v] # Nil => chan[v] \in InUse \cap Chans)
  BY Zenon, <1>5 DEF InUse, TypeOK
<1>8. \A j \in jobs : /\ j.user \in users /\ j.user # u /\ j.stride # s
                      /\ j.ready \in InUse \cap Chans
  <2> SUFFICES ASSUME NEW j \in jobs
               PROVE  j.user \in users /\ j.user # u /\ j.stride # s /\ j.ready \in InUse \cap Chans
    BY Zenon
  <2>1. j.user \in users /\ pc[j.user] = "waiting" /\ j.ready \in Chans
    BY Zenon, JobFacts
  <2>2. j.stride \in Occupied /\ s \notin Occupied
    BY Zenon, <1>2 DEF IsSlot, Occupied
  <2> QED  BY Zenon, <1>1, <2>1, <2>2 DEF InUse
<1> HIDE <1>3
<1>9. NoWaiterLost' /\ NeverWedged'
  <2> SUFFICES ASSUME NEW v \in Users, Blocked(v)'
               PROVE  \/ buf'[chan'[v]] # Nil
                      \/ chan'[v] \in shut'
                      \/ \E k \in jobs' : k.user = v /\ k.ready = chan'[v]
    BY Zenon, <1>1 DEF WaitersSafe, NoWaiterLost, NeverWedged
  <2>1. CASE v = u
    BY Zenon, <1>4, <1>6, <2>1
  <2>2. CASE v # u
    <3>1. Blocked(v) /\ chan'[v] = chan[v]
      BY Zenon, <1>6, <2>2 DEF Blocked
    <3>2. chan[v] \in InUse \cap Chans
      BY Zenon, <1>7, <3>1, RobAssumption DEF CallsOK, Blocked
    <3> QED  BY <1>4, <1>5, <3>1, <3>2 DEF WaitersSafe, NoWaiterLost
  <2> QED  BY Zenon, <2>1, <2>2
<1>10. WaitersAreJobs'
  <2>1. \A j \in jobs' : j.user \in users' /\ scheduled'[j.user]
    BY <1>1, <1>4, <1>6, <1>8 DEF WaitersSafe, WaitersAreJobs
  <2>2. \A v \in users' : scheduled'[v] => \E j \in jobs' : j.user = v /\ j.stride = stride'[v]
    BY <1>1, <1>4, <1>6 DEF WaitersSafe, WaitersAreJobs
  <2>3. \A j, k \in jobs' : j.user = k.user \/ j.stride = k.stride => j = k
    BY Zenon, <1>4, <1>8 DEF WaitersSafe, WaitersAreJobs
  <2> QED  BY Zenon, <2>1, <2>2, <2>3 DEF WaitersAreJobs
<1>11. PooledChansClean'
  <2>1. InUse' \subseteq InUse \cup {c}
    BY <1>4, <1>6 DEF InUse
  <2> QED  BY Zenon, <1>5, <2>1 DEF PooledChansClean
<1>12. CallsApart'
  BY <1>1, <1>6, <1>7, <1>5 DEF CallsApart
<1>13. JobsServed'
  <2>1. \A j \in jobs' : chan'[j.user] = j.ready /\ buf'[j.ready] = Nil /\ j.ready \notin shut'
    BY <1>1, <1>4, <1>5, <1>6, <1>8 DEF JobsServed
  <2>2. \A v \in Users : chan'[v] # Nil /\ buf'[chan'[v]] # Nil =>
          chan'[v] \notin shut' /\ workerUser[buf'[chan'[v]]] = v
    BY <1>5, <1>6, <1>7 DEF JobsServed
  <2> QED  BY Zenon, <1>1, <2>1, <2>2 DEF JobsServed
<1> QED  BY Zenon, <1>9, <1>10, <1>11, <1>12, <1>13 DEF WaitersSafe

\* A waiting Acquire receives, and puts its channel back unless it is closed.
LEMMA CalmReceive ==
  ASSUME RobInv, WaitInv, ~fired, NEW u \in Users, Receive(u)
  PROVE  /\ WaitersSafe' /\ CallsApart' /\ JobsServed'
         /\ \A v \in Users : Owned(v)' = Owned(v)
<1> USE DEF RobInv, WorkersSafe, WaitInv
<1> PICK c \in Chans : c = chan[u]
  BY Zenon DEF Receive, CallsOK
<1> PICK w \in Workers \cup {Nil} : w = buf[c]
  BY Zenon DEF TypeOK, ChannelsType
<1>1. /\ pc[u] = "waiting" /\ hold[u] = Nil /\ c # Nil
      /\ pc' = [pc EXCEPT ![u] = "idle"] /\ chan' = [chan EXCEPT ![u] = Nil]
      /\ hold' = [hold EXCEPT ![u] = w]
      /\ UNCHANGED <<workerUser, users, stride, scheduled, jobs, wedged, shut, fired>>
  BY Zenon, RobAssumption DEF Receive, Return, schedVars, CallsApart
<1>2. \/ w # Nil /\ buf' = [buf EXCEPT ![c] = Nil] /\ cc' = Append(cc, c)
      \/ w = Nil /\ c \in shut /\ UNCHANGED <<buf, cc>>
  BY Zenon DEF Receive, RecvAndPut, PutChan
<1>3. /\ \A v \in Users : v # u =>
           chan'[v] = chan[v] /\ chan[v] # c /\ pc'[v] = pc[v] /\ hold'[v] = hold[v]
      /\ chan'[u] = Nil /\ pc'[u] = "idle" /\ hold'[u] = w
  BY Zenon, <1>1 DEF CallsApart, TypeOK
<1>4. (\A d \in Chans : d # c => buf'[d] = buf[d]) /\ buf'[c] = Nil
  BY Zenon, <1>2 DEF TypeOK, ChannelsType
<1>5. \A j \in jobs : j.user \in Users /\ j.user # u /\ j.ready \in Chans /\ j.ready # c
  <2> SUFFICES ASSUME NEW j \in jobs
               PROVE  j.user \in Users /\ j.user # u /\ j.ready \in Chans /\ j.ready # c
    BY Zenon
  <2>1. /\ j.user \in Users /\ j.ready \in Chans /\ chan[j.user] = j.ready
        /\ buf[j.ready] = Nil /\ j.ready \notin shut
    BY Zenon, JobFacts
  <2> QED  BY Zenon, <1>1, <1>2, <2>1 DEF CallsApart
<1>6. NoWaiterLost' /\ NeverWedged'
  <2> SUFFICES ASSUME NEW v \in Users, Blocked(v)'
               PROVE  \/ buf'[chan'[v]] # Nil
                      \/ chan'[v] \in shut'
                      \/ \E k \in jobs' : k.user = v /\ k.ready = chan'[v]
    BY Zenon, <1>1 DEF WaitersSafe, NoWaiterLost, NeverWedged
  <2>1. v # u /\ Blocked(v) /\ chan[v] \in Chans
    BY Zenon, <1>3 DEF Blocked, CallsOK
  <2> QED  BY <1>1, <1>3, <1>4, <2>1 DEF WaitersSafe, NoWaiterLost
<1>7. WaitersAreJobs'
  BY Zenon, <1>1 DEF WaitersSafe, WaitersAreJobs
<1>8. PooledChansClean'
  <2>1. /\ Distinct(cc) /\ Elements(cc) \subseteq Chans /\ cc \in Seq(Chans)
        /\ \A d \in Elements(cc) : buf[d] = Nil /\ d \notin shut \cup InUse
    BY Zenon, ElementsType DEF WaitersSafe, PooledChansClean, TypeOK, ChannelsType
  <2>2. InUse' \subseteq (InUse \ {c}) \cup {Nil} /\ c \in InUse
    BY <1>1, <1>3, <1>5 DEF InUse
  <2>3. CASE w # Nil
    <3> cc' = Append(cc, c) /\ c \notin Elements(cc)
      BY Zenon, <1>2, <2>1, <2>2, <2>3
    <3>1. Distinct(cc') /\ Elements(cc') = Elements(cc) \cup {c}
      BY <2>1, AppendElements
    <3>2. c \notin shut
      BY Zenon, <1>1, <2>3 DEF JobsServed
    <3> QED
      BY Zenon, <1>1, <1>4, <2>1, <2>2, <3>1, <3>2, RobAssumption DEF PooledChansClean
  <2>4. CASE w = Nil
    BY Zenon, <1>1, <1>2, <2>1, <2>2, <2>4, RobAssumption DEF PooledChansClean
  <2> QED  BY Zenon, <2>3, <2>4
<1>9. CallsApart'
  BY <1>1, <1>3 DEF CallsApart
<1>10. JobsServed'
  <2>1. \A j \in jobs' : chan'[j.user] = j.ready /\ buf'[j.ready] = Nil /\ j.ready \notin shut'
    BY Zenon, <1>1, <1>3, <1>4, <1>5 DEF JobsServed
  <2>2. \A v \in Users : chan'[v] # Nil /\ buf'[chan'[v]] # Nil =>
          chan'[v] \notin shut' /\ workerUser[buf'[chan'[v]]] = v
    <3> SUFFICES ASSUME NEW v \in Users, chan'[v] # Nil, buf'[chan'[v]] # Nil
                 PROVE  chan'[v] \notin shut' /\ workerUser[buf'[chan'[v]]] = v
      BY Zenon
    <3>1. chan'[v] = chan[v] /\ chan[v] \in Chans /\ chan[v] # c
      BY Zenon, <1>3 DEF TypeOK
    <3>2. buf'[chan'[v]] = buf[chan[v]]
      BY Zenon, <1>4, <3>1
    <3> QED  BY <1>1, <3>1, <3>2 DEF JobsServed
  <2>3. \A v \in Users : hold'[v] # Nil => workerUser[hold'[v]] = v
    BY <1>1, <1>3 DEF JobsServed
  <2> QED  BY Zenon, <1>1, <2>1, <2>2, <2>3 DEF JobsServed
<1>11. \A v \in Users : Owned(v)' = Owned(v)
  BY <1>1, <1>3, <1>4 DEF Owned, TypeOK
<1> QED  BY Zenon, <1>6, <1>7, <1>8, <1>9, <1>10, <1>11 DEF WaitersSafe

\* Close closes the channel of every job once.
LEMMA CalmClose ==
  ASSUME RobInv, WaitInv, ~fired, Close
  PROVE  WaitersSafe' /\ CallsApart' /\ JobsServed'
<1> USE DEF RobInv, WorkersSafe, WaitInv
<1>1. /\ users' = {} /\ jobs' = {}
      /\ UNCHANGED <<workerUser, cc, buf, pc, chan, hold, fired>>
      /\ CloseAll({j.ready : j \in jobs}, \E j, k \in jobs : j # k /\ j.ready = k.ready)
  BY Zenon DEF Close, callVars
<1>2. \A j \in jobs : j.ready \notin shut /\ \A k \in jobs : k # j => k.ready # j.ready
  BY Zenon, JobFacts
<1>3. shut' = shut \cup {j.ready : j \in jobs} /\ wedged' = wedged
  BY Zenon, <1>1, <1>2 DEF CloseAll
<1>4. NoWaiterLost' /\ NeverWedged'
  <2>1. \A u \in Users : Blocked(u) => buf[chan[u]] # Nil \/ chan[u] \in shut'
    BY Zenon, <1>3 DEF WaitersSafe, NoWaiterLost
  <2> QED  BY Zenon, <1>1, <1>3, <2>1 DEF WaitersSafe, NoWaiterLost, NeverWedged, Blocked
<1>5. WaitersAreJobs'
  BY Zenon, <1>1 DEF WaitersAreJobs
<1>6. PooledChansClean'
  <2>1. InUse' \subseteq InUse /\ {j.ready : j \in jobs} \subseteq InUse
    BY Zenon, <1>1 DEF InUse
  <2> QED  BY Zenon, <1>1, <1>3, <2>1 DEF WaitersSafe, PooledChansClean
<1>7. CallsApart'
  BY Zenon, <1>1 DEF CallsApart
<1>8. JobsServed'
  <2>1. \A u \in Users : chan[u] # Nil /\ buf[chan[u]] # Nil => chan[u] \notin shut'
    BY <1>3 DEF JobsServed
  <2> QED  BY Zenon, <1>1, <2>1 DEF JobsServed
<1> QED  BY Zenon, <1>4, <1>5, <1>6, <1>7, <1>8 DEF WaitersSafe

\* Every step keeps WaitInv: once a timer has fired, it says no more than FreshOK.
LEMMA WaitStep ==
  ASSUME RobInv, WaitInv, [Next]_vars
  PROVE  WaitInv'
<1>1. FreshOK'
  BY Zenon, FreshStep DEF WaitInv
<1>2. CASE fired'
  BY Zenon, <1>1, <1>2 DEF WaitInv, WaitersSafe, NoWaiterLost, WaitersAreJobs, PooledChansClean,
     NeverWedged
<1>3. CASE ~fired'
  <2>1. ~fired
    BY Zenon, <1>3 DEF Next, vars, AddWorker, DeleteWorker, AddUser, DeleteUser, Acquire, AcquireIdle,
       AcquireWait, Receive, TimerFires, TimeoutRemoved, TimeoutQueued, TimeoutLost, Release,
       TakeWaiting, Close
  <2>2. \A u \in Users : ~TimerFires(u)
    BY Zenon, <1>3 DEF TimerFires
  <2>3. \A u \in Users : ~(TimeoutRemoved(u) \/ TimeoutQueued(u) \/ TimeoutLost(u))
    BY Zenon, <2>1 DEF TimeoutRemoved, TimeoutQueued, TimeoutLost, WaitInv, CallsApart
  <2>4. WaitersSafe' /\ CallsApart' /\ JobsServed'
    BY Zenon, <2>1, <2>2, <2>3, CalmAddWorker, CalmReleaseUser, CalmOthers, CalmDeleteUser,
       CalmAcquireIdle, CalmAcquireWait, CalmReceive, CalmClose DEF Next, Acquire
  <2> QED  BY Zenon, <1>1, <2>4 DEF WaitInv
<1> QED  BY Zenon, <1>2, <1>3

\* Until a timer fires, an Acquire that blocks is woken: it has a job that Waiters
\* counts, on a channel of its own that no stale worker or close can reach, and no
\* method blocks or panics while it holds the mutex.
THEOREM RobWaitersSafe == Spec => []WaitersSafe
<1>1. RobInv /\ WaitInv /\ [Next]_vars => RobInv' /\ WaitInv'
  BY Zenon, RobStep, WaitStep
<1> QED  BY RobInitially, WaitInitially, <1>1, PTL DEF Spec, WaitInv

-----------------------------------------------------------------------------
\* The scheduler implements the interface, call by call.

\* The users that wait and the owners of workers, as the interface sees them.
JobUsers == {u \in Users : \E j \in jobs : j.user = u}

Owners == [u \in Users |-> Owned(u)]

\* releaseWorker places a worker as the interface says; own is who has what once
\* the caller has let go of it.
LEMMA ReleaseWorkerPlaces ==
  ASSUME RobInv, WaitInv, ~fired, NEW w \in Workers, ReleaseWorker(w, buf),
         UNCHANGED chan, NEW own, own = [u \in Users |->
            IF hold'[u] # Nil THEN hold'[u] ELSE IF chan[u] # Nil THEN buf[chan[u]] ELSE Nil],
         \A u \in Users : hold'[u] \in {hold[u], Nil}
  PROVE  \/ /\ JobUsers = {} /\ JobUsers' = JobUsers /\ Owners' = own
            /\ Elements(queue') = Elements(queue) \cup {w}
         \/ \E c \in JobUsers :
              /\ JobUsers' = JobUsers \ {c} /\ Owners' = [own EXCEPT ![c] = w]
              /\ Elements(queue') = Elements(queue)
<1> USE DEF RobInv, WorkersSafe, WaitInv
<1>1. CASE /\ jobs = {} /\ jobs' = {} /\ buf' = buf /\ queue' = Append(queue, w)
  <2>1. Elements(queue') = Elements(queue) \cup {w}
    BY <1>1, AppendElements DEF TypeOK
  <2>2. Owners' = own
    BY Zenon, <1>1 DEF Owners, Owned
  <2>3. JobUsers = {} /\ JobUsers' = {}
    BY Zenon, <1>1 DEF JobUsers
  <2> QED  BY Zenon, <2>1, <2>2, <2>3
<1>2. ASSUME NEW j \in jobs, jobs' = jobs \ {j}, buf' = [buf EXCEPT ![j.ready] = w],
             queue' = queue
      PROVE  \E c \in JobUsers :
               /\ JobUsers' = JobUsers \ {c} /\ Owners' = [own EXCEPT ![c] = w]
               /\ Elements(queue') = Elements(queue)
  <2>1. /\ j.user \in Users /\ j.ready \in Chans /\ chan[j.user] = j.ready
        /\ hold[j.user] = Nil /\ j.ready # Nil
        /\ \A k \in jobs : k # j => k.user # j.user
    BY Zenon, JobFacts, RobAssumption
  <2>2. JobUsers' = JobUsers \ {j.user} /\ j.user \in JobUsers
    BY Zenon, <1>2, <2>1 DEF JobUsers
  <2>3. (\A c \in Chans : c # j.ready => buf'[c] = buf[c]) /\ buf'[j.ready] = w
    BY Zenon, <1>2, <2>1 DEF TypeOK, ChannelsType
  <2>4. \A u \in Users : Owned(u)' = IF u = j.user THEN w ELSE own[u]
    <3> SUFFICES ASSUME NEW u \in Users PROVE Owned(u)' = IF u = j.user THEN w ELSE own[u]
      BY Zenon
    <3>1. CASE u = j.user
      BY Zenon, <2>1, <2>3, <3>1 DEF Owned
    <3>2. CASE u # j.user
      <4>1. chan[u] # j.ready /\ (chan[u] # Nil => chan[u] \in Chans)
        BY Zenon, <2>1, <3>2 DEF CallsApart, TypeOK
      <4> QED  BY Zenon, <2>3, <3>2, <4>1 DEF Owned
    <3> QED  BY Zenon, <3>1, <3>2
  <2>5. Owners' = [own EXCEPT ![j.user] = w]
    BY Zenon, <2>1, <2>4 DEF Owners
  <2>6. Elements(queue') = Elements(queue)
    BY Zenon, <1>2
  <2> QED  BY Zenon, <2>2, <2>5, <2>6
<1> QED  BY Zenon, <1>1, <1>2, CalmRelease

\* AddWorker is AddServer.
LEMMA AddWorkerImplements ==
  ASSUME RobInv, WaitInv, ~fired, NEW w \in Workers, AddWorker(w)
  PROVE  P!AddServer(w)
<1> USE DEF RobInv, WorkersSafe, WaitInv
<1>1. /\ w \notin known /\ workers' = workers \cup {w} /\ ReleaseWorker(w, buf)
      /\ UNCHANGED <<closed, chan, hold>>
  BY Zenon DEF AddWorker, callVars
<1>2. w \notin workers /\ \A u \in Users : Owned(u) # w
  BY <1>1, RobAssumption DEF FreshOK, KnownOK, Owned, TypeOK
<1>3. PICK own : own = Owners
  BY Zenon
<1>4. \/ /\ JobUsers = {} /\ JobUsers' = JobUsers /\ Owners' = own
         /\ Elements(queue') = Elements(queue) \cup {w}
      \/ \E c \in JobUsers :
           /\ JobUsers' = JobUsers \ {c} /\ Owners' = [own EXCEPT ![c] = w]
           /\ Elements(queue') = Elements(queue)
  <2>1. own = [u \in Users |->
          IF hold'[u] # Nil THEN hold'[u] ELSE IF chan[u] # Nil THEN buf[chan[u]] ELSE Nil]
    BY Zenon, <1>1, <1>3 DEF Owners, Owned
  <2> QED  BY Zenon, <1>1, <2>1, ReleaseWorkerPlaces
<1> QED  BY Zenon, <1>1, <1>2, <1>3, <1>4 DEF P!AddServer, P!Place, JobUsers, Owners

\* Release is Release; after Close, or when the worker was deleted, it goes nowhere.
LEMMA ReleaseImplements ==
  ASSUME RobInv, WaitInv, ~fired, NEW u \in Users, Release(u)
  PROVE  P!Release(u)
<1> USE DEF RobInv, WorkersSafe, WaitInv
<1>1. /\ hold[u] # Nil /\ hold' = [hold EXCEPT ![u] = Nil] /\ UNCHANGED chan
  BY Zenon DEF Release
<1>2. /\ hold[u] \in Workers /\ pc[u] = "idle" /\ chan[u] = Nil /\ Owned(u) = hold[u]
  BY Zenon, <1>1 DEF CallsApart, TypeOK, Owned
<1>3. (\A v \in Users : hold'[v] \in {hold[v], Nil} /\ (v # u => hold'[v] = hold[v])) /\ hold'[u] = Nil
  BY Zenon, <1>1 DEF TypeOK
<1>4. PICK own : own = [Owners EXCEPT ![u] = Nil]
  BY Zenon
<1>5. own = [v \in Users |->
              IF hold'[v] # Nil THEN hold'[v] ELSE IF chan[v] # Nil THEN buf[chan[v]] ELSE Nil]
  BY Zenon, <1>2, <1>3, <1>4 DEF Owners, Owned
<1>6. CASE /\ hold[u] \in workers /\ ReleaseWorker(hold[u], buf)
           /\ UNCHANGED <<closed, workers>>
  <2>1. PICK w \in Workers : w = hold[u]
    BY Zenon, <1>2
  <2>2. \/ /\ JobUsers = {} /\ JobUsers' = JobUsers /\ Owners' = own
           /\ Elements(queue') = Elements(queue) \cup {w}
        \/ \E c \in JobUsers :
             /\ JobUsers' = JobUsers \ {c} /\ Owners' = [own EXCEPT ![c] = w]
             /\ Elements(queue') = Elements(queue)
    BY Zenon, <1>1, <1>3, <1>5, <1>6, <2>1, ReleaseWorkerPlaces
  <2>3. P!Place(w, own)
    BY Zenon, <2>2 DEF P!Place, JobUsers, Owners
  <2>4. Owned(u) = w /\ w # Nil /\ w \in workers /\ UNCHANGED <<closed, workers>>
    BY Zenon, <1>1, <1>2, <1>6, <2>1
  <2> QED  BY Zenon, <1>4, <2>3, <2>4 DEF P!Release, P!Place, Owners
<1>7. CASE (closed \/ hold[u] \notin workers) /\ UNCHANGED <<schedVars, buf>>
  <2>1. UNCHANGED <<closed, queue, workers, jobs, buf>>
    BY Zenon, <1>7 DEF schedVars
  <2>2. hold[u] \notin workers
    BY Zenon, <1>7 DEF FreshOK
  <2>3. Owners' = own
    BY <1>1, <1>5, <2>1 DEF Owners, Owned
  <2>4. UNCHANGED <<closed, workers, Elements(queue), JobUsers>>
    BY Zenon, <2>1 DEF JobUsers
  <2> QED  BY Zenon, <1>1, <1>2, <1>4, <2>2, <2>3, <2>4 DEF P!Release, Owners, JobUsers
<1> QED  BY Zenon, <1>6, <1>7 DEF Release

\* An Acquire that finds an idle worker, or files a job, is Acquire.
LEMMA AcquireImplements ==
  ASSUME RobInv, WaitInv, ~fired, NEW u \in Users, AcquireIdle(u) \/ AcquireWait(u)
  PROVE  P!Acquire(u)
<1> USE DEF RobInv, WorkersSafe, WaitInv
<1>1. ~closed /\ closed' = closed /\ workers' = workers /\ pc[u] = "idle" /\ hold[u] = Nil
  BY Zenon DEF AcquireIdle, AcquireWait, CanAcquire
<1>2. chan[u] = Nil /\ Owned(u) = Nil
  BY Zenon, <1>1 DEF CallsApart, Owned
<1>3. u \notin JobUsers
  BY Zenon, <1>1, JobFacts DEF JobUsers
<1>4. CASE AcquireIdle(u)
  <2>1. PICK w \in Workers : /\ w = queue[Len(queue)] /\ w \in Elements(queue)
                             /\ Elements(queue') = Elements(queue) \ {w}
    BY Zenon, <1>4, FrontElements DEF AcquireIdle, TypeOK, NoWorkerShared
  <2>2. hold' = [hold EXCEPT ![u] = w] /\ UNCHANGED <<jobs, chan, buf>>
    BY Zenon, <1>4, <2>1 DEF AcquireIdle, chanVars
  <2>3. Owners' = [Owners EXCEPT ![u] = w]
    BY Zenon, <2>2, RobAssumption DEF Owners, Owned, TypeOK
  <2>4. JobUsers' = JobUsers
    BY Zenon, <2>2 DEF JobUsers
  <2> QED  BY Zenon, <1>1, <1>2, <1>3, <2>1, <2>3, <2>4 DEF P!Acquire, Owners, JobUsers
<1>5. CASE AcquireWait(u)
  <2>1. queue = <<>> /\ UNCHANGED <<queue, hold>>
    BY Zenon, <1>5 DEF AcquireWait
  <2>2. PICK c \in Chans, s \in 0..(stride[u] + floor + Cardinality(jobs)) :
          /\ GetChan(c, InUse)
          /\ jobs' = jobs \cup {[stride |-> s, user |-> u, ready |-> c]}
          /\ chan' = [chan EXCEPT ![u] = c]
    BY Zenon, <1>5 DEF AcquireWait
  <2>3. JobUsers' = JobUsers \cup {u}
    <3>1. PICK new : new = [stride |-> s, user |-> u, ready |-> c]
      BY Zenon
    <3>2. new.user = u /\ jobs' = jobs \cup {new}
      BY Zenon, <2>2, <3>1
    <3> HIDE <3>1
    <3> QED  BY Zenon, <3>2 DEF JobUsers
  <2>4. buf'[c] = Nil /\ \A d \in InUse \cap Chans : buf'[d] = buf[d]
    BY Zenon, <2>2, CalmGetChan
  <2>5. \A v \in Users : Owned(v)' = Owned(v)
    <3> SUFFICES ASSUME NEW v \in Users PROVE Owned(v)' = Owned(v)
      BY Zenon
    <3>1. CASE v = u
      BY Zenon, <1>1, <1>2, <2>1, <2>2, <2>4, <3>1 DEF Owned, TypeOK
    <3>2. CASE v # u
      <4>1. chan'[v] = chan[v] /\ (chan[v] # Nil => chan[v] \in InUse \cap Chans)
        BY Zenon, <2>2, <3>2 DEF TypeOK, InUse
      <4> QED  BY Zenon, <2>1, <2>4, <4>1 DEF Owned
    <3> QED  BY Zenon, <3>1, <3>2
  <2>6. Owners' = Owners
    BY Zenon, <2>5 DEF Owners
  <2>7. Elements(queue) = {} /\ Elements(queue') = {}
    BY Zenon, <2>1, EmptyElements
  <2> QED  BY Zenon, <1>1, <1>2, <1>3, <2>3, <2>6, <2>7 DEF P!Acquire, Owners, JobUsers
<1> QED  BY Zenon, <1>4, <1>5

\* DeleteUser makes a waiter give up, or changes nothing that a pool can see.
LEMMA DeleteUserImplements ==
  ASSUME RobInv, WaitInv, ~fired, NEW u \in Users, DeleteUser(u)
  PROVE  P!GiveUp(u) \/ UNCHANGED P!vars
<1> USE DEF RobInv, WorkersSafe, WaitInv
<1>1. u \in users /\ UNCHANGED <<closed, workers, queue, buf, chan, hold>>
  BY Zenon DEF DeleteUser, callVars
<1>2. Owners' = Owners /\ Elements(queue') = Elements(queue)
  BY Zenon, <1>1 DEF Owners, Owned
<1>3. CASE UNCHANGED jobs
  <2>1. JobUsers' = JobUsers
    BY Zenon, <1>3 DEF JobUsers
  <2> QED  BY Zenon, <1>1, <1>2, <2>1 DEF P!vars, Owners, JobUsers
<1>4. CASE ~UNCHANGED jobs
  <2>1. scheduled[u] /\ jobs' = jobs \ JobsAt(stride[u])
    BY Zenon, <1>4 DEF DeleteUser
  <2>2. PICK j \in jobs : j.user = u /\ j.stride = stride[u]
    BY Zenon, <1>1, <2>1 DEF WaitersSafe, WaitersAreJobs
  <2>3. JobsAt(stride[u]) = {j} /\ \A k \in jobs : k # j => k.user # u
    BY Zenon, <2>2, JobFacts
  <2>4. u \in JobUsers /\ JobUsers' = JobUsers \ {u}
    BY Zenon, <2>1, <2>2, <2>3 DEF JobUsers
  <2> QED  BY Zenon, <1>1, <1>2, <2>4 DEF P!GiveUp, Owners, JobUsers
<1> QED  BY Zenon, <1>3, <1>4

\* Every step is a call of the interface, or nothing that a pool can see.
LEMMA RobImplements ==
  ASSUME RobInv, WaitInv, [Next]_vars
  PROVE  fired' \/ P!Next \/ UNCHANGED P!vars
<1> USE DEF RobInv, WorkersSafe, WaitInv
<1> SUFFICES ASSUME ~fired' PROVE P!Next \/ UNCHANGED P!vars
  BY Zenon
<1>1. ~fired
  BY Zenon DEF Next, vars, AddWorker, DeleteWorker, AddUser, DeleteUser, Acquire, AcquireIdle,
     AcquireWait, Receive, TimerFires, TimeoutRemoved, TimeoutQueued, TimeoutLost, Release,
     TakeWaiting, Close
<1>2. \A u \in Users : ~(TimerFires(u) \/ TimeoutRemoved(u) \/ TimeoutQueued(u) \/ TimeoutLost(u))
  BY Zenon, <1>1 DEF TimerFires, TimeoutRemoved, TimeoutQueued, TimeoutLost, CallsApart
<1>3. ASSUME NEW w \in Workers, AddWorker(w) PROVE P!Next
  BY Zenon, <1>1, <1>3, AddWorkerImplements DEF P!Next
<1>4. ASSUME NEW w \in Workers, DeleteWorker(w) PROVE P!Next
  <2>1. /\ workers' = workers \ {w} /\ queue' = Remove(queue, w)
        /\ UNCHANGED <<closed, jobs, buf, chan, hold>>
    BY Zenon, <1>4 DEF DeleteWorker, chanVars, callVars
  <2>2. Elements(queue') = Elements(queue) \ {w}
    BY Zenon, <2>1, RemoveProperties DEF TypeOK, NoWorkerShared
  <2>3. Owners' = Owners /\ JobUsers' = JobUsers
    BY Zenon, <2>1 DEF Owners, Owned, JobUsers
  <2>4. P!DeleteServer(w)
    BY Zenon, <2>1, <2>2, <2>3 DEF P!DeleteServer, Owners, JobUsers
  <2> QED  BY Zenon, <2>4 DEF P!Next
<1>5. ASSUME NEW u \in Users, DeleteUser(u) PROVE P!Next \/ UNCHANGED P!vars
  BY Zenon, <1>1, <1>5, DeleteUserImplements DEF P!Next
<1>6. ASSUME NEW u \in Users, AcquireIdle(u) \/ AcquireWait(u) PROVE P!Next
  BY Zenon, <1>1, <1>6, AcquireImplements DEF P!Next
<1>7. ASSUME NEW u \in Users, Release(u) PROVE P!Next
  BY Zenon, <1>1, <1>7, ReleaseImplements DEF P!Next
<1>8. CASE Close
  <2>1. /\ closed' = TRUE /\ workers' = {} /\ queue' = <<>> /\ jobs' = {}
        /\ UNCHANGED <<buf, chan, hold>>
    BY Zenon, <1>8 DEF Close, callVars
  <2>2. Elements(queue') = {} /\ JobUsers' = {} /\ Owners' = Owners
    BY Zenon, <2>1, EmptyElements DEF JobUsers, Owners, Owned
  <2>3. P!Close
    BY Zenon, <2>1, <2>2 DEF P!Close, JobUsers, Owners
  <2> QED  BY Zenon, <2>3 DEF P!Next
<1>9. ASSUME NEW u \in Users, Receive(u) PROVE UNCHANGED P!vars
  <2>1. \A v \in Users : Owned(v)' = Owned(v)
    BY Zenon, <1>1, <1>9, CalmReceive
  <2>2. UNCHANGED <<closed, workers, queue, jobs>>
    BY Zenon, <1>9 DEF Receive, schedVars
  <2>3. UNCHANGED <<JobUsers, Owners, Elements(queue)>>
    BY Zenon, <2>1, <2>2 DEF JobUsers, Owners
  <2> QED  BY Zenon, <2>2, <2>3 DEF P!vars, JobUsers, Owners
<1>10. ASSUME NEW u \in Users, AddUser(u) PROVE UNCHANGED P!vars
  <2>1. UNCHANGED <<closed, workers, queue, jobs, buf, chan, hold>>
    BY Zenon, <1>10 DEF AddUser, chanVars, callVars
  <2>2. UNCHANGED <<JobUsers, Owners, Elements(queue)>>
    BY Zenon, <2>1 DEF JobUsers, Owners, Owned
  <2> QED  BY Zenon, <2>1, <2>2 DEF P!vars, JobUsers, Owners
<1>11. CASE TakeWaiting \/ UNCHANGED vars
  <2>1. UNCHANGED <<closed, workers, queue, jobs, buf, chan, hold>>
    BY Zenon, <1>11 DEF TakeWaiting, vars, schedVars, chanVars, callVars
  <2>2. UNCHANGED <<JobUsers, Owners, Elements(queue)>>
    BY Zenon, <2>1 DEF JobUsers, Owners, Owned
  <2> QED  BY Zenon, <2>1, <2>2 DEF P!vars, JobUsers, Owners
<1> QED
  BY Zenon, <1>2, <1>3, <1>4, <1>5, <1>6, <1>7, <1>8, <1>9, <1>10, <1>11 DEF Next, Acquire

\* The scheduler implements the Pooler interface: until a timer fires, each step is
\* a call that the interface allows or a step that no pool can see.
THEOREM RobImplementsPooler == Spec => ImplementsPooler
<1>1. Init => P!Init
  <2> SUFFICES ASSUME Init PROVE P!Init
    BY Zenon
  <2>1. Elements(queue) = {} /\ JobUsers = {} /\ Owners = [u \in Users |-> Nil]
    BY Zenon, EmptyElements DEF Init, JobUsers, Owners, Owned
  <2> QED  BY Zenon, <2>1 DEF Init, P!Init, JobUsers, Owners
<1>2. RobInv /\ WaitInv /\ [Next]_vars => RobInv' /\ WaitInv'
  BY Zenon, RobStep, WaitStep
<1>3. RobInv /\ WaitInv /\ [Next]_vars => [fired' \/ P!Next \/ UNCHANGED P!vars]_vars
  BY Zenon, RobImplements
<1> QED  BY RobInitially, WaitInitially, <1>1, <1>2, <1>3, PTL DEF Spec, ImplementsPooler

=============================================================================
