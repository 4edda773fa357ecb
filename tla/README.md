# pggat, specified in TLA+

pggat is a Postgres connection pooler. A client connects to it as if to
Postgres; pggat lends it a server connection for a transaction or a session and
takes it back afterwards. What has to be right is easy to say: two clients never
share a server, no server and no waiting client is forgotten, and a server that
is passed on carries nothing of the client before. It is hard to test, because it
depends on timers that race with late servers, on mutexes given up around a dial,
and on clients that vanish in the middle of a protocol exchange.

The modules follow a connection through the program: bytes become packets, a
client shakes hands and is routed to a pool, the pool gets a server that a pooler
hands out and a chef has dialled, brings parameters and prepared statements in
line, and lets the bouncer relay a transaction. Discovery creates and removes the
pools meanwhile. Properties are checked with TLC on small instances; what
matters most about both poolers, the books of the chef, the hands of the basic pool,
the limit of connections and the in-memory connection is also proved with TLAPS, for
any number of clients, servers, channels and goroutines.

`PROJECT.json` lists the runs, the source lines of every definition, a mutant
for every property, the findings and the hazards.

## The system and its parts

| part (`src/lib/...`) | state | what makes it hard | module |
|---|---|---|---|
| `gat/handlers/pool/pooler.go`, the Pooler interface | who owns which server | | `Pooler` |
| `gat/handlers/pool/poolers/lifo` | idle servers, waiting channels | timer against a late server; recycled channels | `LifoPooler` |
| `rob/schedulers/v3`, `poolers/rob` | jobs by stride, idle workers, strides, floor | the same, and jobs found by stride | `RobScheduler` |
| `util/pools`, Go channels | idle channels, their buffers | a stale value in a recycled channel; blocking under the mutex | `ReadyChannels` |
| `gat/handlers/pool/spool/kitchen` | recipes, order, scores, counts | the mutex is given up around every dial and tasting | `Kitchen` |
| `gat/handlers/pool/spool` | maps of servers, their state, backoff | three mutexes taken one after the other | `Spool` |
| `gat/handlers/pool/pools/basic`, `fed/middlewares/ps` | clients, peers, mirrors of parameters | failures at any point; a peer that changes under Cancel; one `SET` of several refused | `BasicPool` |
| `gat/handlers/pool/pools/hybrid` | a primary and a replica peer, the recorded packets | a request is answered by two servers in turn; the peer changes over | `Hybrid` |
| `fed/middlewares/eqp` | mirrors of statements and portals | answers come later than requests; batches fail half way | `Eqp` |
| `bouncer/backends/v0`, `bouncers/v2` | packet in hand, transaction status | client or server fails at any packet | `Bouncer` |
| `bouncer/.../accept.go`, `authenticate.go`, `pool/dialer.go`, `auth` | progress of a handshake | two state machines that may differ in configuration | `Handshake` |
| `gat/server.go`, `listen.go`, routes | open connections, chain of handlers | the count after every way to fail; order of the chain | `Server` |
| `gat/handlers/discovery`, `discoverers/cloudnative_pg` | clusters, pools by user and database | lost and reordered events against reconciliation; pools that two clusters share | `Discovery` |
| `gat/handlers/pgbouncer` | pools by user and database | created on first use, by a lookup within a lookup | `Pgbouncer` |
| `gsql`, `util/flip` | a pair of connections, two goroutines | either side ends first | `AuthQuery` |
| `util/mio` | buffers, deadlines, waiting goroutines | lost wake-up; close against read | `Mio` |
| `fed/encoder.go`, `decoder.go`, `codecs/netconncodec` | two buffers, position in a packet | chunks and ends at any byte | `Codec` |
| `fed/packets/v3.0` | | 2,600 generated lines; objects decoded into again | `Packets` |
| `util/ring`, `util/rbtree` | | wrap-around; rebalancing | `Ring` over `Deque`, `RbTree` over `Dictionary` |
| `util/slices` | | shifts the caller's array in place | `Slices` |

How they interact: the accept loop (`Server`) shakes hands with a client
(`Handshake`) over packets (`Codec`, `Packets`) and calls the handlers of its
routes. A handler that serves, `Discovery`, `Pgbouncer` or the static pool, looks up the pool
of the user and database. A client of a pool (`BasicPool`, `Hybrid`) calls
`spool.Acquire`, which asks the pooler. When the client has to wait, the pooler
signals the scale loop of `Spool`, and the loop has the chef (`Kitchen`) cook a
connection and adds it to the maps and to the pooler. Once the client is paired,
ps (in `BasicPool`) and `Eqp` bring the server in line, and the `Bouncer` relays packets
until the transaction status is idle. `Release` then gives the server back, or
`RemoveServer` takes it out of chef, pooler and maps after an error. A module
that stands above another uses what the lower one is shown to do: `Spool` has the
abstract `Pooler` in place of either implementation, `BasicPool` a server pool that
hands each server to one client, and the pools the outcomes of a transaction.

## The modules

`Pooler` is the abstract specification of what a pooler promises: `servers`,
`idle`, `waiters` and the `owner` of a server, with one action for each method. A
client owns a server from the moment the pooler commits it, which for a blocked
`Acquire` is before the call returns. `LifoPooler` and `RobScheduler` are shown to
implement it.

`ReadyChannels` holds what both poolers do with channels of capacity one. An
operation that would block or panic with the mutex held sets `wedged` to the
reason, and `Unlocked` is false from then on, as it would be in the program.

`LifoPooler` and `RobScheduler` have one action for each stretch of a method that
runs under the mutex. `Acquire` splits where it blocks: `AcquireIdle` or
`AcquireWait`, then `Receive`, or `TimerFires` followed by what it does when it has the
mutex again (`TimeoutFound`/`TimeoutLost`; `TimeoutRemoved`/`TimeoutQueued`/
`TimeoutLost`). In rob the tree is a set of jobs with different strides; that the
tree is such a set is shown in `RbTree`. `User.Worker` is written and never read, and
is left out. `fired` records that a timer has fired.

`Kitchen` is the chef. `Learn` splits at the mutex it takes after its dials; `Cook` splits
wherever it unlocks, and its states `tasting` and `dialing` are the points where
another method may run. The loop of `Cook` ranges over a slice whose array
`Learn` and `Forget` shift: `view` and `shared` model that aliasing. `Learn`
brings a recipe object of its own each time, as its callers do. Objects come
from finite sets, and a new one is one that nothing refers to.

`Spool` composes `Kitchen` and `Pooler` with the maps, the state of servers and
the scale loop. A step is what one goroutine does under one mutex; `mu` is who
holds `Pool.mu` between steps. `Buffered` says which pooler is underneath: the
waiting channel of rob holds one signal, that of lifo none. `AcquireMissing` does the
failed lookup and the `DeleteServer` that follows in one step.

`BasicPool` has one goroutine for each client. `pc` names the place in `serve`
(await, pair, top, release, read, bounce, leave, unlist), and a step ends where
another goroutine can look: at the client's mutex and the clients map, which `Cancel` reads. The sync of parameters
goes name by name (`todo`), since each `SET` may fail. `real` is what is in effect
on a server, `told` what a client was told, `want` what it asked for or set itself. The server
is assumed to report every tracked parameter. PostgreSQL reports `search_path`, which is
tracked by default (`gatcaddyfile/pool.go:28`), only from version 18 on; before that nothing
here is about it.

`Hybrid` is one client, since clients meet only in the server pools. A request is
the packets up to a Query or a Sync; `script` are those of the transaction, `m`
is the middleware with the recorded packets and its read position, `got` what the
client has been answered. `taken` counts what was taken from each server pool, and `moved`
holds the request that a replica refused and the primary repeated. `Cancels` is the server
that a cancel request reaches: `Cancel` picks the pool by the flag of the client, and the
chef of the wrong pool does not know the server.

`Eqp` has one server and several clients in transaction mode. A client is
paired for a packet that its mirror has already seen, because the serve loop reads
the packet before it acquires. `real` is what the server holds, and `ideal` what a
connection of its own would hold for a client. The server sees packets when the
bouncer reads, which flushes. Portals are reduced to the unnamed one. `lost` records
that the server refused a statement during pairing, `untracked` that it dropped
one in a way no packet reports.

`Bouncer` is `transaction` and the loops it calls, under the serve loop of a pool
in session mode, so that one server sees transaction after transaction. `pc` names
the function and what it waits for. The Postgres server is external: `Replies`
gives its answers, with free choice wherever SQL decides. The client sends any
packet at any time, with one restriction: it ends the batch that executes a
`COPY FROM STDIN` at once with Sync, as `test/tests/copy_in.go` does.

`Handshake` has the two state machines of pggat, the dialer `D` and the acceptor
`A`, and runs them against each other and each against somebody else who sends any
message. `setup` is the pair of configurations: `ssl_mode`, credentials, TLS, whether
the database is known. A message records whether it went out encrypted; SCRAM and
MD5 are reduced to what they prove. The empty string is written `"empty"`. The dialer also
sends cancel requests, which it does in the clear whatever `ssl_mode` is. What
`startup0` refuses is one kind of message, `"Unknown"`.

`Server` is the accept loop and a goroutine for each connection. The chain of
routes is composed as the code does it, from the last route to the first, as the set
of the routes that are in it: the outermost is the least. A handler is entered with what the earlier ones left of the connection. One handler
of each kind is there: one that refuses, one that rewrites, one that serves.

`Discovery` handles an event as a `plan` of operations on the pools, one step
each, with clients looking on in between. The discoverer drops an event when its
channel is full, additions and removals travel on two channels, and a listing may be
wrong for a while (`faults`). Names are strings, so that the replica pool of `u` and the pool
of a user `u_ro` are the same, and clusters may share users and databases: `Alone` says
of a user and a database that their pools are nobody else's, in the world as described.
`Cleanup` is that of the handler and of the discoverer; afterwards the loop reads zero values
from closed channels, which add and remove a cluster without an ID and touch no pool
(`TakeBlank`).

`Pgbouncer` follows `Handle`, `lookup`, `getPassword` and `tryCreate`; `frames` is
the stack of pending lookups.

`AuthQuery` is a query that pggat asks itself, as the pgbouncer handler and
the Google Cloud SQL discoverer do: the client goroutine, the serving goroutine and
the caller in `Bank.Wait`, with the encoders that keep packets until somebody flushes.

`Mio` is the connection they use. Each method is one critical section, `Read`
splits where it waits on the condition, and `Close` between its two buffers.

`Codec` reads a stream of packets from chunks of any size, and relays, reads in
part or skips each of them. The first packet may be untyped, as a startup message, or
the single byte that answers a request for TLS (`ReadByte`). A byte is its packet and
its index, so that `Relayed` can tell where each byte came from.

`Packets` gives the layout of each message, one definition for each, and defines `Length`,
`WriteTo` and `ReadFrom` once over layouts, because the generated methods have one of a
dozen shapes. `ReadFrom` decodes into an object with old contents, since slices are resized
and reused.

`Ring` and `RbTree` are the structures, `Deque` and `Dictionary` what they
promise. A subtree is a value, and `Crash` is what a nil dereference leaves.

The MC modules put components that do not touch each other into one run: the
variable `which` (in `MCSpool`, `config`) is chosen initially, and the others stay
in an initial state. `MCSpool` has two configurations, without and with critics.

## Runs

| run | instance | what it shows |
|---|---|---|
| `rob` | 3 users, 1 worker, 3 channels, 2 acquires each | No worker is shared or idle while a job waits (`WorkersSafe`), and the floor never falls (`FloorMonotone`), timers included. Until a timer fires, the scheduler implements `Pooler` (`ImplementsPooler`), loses no waiter, recycles no channel in use and never blocks under its mutex (`WaitersSafe`). |
| `relay` | lifo: 3 clients, 2 servers, 3 channels; bouncer: 5 packets, 1 notice | The lifo pooler implements `Pooler` with timeouts (`LifoInv`, `ImplementsPooler`), and no waiter starves (`NoStarvation`). A server returned without an error is idle, has nothing of the client left on it, and the status that decides is its own (`ServerClean`). Only a broken connection or a torn packet costs a server (`GivenUpForCause`), and a client that vanished cannot keep one (`VanishedEnds`). |
| `kitchen` | 2 names, 3 recipes, 3 connections, 2 learners, critics, 1 to 2 connections for a recipe | The count of a recipe is its connections and within the limit, order and names agree (`Books`), and no connection leaks (`NoConnLeaked`). |
| `spool` | plain: 2 clients, 2 connections, a reset query, 1 connection for a recipe; rated: one client at a time, critics, 1 to 2 connections | Two clients never use one server (`NotShared`), chef, pooler and maps know the same servers (`MapsAgree`), and the scale loop does not sleep on a waiter (`NoSilentWaiter`). |
| `pools` | basic: 2 clients, 2 servers, 2 parameters of which 1 tracked, 2 values, 1 `SET`; hybrid: 3 requests; statements: 2 clients, 1 name and the unnamed statement, 2 queries, 5 packets; ring of up to 5 items | Every server is free, removed or with one client, and a cancel request finds the right one (`ServersTrue`); what a client was told and has set is in effect (`ParametersTrue`); a transaction that moves to the primary is answered once, but for what the replica answered of the refused request before its write, which is answered exactly twice, and the primary gets all of the transaction (`Replayed`); a hybrid client gives back what it takes, waits with empty hands, and a cancel request reaches the server that works for it or, when that is a primary that `pair` was called with, none (`HoldsRightly`); the mirror is what the server holds (`MirrorTrue`), and a client finds exactly its own statements and no portal of another (`OwnStatements`); the ring is a double-ended queue (`IsDeque`). |
| `net` | pipe: 1 and 2 goroutines, 2 bytes each way, 2 deadlines; server: lists of up to 3 routes, 3 connections, limits 1 and 2, 1 failing Accept; handshake: 5 messages of a stranger | Bytes arrive in order, the end after all of them, and no waiting reader is missed (`Delivered`); both directions get closed (`ClosesBoth`); a query that succeeds has its result and leaves nothing behind (`QueryDone`), and its caller returns (`WaitReturns`); the limit holds and the count is that of the connections, however they end (`LimitHolds`), no handler is skipped and a refused client is told once (`Routed`), the loop lives until Stop (`LoopLives`); the sides of a handshake agree, with `require` nothing but the request for TLS leaves in the clear, save a cancel request, nobody is let in without proof (`Trusted`), and neither side waits for the other for ever (`BothReturn`). |
| `discovery` | one cluster with every change of up to two respects; two clusters that come and go with a fault; two clusters that share a user, and a user called as the replica pool of another; a handler that is retired; channels of capacity 1 | For users who share their pools with nobody: after each event the pools are those of the known clusters (`PoolsMatch`), a user that stays is served all through a change (`Continuity`). In the end the known clusters are those of the world, with these pools (`Converges`). |
| `data` | 6 keys, all 40 messages read into old objects, 2 packets of 0 or 7 bytes, the first one typed, untyped or a single byte, over a buffer of 5 | The tree is a dictionary (`IsDictionary`) that stays balanced and never crashes (`TreeSound`), each message is as long as it says and read back as written (`Faithful`), the decoder finds each header (`InSync`), relayed bytes are the original ones (`Relayed`), and a relay ends (`RelayEnds`). |
| `rob_lost_race`, `spool_ignite`, `pgbouncer`, `server_ssl` | small | Violated: see the findings. |

Bounds. `relay` and `rob` have more callers than servers, so that queues form,
and as many channels as callers, since a call uses one at a time. In `rob` three users
are what one stride collision and a bystander need; `MaxAcquires` 2 lets a user come back
with an old stride, and `MaxElapsed` 1 gives both a tie and a difference of strides. In
`kitchen` a third recipe and a third connection allow one in use, one being dialled and one being
tasted. `spool` needs two clients for sharing, and a second recipe to replace the
first while its connection is in use. Five packets in the bouncer are a `BEGIN`, a
batch with a copy in it and the packets of the copy; unasked notices are all alike, so one
is enough to meet every loop. Five packets in `Eqp` let two clients prepare
the same name differently and the first one come back. In `BasicPool` the second parameter is
the untracked one, which only the initial sync looks at, and one `SET` makes two clients
differ. Three requests in `Hybrid` put one before and one after the request at which the replica
gives up. A ring grows at lengths 0, 2 and 4, so five items meet every
growth with a head in the middle. Six keys make trees of three levels, where every rotation of a deletion
happens. A payload of 7 with a buffer of 5 is split wherever it lies, and one of 0 has
no field at all. Two goroutines at one end of `Mio` compete for one wake-up. Lists of
three routes are what a rewrite between two matchers needs. All
counters are bounded in the guards. All runs but `discovery` say `CHECK_DEADLOCK FALSE`, because a
bounded client may stop and a closed pool does; that nobody waits for ever is what the
liveness properties are for.

Symmetry is used where ids are only compared for equality, and never in a run
that checks liveness (`relay`, `data`, `net`, `discovery`).

Fairness. In all cases it is weak fairness of goroutines that can run, which the Go
scheduler gives. Beyond that:

- `NoStarvation`: a client releases what it acquired, which pools do at the end of a
  transaction. A timer firing is never assumed.
- `VanishedEnds`: the bouncer runs once the client is gone, and a server that works
  answers. Nothing is assumed of a client that is there.
- `ClosesBoth`: the timer of a deadline fires; a second `Close` step follows the first.
- `WaitReturns`: the two goroutines and the caller run; PostgreSQL answers in their steps.
- `LoopLives`: Accept returns a connection that is there, and a goroutine runs unless it is in
  a pool, where it may stay as long as its client likes.
- `BothReturn`: both sides run, and a foreign server that falls silent leaves in the end.
- `Converges`: the loop runs, and the periodic reconciliation sees the world as it is
  in the end, which is its purpose. The period of reconciliation must not be 0, which turns
  it off. Events may be lost for ever.
- `RelayEnds`: a method of the decoder or the encoder that was called goes on.

## Findings

Runs that are expected to be violated, each against a sentence of the repository:

- `rob_lost_race`: after its timer has fired, `Acquire` looks for a job at its stride
  (`scheduler.go:214`), not for its own job. It can delete the job of another user,
  and that user's own timeout then receives from an empty channel with the
  mutex held. "we lost the race, but we got a worker" is false there.
- `spool_ignite`: `Release` sets the state to idle after the pooler may have passed
  the server on, so `ScaleDown` can disconnect a server in use.
- `pgbouncer`: `tryCreate` stores an entry whose pool it never creates, and adds a
  recipe to the nil pool.
- `server_ssl`: `require_ssl` and the ssl matcher read a field of the connection that
  nothing assigns, so encrypted clients are refused as well.

Stated as definitions that fail, without a configuration:

- `ForgottenClosed` (`Kitchen`): a recipe forgotten while `Cook` dials gets a connection
  that is never closed, although "All conn made with the recipe will be closed".
- `NoSilentWaiter` with `Buffered = FALSE` (`Spool`): lifo signals without a buffer, so a
  client that begins to wait while the scale loop is busy is not signalled.
- `PhonySyncTrue` (`Bouncer`): a Sync that comes first is answered with ReadyForQuery(0).

Met while modelling, described in the modules or under the hazards:
`Cook` may skip a recipe, because its array moves; the connection of the critics comes on
top of `MaxConnections`; `ReconnectMaxTime` 0 ends the retries; `DEALLOCATE` does
not reach the mirrors; an unnamed statement left "to be overwritten" survives when
the server refuses an earlier statement of the same batch; lookup and getPassword of the pgbouncer handler call
each other without end when the auth user is not in the auth file; `readRows` skips
EmptyQueryResponse and waits on, so an empty auth query never returns (`WaitReturns`
leaves it out); `pair` of the hybrid pool notes every peer as a replica, also a server of the
primary, so that its cancel request is looked for in the wrong pool and dropped
(`CancelFinds` says so); what a replica answered of a request before it refused the write in it, ParseComplete and
BindComplete for instance, reaches the client again from the primary (`AnsweredOnce` says
how often); clusters with a user and a database of the same names share a pool, so that the
removal of one closes the pool of the other, which reconciliation does not
bring back before the other changes; an `options` parameter that ends with `-c` makes `startup0`
panic; `readDeadline` of mio is never assigned; `Dial` does not close
its connection when the handshake fails.

## Proofs

| theorem | module | says |
|---|---|---|
| `PoolerCorrect` | `PoolerProofs` | The interface is exclusive, conserves servers and is work conserving. |
| `LifoInvariant` | `RelayProofs` | `LifoInv` holds in every reachable state. |
| `LifoRefinement` | `RelayProofs` | The lifo pooler implements `Pooler`. |
| `BouncerServerClean` | `RelayProofs` | `ServerClean`: a server returned without an error is in no transaction and owes no answer, and the status that decides is its own. |
| `BouncerGivesUpForCause` | `RelayProofs` | `GivenUpForCause`: only a broken connection or a torn packet costs a server. |
| `ServersKept` | `PoolsProofs` | `ServersTrue`: every server of a basic pool is free, removed or with exactly one client, and a cancel request finds the server of its client. |
| `ParametersKept` | `PoolsProofs` | `ParametersTrue`: a client that is served was told what is in effect on its server, and what it set is in effect there. |
| `HybridHoldsRightly` | `PoolsProofs` | `HoldsRightly`: a hybrid client gives back what it takes, waits with empty hands, and a cancel request reaches the server that works for it, if that is a replica or took the transaction over from one, and otherwise no server. |
| `RingIsDeque` | `PoolsProofs` | `IsDeque`: the ring of util/ring, of any capacity, implements `Deque`. |
| `MioDelivers` | `NetProofs` | `Delivered`: bytes in order, the end after all of them, no lost wake-up. |
| `RobWorkersSafe` | `RobProofs` | `WorkersSafe`: each worker of the rob scheduler is in one place, and none is idle while a job waits. |
| `RobFloorMonotone` | `RobProofs` | `FloorMonotone`: the floor never falls. |
| `RobWaitersSafe` | `RobProofs` | `WaitersSafe`: until a timer fires, a blocked Acquire can be woken, Waiters counts the jobs, recycled channels are clean, nothing blocks under the mutex. |
| `RobImplementsPooler` | `RobProofs` | `ImplementsPooler`: until a timer fires, every step is a step of `Pooler`. |
| `KitchenBooks` | `KitchenProofs` | `Books`: a recipe's count is the connections it has and those being dialled, within MaxConnections; the order lists the named recipes once each. |
| `KitchenKeepsConns` | `KitchenProofs` | `NoConnLeaked`: what is open is in the books, or with the Learn or the critic that dialled it. |
| `ServerLimit` | `NetProofs` | `LimitHolds`: no more than max_connections are served, and the count is that of the connections let in and not ended. |
| `ServerRoutes` | `NetProofs` | `Routed`: a client gets to a pool through every handler on its way, or is told once why not. |
| `HandshakeTrusted` | `NetProofs` | `Trusted`: the sides of a finished handshake agree, with `require` nothing but the request for TLS leaves in the clear, save a cancel request, nobody is let in without proof. |
| `QueryComplete` | `NetProofs` | `QueryDone`: a query that succeeds has its result and leaves nothing behind. |
| `SpoolNotShared` | `SpoolProofs` | `NotShared`: two clients of the server pool never use one server. |
| `SpoolMapsAgree` | `SpoolProofs` | `MapsAgree`: what the chef counts is in the maps or about to be, and what the pooler hands out is in the maps. |
| `SpoolNoSilentWaiter` | `SpoolProofs` | `NoSilentWaiter`: the scale loop sleeps on a waiter only with a signal or its timer to wake it. |
| `SpoolKeepsPooler` | `SpoolProofs` | The promises of `Pooler` hold inside the server pool. |
| `SpoolImplementsKitchen` | `SpoolProofs` | The server pool implements `Kitchen`: what is proved of the chef holds inside the pool. |

`SlicesProofs` holds lemmas on elements and distinctness of sequences under
append, tail and removal.

Assumptions: in the poolers `Nil` is no server, no channel and no user, in `Kitchen` no
name, recipe or connection; in `BasicPool` `None` is no server, the tracked parameters are
among the names, and `Absent` is no value (`BasicAssumption`); `Mio` needs none. In `Kitchen`, the connections alive at once are finitely many, and MinConnections is not above
MaxConnections unless the latter is 0; `Spool` takes the same from its configuration
(`SpoolAssumption`). `SpoolNoSilentWaiter` is about a pooler with a buffered signal (rob) and
backoff times that are not zero: without either it is false, see the findings. In `MCNet` the configurations of the server are
any set of lists of routes with limits that are natural numbers (`NetAssumption`); `net.cfg`
gives the one of `MCConfigs`. The theorems on `Hybrid`, `Ring`, `Bouncer`, `Server`, `Handshake` and
`AuthQuery` are about the specification of the MC module, where which component runs is
chosen initially; the bounds on packets, requests, items and messages are constants there, and
arbitrary. Other sets may be of any size, infinite ones included.

`LifoInv`. None of the safety invariants is inductive. That the receive
under the mutex never blocks, for instance, needs to know that a channel which is not
queued any more has been served or closed, which is `NoWaiterLost`, and that in turn
needs to know that a channel belongs to one call. `LifoInv` adds exactly that:
`CallsOK` (a channel belongs to one call, which has no server yet), `WaitersOK` (a
queued channel is open and empty, and somebody waits on it), `FilledOK` (a served channel is not
closed) and `KnownOK` (ids are fresh). Exclusive ownership is not proved action by
action: each action is shown to be a step of the interface under the refinement
mapping, or none, and `PoolerProofs` shows that such a step keeps the promises
(`InterfaceStep`). One lemma for each action proves both, `LifoStep` puts them together, and
the theorems follow.

`HandsInv` (`BasicPool`) ties the variable `server` and the peer of a client to the place of
its goroutine: between pairing and release it has a server, and until it leaves its
peer is that server or none. Two lemmas, a goroutine that moves on and one that gives
its server back, cover most actions.

`MioInv` replaces the second part of `Delivered`, which is not inductive, by one that is: a
reader that saw the end saw a closed and empty buffer, and such a buffer stays so (`Ended`).
With `InOrder` it gives that all that was written has been taken. The types of the
buffers complete it.

`RobInv` adds three facts to `WorkersSafe`: a worker that is anywhere has been added (`KnownOK`),
so that the id AddWorker draws is nowhere yet; a blocked Acquire has a channel
(`CallsOK`); no job is filed below the floor (`AboveFloor`), so that the least stride,
which becomes the floor, is not below the old one. Two lemmas carry the rest: a worker
that moves (`Placed`), and `releaseWorker`, which three operations end with (`Released`).

`KitchenInv`. The counts are right only if a connection is in one hand (`HandsApart`): the
one that Learn registers must not be among those of the old recipe that it frees. They
also need that the recipe of a Learn is its own and has no name yet (`LearnOK`), since
its count starts anew, and that the place of Cook says what it holds (`CookOK`). The order stays free
of repetitions because no recipe has two names (`NamesApart`), and through the sort because a
permutation that reaches every recipe repeats none (`Permuted`).

`OpenInv` (`Server`): the counter `open` is the number of connections between `Add(1)` and the deferred
`Add(-1)`. Those that are served are among them, and the last one let in saw the count.

`RouteInv` (`Server`) says for each place of a goroutine (`Standing`) how far its connection has
come along the routes and whether its client has been told anything: the handlers up to
some index have passed it on, and the chain is the matching routes after it.

`WaitInv` (`RobScheduler`) adds to `WaitersSafe` what holds until a timer fires: a channel belongs
to one call, which has no worker yet (`CallsApart`), and a job waits on the channel of its
user, open and empty, while a worker is charged to the user that has it or that it was
sent to (`JobsServed`); and, always, that ids are fresh (`FreshOK`). The refinement goes
action by action, with the facts on `releaseWorker` that both proofs share.

`BouncerInv` (`Bouncer`) is a grammar. A packet count says nothing, since answers may be any
number of rows and notices; `Shape` says for each loop of `query.go` what can be on its way to the server
and back (`Asked`, `Answered`, `Quiet`), with lists split at the packet that counts. From it
follows that exactly one ReadyForQuery is still to come while a loop waits for one, and
none when no loop does.

`ParamInv` (`BasicPool`) has a part for each mode. In transaction mode the mirror of a server is what
is in effect on it, and a synced client was told what is in its mirror (`MirrorsTrue`). In
session mode a free server is as new, and Sync has only changed the names that
are not in `todo` any more (`FreshServers`).

`HoldInv` (`Hybrid`) says for each place of the client which servers it holds, and which peer it
has with which flag: the primary is flagged rightly only after a move, so that `moved` is tied to the
place as well.

`RingOK` (`Ring`): the tail is as many slots behind the head as there are items, modulo the capacity.
The refinement follows from what each method does to the window of slots from the head on
(`FrontPushed`, `BackPushed`, `FrontPopped`, `BackPopped`) and from `Grown`: the array that `grow` copies together
shows the same window from slot 0.

`HandshakeInv` (`Handshake`). Against a stranger, types and what each side may have sent
by now are enough (`ProvedBefore`, `ClearOnlyBefore`). That two sides of pggat agree needs all
that may be under way between them (`Together`): while they approach each other,
while the password is asked for and proved, and while the welcome is read, message by message, the
last two with the user, the database and the key they are about.

`QueryInv` (`AuthQuery`) says, as long as neither goroutine has failed, what the query and the serving end
have still to read, in the pipe and in the encoders together: the request (`Asking`), or
what is left of each answer with what was made of the part that was read
(`Answering`). `Waiting` ties the channel of the bank to the goroutines that have returned.

`SpoolInv` (`Spool`) is put together from the invariants of the parts. Each step of the pool is a step
of the chef or none (`KitchenInv` is kept by `KitchenProofs`) and a call of the pooler or none
(`PoolerInv`, by `PoolerProofs`). Neither is true without the other and without `UseInv`: a client
burns only the server it owns, and who works on a server owns it. `MapsInv` lists where books
and maps may differ between two steps: what a Learn has dialled is referred to by nobody yet (`Fresh`),
what is leaving the maps has left the books (`Leaving`), and a goroutine applies one change
of recipes before it makes the next (`Applied`). `HandInv` says when ScaleUp has a connection in hand, and `WakeInv`
that the loop arms its timer before it goes to sleep over a failed dial.

Only model-checked, because the provers cannot do it:

- Liveness (`NoStarvation`, `VanishedEnds`, `ClosesBoth`, `WaitReturns`, `LoopLives`, `BothReturn`,
  `Converges`, `RelayEnds`).
- What is defined by recursion or a fold over data, where the proof is an induction: `Faithful`
  and `Relayed` (`Packets`, `Codec`), `TreeSound` and `IsDictionary` (`RbTree`), `Replayed`
  (`Hybrid` flattens lists of answers), `MirrorTrue` and `OwnStatements` (`Eqp` folds
  over the packets the server has still to read).

Not proved so far: `PoolsMatch` and `Continuity` of `Discovery`, `InSync` of `Codec`.

## Not modelled

- Times and durations: a timer may fire whenever it runs. Metrics, logs and traces.
  The contents of rows and queries. Cryptography: a proof is right or wrong.
- In `Bouncer`, a client that sends more packets between the Execute of a `COPY FROM
  STDIN` and its Sync. The answers to a Flush, which the bouncer reads only after the
  next Sync, are not waited for by any client of `Bouncer`.
- In `Eqp`, named portals and the reset query. `State.Set` of eqp, and `Client.Set` and `SyncMiddleware`
  of ps, which only the hybrid pool uses.
- In `BasicPool`, a client that asks for an empty parameter.
- `mio.Listener`, which has no caller. The conversion of columns to Go values in gsql.
- The discoverers other than their events and listings: I/O with cloud APIs.
  `pgbouncer_spilo`, which renders a configuration, and `Cleanup` of the pgbouncer handler.
- The critics: queries that yield a score, which `Kitchen` lets be anything.
- Parsing of configuration (Caddyfile, ini), and the handlers and matchers that differ
  from a modelled one only in the field they look at.
- The switch to TLS inside of the codec: `Handshake` has its effect.
- In `Handshake`, an `options` parameter that ends with `-c`, on which `startup0` panics.
- In `Discovery`, an event that is being handled by the discoverer while its channels are closed.
