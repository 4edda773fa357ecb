------------------------------ MODULE Discovery ------------------------------
(***************************************************************************)
(* The discovery handler (handlers/discovery): a discoverer reports the    *)
(* clusters of databases that exist, by events on two channels and by a    *)
(* listing that is read now and then, and the handler's loop keeps one     *)
(* pool per user and database in step with them while clients look the     *)
(* pools up.                                                               *)
(*                                                                         *)
(* A cluster is its primary, its replicas (by identifier), its databases   *)
(* and its users with their passwords; nodes and passwords are opaque.  A  *)
(* pool is the recipes it was given.  With basic pools the replicas are    *)
(* served under the user name with "_ro" appended; a hybrid pool takes     *)
(* the replicas itself (pool.ReplicaPool).  Two clusters may have a user   *)
(* and a database of the same names, and a user may be called as the       *)
(* replica pool of another: they then use one pool.  The loop handles an   *)
(* event as a series of operations on the pools, each under poolsMu: the   *)
(* plan.  The iteration over Go maps takes the order of SetToSeq.          *)
(***************************************************************************)
EXTENDS Integers, Sequences, FiniteSets, SequencesExt, TLC

CONSTANTS Ids,           \* of clusters
          Worlds,        \* what may happen: by name, [described, changes, faults,
                         \* retires], where described[i] are the clusters that i may
                         \* stand for, changes and faults bound the changes of the
                         \* world and the descriptions that are wrong, and retires
                         \* says whether the handler may be retired
          Absent,        \* no such cluster
          Capacity       \* of the channels added and removed

VARIABLES kind,          \* "basic" or "hybrid": the pool factory
          within,        \* the name of one of Worlds
          world,         \* the clusters that exist
          added, removed,    \* the channels of the discoverer
          clusters,      \* Module.clusters
          pools,         \* Module.pools: key -> pool
          plan,          \* the operations still to do for the event being handled
          before,        \* history: clusters before that event
          closed,        \* Cleanup was called
          blank,         \* Module.clusters has an entry for the empty ID
          changes,       \* changes of the world so far
          faults         \* wrong descriptions so far

vars == <<kind, within, world, added, removed, clusters, pools, plan, before, closed, blank, changes,
          faults>>

NoMap == [x \in {} |-> Absent]

Existing(cs) == {i \in Ids : cs[i] # Absent}

Described(i) == Worlds[within].described[i]

ProductOf(sets) == {f \in [Ids -> UNION {sets[i] : i \in Ids}] : \A i \in Ids : f[i] \in sets[i]}

Init ==
  /\ kind \in {"basic", "hybrid"}
  /\ within \in DOMAIN Worlds
  /\ world \in ProductOf([i \in Ids |-> Described(i) \cup {Absent}])
  /\ added = <<>> /\ removed = <<>>
  /\ clusters = [i \in Ids |-> Absent]
  /\ pools = NoMap /\ plan = <<>> /\ before = clusters
  /\ closed = FALSE /\ blank = FALSE /\ changes = 0 /\ faults = 0

-----------------------------------------------------------------------------
(* The discoverer.  handleClusterEvent drops an event when its channel is  *)
(* full, and is not called once the discoverer is cleaned up.              *)

\* clusterToDiscoveryCluster leaves out the users whose secret it cannot read, and a
\* cluster whose namespace cannot be read is taken for one that is filtered out.
Seen(c) ==
  IF c = Absent THEN {Absent}
  ELSE {Absent} \cup {[c EXCEPT !.users = [u \in us |-> c.users[u]]] : us \in SUBSET DOMAIN c.users}

Fault(right) ==
  /\ right \/ faults < Worlds[within].faults
  /\ faults' = IF right THEN faults ELSE faults + 1

Offer(channel, event) ==
  IF ~closed /\ Len(channel) < Capacity THEN Append(channel, event) ELSE channel

Appears(i, c, seen) ==
  /\ changes < Worlds[within].changes /\ world[i] # c
  /\ seen \in Seen(c) /\ Fault(seen = c)
  /\ world' = [world EXCEPT ![i] = c]
  /\ added' = IF seen = Absent THEN added ELSE Offer(added, [id |-> i, cluster |-> seen])
  /\ changes' = changes + 1
  /\ UNCHANGED <<kind, within, removed, clusters, pools, plan, before, closed, blank>>

\* The event of a cluster whose namespace cannot be read is not seen.
Disappears(i, seen) ==
  /\ changes < Worlds[within].changes /\ world[i] # Absent
  /\ Fault(seen)
  /\ world' = [world EXCEPT ![i] = Absent]
  /\ removed' = IF seen THEN Offer(removed, i) ELSE removed
  /\ changes' = changes + 1
  /\ UNCHANGED <<kind, within, added, clusters, pools, plan, before, closed, blank>>

-----------------------------------------------------------------------------
(* The operations on the pools, each of which is atomic for the clients.   *)

\* toReplicaUsername
ToReplicaUsername(user) == user \o "_ro"

Key(user, database) == <<user, database>>
ReplicaKey(user, database) == Key(ToReplicaUsername(user), database)

\* getOrAddPool
OrAdd(ps, key, password) ==
  IF key \in DOMAIN ps THEN ps
  ELSE ps @@ (key :> [creds |-> password, recipes |-> NoMap, replicas |-> NoMap])

\* AddRecipe replaces the recipe of that name.
AddRecipe(ps, key, name, node) == [ps EXCEPT ![key].recipes = (name :> node) @@ @]

Without(f, names) == [n \in DOMAIN f \ names |-> f[n]]

\* removePool closes the pool.
RemovePool(ps, key) == Without(ps, {key})

AddPrimaryNode(ps, o) ==
  LET key == Key(o.user, o.database)
  IN  AddRecipe(OrAdd(ps, key, o.password), key, "primary", o.node)

\* addReplicaNodes and addReplicaNode: the nodes of o.nodes.
AddReplicaNodes(ps, o) ==
  LET key == Key(o.user, o.database)
      ro == ReplicaKey(o.user, o.database)
      with == OrAdd(ps, key, o.password)
  IN  IF kind = "hybrid"
      THEN [with EXCEPT ![key].replicas = o.nodes @@ @]
      ELSE LET both == OrAdd(with, ro, o.password)
           IN  [both EXCEPT ![ro].recipes = o.nodes @@ @]

\* removeReplicaNodes: all the replicas, of a basic pool the whole replica pool.
RemoveReplicaNodes(ps, o) ==
  LET key == Key(o.user, o.database)
      ro == ReplicaKey(o.user, o.database)
  IN  CASE key \notin DOMAIN ps -> ps
        [] key \in DOMAIN ps /\ kind = "hybrid" ->
             [ps EXCEPT ![key].replicas = Without(@, DOMAIN o.nodes)]
        [] key \in DOMAIN ps /\ kind = "basic" -> RemovePool(ps, ro)

RemoveReplicaNode(ps, o) ==
  LET key == Key(o.user, o.database)
      ro == ReplicaKey(o.user, o.database)
  IN  CASE key \notin DOMAIN ps -> ps
        [] key \in DOMAIN ps /\ kind = "hybrid" ->
             [ps EXCEPT ![key].replicas = Without(@, {o.id})]
        [] key \in DOMAIN ps /\ kind = "basic" ->
             IF ro \in DOMAIN ps THEN [ps EXCEPT ![ro].recipes = Without(@, {o.id})] ELSE ps

RemovePrimaryNode(ps, o) == RemovePool(ps, Key(o.user, o.database))

Apply(ps, o) ==
  CASE o.op = "addPrimary"     -> AddPrimaryNode(ps, o)
    [] o.op = "addReplicas"    -> AddReplicaNodes(ps, o)
    [] o.op = "removeReplicas" -> RemoveReplicaNodes(ps, o)
    [] o.op = "removeReplica"  -> RemoveReplicaNode(ps, o)
    [] o.op = "removePrimary"  -> RemovePrimaryNode(ps, o)

-----------------------------------------------------------------------------
(* What the handlers of an event do, as plans.                             *)

ForEach(S, F(_)) == FoldSet(LAMBDA x, seq : seq \o F(x), <<>>, S)

AddPrimary(u, pw, d, n) ==
  [op |-> "addPrimary", user |-> u, password |-> pw, database |-> d, node |-> n]

AddReplicas(u, pw, d, ns) ==
  [op |-> "addReplicas", user |-> u, password |-> pw, database |-> d, nodes |-> ns]

RemoveReplicas(u, d, ns) == [op |-> "removeReplicas", user |-> u, database |-> d, nodes |-> ns]

RemoveReplica(u, d, id) == [op |-> "removeReplica", user |-> u, database |-> d, id |-> id]

RemovePrimary(u, d) == [op |-> "removePrimary", user |-> u, database |-> d]

AddUser(c, databases, u, pw) ==
  ForEach(databases, LAMBDA d :
    <<AddPrimary(u, pw, d, c.primary), AddReplicas(u, pw, d, c.replicas)>>)

RemoveUser(c, databases, u) ==
  ForEach(databases, LAMBDA d : <<RemoveReplicas(u, d, c.replicas), RemovePrimary(u, d)>>)

AddDatabase(c, d) ==
  ForEach(DOMAIN c.users, LAMBDA u :
    <<AddPrimary(u, c.users[u], d, c.primary), AddReplicas(u, c.users[u], d, c.replicas)>>)

RemoveDatabase(c, d) ==
  ForEach(DOMAIN c.users, LAMBDA u : <<RemoveReplicas(u, d, c.replicas), RemovePrimary(u, d)>>)

\* For every user and database that the cluster had.
EachPool(c, F(_, _)) ==
  ForEach(DOMAIN c.users, LAMBDA u : ForEach(c.databases, LAMBDA d : <<F(u, d)>>))

AddReplica(c, id, node) ==
  EachPool(c, LAMBDA u, d : AddReplicas(u, c.users[u], d, id :> node))

ReplacePrimary(prev, next) ==
  IF prev.primary = next.primary THEN <<>>
  ELSE EachPool(prev, LAMBDA u, d : AddPrimary(u, prev.users[u], d, next.primary))

ChangeReplicas(prev, next) ==
  LET old == DOMAIN prev.replicas
      new == DOMAIN next.replicas
      changed == {id \in new : id \notin old \/ prev.replicas[id] # next.replicas[id]}
  IN  IF old # {} /\ new = {}
      THEN EachPool(prev, LAMBDA u, d : RemoveReplicas(u, d, prev.replicas))
      ELSE IF old = {} /\ new # {}
      THEN EachPool(prev, LAMBDA u, d : AddReplicas(u, prev.users[u], d, next.replicas))
      ELSE ForEach(changed, LAMBDA id : AddReplica(prev, id, next.replicas[id]))
           \o ForEach(old \ new, LAMBDA id :
             EachPool(prev, LAMBDA u, d : RemoveReplica(u, d, id)))

\* Mutant: every user of the new description is set up anew.
ChangeUsersAnew(prev, next) ==
  LET old == DOMAIN prev.users
      new == DOMAIN next.users
  IN  ForEach(new, LAMBDA u :
        RemoveUser(next, prev.databases, u)
          \o AddUser(next, prev.databases, u, next.users[u]))
      \o ForEach(old \ new, LAMBDA u : RemoveUser(next, prev.databases, u))

ChangeUsers(prev, next) ==
  LET old == DOMAIN prev.users
      new == DOMAIN next.users
  IN  ForEach(new, LAMBDA u :
        IF u \notin old THEN AddUser(next, prev.databases, u, next.users[u])
        ELSE IF next.users[u] # prev.users[u]
        THEN RemoveUser(next, prev.databases, u)
               \o AddUser(next, prev.databases, u, next.users[u])
        ELSE <<>>)
      \o ForEach(old \ new, LAMBDA u : RemoveUser(next, prev.databases, u))

\* Mutant: the databases are changed for the users of before.
ChangeDatabasesOld(prev, next) ==
  ForEach(next.databases \ prev.databases, LAMBDA d : AddDatabase(prev, d))
    \o ForEach(prev.databases \ next.databases, LAMBDA d : RemoveDatabase(prev, d))

ChangeDatabases(prev, next) ==
  ForEach(next.databases \ prev.databases, LAMBDA d : AddDatabase(next, d))
    \o ForEach(prev.databases \ next.databases, LAMBDA d : RemoveDatabase(next, d))

Updated(prev, next) ==
  ReplacePrimary(prev, next) \o ChangeReplicas(prev, next)
    \o ChangeUsers(prev, next) \o ChangeDatabases(prev, next)

\* added, for a cluster that may be known.
Added(known, next) ==
  IF known # Absent THEN Updated(known, next)
  ELSE ForEach(DOMAIN next.users, LAMBDA u : AddUser(next, next.databases, u, next.users[u]))

\* removed, for a cluster that may be unknown.
Removed(known) ==
  IF known = Absent THEN <<>>
  ELSE ForEach(known.databases, LAMBDA d : RemoveDatabase(known, d))

-----------------------------------------------------------------------------
(* discoverLoop: its select takes any channel that is ready.               *)

TakeAdded ==
  /\ plan = <<>> /\ added # <<>>
  /\ LET e == Head(added)
     IN  /\ plan' = Added(clusters[e.id], e.cluster)
         /\ clusters' = [clusters EXCEPT ![e.id] = e.cluster]
  /\ before' = clusters
  /\ added' = Tail(added)
  /\ UNCHANGED <<kind, within, world, removed, pools, closed, blank, changes, faults>>

TakeRemoved ==
  /\ plan = <<>> /\ removed # <<>>
  /\ plan' = Removed(clusters[Head(removed)])
  /\ clusters' = [clusters EXCEPT ![Head(removed)] = Absent]
  /\ before' = clusters
  /\ removed' = Tail(removed)
  /\ UNCHANGED <<kind, within, world, added, pools, closed, blank, changes, faults>>

\* Mutant: reconciling removes no cluster.
ReconcileKeeping(listing) ==
  /\ plan = <<>> /\ Fault(listing = world)
  /\ plan' = ForEach(Existing(listing), LAMBDA i : Added(clusters[i], listing[i]))
  /\ clusters' = [i \in Ids |-> IF listing[i] = Absent THEN clusters[i] ELSE listing[i]]
  /\ before' = clusters /\ blank' = FALSE
  /\ UNCHANGED <<kind, within, world, added, removed, pools, closed, changes>>

\* reconcile, when the listing succeeds: the clusters listed, then those that are not.
Reconcile(listing) ==
  /\ plan = <<>> /\ Fault(listing = world)
  /\ plan' = ForEach(Existing(listing), LAMBDA i : Added(clusters[i], listing[i]))
             \o ForEach(Existing(clusters) \ Existing(listing), LAMBDA i : Removed(clusters[i]))
  /\ clusters' = listing
  /\ before' = clusters /\ blank' = FALSE
  /\ UNCHANGED <<kind, within, world, added, removed, pools, closed, changes>>

\* Clusters(): what the discoverer sees of the clusters that exist.
Listings ==
  IF faults = Worlds[within].faults THEN {world} ELSE ProductOf([i \in Ids |-> Seen(world[i])])

Step ==
  /\ plan # <<>>
  /\ pools' = Apply(pools, Head(plan))
  /\ plan' = Tail(plan)
  /\ UNCHANGED <<kind, within, world, added, removed, clusters, before, closed, blank, changes, faults>>

\* Cleanup of the handler closes the pools, and Cleanup of the discoverer its channels;
\* the loop does not watch the channel closed.
Cleanup ==
  /\ Worlds[within].retires
  /\ ~closed /\ closed' = TRUE
  /\ pools' = NoMap
  /\ UNCHANGED <<kind, within, world, added, removed, clusters, plan, before, blank, changes, faults>>

\* A closed channel that is empty gives the loop a cluster without an ID and without
\* users, or the empty ID, again and again.
TakeBlank ==
  /\ plan = <<>> /\ closed
  /\ \/ added = <<>> /\ blank' = TRUE
     \/ removed = <<>> /\ blank' = FALSE
  /\ UNCHANGED <<kind, within, world, added, removed, clusters, pools, plan, before, closed, changes,
                 faults>>

Next ==
  \/ \E i \in Ids :
       \/ \E seen \in BOOLEAN : Disappears(i, seen)
       \/ \E c \in Described(i) : \E seen \in Seen(c) : Appears(i, c, seen)
  \/ plan = <<>> /\ \E listing \in Listings : Reconcile(listing)
  \/ TakeAdded \/ TakeRemoved \/ TakeBlank \/ Step \/ Cleanup

Loop == TakeAdded \/ TakeRemoved \/ Step

\* The loop runs, the ticker of reconcile keeps ticking (ReconcilePeriod is not 0), and
\* what can be read at last is read.
Spec == Init /\ [][Next]_vars /\ WF_vars(Loop) /\ WF_vars(Reconcile(world))

-----------------------------------------------------------------------------

\* The pools that a user and a database of a cluster use.
Uses(u, d) == {Key(u, d)} \cup (IF kind = "basic" THEN {ReplicaKey(u, d)} ELSE {})

\* The users that a cluster is described with, here or there, and whose pool it is.
Claimants(key) ==
  {<<i, u>> \in Ids \X UNION {DOMAIN c.users : c \in UNION {Described(i) : i \in Ids}} :
     \E c \in Described(i) : u \in DOMAIN c.users /\ \E d \in c.databases : key \in Uses(u, d)}

\* Nobody else uses the pools of this user and this database.
Alone(u, d) == \A key \in Uses(u, d) : Cardinality(Claimants(key)) = 1

Wants(c, u, d) == c # Absent /\ u \in DOMAIN c.users /\ d \in c.databases

\* The pools of a user and a database are as the cluster says: the current password,
\* primary and replicas.  (A basic replica pool without recipes may be there or not.)
Serves(c, u, d) ==
  LET k == Key(u, d)
      r == ReplicaKey(u, d)
  IN  /\ k \in DOMAIN pools
      /\ pools[k].creds = c.users[u]
      /\ pools[k].recipes = ("primary" :> c.primary)
      /\ IF kind = "hybrid" THEN pools[k].replicas = c.replicas
         ELSE IF r \in DOMAIN pools
              THEN pools[r].recipes = c.replicas /\ (c.replicas # NoMap => pools[r].creds = c.users[u])
              ELSE c.replicas = NoMap

\* Every user of a known cluster is served, and every pool is one that a known cluster
\* calls for.
Matched ==
  /\ \A i \in Existing(clusters) :
       \A u \in DOMAIN clusters[i].users, d \in clusters[i].databases :
         Alone(u, d) => Serves(clusters[i], u, d)
  /\ \A k \in DOMAIN pools : pools[k].recipes # NoMap =>
       \E c \in Claimants(k) : Alone(c[2], k[2]) => Wants(clusters[c[1]], c[2], k[2])

\* Whenever the loop has handled an event, whatever the history of events was, the
\* pools are those the known clusters call for: the user of a cluster has a pool with the
\* current password, primary and replicas, and no pool is left over.  This is claimed
\* for the users that share their pools with nobody.  Where two clusters have a user
\* and a database of the same names (the postgres of every cluster,
\* cloudnative_pg/discoverer.go:311), or one is called as the replica pool of the other,
\* the last one that changes decides: when one of them goes the pool goes with it, until
\* the other one changes, and the replica pool of the other one may be left over.
PoolsMatch == plan = <<>> /\ ~closed => Matched

\* A user whose account and database outlive a change, and who shares the pool with
\* nobody, is served all through it: the pool is neither closed nor without a primary
\* while the change is being made.
Continuity ==
  ~closed =>
    \A i \in Existing(before) \cap Existing(clusters) :
      \A u \in DOMAIN before[i].users \cap DOMAIN clusters[i].users,
         d \in before[i].databases \cap clusters[i].databases :
        before[i].users[u] = clusters[i].users[u] /\ Alone(u, d) =>
          /\ Key(u, d) \in DOMAIN pools
          /\ pools[Key(u, d)].recipes # NoMap

\* Events may be lost or overtake one another, but with reconciliation the handler
\* comes to know the clusters that exist, and to serve them as PoolsMatch says, once they
\* stop changing.
Converges == <>[](clusters = world /\ plan = <<>> /\ (closed \/ Matched))
=============================================================================
