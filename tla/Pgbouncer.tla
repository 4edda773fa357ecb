------------------------------ MODULE Pgbouncer ------------------------------
(***************************************************************************)
(* The pgbouncer handler (handlers/pgbouncer): each client is checked      *)
(* against the configuration and served by the pool of its user and        *)
(* database, which the first client to ask for it creates.  The password   *)
(* comes from the auth file, or from the auth query, run through the pool  *)
(* of the auth user, whose lookup may create that pool in turn.            *)
(*                                                                         *)
(* The configuration is reduced to the decisions taken on it.  The auth    *)
(* user is taken to be in the auth file; otherwise getPassword and lookup  *)
(* call one another without end.                                           *)
(***************************************************************************)
EXTENDS Integers, Sequences

CONSTANTS Clients, Users, Databases,
          AuthUser,      \* of Users
          Nil            \* a nil *basic.Pool

VARIABLES config,    \* sslRequired, known (databases), file (users), query, mode
          request,   \* of a client: user, database, ssl, params
          frames,    \* of a client: the users its pending calls of lookup are about
          pc,
          pools,     \* Module.pools: the pools stored, by user and database
          crashed    \* the process has panicked

vars == <<config, request, frames, pc, pools, crashed>>

Init ==
  /\ config \in [sslRequired : BOOLEAN, known : SUBSET Databases, wildcard : BOOLEAN,
                 file : {f \in SUBSET Users : AuthUser \in f}, query : BOOLEAN,
                 mode : {"session", "transaction", ""}]
  /\ request \in [Clients -> [user : Users, database : Databases, ssl : BOOLEAN,
                              params : BOOLEAN]]
  /\ frames = [c \in Clients |-> <<>>]
  /\ pc = [c \in Clients |-> "handle"]
  /\ pools = [k \in {} |-> Nil]
  /\ crashed = FALSE

At(c, from, to) == ~crashed /\ pc[c] = from /\ pc' = [pc EXCEPT ![c] = to]

\* Handle: the checks that come before the lookup.
Refuse(c) ==
  /\ At(c, "handle", "refused")
  /\ (config.sslRequired /\ ~request[c].ssl) \/ ~request[c].params
  /\ UNCHANGED <<config, request, frames, pools, crashed>>

Handle(c) ==
  /\ At(c, "handle", "lookup")
  /\ config.sslRequired => request[c].ssl
  /\ request[c].params
  /\ frames' = [frames EXCEPT ![c] = <<request[c].user>>]
  /\ UNCHANGED <<config, request, pools, crashed>>

Top(c) == frames[c][Len(frames[c])]
Asked(c) == <<Top(c), request[c].database>>

\* lookup returns (p, found) to its caller: Handle, or getPassword of the frame below.
Return(c, found) ==
  IF Len(frames[c]) = 1
  THEN /\ pc' = [pc EXCEPT ![c] = IF found THEN "serve" ELSE "next"]
       /\ UNCHANGED frames
  ELSE /\ frames' = [frames EXCEPT ![c] = SubSeq(@, 1, Len(@) - 1)]
       /\ pc' = [pc EXCEPT ![c] = IF found THEN "query" ELSE "failed"]

\* lookup: Load, without the lock.
Load(c) ==
  /\ ~crashed /\ pc[c] = "lookup"
  /\ IF Asked(c) \in DOMAIN pools THEN Return(c, TRUE)
     ELSE pc' = [pc EXCEPT ![c] = "create"] /\ UNCHANGED frames
  /\ UNCHANGED <<config, request, pools, crashed>>

\* getPassword, up to the lookup of the auth user.
GetPassword(c) ==
  /\ ~crashed /\ pc[c] = "create"
  /\ IF request[c].database \notin config.known /\ ~config.wildcard
     THEN Return(c, FALSE)
     ELSE IF Top(c) \in config.file
     THEN pc' = [pc EXCEPT ![c] = "store"] /\ UNCHANGED frames
     ELSE IF config.query
     THEN /\ frames' = [frames EXCEPT ![c] = Append(@, AuthUser)]
          /\ pc' = [pc EXCEPT ![c] = "lookup"]
     ELSE Return(c, FALSE)
  /\ UNCHANGED <<config, request, pools, crashed>>

\* The auth query is run through the pool of the auth user: with a nil pool Serve
\* panics.  It finds the user or not.
AuthQuery(c) ==
  /\ ~crashed /\ pc[c] = "query"
  /\ IF pools[<<AuthUser, request[c].database>>] = Nil
     THEN crashed' = TRUE /\ UNCHANGED <<pc, frames>>
     ELSE /\ \/ pc' = [pc EXCEPT ![c] = "store"] /\ UNCHANGED frames
             \/ Return(c, FALSE)
          /\ UNCHANGED crashed
  /\ UNCHANGED <<config, request, pools>>

AuthUserMissing(c) ==
  /\ ~crashed /\ pc[c] = "failed"
  /\ Return(c, FALSE)
  /\ UNCHANGED <<config, request, pools, crashed>>

\* The rest of tryCreate: the configuration of the pool is put together, p is stored
\* with its credentials, and its recipe added.  p.pool was never assigned.
Store(c) ==
  /\ ~crashed /\ pc[c] = "store"
  /\ IF config.mode = "" THEN Return(c, FALSE) /\ UNCHANGED pools
     ELSE /\ pools' = [k \in DOMAIN pools \cup {Asked(c)} |-> IF k = Asked(c) THEN Nil ELSE pools[k]]
          /\ pc' = [pc EXCEPT ![c] = "recipe"]
          /\ UNCHANGED frames
  /\ UNCHANGED <<config, request, crashed>>

AddRecipe(c) ==
  /\ ~crashed /\ pc[c] = "recipe"
  /\ IF pools[Asked(c)] = Nil
     THEN crashed' = TRUE /\ UNCHANGED <<pc, frames>>
     ELSE Return(c, TRUE) /\ UNCHANGED crashed
  /\ UNCHANGED <<config, request, pools>>

Next ==
  \E c \in Clients :
    \/ Refuse(c) \/ Handle(c) \/ Load(c) \/ GetPassword(c)
    \/ AuthQuery(c) \/ AuthUserMissing(c) \/ Store(c) \/ AddRecipe(c)

Spec == Init /\ [][Next]_vars

-----------------------------------------------------------------------------

\* lookup creates the pool it cannot find: adding the recipe to it, and serving the
\* auth query from it, do not meet a nil pool.
PoolCreated == ~crashed
=============================================================================
