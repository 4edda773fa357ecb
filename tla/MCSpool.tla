------------------------------- MODULE MCSpool -------------------------------
(***************************************************************************)
(* Spool for TLC, in two configurations.  The plain one is that of the     *)
(* constants: no critics, and at most one connection for a recipe.  The    *)
(* rated one has critics, dials a server when a recipe is learned and      *)
(* scales up to two, for one client at a time.                             *)
(***************************************************************************)
EXTENDS Spool, TLC

VARIABLE config

Flat == [r \in Recipes |-> 0]

Rated == INSTANCE Spool WITH Critics <- TRUE, MinConns <- 1, MaxConns <- 2,
                             ResetQuery <- FALSE, MaxTime <- InitialTime

OneAtATime == \A c, d \in Clients : pc[c] # "out" /\ pc[d] # "out" => c = d

PoolInit == config \in {"plain", "rated"} /\ Init

PoolNext ==
  /\ UNCHANGED config
  /\ \/ config = "plain" /\ Next
     \/ config = "rated" /\ Rated!Next /\ OneAtATime'

PoolSpec == PoolInit /\ [][PoolNext]_<<config, vars>>

\* The plain configuration alone.
PlainSpec == config = "plain" /\ Init /\ [][PoolNext]_<<config, vars>>

Symmetry == Permutations(Clients) \cup Permutations(Recipes) \cup Permutations(Conns)
=============================================================================
