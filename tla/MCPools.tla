------------------------------ MODULE MCPools -------------------------------
(***************************************************************************)
(* The two kinds of pool, the prepared statements and the ring the         *)
(* middleware of statements queues packets in, for TLC.  A behaviour is    *)
(* one of the basic pool, of a client of the hybrid pool, of the mirrors   *)
(* of Eqp or of a ring; the others stay in an initial state.               *)
(***************************************************************************)
EXTENDS BasicPool, TLC

CONSTANTS MaxRequests,          \* Hybrid
          StatementNames, Unnamed, MaxPackets,    \* Eqp
          MaxLength             \* Ring

ASSUME PoolsAssumption ==
  Unnamed \notin StatementNames /\ None \notin Values \cup Clients

VARIABLES which, hmode, hpc, where, held, taken, herr, hpeer, peerIsReplica,
          m, script, sent, packet, delivered, answers, peerError, got, moved,
          client, mirror, holds, ideal, cur, first, phase, toServer, toBouncer,
          vanished, untracked, lost, packets,
          ring, popped

hybridVars == <<hmode, hpc, where, held, taken, herr, hpeer, peerIsReplica,
                m, script, sent, packet, delivered, answers, peerError, got, moved>>
statementVars == <<client, mirror, holds, ideal, cur, first, phase, toServer,
                   toBouncer, vanished, untracked, lost, packets>>
queueVars == <<ring, popped>>

H == INSTANCE Hybrid WITH mode <- hmode, pc <- hpc, serverErr <- herr, peer <- hpeer
E == INSTANCE Eqp WITH server <- mirror, real <- holds, held <- first,
                       gone <- vanished, sent <- packets,
                       Names <- StatementNames, Queries <- Values, Nil <- None
R == INSTANCE Ring WITH Zero <- None

\* A basic pool that is not used, with servers that have no parameters.
BasicOff ==
  /\ mode = "session"
  /\ pc = [c \in Clients |-> "new"]
  /\ server = [c \in Clients |-> None] /\ peer = server
  /\ serverErr = [c \in Clients |-> FALSE] /\ ready = serverErr
  /\ clients = {} /\ idle = Servers /\ gone = {} /\ off = {}
  /\ todo = [c \in Clients |-> {}]
  /\ initial = [s \in Servers |-> Nothing] /\ sps = initial /\ real = initial
  /\ want = [c \in Clients |-> Nothing] /\ told = want
  /\ cps = [c \in Clients |-> [synced |-> FALSE, params |-> Nothing]]
  /\ sets = [c \in Clients |-> 0]

PoolsInit ==
  /\ which \in {"basic", "hybrid", "statements", "ring"}
  /\ IF which = "basic" THEN Init ELSE BasicOff
  /\ H!Init /\ (which # "hybrid" => hmode = "rw")
  /\ E!Init /\ R!Init

PoolsNext ==
  /\ UNCHANGED which
  /\ \/ which = "basic" /\ Next /\ UNCHANGED <<hybridVars, statementVars, queueVars>>
     \/ which = "hybrid" /\ H!Next /\ UNCHANGED <<vars, statementVars, queueVars>>
     \/ which = "statements" /\ E!Next /\ UNCHANGED <<vars, hybridVars, queueVars>>
     \/ which = "ring" /\ R!Next /\ UNCHANGED <<vars, hybridVars, statementVars>>

PoolsSpec ==
  PoolsInit /\ [][PoolsNext]_<<which, vars, hybridVars, statementVars, queueVars>>

\* Clients, servers and values (of parameters, the queries of statements, or the
\* items of a ring) are interchangeable.
Sym == Permutations(Clients) \cup Permutations(Servers) \cup Permutations(Values)

-----------------------------------------------------------------------------

\* A transaction replayed on the primary is answered to the client once, and the
\* primary gets all of its packets.
Replayed == which = "hybrid" => H!Replayed

\* A client of the hybrid pool gives back what it takes, waits with empty hands, and
\* can be cancelled on the server it works on.
HoldsRightly == which = "hybrid" => H!HoldsRightly

\* The mirror of the server connection is what the server holds.
MirrorTrue == which = "statements" => E!MirrorTrue

\* A client finds the statements it would have on a connection of its own, and no
\* portal that was made elsewhere.
OwnStatements == which = "statements" => E!OwnStatements

\* The ring buffer of util/ring implements a double-ended queue.
IsDeque == R!IsDeque
=============================================================================
