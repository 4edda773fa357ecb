------------------------------- MODULE MCRelay -------------------------------
(***************************************************************************)
(* The lifo pooler and the bouncer, for TLC: how a transaction gets its    *)
(* server, and how its packets are relayed to it.  The two meet only in    *)
(* the pools, so a behaviour runs one of them and leaves the other in its  *)
(* initial state.                                                          *)
(***************************************************************************)
EXTENDS LifoPooler

CONSTANTS MaxPackets, MaxNotices

ASSUME RelayAssumption == MaxPackets \in Nat /\ MaxNotices \in Nat

VARIABLES which, bpc, caller, packet, peerOK, txState, result, torn, told, sent,
          toServer, toBouncer, alive, mode, tx, notices

bouncerVars == <<bpc, caller, packet, peerOK, txState, result, torn, told, sent,
                 toServer, toBouncer, alive, mode, tx, notices>>

B == INSTANCE Bouncer WITH pc <- bpc

RelayInit == which \in {"lifo", "bouncer"} /\ Init /\ B!Init

RelayNext ==
  /\ UNCHANGED which
  /\ \/ which = "lifo" /\ Next /\ UNCHANGED bouncerVars
     \/ which = "bouncer" /\ B!Next /\ UNCHANGED vars

\* The fairness of FairSpec, in LifoPooler and in Bouncer.
RelaySpec ==
  /\ RelayInit /\ [][RelayNext]_<<which, vars, bouncerVars>>
  /\ \A c \in Clients :
       /\ WF_vars(which = "lifo" /\ Receive(c))
       /\ WF_vars(which = "lifo" /\ (TimeoutFound(c) \/ TimeoutLost(c)))
       /\ WF_vars(which = "lifo" /\ Release(c))
  /\ WF_bouncerVars(which = "bouncer" /\ ~peerOK /\ B!Bounce)
  /\ WF_bouncerVars(which = "bouncer" /\ B!ServerAnswers)

-----------------------------------------------------------------------------

\* A server that Transaction returns without a server error can go to the next
\* client, and the status by which it is kept until then is its own.
ServerClean == B!ServerClean

\* A server is given up only when its connection is broken or a packet broke off.
GivenUpForCause == B!GivenUpForCause

\* A client that vanishes cannot keep a server.
VanishedEnds == B!VanishedEnds
=============================================================================
