---------------------------- MODULE PoolerProofs ----------------------------
(***************************************************************************)
(* The promises of the Pooler interface hold for any number of clients and *)
(* servers, none of which is Nil.  PoolerInv is inductive as it stands.    *)
(***************************************************************************)
EXTENDS Pooler, TLAPS

\* Nothing is idle or owned before the first call.
LEMMA PoolerInitially == Init => PoolerInv
BY DEF Init, PoolerInv, TypeOK, Exclusive, Conserved, WorkConserving, Consistent

\* A free server that is handed to a waiter, or becomes idle if nobody waits,
\* keeps the promises.  own is the owners once the releasing client, if any,
\* has let go of s.
LEMMA PlaceKeepsInv ==
  ASSUME Nil \notin Servers, PoolerInv,
         NEW s \in Servers, s \notin idle, s \in servers',
         NEW own \in [Clients -> Servers \cup {Nil}],
         \A c \in Clients : own[c] # s,
         \A c \in Clients : own[c] = owner[c] \/ (own[c] = Nil /\ owner[c] = s),
         servers' = servers \cup {s},
         closed' = closed,
         Place(s, own)
  PROVE  PoolerInv'
<1> USE DEF PoolerInv, TypeOK
<1>1. CASE waiters = {} /\ idle' = idle \cup {s} /\ owner' = own /\ waiters' = waiters
  <2>1. TypeOK'
    BY <1>1
  <2>2. Exclusive'
    BY <1>1 DEF Exclusive
  <2>3. Conserved'
    BY <1>1 DEF Conserved
  <2>4. WorkConserving' /\ Consistent'
    BY <1>1 DEF WorkConserving, Consistent
  <2> QED  BY <2>1, <2>2, <2>3, <2>4
<1>2. ASSUME NEW c \in waiters, waiters' = waiters \ {c},
             owner' = [own EXCEPT ![c] = s], idle' = idle
      PROVE  PoolerInv'
  <2>1. own[c] = Nil
    BY <1>2 DEF Consistent
  <2>2. TypeOK'
    BY <1>2
  <2>3. Exclusive'
    BY <1>2, <2>1 DEF Exclusive
  <2>4. Conserved'
    BY <1>2, <2>1 DEF Conserved
  <2>5. WorkConserving' /\ Consistent'
    BY <1>2 DEF WorkConserving, Consistent
  <2> QED  BY <2>2, <2>3, <2>4, <2>5
<1> QED  BY <1>1, <1>2 DEF Place

\* Every method keeps the promises.
LEMMA PoolerStep ==
  ASSUME Nil \notin Servers, PoolerInv, [Next]_vars
  PROVE  PoolerInv'
<1>1. ASSUME NEW s \in Servers, AddServer(s) PROVE PoolerInv'
  <2>1. s \notin idle /\ s \in servers' /\ owner \in [Clients -> Servers \cup {Nil}]
    BY <1>1 DEF AddServer, PoolerInv, TypeOK, Consistent
  <2> QED  BY <1>1, <2>1, PlaceKeepsInv DEF AddServer
<1>2. ASSUME NEW s \in Servers, DeleteServer(s) PROVE PoolerInv'
  BY <1>2 DEF DeleteServer, PoolerInv, TypeOK, Exclusive, Conserved,
              WorkConserving, Consistent
<1>3. ASSUME NEW c \in Clients, Acquire(c) PROVE PoolerInv'
  <2>1. TypeOK'
    BY <1>3 DEF Acquire, PoolerInv, TypeOK
  <2>2. Exclusive'
    BY <1>3 DEF Acquire, PoolerInv, TypeOK, Exclusive
  <2>3. Conserved'
    BY <1>3 DEF Acquire, PoolerInv, TypeOK, Conserved
  <2>4. WorkConserving' /\ Consistent'
    BY <1>3 DEF Acquire, PoolerInv, TypeOK, WorkConserving, Consistent
  <2> QED  BY <2>1, <2>2, <2>3, <2>4 DEF PoolerInv
<1>4. ASSUME NEW c \in Clients, GiveUp(c) PROVE PoolerInv'
  BY <1>4 DEF GiveUp, PoolerInv, TypeOK, Exclusive, Conserved, WorkConserving,
              Consistent
<1>5. ASSUME NEW c \in Clients, Release(c) PROVE PoolerInv'
  <2> DEFINE own == [owner EXCEPT ![c] = Nil]
  <2>1. /\ owner[c] \in Servers /\ own \in [Clients -> Servers \cup {Nil}]
        /\ owner[c] \notin idle
        /\ \A d \in Clients : own[d] # owner[c]
        /\ \A d \in Clients : own[d] = owner[d] \/ (own[d] = Nil /\ owner[d] = owner[c])
    BY <1>5 DEF Release, PoolerInv, TypeOK, Exclusive
  <2>2. CASE owner[c] \in servers
    <3>1. Place(owner[c], own) /\ servers' = servers \cup {owner[c]} /\ closed' = closed
      BY <1>5, <2>2 DEF Release
    <3> HIDE DEF own
    <3> QED  BY <2>1, <2>2, <3>1, PlaceKeepsInv
  <2>3. CASE owner[c] \notin servers
    BY <1>5, <2>1, <2>3 DEF Release, PoolerInv, TypeOK, Exclusive, Conserved,
       WorkConserving, Consistent
  <2> QED  BY <2>2, <2>3
<1>6. CASE Close
  BY <1>6 DEF Close, PoolerInv, TypeOK, Exclusive, Conserved, WorkConserving,
              Consistent
<1>7. CASE UNCHANGED vars
  BY <1>7 DEF vars, PoolerInv, TypeOK, Exclusive, Conserved, WorkConserving,
              Consistent
<1> QED  BY <1>1, <1>2, <1>3, <1>4, <1>5, <1>6, <1>7 DEF Next

\* Whatever the order of calls, a pooler hands a server to one client at a
\* time, leaks none, and lets nobody wait while one is idle.
THEOREM PoolerCorrect ==
  ASSUME Nil \notin Servers
  PROVE  Spec => []PoolerInv
<1>1. PoolerInv /\ [Next]_vars => PoolerInv'
  BY PoolerStep
<1> QED  BY <1>1, PoolerInitially, PTL DEF Spec

=============================================================================
