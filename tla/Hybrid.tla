------------------------------- MODULE Hybrid --------------------------------
(***************************************************************************)
(* A client of the hybrid pool (handlers/pool/pools/hybrid): its           *)
(* transactions are tried on a replica while the middleware records its    *)
(* packets; when the replica answers that it is read only, the recorded    *)
(* packets are replayed on a primary and the answers the client already    *)
(* has are held back.  Clients with hybrid.mode "ro" or "wo" use one of    *)
(* the two pools only.                                                     *)
(*                                                                         *)
(* The goroutines of different clients meet only in the two server pools   *)
(* (module Spool), so one client is modelled.  The bouncer (module         *)
(* Bouncer) is reduced to the packets it passes: a request is the packets  *)
(* up to a Query or a Sync, after which the server answers, the last       *)
(* answer being ReadyForQuery.  The buffers of the middleware hold whole   *)
(* packets; that the codecs preserve them is shown in Codec.               *)
(***************************************************************************)
EXTENDS Integers, Sequences, Folds

CONSTANT MaxRequests     \* bound on the requests of a transaction

(* The requests.  "multi" is a query of several statements of which a later *)
(* one writes, "batch" an extended query that writes, "refused" a write in  *)
(* a transaction that the client itself made read only.                    *)
Kinds == {"read", "write", "multi", "batch", "refused"}

PacketsOf(kind) == IF kind = "batch" THEN <<"Parse", "Execute", "Sync">> ELSE <<"Query">>

Outcome(kind, where) ==
  IF kind = "refused" \/ (kind # "read" /\ where = "replica") THEN "readonly" ELSE "done"

\* The answers to what comes before the write.
Before(kind) == IF kind \in {"multi", "batch"} THEN <<"partial">> ELSE <<>>

Answers(kind, where) == Before(kind) \o <<Outcome(kind, where), "ready">>

VARIABLES mode,          \* "rw", "ro" or "wo"
          pc, where,     \* the state of serve, and the pool it is dealing with
          held,          \* the variables primary and replica: the servers held
          taken,         \* history: servers taken from each pool and not given back
          serverErr,
          peer, peerIsReplica,    \* of the Client
          m,             \* the Middleware: primary, and buf with its read position pos
          script,        \* the requests of the transaction, as [kind, last]
          sent,          \* how many packets of the script pggat has read
          packet,        \* the packet read and not yet passed to the server
          delivered,     \* the packets the server got in this pass
          answers,       \* the server's answers on their way
          peerError,     \* "", or the binding's PeerError
          got,           \* the answers the client received
          moved          \* history: the request that the replica refused, if any

serveVars == <<mode, pc, where, held, taken, serverErr, peer, peerIsReplica>>
txnVars == <<m, script, sent, packet, delivered, answers, peerError, got, moved>>
vars == <<serveVars, txnVars>>

Pools == {"primary", "replica"}
NoPacket == <<>>

Init ==
  /\ mode \in {"rw", "ro", "wo"}
  /\ pc = "first" /\ where = "none"
  /\ held = {} /\ taken = [p \in Pools |-> 0]
  /\ serverErr = FALSE
  /\ peer = "none" /\ peerIsReplica = (mode # "rw")
  /\ m = [primary |-> FALSE, buf |-> <<>>, pos |-> 0]
  /\ script = <<>> /\ sent = 0 /\ packet = NoPacket /\ delivered = <<>>
  /\ answers = <<>> /\ peerError = "" /\ got = <<>> /\ moved = {}

\* The sequences one after the other.
Joined(seqs) ==
  MapThenFoldSet(LAMBDA x, y : y \o x, <<>>, LAMBDA i : seqs[i],
                 LAMBDA S : CHOOSE i \in S : \A j \in S : j <= i, DOMAIN seqs)

Packets ==
  Joined([i \in DOMAIN script |->
    [j \in DOMAIN PacketsOf(script[i].kind) |->
       [request |-> i, type |-> PacketsOf(script[i].kind)[j]]]])

SetState(p, replica) == peer' = p /\ peerIsReplica' = replica

Goto(to) == pc' = to

-----------------------------------------------------------------------------
(* The client.                                                             *)

Received(a) == Len(SelectSeq(got, LAMBDA x : x = a))

\* It sends its next request when the one before was answered.
ClientSends(kind, last) ==
  /\ Received("ready") = Len(script) /\ Len(script) < MaxRequests
  /\ pc \in {"read", "peerread"}
  /\ script # <<>> => ~script[Len(script)].last
  /\ Len(script) = MaxRequests - 1 => last
  /\ script' = Append(script, [kind |-> kind, last |-> last])
  /\ UNCHANGED <<serveVars, m, sent, packet, delivered, answers, peerError, got, moved>>

-----------------------------------------------------------------------------
(* The middleware.                                                         *)

Unread == m.pos < Len(m.buf)

\* Primary()
Rewound == [m EXCEPT !.primary = TRUE, !.pos = 0]

\* conn.ReadPacket: the recorded packets come first (PreRead); a new packet is
\* recorded unless it goes to the primary anyway.
ReadPacket(mw) ==
  \/ /\ mw.primary /\ mw.pos < Len(mw.buf)
     /\ packet' = mw.buf[mw.pos + 1]
     /\ m' = [mw EXCEPT !.pos = @ + 1]
     /\ UNCHANGED sent
  \/ /\ ~ (mw.primary /\ mw.pos < Len(mw.buf))
     /\ sent < Len(Packets)
     /\ packet' = Packets[sent + 1]
     /\ sent' = sent + 1
     /\ m' = IF mode # "rw" \/ mw.primary THEN mw
             ELSE [mw EXCEPT !.buf = Append(@, packet'), !.pos = Len(mw.buf) + 1]

\* Mutant: every answer of the primary is passed on.
NeverSuppressed == FALSE

\* WritePacket holds an answer back while recorded packets are left to replay.
Suppressed == mode = "rw" /\ m.primary /\ Unread

-----------------------------------------------------------------------------
(* serveRW and serveOnly.                                                  *)

\* The pools that may be tried: in "rw" the primary when the replica pool is empty.
Candidates ==
  CASE mode = "ro" -> {"replica"} [] mode = "wo" -> {"primary"} [] mode = "rw" -> Pools

Take(p) == held' = held \cup {p} /\ taken' = [taken EXCEPT ![p] = @ + 1]

\* Release or RemoveServer of the servers held.
GiveBack(ps) == held' = held \ ps /\ taken' = [p \in Pools |-> taken[p] - (IF p \in ps THEN 1 ELSE 0)]

\* Before the first transaction: acquire a server, Pair, tell the client it is ready.
First(p) ==
  /\ pc = "first" /\ p \in Candidates
  /\ Take(p) /\ where' = p
  /\ SetState(p, TRUE)
  /\ Goto("paired")
  /\ UNCHANGED <<mode, serverErr, txnVars>>

FirstReady ==
  /\ pc = "paired" /\ Goto("top")
  /\ UNCHANGED <<mode, where, held, taken, serverErr, peer, peerIsReplica, txnVars>>

AcquireFails ==
  /\ pc \in {"first", "acquire", "acquirePrimary"} /\ Goto("leave")
  /\ UNCHANGED <<mode, where, held, taken, serverErr, peer, peerIsReplica, txnVars>>

\* The head of the loop: the servers are released, then the client is set idle.
Top ==
  /\ pc = "top" /\ Goto("idle")
  /\ GiveBack(held)
  /\ UNCHANGED <<mode, where, serverErr, peer, peerIsReplica, txnVars>>

Idle ==
  /\ pc = "idle" /\ Goto("read")
  /\ SetState("none", mode # "rw")
  /\ UNCHANGED <<mode, where, held, taken, serverErr, txnVars>>

\* The first packet of a transaction; SetState(AwaitingServer, nil).
ReadFirst ==
  /\ pc = "read" /\ Goto("acquire")
  /\ ReadPacket(m)
  /\ SetState("none", mode # "rw")
  /\ UNCHANGED <<mode, where, held, taken, serverErr, script, delivered, answers,
                 peerError, got, moved>>

ReadFails ==
  /\ pc \in {"read", "peerread"}
  /\ Goto(IF pc = "read" THEN "leave" ELSE "bounced")
  /\ peerError' = "gone"
  /\ UNCHANGED <<mode, where, held, taken, serverErr, peer, peerIsReplica, m, script,
                 sent, packet, delivered, answers, got, moved>>

\* Acquire and Pair.  With no replica the middleware turns to the primary at once
\* and the packet is read again.
Acquire(p) ==
  /\ pc = "acquire" /\ p \in Candidates
  /\ Take(p) /\ where' = p
  /\ SetState(p, TRUE)
  /\ IF mode = "rw" /\ p = "primary"
     THEN ReadPacket(Rewound)
     ELSE UNCHANGED <<m, packet, sent>>
  /\ Goto("pairing")
  /\ UNCHANGED <<mode, serverErr, script, delivered, answers, peerError, got, moved>>

Paired ==
  /\ pc = "pairing" /\ Goto("bounce")
  /\ UNCHANGED <<mode, where, held, taken, serverErr, peer, peerIsReplica, txnVars>>

\* The connection of the server fails while pairing or in the transaction.
ServerFails ==
  /\ pc \in {"paired", "pairing", "bounce", "answering", "peerread"} /\ Goto("leave")
  /\ serverErr' = TRUE
  /\ UNCHANGED <<mode, where, held, taken, peer, peerIsReplica, txnVars>>

\* The client cannot be written to: while pairing that ends the session, in the
\* transaction the bouncer carries on to its end.
ClientFails ==
  /\ \/ pc \in {"paired", "pairing"} /\ Goto("leave")
     \/ pc = "answering" /\ peerError = "" /\ UNCHANGED pc
  /\ peerError' = "gone"
  /\ UNCHANGED <<mode, where, held, taken, serverErr, peer, peerIsReplica, m, script,
                 sent, packet, delivered, answers, got, moved>>

\* The bouncer passes a packet; after a Query or a Sync the server answers.
Deliver ==
  /\ pc = "bounce"
  /\ delivered' = Append(delivered, packet)
  /\ IF packet.type \in {"Query", "Sync"}
     THEN /\ answers' = Answers(script[packet.request].kind, where)
          /\ Goto("answering")
     ELSE Goto("peerread") /\ UNCHANGED answers
  /\ UNCHANGED <<mode, where, held, taken, serverErr, peer, peerIsReplica, m, script,
                 sent, packet, peerError, got, moved>>

\* PeerWrite of an answer, through WritePacket of the middleware.
Forward ==
  /\ pc = "answering" /\ answers # <<>>
  /\ answers' = Tail(answers)
  /\ LET a == Head(answers)
     IN  IF peerError # "" \/ Suppressed THEN UNCHANGED <<got, peerError, moved>>
         ELSE IF mode = "rw" /\ a = "readonly"
         THEN /\ peerError' = "readonly"
              /\ moved' = IF where = "replica" THEN {packet.request} ELSE moved
              /\ UNCHANGED got
         ELSE got' = Append(got, a) /\ UNCHANGED <<peerError, moved>>
  /\ UNCHANGED <<serveVars, m, script, sent, packet, delivered>>

\* The answers of a request are through: the transaction is over, or was broken off
\* for the client's error, or goes on with the next packet.
Answered ==
  /\ pc = "answering" /\ answers = <<>>
  /\ Goto(IF script[packet.request].last \/ peerError # "" THEN "bounced" ELSE "peerread")
  /\ UNCHANGED <<mode, where, held, taken, serverErr, peer, peerIsReplica, txnVars>>

PeerRead ==
  /\ pc = "peerread" /\ Goto("bounce")
  /\ ReadPacket(m)
  /\ UNCHANGED <<mode, where, held, taken, serverErr, peer, peerIsReplica, script,
                 delivered, answers, peerError, got, moved>>

\* Mutant: the replica is kept while waiting for the primary.
FallbackKeeping ==
  /\ pc = "bounced" /\ where = "replica" /\ peerError = "readonly"
  /\ ReadPacket(Rewound)
  /\ delivered' = <<>> /\ peerError' = ""
  /\ Goto("fallen")
  /\ UNCHANGED <<mode, where, held, taken, serverErr, peer, peerIsReplica, script, answers,
                 got, moved>>

\* ErrReadOnly: rewind, release the replica, read the first packet again.
Fallback ==
  /\ pc = "bounced" /\ where = "replica" /\ peerError = "readonly"
  /\ GiveBack({"replica"})
  /\ ReadPacket(Rewound)
  /\ delivered' = <<>> /\ peerError' = ""
  /\ Goto("fallen")
  /\ UNCHANGED <<mode, where, serverErr, peer, peerIsReplica, script, answers, got, moved>>

\* SetState(AwaitingServer, nil): only now does Cancel no longer find the replica.
Fallen ==
  /\ pc = "fallen" /\ Goto("acquirePrimary")
  /\ SetState("none", FALSE)
  /\ UNCHANGED <<mode, where, held, taken, serverErr, txnVars>>

\* Acquire and PairPrimary, which fails only when the server does.
PairPrimaryFails ==
  /\ pc = "acquirePrimary"
  /\ Take("primary") /\ where' = "primary"
  /\ serverErr' = TRUE
  /\ Goto("leave")
  /\ UNCHANGED <<mode, peer, peerIsReplica, txnVars>>

PairPrimary ==
  /\ pc = "acquirePrimary"
  /\ Take("primary") /\ where' = "primary"
  /\ SetState("primary", FALSE)
  /\ Goto("bounce")
  /\ UNCHANGED <<mode, serverErr, txnVars>>

\* Any other end of Bounce; without an error the middleware is reset.
Bounced ==
  /\ pc = "bounced" /\ ~ (where = "replica" /\ peerError = "readonly")
  /\ IF peerError = ""
     THEN /\ Goto("top")
          /\ m' = [primary |-> FALSE, buf |-> <<>>, pos |-> 0]
          /\ script' = <<>> /\ sent' = 0 /\ got' = <<>> /\ moved' = {}
          /\ delivered' = <<>> /\ packet' = NoPacket
     ELSE /\ Goto("leave")
          /\ UNCHANGED <<m, script, sent, got, moved, delivered, packet>>
  /\ UNCHANGED <<mode, where, held, taken, serverErr, peer, peerIsReplica, answers, peerError>>

\* The deferred calls.
Leave ==
  /\ pc = "leave" /\ Goto("gone")
  /\ GiveBack(held)
  /\ UNCHANGED <<mode, where, serverErr, peer, peerIsReplica, txnVars>>

\* Cancel: the peer is looked for in the pool that the flag names, whose chef drops a
\* server it does not know.  The servers that are asked to stop.
Cancels == {p \in Pools : p = peer /\ p = (IF peerIsReplica THEN "replica" ELSE "primary")}

Next ==
  \/ \E k \in Kinds, last \in BOOLEAN : ClientSends(k, last)
  \/ \E p \in Pools : First(p) \/ Acquire(p)
  \/ FirstReady \/ AcquireFails \/ Top \/ Idle \/ ReadFirst \/ ReadFails
  \/ ServerFails \/ ClientFails \/ Paired \/ Deliver \/ Forward \/ Answered \/ PeerRead
  \/ Fallback \/ Fallen \/ PairPrimary \/ PairPrimaryFails \/ Bounced \/ Leave

Spec == Init /\ [][Next]_vars

-----------------------------------------------------------------------------

StartOf(s, t) == Len(s) <= Len(t) /\ s = SubSeq(t, 1, Len(s))

Expected ==
  Joined([i \in DOMAIN script |->
     (IF i \in moved THEN Before(script[i].kind) ELSE <<>>)
       \o Answers(script[i].kind, IF mode = "ro" THEN "replica" ELSE "primary")])

\* The client is answered as if its transaction had run where it ended up, although it
\* may have run twice: no answer is lost, and none is passed on again, with one exception.
\* Of the request that the replica refused, what the replica answered before it came to
\* the write (the first results of a query of several statements, ParseComplete and
\* BindComplete of a batch) has gone to the client, and WritePacket passes the primary's
\* answers to that request on from the first one: the client gets these twice, and twice
\* only.
AnsweredOnce ==
  /\ StartOf(got, Expected)
  /\ pc = "bounced" /\ peerError = "" => got = Expected

\* Every pass gives the server the client's packets from the first one on, in order:
\* the replay leaves nothing out and repeats nothing.
ReplayExact == StartOf(delivered, Packets)

\* Together: a transaction that was replayed looks to the primary as if it had run there
\* from the start, and to the client too but for what the replica had answered of the
\* refused request, which the client sees a second time.
Replayed == AnsweredOnce /\ ReplayExact

\* What Cancel can do.  While a replica works for the client, or a primary to which a
\* transaction was moved, a cancel request reaches that server; a primary that pair was
\* called with (pool.go:92 and 107 note every server as a replica) is looked for among the
\* replicas, and the request is dropped.  A request never reaches a server that the client
\* does not hold, except between giving it back and the SetState that follows, and
\* while the client leaves.
CancelFinds ==
  /\ pc \in {"bounce", "answering", "peerread"} =>
       Cancels = IF where = "replica" \/ moved # {} THEN {where} ELSE {}
  /\ pc \notin {"idle", "fallen", "gone"} => Cancels \subseteq held

\* Whatever way a client leaves, the servers taken from both pools were given back,
\* each once.
GivesBack ==
  /\ \A p \in Pools : taken[p] = (IF p \in held THEN 1 ELSE 0)
  /\ pc = "gone" => held = {}

\* A client waits for a server with empty hands, so that clients that hold replicas
\* and clients that hold primaries never wait for one another.
WaitsEmptyHanded == pc \in {"first", "acquire", "acquirePrimary"} => held = {}

\* Together: what the client holds of the two pools is right at every moment.
HoldsRightly == CancelFinds /\ GivesBack /\ WaitsEmptyHanded
=============================================================================
