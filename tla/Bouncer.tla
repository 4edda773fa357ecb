------------------------------- MODULE Bouncer -------------------------------
(***************************************************************************)
(* lib/bouncer/backends/v0/query.go: relaying the packets of one           *)
(* transaction between a client (the peer) and a server, as the serve loop *)
(* of a pool in session mode calls it again and again on one server.       *)
(*                                                                         *)
(* pc names the function that runs and what it waits for.  A packet on its *)
(* way is its type; a ReadyForQuery is the status it carries.  The server  *)
(* is external: Replies says how Postgres answers, with nondeterminism for *)
(* everything SQL decides.  The client sends any packet at any time, with  *)
(* one restriction: it ends the batch in which it executes a COPY FROM     *)
(* STDIN with Sync at once, as the tests in test/tests/copy_in.go do.      *)
(***************************************************************************)
EXTENDS Integers, Sequences

CONSTANTS
  MaxPackets,   \* bound: packets the client sends
  MaxNotices    \* bound: packets the server sends unasked

VARIABLES
  pc,         \* where the bouncer stands
  caller,     \* the loop that copyIn or copyOut returns to
  packet,     \* the last packet read from the client
  peerOK,     \* binding.PeerOK()
  txState,    \* binding.TxState, "0" before the first ReadyForQuery
  result,     \* what Transaction returned last
  torn,       \* a packet of the client broke off half way to the server
  told,       \* the status in the last ReadyForQuery the client got
  sent,       \* packets read from the client so far
  toServer,   \* packets on their way to the server
  toBouncer,  \* packets on their way from the server
  alive,      \* the server connection works
  mode,       \* what the server expects next
  tx,         \* the transaction status of the server
  notices     \* packets the server sent unasked so far

bindVars == <<caller, packet, peerOK, txState, torn, told, sent>>
serverVars == <<alive, mode, tx, notices>>
vars == <<pc, result, bindVars, toServer, toBouncer, serverVars>>

Status == {"I", "T", "E"}
Extended == {"Parse", "Execute", "Copy", "Flush"}   \* Copy: Execute of a COPY
CopyEnds == {"CopyDone", "CopyFail"}
ClientPackets ==
  {"Query", "FunctionCall", "Sync", "CopyData", "Other"} \cup Extended \cup CopyEnds
ServerPackets ==
  {"Rows", "Notice", "Error", "CopyIn", "CopyOut", "CopyData", "CopyDone", "Bad"}
    \cup Status

TypeOK ==
  /\ pc \in {"idle", "start", "next", "query", "abort", "call", "eqp", "sync",
             "copyin", "copyout", "done"}
  /\ caller \in {"query", "abort", "sync"}
  /\ packet \in ClientPackets
  /\ peerOK \in BOOLEAN
  /\ txState \in Status \cup {"0"}
  /\ result \in {"ok", "peer_error", "server_error"}
  /\ torn \in BOOLEAN
  /\ told \in Status \cup {"0"}
  /\ sent \in 0..MaxPackets
  /\ toServer \in Seq(ClientPackets \cup {"Abort"})
  /\ toBouncer \in Seq(ServerPackets)
  /\ alive \in BOOLEAN
  /\ mode \in {"ready", "skip", "copyin", "copyin_ext"}
  /\ tx \in Status
  /\ notices \in 0..MaxNotices

Init ==
  /\ pc = "idle"
  /\ caller = "query"
  /\ packet = "Other"
  /\ peerOK = TRUE
  /\ txState = "0"
  /\ result = "ok"
  /\ torn = FALSE
  /\ told = "I"
  /\ sent = 0
  /\ toServer = <<>>
  /\ toBouncer = <<>>
  /\ alive = TRUE
  /\ mode = "ready"
  /\ tx = "I"
  /\ notices = 0

-----------------------------------------------------------------------------
(* The binding of a server and a peer (context.go).                        *)

Fail == pc' = "done" /\ result' = "server_error"

PeerFail == peerOK' = FALSE

\* The packet goes out, or the peer fails, or it has failed before.
PeerWrite(p) ==
  \/ /\ peerOK
     /\ told' = IF p \in Status \cup {"0"} THEN p ELSE told
     /\ UNCHANGED peerOK
  \/ PeerFail /\ UNCHANGED told

ClientSent(p) ==
  /\ peerOK
  /\ sent < MaxPackets
  /\ packet = "Copy" => p = "Sync"
  /\ packet' = p
  /\ sent' = sent + 1
  /\ UNCHANGED told

PeerReads(p) == ClientSent(p) /\ UNCHANGED peerOK

\* The packet is none the loop knows: the client is dropped.
PeerUnexpected(p) == ClientSent(p) /\ PeerFail

PeerReadFails == PeerFail /\ UNCHANGED <<packet, sent, told>>

\* A write to a broken server may fail now or be noticed by the next read.
ServerWrite(p, to) ==
  \/ /\ toServer' = IF alive THEN Append(toServer, p) ELSE toServer
     /\ pc' = to
     /\ UNCHANGED <<result, torn>>
  \/ ~alive /\ Fail /\ UNCHANGED <<toServer, torn>>

\* The body of a client packet is streamed to the server: when the client
\* breaks off in the middle of it, the write to the server is what fails.
Relay(p, to) ==
  \/ ServerWrite(p, to)
  \/ Fail /\ torn' = TRUE /\ UNCHANGED toServer

ServerReads(p) ==
  /\ toBouncer # <<>>
  /\ p = Head(toBouncer)
  /\ toBouncer' = Tail(toBouncer)

\* The connection is broken, or the packet is none the loop knows.
ServerReadFails ==
  \/ toBouncer = <<>> /\ ~alive /\ UNCHANGED toBouncer
  \/ ServerReads("Bad")

\* Transaction returns; the serve loop goes on while the client is there.
Return(ok) ==
  /\ pc' = IF ok THEN "idle" ELSE "done"
  /\ result' = IF ok THEN "ok" ELSE "peer_error"

-----------------------------------------------------------------------------
(* The loops of query.go.                                                  *)

\* The serve loop reads the first packet of a transaction.
Begin(p) ==
  /\ pc = "idle"
  /\ PeerReads(p)
  /\ pc' = "start"
  /\ txState' = "0"
  /\ UNCHANGED <<caller, result, torn, toServer, toBouncer, serverVars>>

\* The serve loop cannot read: the client has left.
Leave ==
  /\ pc = "idle"
  /\ PeerReadFails
  /\ Return(FALSE)
  /\ UNCHANGED <<caller, txState, torn, toServer, toBouncer, serverVars>>

\* transaction: dispatch on the packet.
Dispatch ==
  /\ pc = "start"
  /\ \/ packet = "Query" /\ Relay(packet, "query") /\ UNCHANGED <<peerOK, told>>
     \/ packet = "FunctionCall" /\ Relay(packet, "call") /\ UNCHANGED <<peerOK, told>>
     \/ packet \in Extended /\ Relay(packet, "eqp") /\ UNCHANGED <<peerOK, told>>
     \/ /\ packet = "Sync"
        /\ PeerWrite(txState)
        /\ pc' = "next"
        /\ UNCHANGED <<toServer, result, torn>>
     \/ /\ packet \in {"Other", "CopyData"} \cup CopyEnds
        /\ PeerFail
        /\ pc' = "next"
        /\ UNCHANGED <<toServer, told, result, torn>>
  /\ UNCHANGED <<caller, packet, txState, sent, toBouncer, serverVars>>

\* transaction: the server is idle again.
TransactionEnds ==
  /\ pc = "next"
  /\ txState = "I"
  /\ Return(peerOK)
  /\ UNCHANGED <<bindVars, toServer, toBouncer, serverVars>>

TransactionReads(p) ==
  /\ pc = "next"
  /\ txState # "I"
  /\ PeerReads(p)
  /\ pc' = "start"
  /\ UNCHANGED <<caller, txState, result, torn, toServer, toBouncer, serverVars>>

\* transaction: the client has gone in the middle of it.
TransactionAborts ==
  /\ pc = "next"
  /\ txState # "I"
  /\ PeerReadFails
  /\ ServerWrite("Abort", "abort")
  /\ UNCHANGED <<caller, txState, toBouncer, serverVars>>

\* Mutant: every ReadyForQuery counts as idle.
ReadyIdle(t, to) ==
  /\ PeerWrite(t)
  /\ txState' = "I"
  /\ pc' = to
  /\ UNCHANGED result

Ready(t, to) ==
  /\ PeerWrite(t)
  /\ txState' = t
  /\ pc' = to
  /\ UNCHANGED result

\* What a loop does with a packet that it only passes on.
PassOn(p) == PeerWrite(p) /\ UNCHANGED <<pc, caller, txState, result>>

\* A copy begins: the loop hands over to copyIn or copyOut.
StartCopy(p) ==
  /\ PeerWrite(p)
  /\ caller' = pc
  /\ pc' = IF p = "CopyIn" THEN "copyin" ELSE "copyout"
  /\ UNCHANGED <<txState, result>>

\* query, for a packet of the client or for the ABORT of transaction.
Query ==
  /\ pc \in {"query", "abort"}
  /\ \/ \E p \in {"Rows", "Notice", "Error"} : ServerReads(p) /\ PassOn(p)
     \/ \E p \in {"CopyIn", "CopyOut"} : ServerReads(p) /\ StartCopy(p)
     \/ \E t \in Status :
          /\ ServerReads(t)
          /\ \/ pc = "query" /\ Ready(t, "next")
             \/ /\ pc = "abort"
                /\ IF t = "I" THEN Return(FALSE) ELSE Fail
                /\ txState' = t
                /\ UNCHANGED <<peerOK, told>>
          /\ UNCHANGED caller
     \/ ServerReadFails /\ Fail /\ UNCHANGED <<peerOK, told, caller, txState>>
  /\ UNCHANGED <<packet, sent, torn, toServer, serverVars>>

FunctionCall ==
  /\ pc = "call"
  /\ \/ \E p \in {"Rows", "Notice", "Error"} : ServerReads(p) /\ PassOn(p)
     \/ \E t \in Status : ServerReads(t) /\ Ready(t, "next") /\ UNCHANGED caller
     \/ ServerReadFails /\ Fail /\ UNCHANGED <<peerOK, told, caller, txState>>
  /\ UNCHANGED <<packet, sent, torn, toServer, serverVars>>

\* eqp: packets are sent on, and no answer is read before Sync.
Eqp(p) ==
  /\ pc = "eqp"
  /\ PeerReads(p)
  /\ \/ p \in Extended /\ Relay(p, "eqp") /\ UNCHANGED caller
     \/ p = "Sync" /\ Relay(p, "sync") /\ UNCHANGED caller
  /\ UNCHANGED <<txState, toBouncer, serverVars>>

\* eqp: a packet that belongs to no batch.
EqpUnexpected(p) ==
  /\ pc = "eqp"
  /\ p \notin Extended \cup {"Sync"}
  /\ PeerUnexpected(p)
  /\ UNCHANGED <<pc, result, caller, txState, torn, toServer, toBouncer, serverVars>>

\* eqp: the client has gone; Sync in its place until the server is ready.
EqpAborts ==
  /\ pc = "eqp"
  /\ PeerReadFails
  /\ ServerWrite("Sync", "sync")
  /\ UNCHANGED <<caller, txState, toBouncer, serverVars>>

Sync ==
  /\ pc = "sync"
  /\ \/ \E p \in {"Rows", "Notice", "Error"} : ServerReads(p) /\ PassOn(p)
     \/ \E p \in {"CopyIn", "CopyOut"} : ServerReads(p) /\ StartCopy(p)
     \/ \E t \in Status : ServerReads(t) /\ Ready(t, "next") /\ UNCHANGED caller
     \/ ServerReadFails /\ Fail /\ UNCHANGED <<peerOK, told, caller, txState>>
  /\ UNCHANGED <<packet, sent, torn, toServer, serverVars>>

\* sync ends with the copy: its Sync has been swallowed by it.
AfterCopyIn == IF caller = "sync" THEN "eqp" ELSE caller

CopyIn(p) ==
  /\ pc = "copyin"
  /\ PeerReads(p)
  /\ \/ p = "CopyData" /\ Relay(p, "copyin")
     \/ p \in CopyEnds /\ Relay(p, AfterCopyIn)
  /\ UNCHANGED <<caller, txState, toBouncer, serverVars>>

CopyInUnexpected(p) ==
  /\ pc = "copyin"
  /\ p \notin {"CopyData"} \cup CopyEnds
  /\ PeerUnexpected(p)
  /\ UNCHANGED <<pc, result, caller, txState, torn, toServer, toBouncer, serverVars>>

\* Mutant: the copy is abandoned without a word to the server.
CopyInAbortsSilently ==
  /\ pc = "copyin"
  /\ PeerReadFails
  /\ pc' = AfterCopyIn
  /\ UNCHANGED <<result, torn, caller, txState, toServer, toBouncer, serverVars>>

CopyInAborts ==
  /\ pc = "copyin"
  /\ PeerReadFails
  /\ ServerWrite("CopyFail", AfterCopyIn)
  /\ UNCHANGED <<caller, txState, toBouncer, serverVars>>

\* Mutant: an error in a copy is not expected.
CopyOutStrict ==
  /\ pc = "copyout"
  /\ \/ \E p \in {"CopyData", "Notice"} : ServerReads(p) /\ PassOn(p)
     \/ /\ ServerReads("CopyDone")
        /\ PeerWrite("CopyDone")
        /\ pc' = caller
        /\ UNCHANGED <<caller, txState, result>>
     \/ /\ ServerReads("Error")
        /\ Fail
        /\ UNCHANGED <<peerOK, told, caller, txState>>
  /\ UNCHANGED <<packet, sent, torn, toServer, serverVars>>

CopyOut ==
  /\ pc = "copyout"
  /\ \/ \E p \in {"CopyData", "Notice"} : ServerReads(p) /\ PassOn(p)
     \/ \E p \in {"CopyDone", "Error"} :
          /\ ServerReads(p)
          /\ PeerWrite(p)
          /\ pc' = caller
          /\ UNCHANGED <<caller, txState, result>>
     \/ ServerReadFails /\ Fail /\ UNCHANGED <<peerOK, told, caller, txState>>
  /\ UNCHANGED <<packet, sent, torn, toServer, serverVars>>

-----------------------------------------------------------------------------
(* The server.                                                             *)

Reply(out, m, t) == [out |-> out, mode |-> m, tx |-> t]

\* The status after a statement that succeeds, and after one that fails.
Succeeds == IF tx = "E" THEN {"I"} ELSE {"I", "T"}
Failed == IF tx = "I" THEN "I" ELSE "E"

\* Outside of a batch an error ends the request; within, it skips to Sync.
SimpleError(out) == {Reply(out \o <<"Error", Failed>>, "ready", Failed)}
BatchError(out) == {Reply(Append(out, "Error"), "skip", Failed)}

Silent == {Reply(<<>>, mode, tx)}

CopyOuts(rest) == IF tx = "E" THEN {} ELSE {<<"CopyOut", "CopyData">> \o rest}

ReadyReplies(p) ==
  CASE p = "Query" ->
         {Reply(<<"Rows", t>>, "ready", t) : t \in Succeeds}
           \cup SimpleError(<<>>)
           \cup {Reply(o, "ready", tx) : o \in CopyOuts(<<"CopyDone", "Rows", tx>>)}
           \cup (UNION {SimpleError(o) : o \in CopyOuts(<<>>)})
           \cup (IF tx = "E" THEN {} ELSE {Reply(<<"CopyIn">>, "copyin", tx)})
    [] p = "Abort" -> {Reply(<<"Rows", "I">>, "ready", "I")}
    [] p = "FunctionCall" -> {Reply(<<"Rows", tx>>, "ready", tx)} \cup SimpleError(<<>>)
    [] p = "Parse" -> {Reply(<<"Rows">>, "ready", tx)} \cup BatchError(<<>>)
    [] p = "Execute" ->
         {Reply(<<"Rows">>, "ready", t) : t \in Succeeds}
           \cup BatchError(<<>>)
           \cup {Reply(o, "ready", tx) : o \in CopyOuts(<<"CopyDone", "Rows">>)}
           \cup (UNION {BatchError(o) : o \in CopyOuts(<<>>)})
    [] p = "Copy" ->
         BatchError(<<>>)
           \cup (IF tx = "E" THEN {} ELSE {Reply(<<"CopyIn">>, "copyin_ext", tx)})
    [] p = "Sync" -> {Reply(<<tx>>, "ready", tx)}
    [] OTHER -> Silent

\* In a copy, Sync and Flush are ignored.
CopyReplies(p) ==
  LET done == IF mode = "copyin" THEN <<"Rows", tx>> ELSE <<"Rows">>
      error == IF mode = "copyin" THEN SimpleError(<<>>) ELSE BatchError(<<>>)
  IN  CASE p = "CopyData" -> Silent \cup error
        [] p = "CopyDone" -> {Reply(done, "ready", tx)} \cup error
        [] p = "CopyFail" -> error
        [] p \in {"Sync", "Flush"} -> Silent
        [] OTHER -> {}

Replies(p) ==
  CASE mode = "ready" -> ReadyReplies(p)
    [] mode = "skip" -> IF p = "Sync" THEN {Reply(<<tx>>, "ready", tx)} ELSE Silent
    [] OTHER -> CopyReplies(p)

ServerAnswers ==
  /\ alive
  /\ toServer # <<>>
  /\ \E r \in Replies(Head(toServer)) :
       /\ toBouncer' = toBouncer \o r.out
       /\ mode' = r.mode
       /\ tx' = r.tx
  /\ toServer' = Tail(toServer)
  /\ UNCHANGED <<pc, result, bindVars, alive, notices>>

\* A notice, a notification or a changed parameter.
ServerNotifies ==
  /\ alive
  /\ notices < MaxNotices
  /\ notices' = notices + 1
  /\ toBouncer' = Append(toBouncer, "Notice")
  /\ UNCHANGED <<pc, result, bindVars, toServer, alive, mode, tx>>

\* The connection breaks, or what comes is not the protocol any more.
ServerBreaks ==
  /\ alive
  /\ alive' = FALSE
  /\ toServer' = <<>>
  /\ toBouncer' \in {toBouncer, Append(toBouncer, "Bad")}
  /\ UNCHANGED <<pc, result, bindVars, mode, tx, notices>>

-----------------------------------------------------------------------------
Bounce ==
  \/ Dispatch
  \/ TransactionEnds \/ TransactionAborts
  \/ Query \/ FunctionCall \/ EqpAborts \/ Sync \/ CopyInAborts \/ CopyOut

ClientSends ==
  \E p \in ClientPackets :
    \/ Begin(p) \/ TransactionReads(p) \/ Eqp(p) \/ EqpUnexpected(p)
    \/ CopyIn(p) \/ CopyInUnexpected(p)

Next ==
  \/ Bounce \/ ClientSends \/ Leave
  \/ ServerAnswers \/ ServerNotifies \/ ServerBreaks

Spec == Init /\ [][Next]_vars

\* A goroutine that can run does run, and a server that works answers.  Of a
\* client nothing is assumed: while it is there, a read may wait for ever.
FairSpec == Spec /\ WF_vars(~peerOK /\ Bounce) /\ WF_vars(ServerAnswers)

-----------------------------------------------------------------------------
\* Whatever the client did and wherever it vanished, a server that Transaction
\* returns without a server error can go to the next client: it has been told
\* nothing that it will still answer, no answer is left on the connection, and
\* it is in no transaction.  Otherwise the next client reads the answers to the
\* queries of this one.
Clean ==
  pc \in {"idle", "done"} /\ result # "server_error" /\ alive =>
    /\ mode = "ready" /\ tx = "I"
    /\ \A i \in DOMAIN toBouncer : toBouncer[i] = "Notice"
    /\ \A i \in DOMAIN toServer : toServer[i] \in {"CopyData"} \cup CopyEnds

\* Between two requests of a transaction the status that decides whether the
\* server is kept (TxState) is the server's own.
TxStateTrue ==
  pc = "next" /\ alive => txState = tx \/ (txState = "0" /\ tx = "I")

\* The decision to keep the server for the transaction, and the server that is
\* given back at its end, are both right.
ServerClean == TypeOK /\ Clean /\ TxStateTrue

\* A server is given up, and its connection closed, only when that connection
\* is broken or a packet broke off half way to it: no ErrorResponse, failed copy
\* or vanished client costs the pool a connection.
GivenUpForCause == result = "server_error" => ~alive \/ torn

\* transaction, on a Sync outside of a batch: "we can just reply with a fake
\* ReadyForQuery(TxState)".  The client then knows the status of its server.
PhonySyncTrue == pc = "next" /\ peerOK /\ alive => told = tx

\* A client that vanishes cannot keep a server: whatever was going on, the
\* bouncer comes to an end without another packet of the client.
VanishedEnds == ~peerOK ~> pc = "done"

==============================================================================
