----------------------------- MODULE AuthQuery -----------------------------
(***************************************************************************)
(* A query that pggat asks on its own behalf, over an in-memory pair of    *)
(* connections (gsql.NewPair) and with both ends run by a flip.Bank: one   *)
(* goroutine is the client (gsql.ExtendedQuery), the other serves it.      *)
(*                                                                         *)
(*   "pgbouncer": getPassword of the pgbouncer handler serves the outward  *)
(*                end from the auth user's pool and closes the inward end  *)
(*                when the query is done;                                  *)
(*   "google":    the Google Cloud SQL discoverer bounces one query to its *)
(*                admin connection and closes the outward end.             *)
(*                                                                         *)
(* Each end of the pair has an encoder, whose packets reach the other end  *)
(* when it is full or when the end reads or closes; the byte buffers are   *)
(* the directions of module Mio, here sequences of packets.                *)
(***************************************************************************)
EXTENDS Naturals, Sequences

VARIABLES site,      \* which of the two callers
          session,   \* the pool keeps the server for the whole session
          answer,    \* what PostgreSQL does with the query
          pending,   \* the packets in the encoder of each end
          pipe,      \* the packets in each direction of the pair
          closed,    \* the pair is closed
          q, s,      \* where the two goroutines are
          rows,      \* rows read so far
          result,    \* the result the caller will look at
          held,      \* the serving goroutine holds a server of the pool
          ch,        \* the channel of Bank.Wait: the errors returned
          collected, \* how many Wait has received
          bank       \* what Wait returned

vars == <<site, session, answer, pending, pipe, closed, q, s, rows, result,
          held, ch, collected, bank>>

Ends == {"inward", "outward"}

\* The end that reads what e writes.
Other(e) == IF e = "inward" THEN "outward" ELSE "inward"

\* What ExtendedQuery writes.
Requests == <<"Parse", "Bind", "Describe", "Execute", "Sync">>

\* PostgreSQL's answers, by what the query makes of it.
Answers ==
  [one   |-> <<"RowDescription", "DataRow", "CommandComplete", "ReadyForQuery">>,
   none  |-> <<"RowDescription", "CommandComplete", "ReadyForQuery">>,
   two   |-> <<"RowDescription", "DataRow", "DataRow", "CommandComplete",
               "ReadyForQuery">>,
   error |-> <<"ErrorResponse", "ReadyForQuery">>,
   empty |-> <<"EmptyQueryResponse", "ReadyForQuery">>,
   lost  |-> <<>>]

Init ==
  /\ site \in {"pgbouncer", "google"}
  /\ session \in BOOLEAN
  /\ answer \in DOMAIN Answers
  /\ pending = [e \in Ends |-> <<>>]
  /\ pipe = [e \in Ends |-> <<>>]
  /\ closed = FALSE
  /\ q = "write"
  /\ s = "read"
  /\ rows = 0
  /\ result = "zero"
  /\ held = FALSE
  /\ ch = <<>>
  /\ collected = 0
  /\ bank = "waiting"

-----------------------------------------------------------------------------
\* pipe[e] holds what end e will read.

\* Mutant: ReadPacket does not flush.
NoFlush(e) == UNCHANGED <<pending, pipe>>

\* Conn.Flush: the encoder of e is emptied into the pair.
Flush(e) ==
  /\ pipe' = [pipe EXCEPT ![Other(e)] = @ \o pending[e]]
  /\ pending' = [pending EXCEPT ![e] = <<>>]

\* The encoder of e fills up in the middle of its packets and is flushed.
Spills(e) ==
  /\ pending[e] # <<>>
  /\ ~closed
  /\ \E n \in 1..Len(pending[e]) :
       /\ pipe' = [pipe EXCEPT ![Other(e)] = @ \o SubSeq(pending[e], 1, n)]
       /\ pending' = [pending EXCEPT ![e] = SubSeq(@, n + 1, Len(@))]
  /\ UNCHANGED <<site, session, answer, closed, q, s, rows, result, held, ch,
                 collected, bank>>

\* ReadPacket of e with something to flush.  A peer that is gone makes the
\* flush fail, but neither caller can get there.
FlushToRead(e) ==
  /\ pending[e] # <<>>
  /\ IF e = "inward" THEN q \in {"rows", "ready"} ELSE s \in {"read", "bounce"}
  /\ ~closed
  /\ Flush(e)
  /\ UNCHANGED <<site, session, answer, closed, q, s, rows, result, held, ch,
                 collected, bank>>

\* A goroutine of the bank returns err.
Returns(err) == ch' = Append(ch, err)

-----------------------------------------------------------------------------
\* The goroutine that runs ExtendedQuery.

Ask ==
  /\ q = "write"
  /\ pending' = [pending EXCEPT !["inward"] = Requests]
  /\ q' = "rows"
  /\ UNCHANGED <<site, session, answer, pipe, closed, s, rows, result, held,
                 ch, collected, bank>>

\* setColumn: a struct takes one row.
TooBig(p) == p = "DataRow" /\ rows > 0

\* readRows, one packet: everything but rows, errors and CommandComplete is
\* skipped, ReadyForQuery included.
ReadRow ==
  /\ q = "rows"
  /\ pipe["inward"] # <<>>
  /\ LET p == Head(pipe["inward"])
         failed == p = "ErrorResponse" \/ TooBig(p) IN
     /\ pipe' = [pipe EXCEPT !["inward"] = Tail(@)]
     /\ rows' = rows + (IF p = "DataRow" THEN 1 ELSE 0)
     /\ result' = IF p = "DataRow" /\ ~failed THEN "row" ELSE result
     /\ q' = IF failed THEN "done"
             ELSE IF p = "CommandComplete" THEN "ready" ELSE "rows"
     /\ IF failed THEN Returns("err") ELSE UNCHANGED ch
  /\ UNCHANGED <<site, session, answer, pending, closed, s, held, collected,
                 bank>>

\* The packet after the rows must be ReadyForQuery; the pgbouncer handler then
\* closes its end.
ReadReady ==
  /\ q = "ready"
  /\ pipe["inward"] # <<>>
  /\ pipe' = [pipe EXCEPT !["inward"] = Tail(@)]
  /\ q' = "done"
  /\ IF Head(pipe["inward"]) # "ReadyForQuery"
     THEN Returns("err") /\ UNCHANGED closed
     ELSE Returns("nil") /\ closed' = (closed \/ site = "pgbouncer")
  /\ UNCHANGED <<site, session, answer, pending, s, rows, result, held,
                 collected, bank>>

\* The pair is closed under a query that still wants packets.
QueryEOF ==
  /\ q \in {"rows", "ready"}
  /\ pipe["inward"] = <<>> /\ pending["inward"] = <<>>
  /\ closed
  /\ q' = "done"
  /\ Returns("err")
  /\ UNCHANGED <<site, session, answer, pending, pipe, closed, s, rows, result,
                 held, collected, bank>>

-----------------------------------------------------------------------------
\* The goroutine that serves the query.

\* The first packet of a transaction, or of the only query.
ServeRead ==
  /\ s = "read"
  /\ pending["outward"] = <<>>
  /\ pipe["outward"] # <<>>
  /\ pipe' = [pipe EXCEPT !["outward"] = Tail(@)]
  /\ s' = IF site = "pgbouncer" /\ ~held THEN "acquire" ELSE "bounce"
  /\ UNCHANGED <<site, session, answer, pending, closed, q, rows, result, held,
                 ch, collected, bank>>

\* The pool has a server, or fails with ErrFailedToAcquirePeer.
Acquire ==
  /\ s = "acquire"
  /\ \/ /\ s' = "bounce"
        /\ held' = TRUE
        /\ UNCHANGED ch
     \/ /\ s' = "done"
        /\ Returns("err")
        /\ UNCHANGED held
  /\ UNCHANGED <<site, session, answer, pending, pipe, closed, q, rows, result,
                 collected, bank>>

\* Bounce: the requests up to Sync are passed on, then come the answers; the
\* transaction is over.  A lost server ends the serving goroutine.
Bounce ==
  /\ s = "bounce"
  /\ pipe["outward"] # <<>>
  /\ pipe' = [pipe EXCEPT !["outward"] = Tail(@)]
  /\ IF Head(pipe["outward"]) # "Sync"
     THEN UNCHANGED <<pending, s, held, ch>>
     ELSE /\ pending' = [pending EXCEPT !["outward"] = @ \o Answers[answer]]
          /\ held' = (held /\ session /\ answer # "lost")
          /\ IF answer = "lost"
             THEN s' = "done" /\ Returns("err")
             ELSE /\ s' = IF site = "pgbouncer" THEN "read" ELSE "close"
                  /\ UNCHANGED ch
  /\ UNCHANGED <<site, session, answer, closed, q, rows, result, collected,
                 bank>>

\* Serve reads io.EOF: the deferred calls release the server, and the error
\* counts as none.
ServeEOF ==
  /\ s = "read"
  /\ pending["outward"] = <<>> /\ pipe["outward"] = <<>>
  /\ closed
  /\ s' = "done"
  /\ held' = FALSE
  /\ Returns("nil")
  /\ UNCHANGED <<site, session, answer, pending, pipe, closed, q, rows, result,
                 collected, bank>>

\* The discoverer closes the outward end, which flushes it first.
ServeClose ==
  /\ s = "close"
  /\ Flush("outward")
  /\ closed' = TRUE
  /\ s' = "done"
  /\ Returns("nil")
  /\ UNCHANGED <<site, session, answer, q, rows, result, held, collected, bank>>

-----------------------------------------------------------------------------

\* Mutant: Wait returns with the first goroutine, whatever its error.
FirstDone ==
  /\ bank = "waiting"
  /\ collected < Len(ch)
  /\ collected' = collected + 1
  /\ bank' = IF ch[collected + 1] = "err" THEN "failed" ELSE "ok"
  /\ UNCHANGED <<site, session, answer, pending, pipe, closed, q, s, rows,
                 result, held, ch>>

\* Bank.Wait receives one error: the first that is not nil is returned, and
\* the other goroutine is left to itself.
Collect ==
  /\ bank = "waiting"
  /\ collected < Len(ch)
  /\ collected' = collected + 1
  /\ bank' = IF ch[collected + 1] = "err" THEN "failed"
             ELSE IF collected + 1 = 2 THEN "ok" ELSE "waiting"
  /\ UNCHANGED <<site, session, answer, pending, pipe, closed, q, s, rows,
                 result, held, ch>>

Query == Ask \/ ReadRow \/ ReadReady \/ QueryEOF \/ FlushToRead("inward")

Serve ==
  \/ ServeRead \/ Acquire \/ Bounce \/ ServeEOF \/ ServeClose
  \/ FlushToRead("outward")

Next == Query \/ Serve \/ Collect \/ \E e \in Ends : Spills(e)

\* The three goroutines run whenever they can.
Spec == Init /\ [][Next]_vars /\ WF_vars(Query) /\ WF_vars(Serve) /\ WF_vars(Collect)

-----------------------------------------------------------------------------

\* When Wait returns nil the caller may look at the result: both goroutines have
\* returned, and the result was filled in exactly when PostgreSQL sent one row,
\* also when the serving end is closed before the query has read anything.
ResultReady ==
  bank = "ok" =>
    q = "done" /\ s = "done" /\ (result = "row" <=> answer = "one")
               /\ answer \in {"one", "none"}

\* A query that went well leaves nothing behind: the pair is closed, no packet
\* is stuck in an encoder, and a session pool has its server back.
TornDown ==
  bank = "ok" => closed /\ ~held /\ \A e \in Ends : pending[e] = <<>>

\* Together: when the query has gone well its result is there and nothing is left over.
QueryDone == ResultReady /\ TornDown

\* The login or the discovery that waits for the query goes on, whatever
\* PostgreSQL answers, except for a login that is answered with an empty query:
\* readRows skips EmptyQueryResponse and the ReadyForQuery after it, and there
\* nobody closes the pair.
WaitReturns == site = "google" \/ answer # "empty" => <>(bank # "waiting")
=============================================================================
