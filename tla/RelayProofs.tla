---------------------------- MODULE RelayProofs ----------------------------
(***************************************************************************)
(* The two parts of the relay: the pooler that hands out servers, and the  *)
(* bouncer that carries packets to and from one.                           *)
(*                                                                         *)
(* lifo.Pooler keeps the promises of the Pooler interface for any number   *)
(* of clients, servers and channels, with and without timeouts.  LifoInv   *)
(* is inductive.  What it adds to the safety properties is which channel   *)
(* belongs to which call (CallsOK, WaitersOK), that ids are fresh          *)
(* (KnownOK), and the promises of the interface, which a step keeps        *)
(* because it is a step of the interface (PoolerProofs).                   *)
(*                                                                         *)
(* The bouncer gives a server back clean, and gives it up only for cause,  *)
(* for clients that send any number of packets.  The inductive invariant,  *)
(* Shape, is a grammar: for each loop of query.go it says what can be on   *)
(* its way to the server and back, so that exactly one ReadyForQuery is    *)
(* still to come while a loop waits for one, and none when no loop does.   *)
(***************************************************************************)
EXTENDS MCRelay, SlicesProofs, SequenceTheorems

-----------------------------------------------------------------------------
(* The bouncer.                                                            *)

\* What a server that is not in a copy ignores.
Junk == {"CopyData"} \cup B!CopyEnds

\* What a client may send before the Sync of a batch.
Batched == {"Parse", "Execute", "Copy", "Flush"} \cup Junk

\* What may come before the ReadyForQuery that ends the answer to a request.
Plain == {"Rows", "Notice", "Error", "CopyOut", "CopyData", "CopyDone"}
Notes == {"Notice"}

\* x is the last packet of s that is no notice.
EndsWith(s, x) == \E a \in Seq(Plain), n \in Seq(Notes) : s = (a \o <<x>>) \o n

\* The server owes no answer, has given its answer, or has still to read q.
Quiet == mode = "ready" /\ toServer \in Seq(Junk) /\ toBouncer \in Seq(Notes)
Answered == mode = "ready" /\ toServer \in Seq(Junk) /\ EndsWith(toBouncer, tx)
Asked(q) ==
  /\ mode = "ready" /\ toBouncer \in Seq(Notes)
  /\ \E j \in Seq(Junk) : toServer = Append(j, q)

\* The packets of a batch: a COPY is the last one, by the restriction on clients.
Batch == {b \in Seq(Batched) : \A i \in DOMAIN b : b[i] = "Copy" => i = Len(b)}
Open == {b \in Batch : \A i \in DOMAIN b : b[i] = "Copy" => packet = "Copy"}
Closed == {Append(b, "Sync") : b \in Batch}

\* The data of a copy, behind the Sync of its batch, which the copy swallows.
Copied ==
  {c \in Seq({"CopyData", "Sync"}) :
     \A i \in DOMAIN c : c[i] = "Sync" => i = 1 /\ mode = "copyin_ext"}

\* The server has asked for the data of a copy and the bouncer has not seen it,
\* the bouncer sends the data, or it has sent the end and then one of rest.
Offered(unread) == EndsWith(toBouncer, "CopyIn") /\ toServer \in unread
Sending == toBouncer \in Seq(Plain) /\ toServer \in Copied
Sent(rest) ==
  /\ toBouncer \in Seq(Plain)
  /\ \E c \in Copied, e \in B!CopyEnds, b \in rest : toServer = (c \o <<e>>) \o b

\* What each loop of query.go may meet.
Calling == Asked("FunctionCall") \/ Answered
Aborting == Asked("Abort") \/ (Answered /\ tx = "I")
Querying ==
  Asked("Query") \/ Answered \/ (mode = "copyin" /\ (Offered({<<>>}) \/ Sent({<<>>})))
Batching ==
  \/ mode \in {"ready", "skip"} /\ toBouncer \in Seq(Plain) /\ toServer \in Open
  \/ /\ mode = "copyin_ext"
     /\ (Offered({<<>>}) /\ packet = "Copy") \/ Sent(Open)
Syncing ==
  \/ Answered
  \/ mode \in {"ready", "skip"} /\ toBouncer \in Seq(Plain) /\ toServer \in Closed
  \/ mode = "copyin_ext" /\ (Offered({<<>>, <<"Sync">>}) \/ Sent(Closed))
CopyingIn == Answered \/ (mode = "copyin" /\ Sending)
CopyingInBatch ==
  \/ mode = "skip" /\ toBouncer \in Seq(Plain) /\ toServer \in Seq(Junk)
  \/ mode = "copyin_ext" /\ Sending

\* The loop that runs, or that a copy will return to.
InLoop(l) == bpc = l \/ (bpc = "copyout" /\ caller = l)

Shape ==
  /\ bpc \in {"idle", "done"} => Quiet /\ tx = "I"
  /\ bpc \in {"start", "next"} => Quiet /\ (txState = tx \/ (txState = "0" /\ tx = "I"))
  /\ bpc = "call" => Calling
  /\ InLoop("abort") => Aborting
  /\ InLoop("query") => Querying
  /\ InLoop("sync") => Syncing
  /\ bpc = "eqp" => Batching
  /\ bpc = "copyin" => \/ caller = "query" /\ CopyingIn
                       \/ caller = "sync" /\ CopyingInBatch

\* While the connection works and has not been given up, the grammar holds.
Kept ==
  /\ bpc # "done" => result = "ok"
  /\ GivenUpForCause
  /\ alive /\ result # "server_error" => Shape

BouncerInv == B!TypeOK /\ Kept

-----------------------------------------------------------------------------
\* Sequences.

\* The head and the tail of a concatenation are those of its first part.
LEMMA HeadTailConcat ==
  ASSUME NEW S, NEW s \in Seq(S), NEW t \in Seq(S), s # <<>>
  PROVE  s \o t # <<>> /\ Head(s \o t) = Head(s) /\ Tail(s \o t) = Tail(s) \o t
<1>1. /\ s \o t \in Seq(S) /\ Len(s \o t) = Len(s) + Len(t) /\ Len(s) \in Nat \ {0}
      /\ Len(t) \in Nat
  BY Zenon, ConcatProperties, EmptySeq, LenProperties
<1>2. s \o t # <<>>
  BY <1>1
<1>3. Head(s \o t) = Head(s)
  BY <1>1, ConcatProperties
<1>4. /\ Tail(s \o t) \in Seq(S) /\ Tail(s) \in Seq(S) /\ Tail(s) \o t \in Seq(S)
      /\ Len(Tail(s \o t)) = Len(s) + Len(t) - 1
      /\ Len(Tail(s)) = Len(s) - 1
      /\ Len(Tail(s) \o t) = Len(s) + Len(t) - 1
  <2>1. Tail(s \o t) \in Seq(S) /\ Len(Tail(s \o t)) = Len(s \o t) - 1
    BY Zenon, <1>1, <1>2, HeadTailProperties
  <2>2. Tail(s) \in Seq(S) /\ Len(Tail(s)) = Len(s) - 1
    BY Zenon, HeadTailProperties
  <2>3. Tail(s) \o t \in Seq(S) /\ Len(Tail(s) \o t) = Len(Tail(s)) + Len(t)
    BY Zenon, <2>2, ConcatProperties
  <2> QED  BY <1>1, <2>1, <2>2, <2>3
<1>5. ASSUME NEW i \in 1..(Len(s) + Len(t) - 1)
      PROVE  Tail(s \o t)[i] = (Tail(s) \o t)[i]
  <2>1. Tail(s \o t)[i] = (s \o t)[i + 1]
    BY Zenon, <1>1, <1>2, <1>4, HeadTailProperties
  <2>2. (s \o t)[i + 1] = IF i + 1 <= Len(s) THEN s[i + 1] ELSE t[i + 1 - Len(s)]
    BY <1>1, ConcatProperties
  <2>3. (Tail(s) \o t)[i] = IF i <= Len(s) - 1 THEN Tail(s)[i] ELSE t[i - (Len(s) - 1)]
    BY <1>1, <1>4, ConcatProperties
  <2>4. i <= Len(s) - 1 => Tail(s)[i] = s[i + 1]
    BY <1>1, <1>4, HeadTailProperties
  <2> QED  BY <1>1, <2>1, <2>2, <2>3, <2>4
<1>6. Tail(s \o t) = Tail(s) \o t
  BY Zenon, <1>1, <1>4, <1>5, SeqEqual
<1> QED  BY Zenon, <1>2, <1>3, <1>6

\* One element in the middle.
LEMMA HeadTailMiddle ==
  ASSUME NEW S, NEW a \in Seq(S), NEW x \in S, NEW n \in Seq(S),
         NEW s, s = (a \o <<x>>) \o n
  PROVE  /\ s # <<>> /\ s \in Seq(S)
         /\ a = <<>> => Head(s) = x /\ Tail(s) = n
         /\ a # <<>> => Head(s) = Head(a) /\ Tail(s) = (Tail(a) \o <<x>>) \o n
<1>1. <<x>> \in Seq(S) /\ <<x>> # <<>> /\ Head(<<x>>) = x /\ Tail(<<x>>) = <<>>
  OBVIOUS
<1>2. a \o <<x>> \in Seq(S) /\ a \o <<x>> # <<>>
  BY <1>1, ConcatProperties, ConcatEqualIffEmpty
<1>3. /\ (a \o <<x>>) \o n # <<>> /\ (a \o <<x>>) \o n \in Seq(S)
      /\ Head((a \o <<x>>) \o n) = Head(a \o <<x>>)
      /\ Tail((a \o <<x>>) \o n) = Tail(a \o <<x>>) \o n
  BY Zenon, <1>2, HeadTailConcat, ConcatProperties
<1>4. CASE a = <<>>
  <2>1. a \o <<x>> = <<x>>
    BY Zenon, <1>1, <1>4, ConcatEmptySeq
  <2>2. Tail(a \o <<x>>) \o n = n
    BY Zenon, <1>1, <2>1, ConcatEmptySeq
  <2> QED  BY Zenon, <1>1, <1>3, <1>4, <2>1, <2>2
<1>5. CASE a # <<>>
  <2>1. Head(a \o <<x>>) = Head(a) /\ Tail(a \o <<x>>) = Tail(a) \o <<x>>
    BY Zenon, <1>1, <1>5, HeadTailConcat
  <2>2. Head(a) \in S /\ Tail(a) \in Seq(S)
    BY Zenon, <1>5, HeadTailProperties
  <2> QED  BY Zenon, <1>3, <1>5, <2>1, <2>2
<1> QED  BY Zenon, <1>4, <1>5

\* Two packets, one after the other.
LEMMA PairConcat ==
  ASSUME NEW S, NEW x \in S, NEW y \in S
  PROVE  <<x>> \o <<y>> = <<x, y>>
<1>1. <<x>> \in Seq(S) /\ <<y>> \in Seq(S) /\ <<x, y>> \in Seq(S)
  OBVIOUS
<1>2. Len(<<x>>) = 1 /\ Len(<<y>>) = 1 /\ Len(<<x, y>>) = 2
  BY Zenon
<1>3. <<x>> \o <<y>> \in Seq(S) /\ Len(<<x>> \o <<y>>) = 2
  BY <1>1, <1>2, ConcatProperties
<1>4. (<<x>> \o <<y>>)[1] = x /\ (<<x>> \o <<y>>)[2] = y
  BY <1>1, <1>2, ConcatProperties
<1>5. \A i \in 1..2 : (<<x>> \o <<y>>)[i] = <<x, y>>[i]
  BY <1>4
<1> QED  BY Zenon, <1>1, <1>2, <1>3, <1>5, SeqEqual

\* The first packet of a finished answer.
LEMMA EndsHead ==
  ASSUME NEW s, NEW x, EndsWith(s, x)
  PROVE  /\ s # <<>>
         /\ \/ Head(s) = x /\ Tail(s) \in Seq(Notes)
            \/ Head(s) \in Plain /\ EndsWith(Tail(s), x)
<1>1. PICK a \in Seq(Plain), n \in Seq(Notes) : s = (a \o <<x>>) \o n
  BY Zenon DEF EndsWith
<1> PICK S : S = Plain \cup {x}
  BY Zenon
<1>2. a \in Seq(S) /\ n \in Seq(S) /\ x \in S
  BY Zenon, SeqMonotonic DEF Plain, Notes
<1>3. /\ s # <<>>
      /\ a = <<>> => Head(s) = x /\ Tail(s) = n
      /\ a # <<>> => Head(s) = Head(a) /\ Tail(s) = (Tail(a) \o <<x>>) \o n
  BY <1>1, <1>2, HeadTailMiddle
<1>4. a # <<>> => Head(a) \in Plain /\ Tail(a) \in Seq(Plain)
  BY Zenon, HeadTailProperties
<1> QED  BY Zenon, <1>3, <1>4 DEF EndsWith

\* A notice after it changes nothing.
LEMMA EndsNotice ==
  ASSUME NEW s, NEW x, EndsWith(s, x)
  PROVE  EndsWith(Append(s, "Notice"), x)
<1>1. PICK a \in Seq(Plain), n \in Seq(Notes) : s = (a \o <<x>>) \o n
  BY Zenon DEF EndsWith
<1>2. PICK S : S = Plain \cup {x}
  BY Zenon
<1>3. a \in Seq(S) /\ n \in Seq(S) /\ x \in S /\ "Notice" \in S /\ "Notice" \in Notes
  BY Zenon, <1>2, SeqMonotonic DEF Plain, Notes
<1>4. <<x>> \in Seq(S) /\ <<"Notice">> \in Seq(S)
  BY <1>3
<1>5. a \o <<x>> \in Seq(S) /\ s \in Seq(S)
  BY Zenon, <1>1, <1>3, <1>4, ConcatProperties
<1>6. Append(s, "Notice") = s \o <<"Notice">> /\ Append(n, "Notice") = n \o <<"Notice">>
  BY Zenon, <1>3, <1>5, AppendIsConcat
<1>7. s \o <<"Notice">> = (a \o <<x>>) \o (n \o <<"Notice">>)
  BY <1>1, <1>3, <1>4, <1>5, ConcatAssociative
<1>8. Append(n, "Notice") \in Seq(Notes)
  BY Zenon, <1>3, AppendProperties
<1> QED  BY Zenon, <1>6, <1>7, <1>8 DEF EndsWith

\* Packets and then x.
LEMMA EndsFinal ==
  ASSUME NEW s \in Seq(Plain), NEW o \in Seq(Plain), NEW x
  PROVE  EndsWith(s \o Append(o, x), x)
<1>1. PICK S : S = Plain \cup {x}
  BY Zenon
<1>2. s \in Seq(S) /\ o \in Seq(S) /\ x \in S
  BY Zenon, <1>1, SeqMonotonic
<1>3. <<x>> \in Seq(S)
  BY <1>2
<1>4. Append(o, x) = o \o <<x>>
  BY Zenon, <1>2, AppendIsConcat
<1>5. s \o (o \o <<x>>) = (s \o o) \o <<x>>
  BY <1>2, <1>3, ConcatAssociative
<1>6. s \o o \in Seq(Plain) /\ (s \o o) \o <<x>> \in Seq(S)
  BY Zenon, <1>2, <1>3, ConcatProperties
<1>7. (s \o o) \o <<x>> = ((s \o o) \o <<x>>) \o <<>>
  BY Zenon, <1>6, ConcatEmptySeq
<1>8. <<>> \in Seq(Notes)
  BY Zenon, EmptySeq
<1> QED  BY Zenon, <1>4, <1>5, <1>6, <1>7, <1>8 DEF EndsWith

\* A finished answer is made of packets the bouncer knows.
LEMMA SeqsOfPackets ==
  /\ \A s \in Seq(Notes) : s \in Seq(Plain)
  /\ \A s \in Seq(Plain) : s # <<>> => Head(s) \in Plain /\ Tail(s) \in Seq(Plain)
  /\ \A s \in Seq(Notes) : s # <<>> => Head(s) = "Notice" /\ Tail(s) \in Seq(Notes)
  /\ \A s \in Seq(Junk) : s # <<>> => Head(s) \in Junk /\ Tail(s) \in Seq(Junk)
<1>1. \A s \in Seq(Notes) : s \in Seq(Plain)
  BY Zenon, SeqMonotonic DEF Notes, Plain
<1>2. \A s \in Seq(Plain) : s # <<>> => Head(s) \in Plain /\ Tail(s) \in Seq(Plain)
  BY Zenon, HeadTailProperties
<1>3. \A s \in Seq(Notes) : s # <<>> => Head(s) \in Notes /\ Tail(s) \in Seq(Notes)
  BY Zenon, HeadTailProperties
<1>4. \A s \in Seq(Junk) : s # <<>> => Head(s) \in Junk /\ Tail(s) \in Seq(Junk)
  BY Zenon, HeadTailProperties
<1> QED  BY Zenon, <1>1, <1>2, <1>3, <1>4 DEF Notes

-----------------------------------------------------------------------------
\* How the server answers.

\* An answer that ends a request, and one that leaves it open.
Finished(r) == r.mode = "ready" /\ r.tx \in B!Status /\ \E o \in Seq(Plain) : r.out = Append(o, r.tx)
Unfinished(r) == r.mode \in {"ready", "skip"} /\ r.tx \in B!Status /\ r.out \in Seq(Plain)

\* An error ends a simple request, and leaves a batch open.
LEMMA ErrorReplies ==
  ASSUME tx \in B!Status, NEW o \in Seq(Plain)
  PROVE  /\ \A r \in B!SimpleError(o) : Finished(r)
         /\ \A r \in B!BatchError(o) : Unfinished(r)
<1>1. B!Failed \in B!Status
  BY Zenon DEF B!Failed, B!Status
<1>2. o \o <<"Error", B!Failed>> = Append(Append(o, "Error"), B!Failed)
  <2>1. PICK S : S = Plain \cup B!Status
    BY Zenon
  <2>2. o \in Seq(S) /\ "Error" \in S /\ B!Failed \in S
    BY Zenon, <1>1, <2>1, SeqMonotonic DEF Plain
  <2>3. Append(o, "Error") \in Seq(S) /\ <<"Error">> \in Seq(S) /\ <<B!Failed>> \in Seq(S)
    BY <2>2, AppendProperties
  <2>4. Append(Append(o, "Error"), B!Failed) = (o \o <<"Error">>) \o <<B!Failed>>
    BY Zenon, <2>2, <2>3, AppendIsConcat
  <2>5. (o \o <<"Error">>) \o <<B!Failed>> = o \o (<<"Error">> \o <<B!Failed>>)
    BY <2>2, <2>3, ConcatAssociative
  <2>6. <<"Error">> \o <<B!Failed>> = <<"Error", B!Failed>>
    BY Zenon, <2>2, PairConcat
  <2> QED  BY Zenon, <2>4, <2>5, <2>6
<1>3. Append(o, "Error") \in Seq(Plain)
  BY Zenon, AppendProperties DEF Plain
<1>4. ASSUME NEW r \in B!SimpleError(o) PROVE Finished(r)
  <2>1. r = [out |-> o \o <<"Error", B!Failed>>, mode |-> "ready", tx |-> B!Failed]
    BY Zenon, <1>4 DEF B!SimpleError, B!Reply
  <2>2. r.out = Append(Append(o, "Error"), r.tx) /\ r.mode = "ready" /\ r.tx \in B!Status
    BY Zenon, <1>1, <1>2, <2>1
  <2> QED  BY Zenon, <1>3, <2>2 DEF Finished
<1>5. ASSUME NEW r \in B!BatchError(o) PROVE Unfinished(r)
  BY <1>1, <1>3, <1>5 DEF B!BatchError, B!Reply, Unfinished
<1> QED  BY Zenon, <1>4, <1>5

\* Appending to the second part of a concatenation.
LEMMA ConcatAppend ==
  ASSUME NEW S, NEW a \in Seq(S), NEW b \in Seq(S), NEW x \in S
  PROVE  a \o Append(b, x) = Append(a \o b, x)
<1>1. <<x>> \in Seq(S) /\ a \o b \in Seq(S)
  BY ConcatProperties
<1>2. Append(b, x) = b \o <<x>> /\ Append(a \o b, x) = (a \o b) \o <<x>>
  BY Zenon, <1>1, AppendIsConcat
<1> QED  BY <1>1, <1>2, ConcatAssociative

\* COPY TO STDOUT, as part of an answer.
LEMMA CopyOutReplies ==
  ASSUME tx \in B!Status
  PROVE  /\ \A o \in B!CopyOuts(<<"CopyDone", "Rows", tx>>) :
              \E a \in Seq(Plain) : o = Append(a, tx)
         /\ \A o \in B!CopyOuts(<<"CopyDone", "Rows">>) : o \in Seq(Plain)
         /\ \A o \in B!CopyOuts(<<>>) : o \in Seq(Plain)
<1>1. /\ <<"CopyOut", "CopyData">> \in Seq(Plain) /\ <<"CopyDone", "Rows">> \in Seq(Plain)
      /\ <<>> \in Seq(Plain)
  BY EmptySeq DEF Plain
<1>2. /\ <<"CopyOut", "CopyData">> \o <<"CopyDone", "Rows">> \in Seq(Plain)
      /\ <<"CopyOut", "CopyData">> \o <<>> \in Seq(Plain)
  BY Zenon, <1>1, ConcatProperties
<1>3. <<"CopyDone", "Rows", tx>> = Append(<<"CopyDone", "Rows">>, tx)
  OBVIOUS
<1>4. <<"CopyOut", "CopyData">> \o Append(<<"CopyDone", "Rows">>, tx)
        = Append(<<"CopyOut", "CopyData">> \o <<"CopyDone", "Rows">>, tx)
  <2>1. PICK S : S = Plain \cup B!Status
    BY Zenon
  <2>2. <<"CopyOut", "CopyData">> \in Seq(S) /\ <<"CopyDone", "Rows">> \in Seq(S) /\ tx \in S
    BY Zenon, <1>1, <2>1, SeqMonotonic
  <2> QED  BY <2>2, ConcatAppend
<1>5. ASSUME NEW o \in B!CopyOuts(<<"CopyDone", "Rows", tx>>)
      PROVE  \E a \in Seq(Plain) : o = Append(a, tx)
  <2>1. o = <<"CopyOut", "CopyData">> \o <<"CopyDone", "Rows", tx>>
    BY Zenon, <1>5 DEF B!CopyOuts
  <2> QED  BY Zenon, <1>2, <1>3, <1>4, <2>1
<1>6. \A o \in B!CopyOuts(<<"CopyDone", "Rows">>) : o \in Seq(Plain)
  BY Zenon, <1>2 DEF B!CopyOuts
<1>7. \A o \in B!CopyOuts(<<>>) : o \in Seq(Plain)
  BY Zenon, <1>2 DEF B!CopyOuts
<1> QED  BY Zenon, <1>5, <1>6, <1>7

Ignored(r) == r.out = <<>> /\ r.mode = mode /\ r.tx = tx

\* What a server answers that waits for a request.
LEMMA ReadyAnswers ==
  ASSUME tx \in B!Status, mode = "ready", NEW p, NEW r \in B!Replies(p)
  PROVE  /\ p \in Junk \cup {"Other"} => Ignored(r)
         /\ p = "Query" => Finished(r) \/ (r.out = <<"CopyIn">> /\ r.mode = "copyin" /\ r.tx = tx)
         /\ p = "Abort" => Finished(r) /\ r.tx = "I"
         /\ p = "FunctionCall" => Finished(r)
         /\ p \in {"Parse", "Execute", "Flush"} => Unfinished(r)
         /\ p = "Copy" =>
              Unfinished(r) \/ (r.out = <<"CopyIn">> /\ r.mode = "copyin_ext" /\ r.tx = tx)
         /\ p = "Sync" => r.out = <<tx>> /\ r.mode = "ready" /\ r.tx = tx
<1>1. r \in B!ReadyReplies(p)
  BY Zenon DEF B!Replies
<1>2. <<>> \in Seq(Plain) /\ <<"Rows">> \in Seq(Plain)
  BY EmptySeq DEF Plain
<1>3. \A t \in B!Status : Finished(B!Reply(<<"Rows", t>>, "ready", t))
  <2>1. \A t \in B!Status : <<"Rows", t>> = Append(<<"Rows">>, t)
    OBVIOUS
  <2> QED  BY Zenon, <1>2, <2>1 DEF Finished, B!Reply
<1>4. /\ \A x \in B!SimpleError(<<>>) : Finished(x)
      /\ \A x \in B!BatchError(<<>>) : Unfinished(x)
      /\ \A o \in B!CopyOuts(<<>>) : /\ \A x \in B!SimpleError(o) : Finished(x)
                                     /\ \A x \in B!BatchError(o) : Unfinished(x)
  BY Zenon, <1>2, ErrorReplies, CopyOutReplies
<1>5. B!Succeeds \subseteq B!Status
  BY Zenon DEF B!Succeeds, B!Status
<1>6. CASE p = "Query"
  <2>1. \/ \E t \in B!Succeeds : r = B!Reply(<<"Rows", t>>, "ready", t)
        \/ r \in B!SimpleError(<<>>)
        \/ \E o \in B!CopyOuts(<<"CopyDone", "Rows", tx>>) : r = B!Reply(o, "ready", tx)
        \/ \E o \in B!CopyOuts(<<>>) : r \in B!SimpleError(o)
        \/ r = B!Reply(<<"CopyIn">>, "copyin", tx)
    BY <1>1, <1>6, Zenon DEF B!ReadyReplies
  <2>2. \A o \in B!CopyOuts(<<"CopyDone", "Rows", tx>>) : Finished(B!Reply(o, "ready", tx))
    BY Zenon, CopyOutReplies DEF Finished, B!Reply
  <2>3. r = B!Reply(<<"CopyIn">>, "copyin", tx) =>
          r.out = <<"CopyIn">> /\ r.mode = "copyin" /\ r.tx = tx
    BY DEF B!Reply
  <2>4. Finished(r) \/ (r.out = <<"CopyIn">> /\ r.mode = "copyin" /\ r.tx = tx)
    BY <1>3, <1>4, <1>5, <2>1, <2>2, <2>3, Zenon
  <2> QED  BY Zenon, <1>6, <2>4 DEF Junk, B!CopyEnds
<1>7. CASE p = "Abort"
  <2>1. r = B!Reply(<<"Rows", "I">>, "ready", "I")
    BY Zenon, <1>1, <1>7 DEF B!ReadyReplies
  <2>2. Finished(r) /\ r.tx = "I"
    BY Zenon, <1>3, <2>1 DEF B!Status, B!Reply
  <2> QED  BY Zenon, <1>7, <2>2 DEF Junk, B!CopyEnds
<1>8. CASE p = "FunctionCall"
  <2>1. r = B!Reply(<<"Rows", tx>>, "ready", tx) \/ r \in B!SimpleError(<<>>)
    BY Zenon, <1>1, <1>8 DEF B!ReadyReplies
  <2> QED  BY Zenon, <1>3, <1>4, <1>8, <2>1 DEF Junk, B!CopyEnds
<1>9. CASE p = "Parse"
  <2>1. r = B!Reply(<<"Rows">>, "ready", tx) \/ r \in B!BatchError(<<>>)
    BY Zenon, <1>1, <1>9 DEF B!ReadyReplies
  <2>2. Unfinished(B!Reply(<<"Rows">>, "ready", tx))
    BY Zenon, <1>2 DEF Unfinished, B!Reply
  <2>3. Unfinished(r)
    BY Zenon, <1>4, <2>1, <2>2
  <2> QED  BY Zenon, <1>9, <2>3 DEF Junk, B!CopyEnds
<1>10. CASE p = "Execute"
  <2>1. \/ \E t \in B!Succeeds : r = B!Reply(<<"Rows">>, "ready", t)
        \/ r \in B!BatchError(<<>>)
        \/ \E o \in B!CopyOuts(<<"CopyDone", "Rows">>) : r = B!Reply(o, "ready", tx)
        \/ \E o \in B!CopyOuts(<<>>) : r \in B!BatchError(o)
    BY <1>1, <1>10, Zenon DEF B!ReadyReplies
  <2>2. \A o \in B!CopyOuts(<<"CopyDone", "Rows">>) : Unfinished(B!Reply(o, "ready", tx))
    BY Zenon, CopyOutReplies DEF Unfinished, B!Reply
  <2>3. \A t \in B!Status : Unfinished(B!Reply(<<"Rows">>, "ready", t))
    BY Zenon, <1>2 DEF Unfinished, B!Reply
  <2>4. Unfinished(r)
    BY <1>4, <1>5, <2>1, <2>2, <2>3, Zenon
  <2> QED  BY Zenon, <1>10, <2>4 DEF Junk, B!CopyEnds
<1>11. CASE p = "Copy"
  <2>1. r \in B!BatchError(<<>>) \/ r = B!Reply(<<"CopyIn">>, "copyin_ext", tx)
    BY Zenon, <1>1, <1>11 DEF B!ReadyReplies
  <2>2. r = B!Reply(<<"CopyIn">>, "copyin_ext", tx) =>
          r.out = <<"CopyIn">> /\ r.mode = "copyin_ext" /\ r.tx = tx
    BY DEF B!Reply
  <2> QED  BY Zenon, <1>4, <1>11, <2>1, <2>2 DEF Junk, B!CopyEnds
<1>12. CASE p = "Sync"
  <2>1. r = B!Reply(<<tx>>, "ready", tx)
    BY Zenon, <1>1, <1>12 DEF B!ReadyReplies
  <2> QED  BY Zenon, <1>12, <2>1 DEF B!Reply, Junk, B!CopyEnds
<1>13. CASE p \in Junk \cup {"Flush", "Other"}
  <2>1. r = B!Reply(<<>>, mode, tx)
    BY Zenon, <1>1, <1>13 DEF B!ReadyReplies, B!Silent, Junk, B!CopyEnds
  <2>2. Ignored(r) /\ Unfinished(r)
    BY Zenon, <1>2, <2>1 DEF Ignored, Unfinished, B!Reply
  <2> QED  BY Zenon, <1>13, <2>2 DEF Junk, B!CopyEnds
<1> QED  BY Zenon, <1>6, <1>7, <1>8, <1>9, <1>10, <1>11, <1>12, <1>13

\* What a server answers within a batch, before its Sync and to it.
LEMMA BatchAnswers ==
  ASSUME tx \in B!Status, mode \in {"ready", "skip"}, NEW p, NEW r \in B!Replies(p)
  PROVE  /\ p \in Batched => \/ Unfinished(r)
                             \/ /\ p = "Copy"
                                /\ r.out = <<"CopyIn">> /\ r.mode = "copyin_ext" /\ r.tx = tx
         /\ p = "Sync" => r.out = <<tx>> /\ r.mode = "ready" /\ r.tx = tx
         /\ mode = "skip" /\ p \in Junk => Ignored(r)
<1>1. <<>> \in Seq(Plain)
  BY Zenon, EmptySeq
<1>2. CASE mode = "ready"
  <2>1. Ignored(r) => Unfinished(r)
    BY Zenon, <1>1, <1>2 DEF Ignored, Unfinished
  <2> QED  BY Zenon, <1>2, <2>1, ReadyAnswers DEF Batched
<1>3. CASE mode = "skip"
  <2>1. r \in IF p = "Sync" THEN {B!Reply(<<tx>>, "ready", tx)} ELSE B!Silent
    BY Zenon, <1>3 DEF B!Replies
  <2>2. p # "Sync" => Ignored(r) /\ Unfinished(r)
    <3>1. p # "Sync" => r.out = <<>> /\ r.mode = mode /\ r.tx = tx
      BY <2>1 DEF B!Silent, B!Reply
    <3> QED  BY Zenon, <1>1, <1>3, <3>1 DEF Ignored, Unfinished
  <2>3. p = "Sync" => r.out = <<tx>> /\ r.mode = "ready" /\ r.tx = tx
    BY <2>1 DEF B!Reply
  <2> QED  BY Zenon, <1>3, <2>2, <2>3 DEF Batched, Junk, B!CopyEnds
<1> QED  BY Zenon, <1>2, <1>3

\* What a server answers that takes the data of a copy.
LEMMA CopyAnswers ==
  ASSUME tx \in B!Status, mode \in {"copyin", "copyin_ext"}, NEW p, NEW r \in B!Replies(p)
  PROVE  /\ mode = "copyin" /\ p = "CopyData" => Ignored(r) \/ Finished(r)
         /\ mode = "copyin" /\ p \in B!CopyEnds => Finished(r)
         /\ mode = "copyin_ext" /\ p = "CopyData" =>
              Ignored(r) \/ (Unfinished(r) /\ r.mode = "skip")
         /\ mode = "copyin_ext" /\ p \in B!CopyEnds => Unfinished(r)
         /\ p \notin {"CopyData"} \cup B!CopyEnds => Ignored(r)
<1>1. <<>> \in Seq(Plain) /\ <<"Rows">> \in Seq(Plain) /\ <<"Rows", tx>> = Append(<<"Rows">>, tx)
  BY EmptySeq DEF Plain
<1>2. r \in B!CopyReplies(p)
  BY Zenon DEF B!Replies
<1>3. /\ \A x \in B!SimpleError(<<>>) : Finished(x)
      /\ \A x \in B!BatchError(<<>>) : Unfinished(x) /\ x.mode = "skip"
  <2>1. \A x \in B!BatchError(<<>>) : x.mode = "skip"
    BY DEF B!BatchError, B!Reply
  <2> QED  BY Zenon, <1>1, <2>1, ErrorReplies
<1>4. \A x \in B!Silent : Ignored(x)
  BY DEF B!Silent, B!Reply, Ignored
<1>5. /\ Finished(B!Reply(<<"Rows", tx>>, "ready", tx))
      /\ Unfinished(B!Reply(<<"Rows">>, "ready", tx))
  <2>1. PICK x : x = B!Reply(<<"Rows", tx>>, "ready", tx)
    BY Zenon
  <2>2. x.out = Append(<<"Rows">>, x.tx) /\ x.mode = "ready" /\ x.tx = tx
    BY Zenon, <1>1, <2>1 DEF B!Reply
  <2>3. Finished(x)
    BY Zenon, <1>1, <2>2 DEF Finished
  <2>4. Unfinished(B!Reply(<<"Rows">>, "ready", tx))
    BY Zenon, <1>1 DEF Unfinished, B!Reply
  <2> QED  BY Zenon, <2>1, <2>3, <2>4
<1>6. CASE mode = "copyin"
  <2>1. p = "CopyData" => r \in B!Silent \cup B!SimpleError(<<>>)
    BY Zenon, <1>2, <1>6 DEF B!CopyReplies
  <2>2. p = "CopyDone" => r \in {B!Reply(<<"Rows", tx>>, "ready", tx)} \cup B!SimpleError(<<>>)
    BY Zenon, <1>2, <1>6 DEF B!CopyReplies
  <2>3. p = "CopyFail" => r \in B!SimpleError(<<>>)
    BY Zenon, <1>2, <1>6 DEF B!CopyReplies
  <2>4. p \notin {"CopyData"} \cup B!CopyEnds => r \in B!Silent
    BY Zenon, <1>2, <1>6 DEF B!CopyReplies, B!CopyEnds
  <2> QED  BY Zenon, <1>3, <1>4, <1>5, <1>6, <2>1, <2>2, <2>3, <2>4 DEF B!CopyEnds
<1>7. CASE mode = "copyin_ext"
  <2>1. p = "CopyData" => r \in B!Silent \cup B!BatchError(<<>>)
    BY Zenon, <1>2, <1>7 DEF B!CopyReplies
  <2>2. p = "CopyDone" => r \in {B!Reply(<<"Rows">>, "ready", tx)} \cup B!BatchError(<<>>)
    BY Zenon, <1>2, <1>7 DEF B!CopyReplies
  <2>3. p = "CopyFail" => r \in B!BatchError(<<>>)
    BY Zenon, <1>2, <1>7 DEF B!CopyReplies
  <2>4. p \notin {"CopyData"} \cup B!CopyEnds => r \in B!Silent
    BY Zenon, <1>2, <1>7 DEF B!CopyReplies, B!CopyEnds
  <2> QED  BY Zenon, <1>3, <1>4, <1>5, <1>7, <2>1, <2>2, <2>3, <2>4 DEF B!CopyEnds
<1> QED  BY Zenon, <1>6, <1>7

-----------------------------------------------------------------------------
\* The packets of a batch and of a copy.

\* The rest of a batch is a batch; its first packet is no Sync, and a COPY only
\* when it is the last one.
LEMMA BatchTail ==
  ASSUME NEW b \in Batch, b # <<>>
  PROVE  /\ Head(b) \in Batched /\ Tail(b) \in Batch
         /\ Head(b) = "Copy" => Tail(b) = <<>>
         /\ b \in Open => Tail(b) \in Open /\ (Head(b) = "Copy" => packet = "Copy")
<1>1. b \in Seq(Batched) /\ \A i \in DOMAIN b : b[i] = "Copy" => i = Len(b)
  BY Zenon DEF Batch
<1>2. /\ Len(b) \in Nat \ {0} /\ DOMAIN b = 1..Len(b) /\ Head(b) = b[1]
      /\ Head(b) \in Batched /\ Tail(b) \in Seq(Batched) /\ Len(Tail(b)) = Len(b) - 1
      /\ \A i \in 1..Len(Tail(b)) : Tail(b)[i] = b[i + 1]
  BY <1>1, HeadTailProperties, LenProperties, EmptySeq
<1>3. DOMAIN Tail(b) = 1..(Len(b) - 1)
  BY Zenon, <1>2, LenProperties
<1>4. \A i \in DOMAIN Tail(b) : i + 1 \in DOMAIN b /\ Tail(b)[i] = b[i + 1]
  BY <1>2, <1>3
<1>5. Tail(b) \in Batch
  <2>1. \A i \in DOMAIN Tail(b) : Tail(b)[i] = "Copy" => i = Len(Tail(b))
    <3> SUFFICES ASSUME NEW i \in DOMAIN Tail(b), Tail(b)[i] = "Copy"
                 PROVE  i = Len(Tail(b))
      BY Zenon
    <3>1. i + 1 \in DOMAIN b /\ b[i + 1] = "Copy"
      BY Zenon, <1>4
    <3>2. i + 1 = Len(b)
      BY Zenon, <1>1, <3>1
    <3> QED  BY <1>2, <1>3, <3>2
  <2> QED  BY Zenon, <1>2, <2>1 DEF Batch
<1>6. Head(b) = "Copy" => Tail(b) = <<>>
  BY <1>1, <1>2, EmptySeq
<1>7. b \in Open => Tail(b) \in Open /\ (Head(b) = "Copy" => packet = "Copy")
  <2> SUFFICES ASSUME \A i \in DOMAIN b : b[i] = "Copy" => packet = "Copy"
               PROVE  Tail(b) \in Open /\ (Head(b) = "Copy" => packet = "Copy")
    BY Zenon DEF Open
  <2>1. 1 \in DOMAIN b
    BY <1>2
  <2>2. \A i \in DOMAIN Tail(b) : Tail(b)[i] = "Copy" => packet = "Copy"
    BY Zenon, <1>4
  <2> QED  BY Zenon, <1>2, <1>5, <2>1, <2>2 DEF Open
<1> QED  BY Zenon, <1>2, <1>5, <1>6, <1>7

\* What a server ignores may come before a batch, and is one itself.
LEMMA JunkBatch ==
  ASSUME NEW j \in Seq(Junk), NEW b \in Batch
  PROVE  j \in Open /\ j \o b \in Batch /\ (b \in Open => j \o b \in Open)
<1>1. b \in Seq(Batched) /\ \A i \in DOMAIN b : b[i] = "Copy" => i = Len(b)
  BY Zenon DEF Batch
<1>2. j \in Seq(Batched)
  BY Zenon, SeqMonotonic DEF Batched
<1>3. \A i \in DOMAIN j : j[i] # "Copy"
  <2>1. \A i \in DOMAIN j : j[i] \in Junk
    BY Zenon, LenProperties
  <2> QED  BY Zenon, <2>1 DEF Junk, B!CopyEnds
<1>4. /\ j \o b \in Seq(Batched) /\ Len(j \o b) = Len(j) + Len(b)
      /\ Len(j) \in Nat /\ Len(b) \in Nat
      /\ DOMAIN (j \o b) = 1..(Len(j) + Len(b)) /\ DOMAIN j = 1..Len(j) /\ DOMAIN b = 1..Len(b)
  BY <1>1, <1>2, ConcatProperties, LenProperties
<1>5. ASSUME NEW i \in DOMAIN (j \o b), (j \o b)[i] = "Copy"
      PROVE  i - Len(j) \in DOMAIN b /\ b[i - Len(j)] = "Copy"
  <2>1. (j \o b)[i] = IF i <= Len(j) THEN j[i] ELSE b[i - Len(j)]
    BY <1>1, <1>2, <1>4, ConcatProperties
  <2>2. ~(i <= Len(j))
    BY <1>3, <1>4, <1>5, <2>1
  <2> QED  BY <1>4, <1>5, <2>1, <2>2
<1>6. j \in Open
  BY Zenon, <1>2, <1>3 DEF Open, Batch
<1>7. j \o b \in Batch
  <2>1. \A i \in DOMAIN (j \o b) : (j \o b)[i] = "Copy" => i = Len(j \o b)
    <3> SUFFICES ASSUME NEW i \in DOMAIN (j \o b), (j \o b)[i] = "Copy"
                 PROVE  i = Len(j \o b)
      BY Zenon
    <3>1. i - Len(j) = Len(b)
      BY Zenon, <1>1, <1>5
    <3> QED  BY <1>4, <3>1
  <2> QED  BY Zenon, <1>4, <2>1 DEF Batch
<1>8. b \in Open => j \o b \in Open
  BY Zenon, <1>5, <1>7 DEF Open
<1> QED  BY Zenon, <1>6, <1>7, <1>8

\* The data of a copy: behind the Sync there is nothing else.
LEMMA CopiedTail ==
  ASSUME NEW c \in Copied, c # <<>>
  PROVE  /\ Head(c) = "CopyData" \/ (Head(c) = "Sync" /\ mode = "copyin_ext")
         /\ Tail(c) \in Seq({"CopyData"})
<1>1. /\ c \in Seq({"CopyData", "Sync"})
      /\ \A i \in DOMAIN c : c[i] = "Sync" => i = 1 /\ mode = "copyin_ext"
  BY Zenon DEF Copied
<1>2. /\ Len(c) \in Nat \ {0} /\ DOMAIN c = 1..Len(c) /\ Head(c) = c[1]
      /\ Head(c) \in {"CopyData", "Sync"}
      /\ Tail(c) \in Seq({"CopyData", "Sync"}) /\ Len(Tail(c)) = Len(c) - 1
      /\ \A i \in 1..Len(Tail(c)) : Tail(c)[i] = c[i + 1]
  BY <1>1, HeadTailProperties, LenProperties, EmptySeq
<1>3. \A i \in 2..Len(c) : c[i] \in {"CopyData"}
  <2> SUFFICES ASSUME NEW i \in 2..Len(c)
               PROVE  c[i] = "CopyData"
    BY Zenon
  <2>1. i \in 1..Len(c) /\ i # 1
    BY <1>2
  <2>2. c[i] \in {"CopyData", "Sync"}
    BY Zenon, <1>1, <2>1, ElementOfSeq
  <2> QED  BY Zenon, <1>1, <1>2, <2>1, <2>2
<1>4. Tail(c) \in Seq({"CopyData"})
  <2>1. Tail(c) = SubSeq(c, 2, Len(c))
    BY Zenon, <1>1, TailIsSubSeq
  <2>2. 2 \in Int /\ Len(c) \in Int
    BY <1>2
  <2>3. SubSeq(c, 2, Len(c)) \in Seq({"CopyData"})
    BY Zenon, <1>3, <2>2, SubSeqProperties
  <2> QED  BY Zenon, <2>1, <2>3
<1> QED  BY <1>1, <1>2, <1>4

\* Data without a Sync.
LEMMA DataCopied ==
  ASSUME NEW c \in Seq({"CopyData"})
  PROVE  c \in Copied /\ c \in Copied' /\ c \in Seq(Junk)
<1>1. c \in Seq({"CopyData", "Sync"}) /\ c \in Seq(Junk)
  BY Zenon, SeqMonotonic DEF Junk
<1>2. \A i \in DOMAIN c : c[i] # "Sync"
  <2>1. \A i \in DOMAIN c : c[i] \in {"CopyData"}
    BY Zenon, LenProperties
  <2> QED  BY Zenon, <2>1
<1> QED  BY Zenon, <1>1, <1>2 DEF Copied

-----------------------------------------------------------------------------
\* A step of the server.

Answering(r) ==
  /\ toServer # <<>> /\ toServer' = Tail(toServer)
  /\ r \in B!Replies(Head(toServer)) /\ mode' = r.mode /\ tx' = r.tx
  /\ toBouncer' = toBouncer \o r.out
  /\ packet' = packet

\* What the kinds of answers leave on the connection.
LEMMA AnswerEffects ==
  ASSUME B!TypeOK, NEW r, Answering(r)
  PROVE  /\ Ignored(r) => UNCHANGED <<mode, tx, toBouncer>>
         /\ Finished(r) /\ toBouncer \in Seq(Plain) => mode' = "ready" /\ EndsWith(toBouncer', tx')
         /\ Unfinished(r) /\ toBouncer \in Seq(Plain) =>
              mode' \in {"ready", "skip"} /\ toBouncer' \in Seq(Plain)
         /\ \A x : r.out = <<x>> /\ toBouncer \in Seq(Plain) => EndsWith(toBouncer', x)
<1>1. toBouncer' = toBouncer \o r.out /\ mode' = r.mode /\ tx' = r.tx
  BY Zenon DEF Answering
<1>2. Ignored(r) => UNCHANGED <<mode, tx, toBouncer>>
  <2>1. toBouncer \o <<>> = toBouncer
    BY Zenon, ConcatEmptySeq DEF B!TypeOK
  <2> QED  BY Zenon, <1>1, <2>1 DEF Ignored
<1>3. Finished(r) /\ toBouncer \in Seq(Plain) => mode' = "ready" /\ EndsWith(toBouncer', tx')
  <2> SUFFICES ASSUME Finished(r), toBouncer \in Seq(Plain)
               PROVE  mode' = "ready" /\ EndsWith(toBouncer', tx')
    BY Zenon
  <2>1. PICK o \in Seq(Plain) : r.out = Append(o, r.tx)
    BY Zenon DEF Finished
  <2>2. EndsWith(toBouncer \o Append(o, r.tx), r.tx)
    BY Zenon, EndsFinal
  <2> QED  BY Zenon, <1>1, <2>1, <2>2 DEF Finished
<1>4. Unfinished(r) /\ toBouncer \in Seq(Plain) =>
        mode' \in {"ready", "skip"} /\ toBouncer' \in Seq(Plain)
  BY Zenon, <1>1, ConcatProperties DEF Unfinished
<1>5. ASSUME NEW x, r.out = <<x>>, toBouncer \in Seq(Plain)
      PROVE  EndsWith(toBouncer', x)
  <2>1. <<>> \in Seq(Plain) /\ <<x>> = Append(<<>>, x)
    BY EmptySeq
  <2>2. EndsWith(toBouncer \o Append(<<>>, x), x)
    BY Zenon, <1>5, <2>1, EndsFinal
  <2> QED  BY Zenon, <1>1, <1>5, <2>1, <2>2
<1> QED  BY Zenon, <1>2, <1>3, <1>4, <1>5

\* A packet that the server ignores.
LEMMA AnswerJunk ==
  ASSUME B!TypeOK, NEW r, Answering(r), mode = "ready", Head(toServer) \in Junk
  PROVE  UNCHANGED <<mode, tx, toBouncer>>
<1>1. Ignored(r)
  BY Zenon, ReadyAnswers DEF Answering, B!TypeOK
<1> QED  BY Zenon, <1>1, AnswerEffects

\* A server that owes nothing, or has answered, stays so.
LEMMA AnswerQuiet ==
  ASSUME B!TypeOK, NEW r, Answering(r)
  PROVE  /\ Quiet => Quiet' /\ tx' = tx
         /\ Answered => Answered' /\ tx' = tx
<1>1. ASSUME mode = "ready", toServer \in Seq(Junk)
      PROVE  UNCHANGED <<mode, tx, toBouncer>> /\ toServer' \in Seq(Junk)
  BY Zenon, <1>1, AnswerJunk, SeqsOfPackets DEF Answering
<1>2. Quiet => Quiet' /\ tx' = tx
  BY Zenon, <1>1 DEF Quiet
<1>3. Answered => Answered' /\ tx' = tx
  BY Zenon, <1>1 DEF Answered
<1> QED  BY Zenon, <1>2, <1>3

\* A server that has a request to read either reads it, or comes nearer to it.
LEMMA AnswerAsked ==
  ASSUME B!TypeOK, NEW r, Answering(r), NEW q, Asked(q)
  PROVE  \/ Asked(q)'
         \/ /\ mode = "ready" /\ toBouncer \in Seq(Plain)
            /\ r \in B!Replies(q) /\ toServer' = <<>>
<1>1. PICK j \in Seq(Junk) : toServer = Append(j, q)
  BY Zenon DEF Asked
<1>2. PICK S : S = Junk \cup {q}
  BY Zenon
<1>3. j \in Seq(S) /\ q \in S
  BY Zenon, <1>2, SeqMonotonic
<1>4. /\ Head(toServer) = IF j = <<>> THEN q ELSE Head(j)
      /\ Tail(toServer) = IF j = <<>> THEN <<>> ELSE Append(Tail(j), q)
  BY Zenon, <1>1, <1>3, HeadTailAppend
<1>5. mode = "ready" /\ toBouncer \in Seq(Notes) /\ toBouncer \in Seq(Plain)
  BY Zenon, SeqsOfPackets DEF Asked
<1>6. CASE j = <<>>
  BY Zenon, <1>4, <1>5, <1>6 DEF Answering
<1>7. CASE j # <<>>
  <2>1. Head(j) \in Junk /\ Tail(j) \in Seq(Junk)
    BY Zenon, <1>7, SeqsOfPackets
  <2>2. UNCHANGED <<mode, tx, toBouncer>>
    BY Zenon, <1>4, <1>5, <1>7, <2>1, AnswerJunk
  <2>3. toServer' = Append(Tail(j), q)
    BY Zenon, <1>4, <1>7 DEF Answering
  <2> QED  BY Zenon, <1>5, <2>1, <2>2, <2>3 DEF Asked
<1> QED  BY Zenon, <1>6, <1>7

\* The answer to a request ends with its ReadyForQuery.
LEMMA AnswerFinished ==
  ASSUME B!TypeOK, NEW r, Answering(r), toBouncer \in Seq(Plain), Finished(r),
         toServer' \in Seq(Junk)
  PROVE  Answered'
<1>1. mode' = "ready" /\ EndsWith(toBouncer', tx')
  BY Zenon, AnswerEffects
<1> QED  BY Zenon, <1>1 DEF Answered, EndsWith

\* A function call, and the ABORT of transaction.
LEMMA AnswerCalls ==
  ASSUME B!TypeOK, NEW r, Answering(r)
  PROVE  /\ Calling => Calling'
         /\ Aborting => Aborting'
<1>1. <<>> \in Seq(Junk)
  BY Zenon, EmptySeq
<1>2. ASSUME Asked("FunctionCall") PROVE Asked("FunctionCall")' \/ Answered'
  <2>1. CASE /\ mode = "ready" /\ toBouncer \in Seq(Plain)
             /\ r \in B!Replies("FunctionCall") /\ toServer' = <<>>
    <3>1. Finished(r)
      BY Zenon, <2>1, ReadyAnswers DEF B!TypeOK
    <3> QED  BY Zenon, <1>1, <2>1, <3>1, AnswerFinished
  <2> QED  BY Zenon, <1>2, <2>1, AnswerAsked
<1>3. ASSUME Asked("Abort") PROVE Asked("Abort")' \/ (Answered' /\ tx' = "I")
  <2>1. CASE /\ mode = "ready" /\ toBouncer \in Seq(Plain)
             /\ r \in B!Replies("Abort") /\ toServer' = <<>>
    <3>1. Finished(r) /\ r.tx = "I"
      BY Zenon, <2>1, ReadyAnswers DEF B!TypeOK
    <3> QED  BY Zenon, <1>1, <2>1, <3>1, AnswerFinished DEF Answering
  <2> QED  BY Zenon, <1>3, <2>1, AnswerAsked
<1>4. Calling => Calling'
  BY Zenon, <1>2, AnswerQuiet DEF Calling
<1>5. Aborting => Aborting'
  BY Zenon, <1>3, AnswerQuiet DEF Aborting
<1> QED  BY Zenon, <1>4, <1>5

\* The server reads the data of a copy, or rejects it.
LEMMA AnswerData ==
  ASSUME B!TypeOK, NEW r, Answering(r), mode \in {"copyin", "copyin_ext"}, toServer \in Copied
  PROVE  /\ toServer' \in Seq({"CopyData"})
         /\ \/ UNCHANGED <<mode, tx, toBouncer>>
            \/ mode = "copyin" /\ Finished(r)
            \/ mode = "copyin_ext" /\ Unfinished(r) /\ mode' = "skip"
<1>1. /\ Head(toServer) = "CopyData" \/ (Head(toServer) = "Sync" /\ mode = "copyin_ext")
      /\ toServer' \in Seq({"CopyData"})
  BY Zenon, CopiedTail DEF Answering
<1>2. /\ tx \in B!Status /\ r \in B!Replies(Head(toServer)) /\ mode' = r.mode
  BY Zenon DEF B!TypeOK, Answering
<1>3. Ignored(r) => UNCHANGED <<mode, tx, toBouncer>>
  BY Zenon, AnswerEffects
<1>4. "Sync" \notin {"CopyData"} \cup B!CopyEnds
  BY Zenon DEF B!CopyEnds
<1> QED  BY Zenon, <1>1, <1>2, <1>3, <1>4, CopyAnswers

\* The server reads the data of a copy to the end, or rejects it.
LEMMA AnswerSent ==
  ASSUME B!TypeOK, NEW r, Answering(r), mode \in {"copyin", "copyin_ext"},
         NEW c \in Copied, NEW e \in B!CopyEnds, NEW b \in Seq(Batched \cup {"Sync"}),
         toServer = (c \o <<e>>) \o b
  PROVE  \/ /\ UNCHANGED <<mode, tx, toBouncer>>
            /\ Tail(c) \in Copied' /\ toServer' = (Tail(c) \o <<e>>) \o b
         \/ /\ mode = "copyin" => Finished(r)
            /\ mode = "copyin_ext" => Unfinished(r)
            /\ \E j \in Seq(Junk) : toServer' = j \o b
<1>1. PICK S : S = Batched \cup {"Sync"}
  BY Zenon
<1>2. c \in Seq(S) /\ e \in S /\ b \in Seq(S)
  <2>1. c \in Seq({"CopyData", "Sync"}) /\ {"CopyData", "Sync"} \subseteq S
    BY Zenon, <1>1 DEF Copied, Batched, Junk
  <2> QED  BY Zenon, <1>1, <2>1, SeqMonotonic DEF Batched, Junk
<1>3. /\ c = <<>> => Head(toServer) = e /\ Tail(toServer) = b
      /\ c # <<>> => /\ Head(toServer) = Head(c)
                     /\ Tail(toServer) = (Tail(c) \o <<e>>) \o b
  BY <1>2, HeadTailMiddle
<1>4. tx \in B!Status /\ r \in B!Replies(Head(toServer)) /\ toServer' = Tail(toServer)
  BY Zenon DEF B!TypeOK, Answering
<1>5. CASE c = <<>>
  <2>1. /\ mode = "copyin" => Finished(r)
        /\ mode = "copyin_ext" => Unfinished(r)
    BY Zenon, <1>3, <1>4, <1>5, CopyAnswers
  <2>2. <<>> \in Seq(Junk) /\ toServer' = <<>> \o b
    BY Zenon, <1>2, <1>3, <1>4, <1>5, ConcatEmptySeq, EmptySeq
  <2> QED  BY Zenon, <2>1, <2>2
<1>6. CASE c # <<>>
  <2>1. /\ Head(c) = "CopyData" \/ (Head(c) = "Sync" /\ mode = "copyin_ext")
        /\ Tail(c) \in Seq({"CopyData"})
    BY Zenon, <1>6, CopiedTail
  <2>2. Tail(c) \in Copied' /\ Tail(c) \in Seq(Junk)
    BY Zenon, <2>1, DataCopied
  <2>3. toServer' = (Tail(c) \o <<e>>) \o b
    BY Zenon, <1>3, <1>4, <1>6
  <2>4. Tail(c) \o <<e>> \in Seq(Junk)
    <3>1. <<e>> \in Seq(Junk)
      BY DEF Junk
    <3> QED  BY Zenon, <2>2, <3>1, ConcatProperties
  <2>5. \/ Ignored(r)
        \/ /\ mode = "copyin" => Finished(r)
           /\ mode = "copyin_ext" => Unfinished(r)
    BY Zenon, <1>3, <1>4, <1>6, <2>1, CopyAnswers
  <2>6. Ignored(r) => UNCHANGED <<mode, tx, toBouncer>>
    BY Zenon, AnswerEffects
  <2> QED  BY Zenon, <2>2, <2>3, <2>4, <2>5, <2>6
<1> QED  BY Zenon, <1>5, <1>6

\* A query, and the copy it may start.
LEMMA AnswerQuery ==
  ASSUME B!TypeOK, NEW r, Answering(r)
  PROVE  /\ Querying => Querying'
         /\ CopyingIn => CopyingIn'
<1>1. <<>> \in Seq(Junk)
  BY Zenon, EmptySeq
<1>2. Answered => Answered'
  BY Zenon, AnswerQuiet
<1>3. ASSUME Asked("Query") PROVE Querying'
  <2>1. CASE /\ mode = "ready" /\ toBouncer \in Seq(Plain)
             /\ r \in B!Replies("Query") /\ toServer' = <<>>
    <3>1. Finished(r) \/ (r.out = <<"CopyIn">> /\ r.mode = "copyin" /\ r.tx = tx)
      BY Zenon, <2>1, ReadyAnswers DEF B!TypeOK
    <3>2. Finished(r) => Answered'
      BY Zenon, <1>1, <2>1, AnswerFinished
    <3>3. r.out = <<"CopyIn">> => EndsWith(toBouncer', "CopyIn")
      BY Zenon, <2>1, AnswerEffects
    <3>4. r.out = <<"CopyIn">> => Offered({<<>>})'
      BY Zenon, <2>1, <3>3 DEF Offered, EndsWith
    <3> QED  BY Zenon, <3>1, <3>2, <3>4 DEF Querying, Answering
  <2> QED  BY Zenon, <1>3, <2>1, AnswerAsked DEF Querying
<1>4. ASSUME mode = "copyin", Sent({<<>>}) PROVE Querying'
  <2>1. PICK c \in Copied, e \in B!CopyEnds, b \in {<<>>} : toServer = (c \o <<e>>) \o b
    BY Zenon, <1>4 DEF Sent
  <2>2. b \in Seq(Batched \cup {"Sync"}) /\ toBouncer \in Seq(Plain)
    BY Zenon, <1>4, EmptySeq DEF Sent
  <2>3. CASE /\ UNCHANGED <<mode, tx, toBouncer>>
             /\ Tail(c) \in Copied' /\ toServer' = (Tail(c) \o <<e>>) \o b
    <3>1. Sent({<<>>})'
      BY Zenon, <2>2, <2>3 DEF Sent
    <3> QED  BY Zenon, <1>4, <2>3, <3>1 DEF Querying
  <2>4. CASE Finished(r) /\ \E j \in Seq(Junk) : toServer' = j \o b
    <3>1. toServer' \in Seq(Junk)
      BY Zenon, <2>4, ConcatEmptySeq
    <3> QED  BY Zenon, <2>2, <2>4, <3>1, AnswerFinished DEF Querying
  <2> QED  BY Zenon, <1>4, <2>1, <2>2, <2>3, <2>4, AnswerSent
<1>5. Offered({<<>>}) => FALSE
  BY Zenon DEF Offered, Answering
<1>6. ASSUME mode = "copyin", Sending PROVE CopyingIn'
  <2>1. toServer \in Copied /\ toBouncer \in Seq(Plain)
    BY Zenon, <1>6 DEF Sending
  <2>2. toServer' \in Seq({"CopyData"})
    BY Zenon, <1>6, <2>1, AnswerData
  <2>3. toServer' \in Copied' /\ toServer' \in Seq(Junk)
    BY Zenon, <2>2, DataCopied
  <2>4. CASE UNCHANGED <<mode, tx, toBouncer>>
    BY Zenon, <1>6, <2>1, <2>3, <2>4 DEF CopyingIn, Sending
  <2>5. CASE Finished(r)
    BY Zenon, <2>1, <2>3, <2>5, AnswerFinished DEF CopyingIn
  <2> QED  BY Zenon, <1>6, <2>1, <2>4, <2>5, AnswerData
<1>7. Querying => Querying'
  BY Zenon, <1>2, <1>3, <1>4, <1>5 DEF Querying
<1>8. CopyingIn => CopyingIn'
  BY Zenon, <1>2, <1>6 DEF CopyingIn
<1> QED  BY Zenon, <1>7, <1>8

\* A batch before its Sync is sent.
LEMMA AnswerBatching ==
  ASSUME B!TypeOK, NEW r, Answering(r), Batching
  PROVE  Batching'
<1>1. tx \in B!Status /\ r \in B!Replies(Head(toServer)) /\ toServer' = Tail(toServer)
  BY Zenon DEF B!TypeOK, Answering
<1>2. PICK O : O = Open /\ O = Open' /\ O \subseteq Batch
  BY Zenon DEF Open, Answering
<1>3. CASE mode \in {"ready", "skip"} /\ toBouncer \in Seq(Plain) /\ toServer \in Open
  <2>1. /\ Head(toServer) \in Batched /\ Tail(toServer) \in Open
        /\ Head(toServer) = "Copy" => packet = "Copy" /\ Tail(toServer) = <<>>
    BY Zenon, <1>2, <1>3, BatchTail DEF Answering
  <2>2. CASE Unfinished(r)
    <3>1. mode' \in {"ready", "skip"} /\ toBouncer' \in Seq(Plain)
      BY Zenon, <1>3, <2>2, AnswerEffects
    <3>2. toServer' \in Open'
      BY Zenon, <1>1, <1>2, <2>1
    <3> QED  BY Zenon, <3>1, <3>2 DEF Batching
  <2>3. CASE Head(toServer) = "Copy" /\ r.out = <<"CopyIn">> /\ r.mode = "copyin_ext"
    <3>1. EndsWith(toBouncer', "CopyIn")
      BY Zenon, <1>3, <2>3, AnswerEffects
    <3>2. Offered({<<>>})'
      BY Zenon, <1>1, <2>1, <2>3, <3>1 DEF Offered, EndsWith
    <3>3. mode' = "copyin_ext" /\ packet' = "Copy"
      BY Zenon, <2>1, <2>3 DEF Answering
    <3> QED  BY Zenon, <3>2, <3>3 DEF Batching
  <2> QED  BY Zenon, <1>1, <1>3, <2>1, <2>2, <2>3, BatchAnswers
<1>4. CASE mode = "copyin_ext" /\ Sent(Open)
  <2>1. PICK c \in Copied, e \in B!CopyEnds, b \in Open : toServer = (c \o <<e>>) \o b
    BY Zenon, <1>4 DEF Sent
  <2>2. b \in Batch /\ toBouncer \in Seq(Plain)
    BY Zenon, <1>2, <1>4 DEF Sent
  <2>3. b \in Seq(Batched \cup {"Sync"})
    BY Zenon, <2>2, SeqMonotonic DEF Batch
  <2>4. CASE /\ UNCHANGED <<mode, tx, toBouncer>>
             /\ Tail(c) \in Copied' /\ toServer' = (Tail(c) \o <<e>>) \o b
    <3>1. b \in Open'
      BY Zenon, <1>2
    <3>2. Sent(Open)'
      BY Zenon, <2>2, <2>4, <3>1 DEF Sent
    <3> QED  BY Zenon, <1>4, <2>4, <3>2 DEF Batching
  <2>5. CASE Unfinished(r) /\ \E j \in Seq(Junk) : toServer' = j \o b
    <3>1. toServer' \in Open
      BY Zenon, <2>2, <2>5, JunkBatch
    <3>2. mode' \in {"ready", "skip"} /\ toBouncer' \in Seq(Plain)
      BY Zenon, <2>2, <2>5, AnswerEffects
    <3> QED  BY Zenon, <1>2, <3>1, <3>2 DEF Batching
  <2> QED  BY Zenon, <1>4, <2>1, <2>3, <2>4, <2>5, AnswerSent
<1>5. Offered({<<>>}) => FALSE
  BY Zenon DEF Offered, Answering
<1> QED  BY Zenon, <1>3, <1>4, <1>5 DEF Batching

\* A batch after its Sync.
LEMMA AnswerSyncing ==
  ASSUME B!TypeOK, NEW r, Answering(r), Syncing
  PROVE  Syncing'
<1>1. tx \in B!Status /\ r \in B!Replies(Head(toServer)) /\ toServer' = Tail(toServer)
  BY Zenon DEF B!TypeOK, Answering
<1>2. Closed' = Closed /\ Batch' = Batch
  BY Zenon DEF Closed, Batch
<1>3. CASE mode \in {"ready", "skip"} /\ toBouncer \in Seq(Plain) /\ toServer \in Closed
  <2>1. PICK b \in Batch : toServer = Append(b, "Sync")
    BY Zenon, <1>3 DEF Closed
  <2>2. b \in Seq(Batched \cup {"Sync"}) /\ "Sync" \in Batched \cup {"Sync"}
    BY Zenon, SeqMonotonic DEF Batch
  <2>3. /\ Head(toServer) = IF b = <<>> THEN "Sync" ELSE Head(b)
        /\ Tail(toServer) = IF b = <<>> THEN <<>> ELSE Append(Tail(b), "Sync")
    BY Zenon, <2>1, <2>2, HeadTailAppend
  <2>4. CASE b = <<>>
    <3>1. r.out = <<tx>> /\ r.mode = "ready" /\ r.tx = tx
      BY Zenon, <1>1, <1>3, <2>3, <2>4, BatchAnswers
    <3>2. EndsWith(toBouncer', tx')
      BY Zenon, <1>3, <3>1, AnswerEffects DEF Answering
    <3>3. toServer' \in Seq(Junk)
      BY Zenon, <1>1, <2>3, <2>4, EmptySeq
    <3>4. Answered'
      BY Zenon, <3>1, <3>2, <3>3 DEF Answered, EndsWith, Answering
    <3> QED  BY Zenon, <3>4 DEF Syncing
  <2>5. CASE b # <<>>
    <3>1. /\ Head(b) \in Batched /\ Tail(b) \in Batch
          /\ Head(b) = "Copy" => Tail(b) = <<>>
      BY Zenon, <2>5, BatchTail
    <3>2. toServer' = Append(Tail(b), "Sync") /\ toServer' \in Closed'
      BY Zenon, <1>1, <1>2, <2>3, <2>5, <3>1 DEF Closed
    <3>3. CASE Unfinished(r)
      <4>1. mode' \in {"ready", "skip"} /\ toBouncer' \in Seq(Plain)
        BY Zenon, <1>3, <3>3, AnswerEffects
      <4> QED  BY Zenon, <3>2, <4>1 DEF Syncing
    <3>4. CASE Head(b) = "Copy" /\ r.out = <<"CopyIn">> /\ r.mode = "copyin_ext"
      <4>1. EndsWith(toBouncer', "CopyIn")
        BY Zenon, <1>3, <3>4, AnswerEffects
      <4>2. toServer' = <<"Sync">>
        <5>1. toServer' = Append(<<>>, "Sync")
          BY Zenon, <3>1, <3>2, <3>4
        <5> QED  BY <5>1
      <4>3. Offered({<<>>, <<"Sync">>})'
        BY Zenon, <4>1, <4>2 DEF Offered, EndsWith
      <4>4. mode' = "copyin_ext"
        BY Zenon, <3>4 DEF Answering
      <4> QED  BY Zenon, <4>3, <4>4 DEF Syncing
    <3> QED  BY Zenon, <1>1, <1>3, <2>3, <2>5, <3>1, <3>3, <3>4, BatchAnswers
  <2> QED  BY Zenon, <2>4, <2>5
<1>4. CASE mode = "copyin_ext" /\ Sent(Closed)
  <2>1. PICK c \in Copied, e \in B!CopyEnds, b \in Closed : toServer = (c \o <<e>>) \o b
    BY Zenon, <1>4 DEF Sent
  <2>2. PICK a \in Batch : b = Append(a, "Sync")
    BY Zenon DEF Closed
  <2>3. toBouncer \in Seq(Plain)
    BY Zenon, <1>4 DEF Sent
  <2>4. a \in Seq(Batched \cup {"Sync"}) /\ "Sync" \in Batched \cup {"Sync"}
    BY Zenon, SeqMonotonic DEF Batch
  <2>5. b \in Seq(Batched \cup {"Sync"})
    BY Zenon, <2>2, <2>4, AppendProperties
  <2>6. CASE /\ UNCHANGED <<mode, tx, toBouncer>>
             /\ Tail(c) \in Copied' /\ toServer' = (Tail(c) \o <<e>>) \o b
    <3>1. b \in Closed'
      BY Zenon, <1>2
    <3>2. Sent(Closed)'
      BY Zenon, <2>3, <2>6, <3>1 DEF Sent
    <3> QED  BY Zenon, <1>4, <2>6, <3>2 DEF Syncing
  <2>7. CASE Unfinished(r) /\ \E j \in Seq(Junk) : toServer' = j \o b
    <3>1. PICK j \in Seq(Junk) : toServer' = j \o b
      BY Zenon, <2>7
    <3>2. j \in Seq(Batched \cup {"Sync"})
      BY Zenon, SeqMonotonic DEF Batched
    <3>3. toServer' = Append(j \o a, "Sync")
      BY <2>2, <2>4, <3>1, <3>2, ConcatAppend
    <3>4. toServer' \in Closed'
      BY Zenon, <1>2, <3>3, JunkBatch DEF Closed
    <3>5. mode' \in {"ready", "skip"} /\ toBouncer' \in Seq(Plain)
      BY Zenon, <2>3, <2>7, AnswerEffects
    <3> QED  BY Zenon, <3>4, <3>5 DEF Syncing
  <2> QED  BY Zenon, <1>4, <2>1, <2>5, <2>6, <2>7, AnswerSent
<1>5. CASE mode = "copyin_ext" /\ Offered({<<>>, <<"Sync">>})
  <2>1. toServer = <<"Sync">>
    BY Zenon, <1>5 DEF Offered, Answering
  <2>2. Head(toServer) = "Sync" /\ toServer' = <<>>
    BY <1>1, <2>1
  <2>3. Ignored(r)
    BY Zenon, <1>1, <1>5, <2>2, CopyAnswers DEF B!CopyEnds
  <2>4. UNCHANGED <<mode, tx, toBouncer>>
    BY Zenon, <2>3, AnswerEffects
  <2>5. Offered({<<>>, <<"Sync">>})'
    BY Zenon, <1>5, <2>2, <2>4 DEF Offered, EndsWith
  <2> QED  BY Zenon, <1>5, <2>4, <2>5 DEF Syncing
<1>6. Answered => Answered'
  BY Zenon, AnswerQuiet
<1> QED  BY Zenon, <1>3, <1>4, <1>5, <1>6 DEF Syncing

\* The copy of a batch.
LEMMA AnswerCopy ==
  ASSUME B!TypeOK, NEW r, Answering(r), CopyingInBatch
  PROVE  CopyingInBatch'
<1>1. tx \in B!Status /\ r \in B!Replies(Head(toServer)) /\ toServer' = Tail(toServer)
      /\ toServer # <<>>
  BY Zenon DEF B!TypeOK, Answering
<1>2. CASE mode = "skip" /\ toBouncer \in Seq(Plain) /\ toServer \in Seq(Junk)
  <2>1. Head(toServer) \in Junk /\ Tail(toServer) \in Seq(Junk)
    BY Zenon, <1>1, <1>2, SeqsOfPackets
  <2>2. Ignored(r)
    BY Zenon, <1>1, <1>2, <2>1, BatchAnswers
  <2>3. UNCHANGED <<mode, tx, toBouncer>>
    BY Zenon, <2>2, AnswerEffects
  <2> QED  BY Zenon, <1>1, <1>2, <2>1, <2>3 DEF CopyingInBatch
<1>3. CASE mode = "copyin_ext" /\ Sending
  <2>1. toServer \in Copied /\ toBouncer \in Seq(Plain)
    BY Zenon, <1>3 DEF Sending
  <2>2. toServer' \in Seq({"CopyData"})
    BY Zenon, <1>3, <2>1, AnswerData
  <2>3. toServer' \in Copied' /\ toServer' \in Seq(Junk)
    BY Zenon, <2>2, DataCopied
  <2>4. CASE UNCHANGED <<mode, tx, toBouncer>>
    BY Zenon, <1>3, <2>1, <2>3, <2>4 DEF CopyingInBatch, Sending
  <2>5. CASE Unfinished(r) /\ mode' = "skip"
    <3>1. toBouncer' \in Seq(Plain)
      BY Zenon, <2>1, <2>5, AnswerEffects
    <3> QED  BY Zenon, <2>3, <2>5, <3>1 DEF CopyingInBatch
  <2> QED  BY Zenon, <1>3, <2>1, <2>4, <2>5, AnswerData
<1> QED  BY Zenon, <1>2, <1>3 DEF CopyingInBatch

\* Every answer of the server keeps the grammar.
LEMMA AnswerShape ==
  ASSUME B!TypeOK, Shape, B!ServerAnswers
  PROVE  Shape'
<1>1. PICK r \in B!Replies(Head(toServer)) :
        toBouncer' = toBouncer \o r.out /\ mode' = r.mode /\ tx' = r.tx
  BY Zenon DEF B!ServerAnswers
<1>2. Answering(r) /\ UNCHANGED <<bpc, caller, txState>>
  BY Zenon, <1>1 DEF B!ServerAnswers, Answering, B!bindVars
<1>3. Quiet => Quiet' /\ tx' = tx
  BY Zenon, <1>2, AnswerQuiet
<1>4. (Calling => Calling') /\ (Aborting => Aborting')
  BY Zenon, <1>2, AnswerCalls
<1>5. (Querying => Querying') /\ (CopyingIn => CopyingIn')
  BY Zenon, <1>2, AnswerQuery
<1>6. (Batching => Batching') /\ (Syncing => Syncing') /\ (CopyingInBatch => CopyingInBatch')
  BY Zenon, <1>2, AnswerBatching, AnswerSyncing, AnswerCopy
<1> QED  BY Zenon, <1>2, <1>3, <1>4, <1>5, <1>6 DEF Shape, InLoop

\* A packet that nobody asked for keeps it too.
LEMMA NotifyShape ==
  ASSUME B!TypeOK, Shape, B!ServerNotifies
  PROVE  Shape'
<1>1. /\ toBouncer' = Append(toBouncer, "Notice")
      /\ UNCHANGED <<bpc, caller, txState, packet, toServer, mode, tx>>
  BY Zenon DEF B!ServerNotifies, B!bindVars
<1>2. toBouncer \in Seq(Notes) => toBouncer' \in Seq(Notes)
  BY Zenon, <1>1, AppendProperties DEF Notes
<1>3. toBouncer \in Seq(Plain) => toBouncer' \in Seq(Plain)
  BY Zenon, <1>1, AppendProperties DEF Plain
<1>4. /\ EndsWith(toBouncer, tx) => EndsWith(toBouncer', tx')
      /\ EndsWith(toBouncer, "CopyIn") => EndsWith(toBouncer', "CopyIn")
  BY Zenon, <1>1, EndsNotice
<1>5. UNCHANGED <<Copied, Open, Closed>>
  BY Zenon, <1>1 DEF Copied, Open, Closed, Batch
<1>6. Quiet => Quiet'
  BY Zenon, <1>1, <1>2 DEF Quiet
<1>7. Answered => Answered'
  BY Zenon, <1>1, <1>4 DEF Answered, EndsWith
<1>8. \A q \in {"FunctionCall", "Abort", "Query"} : Asked(q) => Asked(q)'
  BY Zenon, <1>1, <1>2 DEF Asked
<1>9. /\ Offered({<<>>}) => Offered({<<>>})'
      /\ Offered({<<>>, <<"Sync">>}) => Offered({<<>>, <<"Sync">>})'
  BY Zenon, <1>1, <1>4 DEF Offered, EndsWith
<1>10. Sending => Sending'
  BY Zenon, <1>1, <1>3, <1>5 DEF Sending
<1>11. /\ Sent({<<>>}) => Sent({<<>>})'
       /\ Sent(Open) => Sent(Open)'
       /\ Sent(Closed) => Sent(Closed)'
  BY Zenon, <1>1, <1>3, <1>5 DEF Sent
<1>12. (Calling => Calling') /\ (Aborting => Aborting')
  BY Zenon, <1>1, <1>7, <1>8 DEF Calling, Aborting
<1>13. (Querying => Querying') /\ (CopyingIn => CopyingIn')
  BY Zenon, <1>1, <1>7, <1>8, <1>9, <1>10, <1>11 DEF Querying, CopyingIn
<1>14. (Batching => Batching') /\ (CopyingInBatch => CopyingInBatch')
  BY Zenon, <1>1, <1>3, <1>5, <1>9, <1>10, <1>11 DEF Batching, CopyingInBatch
<1>15. Syncing => Syncing'
  BY Zenon, <1>1, <1>3, <1>5, <1>7, <1>9, <1>11 DEF Syncing
<1> QED  BY Zenon, <1>1, <1>6, <1>12, <1>13, <1>14, <1>15 DEF Shape, InLoop

-----------------------------------------------------------------------------
\* A packet that the bouncer reads from the server.

\* It is one the loop knows; the ReadyForQuery that ends the loop leaves nothing
\* behind it, and carries the status of the server.
LEMMA ReadShape ==
  ASSUME tx \in B!Status, NEW p, B!ServerReads(p), UNCHANGED <<packet, toServer, mode, tx>>
  PROVE  /\ Calling => (p \in Plain /\ Calling') \/ (p = tx /\ Quiet')
         /\ Aborting => (p \in Plain /\ Aborting') \/ (p = tx /\ tx = "I" /\ Quiet')
         /\ Querying => \/ p \in Plain /\ Querying'
                        \/ p = tx /\ Quiet'
                        \/ p = "CopyIn" /\ CopyingIn'
         /\ Syncing => \/ p \in Plain /\ Syncing'
                       \/ p = tx /\ Quiet'
                       \/ p = "CopyIn" /\ CopyingInBatch'
<1>1. toBouncer # <<>> /\ p = Head(toBouncer) /\ toBouncer' = Tail(toBouncer)
  BY Zenon DEF B!ServerReads
<1>2. toBouncer \in Seq(Notes) => p \in Plain /\ toBouncer' \in Seq(Notes)
  BY Zenon, <1>1, SeqsOfPackets DEF Plain
<1>3. toBouncer \in Seq(Plain) => p \in Plain /\ toBouncer' \in Seq(Plain)
  BY Zenon, <1>1, SeqsOfPackets
<1>4. ASSUME NEW x, EndsWith(toBouncer, x)
      PROVE  \/ p = x /\ toBouncer' \in Seq(Notes)
             \/ p \in Plain /\ EndsWith(toBouncer', x)
  BY Zenon, <1>1, <1>4, EndsHead
<1>5. UNCHANGED <<Copied, Open, Closed>>
  BY Zenon DEF Copied, Open, Closed, Batch
<1>6. Answered => (p \in Plain /\ Answered') \/ (p = tx /\ Quiet')
  <2>1. EndsWith(toBouncer, tx) =>
          \/ p = tx /\ toBouncer' \in Seq(Notes)
          \/ p \in Plain /\ EndsWith(toBouncer', tx)
    BY Zenon, <1>4
  <2> QED  BY Zenon, <2>1 DEF Answered, Quiet, EndsWith
<1>7. \A q \in {"FunctionCall", "Abort", "Query"} : Asked(q) => p \in Plain /\ Asked(q)'
  BY Zenon, <1>2 DEF Asked
<1>8. EndsWith(toBouncer, "CopyIn") =>
        \/ p = "CopyIn" /\ toBouncer' \in Seq(Plain)
        \/ p \in Plain /\ EndsWith(toBouncer', "CopyIn")
  BY Zenon, <1>4, SeqsOfPackets
<1>9. mode \in {"copyin", "copyin_ext"} => <<>> \in Copied
  <2>1. <<>> \in Seq({"CopyData"})
    BY Zenon, EmptySeq
  <2> QED  BY Zenon, <2>1, DataCopied
<1>10. mode = "copyin_ext" => <<"Sync">> \in Copied
  <2>1. <<"Sync">> \in Seq({"CopyData", "Sync"}) /\ DOMAIN <<"Sync">> = {1}
    OBVIOUS
  <2> QED  BY Zenon, <2>1 DEF Copied
<1>11. mode = "copyin" /\ Offered({<<>>}) =>
         (p \in Plain /\ Offered({<<>>})') \/ (p = "CopyIn" /\ Sending')
  BY Zenon, <1>5, <1>8, <1>9 DEF Offered, EndsWith, Sending
<1>12. mode = "copyin_ext" /\ Offered({<<>>, <<"Sync">>}) =>
         (p \in Plain /\ Offered({<<>>, <<"Sync">>})') \/ (p = "CopyIn" /\ Sending')
  BY Zenon, <1>5, <1>8, <1>9, <1>10 DEF Offered, EndsWith, Sending
<1>13. /\ Sent({<<>>}) => p \in Plain /\ Sent({<<>>})'
       /\ Sent(Closed) => p \in Plain /\ Sent(Closed)'
  BY Zenon, <1>3, <1>5 DEF Sent
<1>14. Calling => (p \in Plain /\ Calling') \/ (p = tx /\ Quiet')
  BY Zenon, <1>6, <1>7 DEF Calling
<1>15. Aborting => (p \in Plain /\ Aborting') \/ (p = tx /\ tx = "I" /\ Quiet')
  BY Zenon, <1>6, <1>7 DEF Aborting
<1>16. Querying => \/ p \in Plain /\ Querying'
                   \/ p = tx /\ Quiet'
                   \/ p = "CopyIn" /\ CopyingIn'
  BY Zenon, <1>6, <1>7, <1>11, <1>13 DEF Querying, CopyingIn
<1>17. Syncing => \/ p \in Plain /\ Syncing'
                  \/ p = tx /\ Quiet'
                  \/ p = "CopyIn" /\ CopyingInBatch'
  BY Zenon, <1>3, <1>5, <1>6, <1>12, <1>13 DEF Syncing, CopyingInBatch
<1> QED  BY Zenon, <1>14, <1>15, <1>16, <1>17

\* A read fails only on a broken connection.
LEMMA ReadFails ==
  ASSUME BouncerInv, B!ServerReadFails, bpc \in {"call", "query", "abort", "sync", "copyout"},
         UNCHANGED <<packet, toServer, mode, tx, alive>>
  PROVE  ~alive
<1> SUFFICES ASSUME alive PROVE FALSE
  BY Zenon
<1>1. B!ServerReads("Bad") /\ tx \in B!Status
  BY Zenon DEF B!ServerReadFails, BouncerInv, B!TypeOK
<1>2. Shape
  BY Zenon DEF BouncerInv, Kept
<1>3. "Bad" \notin Plain \cup B!Status
  BY Zenon DEF Plain, B!Status
<1>4. Calling \/ Querying \/ Aborting \/ Syncing
  BY Zenon, <1>2 DEF Shape, InLoop, BouncerInv, B!TypeOK
<1> QED  BY <1>1, <1>3, <1>4, ReadShape

\* A server that is given up on a broken connection.
LEMMA FailsForCause ==
  ASSUME BouncerInv, B!Fail, UNCHANGED alive, ~alive \/ torn'
  PROVE  Kept'
BY Zenon DEF B!Fail, Kept, GivenUpForCause, B!GivenUpForCause

\* A step of the bouncer that goes on with the server.
LEMMA GoesOn ==
  ASSUME BouncerInv, bpc # "done", result' \in {"ok", "peer_error"},
         bpc' # "done" => result' = "ok", UNCHANGED alive,
         alive /\ Shape => Shape'
  PROVE  Kept'
<1>1. result = "ok"
  BY Zenon DEF BouncerInv, Kept
<1> QED  BY Zenon, <1>1 DEF BouncerInv, Kept, GivenUpForCause, B!GivenUpForCause

\* query, also for the ABORT of transaction.
LEMMA QueryKeeps ==
  ASSUME BouncerInv, B!Query
  PROVE  Kept'
<1>1. /\ UNCHANGED <<packet, sent, torn, toServer, mode, tx, alive>>
      /\ bpc \in {"query", "abort"} /\ tx \in B!Status /\ result = "ok"
  BY Zenon DEF B!Query, B!serverVars, BouncerInv, B!TypeOK, Kept
<1>2. Shape => (bpc = "query" => Querying) /\ (bpc = "abort" => Aborting)
  BY Zenon DEF Shape, InLoop
<1>3. Plain \cap B!Status = {} /\ "CopyIn" \notin Plain \cup B!Status
  BY Zenon DEF Plain, B!Status
<1>4. CASE \E p \in {"Rows", "Notice", "Error"} : B!ServerReads(p) /\ B!PassOn(p)
  <2>1. PICK p \in {"Rows", "Notice", "Error"} : B!ServerReads(p) /\ B!PassOn(p)
    BY Zenon, <1>4
  <2>2. p \in Plain /\ UNCHANGED <<bpc, caller, txState, result>>
    BY Zenon, <2>1 DEF Plain, B!PassOn
  <2>3. Shape => (bpc = "query" => Querying') /\ (bpc = "abort" => Aborting')
    BY Zenon, <1>1, <1>2, <1>3, <2>1, <2>2, ReadShape
  <2>4. Shape => Shape'
    BY Zenon, <1>1, <2>2, <2>3 DEF Shape, InLoop
  <2> QED  BY Zenon, <1>1, <2>2, <2>4, GoesOn
<1>5. CASE \E p \in {"CopyIn", "CopyOut"} : B!ServerReads(p) /\ B!StartCopy(p)
  <2>1. PICK p \in {"CopyIn", "CopyOut"} : B!ServerReads(p) /\ B!StartCopy(p)
    BY Zenon, <1>5
  <2>2. /\ caller' = bpc /\ UNCHANGED <<txState, result>>
        /\ bpc' = IF p = "CopyIn" THEN "copyin" ELSE "copyout"
    BY Zenon, <2>1 DEF B!StartCopy
  <2>3. CASE p = "CopyIn"
    <3>1. Shape => bpc = "query" /\ CopyingIn'
      BY Zenon, <1>1, <1>2, <1>3, <2>1, <2>3, ReadShape
    <3>2. Shape => Shape'
      BY Zenon, <2>2, <2>3, <3>1 DEF Shape, InLoop
    <3> QED  BY Zenon, <1>1, <2>2, <2>3, <3>2, GoesOn
  <2>4. CASE p = "CopyOut"
    <3>1. p \in Plain
      BY Zenon, <2>4 DEF Plain
    <3>2. Shape => (bpc = "query" => Querying') /\ (bpc = "abort" => Aborting')
      BY Zenon, <1>1, <1>2, <1>3, <2>1, <3>1, ReadShape
    <3>3. Shape => Shape'
      BY Zenon, <1>1, <2>2, <2>4, <3>2 DEF Shape, InLoop
    <3> QED  BY Zenon, <1>1, <2>2, <2>4, <3>3, GoesOn
  <2> QED  BY Zenon, <2>1, <2>3, <2>4
<1>6. CASE \E t \in B!Status : B!ServerReads(t) /\ bpc = "query" /\ B!Ready(t, "next")
  <2>1. PICK t \in B!Status : B!ServerReads(t) /\ bpc = "query" /\ B!Ready(t, "next")
    BY Zenon, <1>6
  <2>2. txState' = t /\ bpc' = "next" /\ UNCHANGED result
    BY Zenon, <2>1 DEF B!Ready
  <2>3. Shape => t = tx /\ Quiet'
    BY Zenon, <1>1, <1>2, <1>3, <2>1, ReadShape
  <2>4. Shape => Shape'
    BY Zenon, <1>1, <2>2, <2>3 DEF Shape, InLoop
  <2> QED  BY Zenon, <1>1, <2>2, <2>4, GoesOn
<1>7. CASE \E t \in B!Status :
             /\ B!ServerReads(t) /\ bpc = "abort"
             /\ IF t = "I" THEN B!Return(FALSE) ELSE B!Fail
  <2>1. PICK t \in B!Status : /\ B!ServerReads(t) /\ bpc = "abort"
                              /\ IF t = "I" THEN B!Return(FALSE) ELSE B!Fail
    BY Zenon, <1>7
  <2>2. Shape => t = tx /\ tx = "I" /\ Quiet'
    BY Zenon, <1>1, <1>2, <1>3, <2>1, ReadShape
  <2>3. CASE t = "I"
    <3>1. bpc' = "done" /\ result' = "peer_error"
      BY Zenon, <2>1, <2>3 DEF B!Return
    <3>2. Shape => Shape'
      BY Zenon, <1>1, <2>2, <3>1 DEF Shape, InLoop
    <3> QED  BY Zenon, <1>1, <3>1, <3>2, GoesOn
  <2>4. CASE t # "I"
    <3>1. B!Fail
      BY Zenon, <2>1, <2>4
    <3>2. ~alive
      BY Zenon, <1>1, <2>2, <2>4 DEF BouncerInv, Kept
    <3> QED  BY Zenon, <1>1, <3>1, <3>2, FailsForCause
  <2> QED  BY Zenon, <2>3, <2>4
<1>8. CASE B!ServerReadFails /\ B!Fail
  BY Zenon, <1>1, <1>8, ReadFails, FailsForCause
<1> QED  BY Zenon, <1>4, <1>5, <1>6, <1>7, <1>8 DEF B!Query

\* functionCall.
LEMMA CallKeeps ==
  ASSUME BouncerInv, B!FunctionCall
  PROVE  Kept'
<1>1. /\ UNCHANGED <<packet, sent, torn, toServer, mode, tx, alive>>
      /\ bpc = "call" /\ tx \in B!Status /\ result = "ok"
  BY Zenon DEF B!FunctionCall, B!serverVars, BouncerInv, B!TypeOK, Kept
<1>2. Shape => Calling
  BY Zenon, <1>1 DEF Shape
<1>3. Plain \cap B!Status = {}
  BY Zenon DEF Plain, B!Status
<1>4. CASE \E p \in {"Rows", "Notice", "Error"} : B!ServerReads(p) /\ B!PassOn(p)
  <2>1. PICK p \in {"Rows", "Notice", "Error"} : B!ServerReads(p) /\ B!PassOn(p)
    BY Zenon, <1>4
  <2>2. p \in Plain /\ UNCHANGED <<bpc, caller, txState, result>>
    BY Zenon, <2>1 DEF Plain, B!PassOn
  <2>3. Shape => Calling'
    BY <1>1, <1>2, <1>3, <2>1, <2>2, ReadShape
  <2>4. Shape => Shape'
    BY Zenon, <1>1, <2>2, <2>3 DEF Shape, InLoop
  <2> QED  BY Zenon, <1>1, <2>2, <2>4, GoesOn
<1>5. CASE \E t \in B!Status : B!ServerReads(t) /\ B!Ready(t, "next")
  <2>1. PICK t \in B!Status : B!ServerReads(t) /\ B!Ready(t, "next")
    BY Zenon, <1>5
  <2>2. txState' = t /\ bpc' = "next" /\ UNCHANGED result
    BY Zenon, <2>1 DEF B!Ready
  <2>3. Shape => t = tx /\ Quiet'
    BY Zenon, <1>1, <1>2, <1>3, <2>1, ReadShape
  <2>4. Shape => Shape'
    BY Zenon, <1>1, <2>2, <2>3 DEF Shape, InLoop
  <2> QED  BY Zenon, <1>1, <2>2, <2>4, GoesOn
<1>6. CASE B!ServerReadFails /\ B!Fail
  BY Zenon, <1>1, <1>6, ReadFails, FailsForCause
<1> QED  BY Zenon, <1>4, <1>5, <1>6 DEF B!FunctionCall

\* sync.
LEMMA SyncKeeps ==
  ASSUME BouncerInv, B!Sync
  PROVE  Kept'
<1>1. /\ UNCHANGED <<packet, sent, torn, toServer, mode, tx, alive>>
      /\ bpc = "sync" /\ tx \in B!Status /\ result = "ok"
  BY Zenon DEF B!Sync, B!serverVars, BouncerInv, B!TypeOK, Kept
<1>2. Shape => Syncing
  BY Zenon, <1>1 DEF Shape, InLoop
<1>3. Plain \cap B!Status = {} /\ "CopyIn" \notin Plain \cup B!Status
  BY Zenon DEF Plain, B!Status
<1>4. CASE \E p \in {"Rows", "Notice", "Error"} : B!ServerReads(p) /\ B!PassOn(p)
  <2>1. PICK p \in {"Rows", "Notice", "Error"} : B!ServerReads(p) /\ B!PassOn(p)
    BY Zenon, <1>4
  <2>2. p \in Plain /\ UNCHANGED <<bpc, caller, txState, result>>
    BY Zenon, <2>1 DEF Plain, B!PassOn
  <2>3. Shape => Syncing'
    BY <1>1, <1>2, <1>3, <2>1, <2>2, ReadShape
  <2>4. Shape => Shape'
    BY Zenon, <1>1, <2>2, <2>3 DEF Shape, InLoop
  <2> QED  BY Zenon, <1>1, <2>2, <2>4, GoesOn
<1>5. CASE \E p \in {"CopyIn", "CopyOut"} : B!ServerReads(p) /\ B!StartCopy(p)
  <2>1. PICK p \in {"CopyIn", "CopyOut"} : B!ServerReads(p) /\ B!StartCopy(p)
    BY Zenon, <1>5
  <2>2. /\ caller' = "sync" /\ UNCHANGED <<txState, result>>
        /\ bpc' = IF p = "CopyIn" THEN "copyin" ELSE "copyout"
    BY Zenon, <1>1, <2>1 DEF B!StartCopy
  <2>3. p = "CopyOut" => p \in Plain
    BY Zenon DEF Plain
  <2>4. Shape => (p = "CopyIn" /\ CopyingInBatch') \/ (p = "CopyOut" /\ Syncing')
    BY <1>1, <1>2, <1>3, <2>1, <2>3, ReadShape
  <2>5. Shape => Shape'
    BY Zenon, <2>2, <2>4 DEF Shape, InLoop
  <2> QED  BY Zenon, <1>1, <2>2, <2>5, GoesOn
<1>6. CASE \E t \in B!Status : B!ServerReads(t) /\ B!Ready(t, "next")
  <2>1. PICK t \in B!Status : B!ServerReads(t) /\ B!Ready(t, "next")
    BY Zenon, <1>6
  <2>2. txState' = t /\ bpc' = "next" /\ UNCHANGED result
    BY Zenon, <2>1 DEF B!Ready
  <2>3. Shape => t = tx /\ Quiet'
    BY Zenon, <1>1, <1>2, <1>3, <2>1, ReadShape
  <2>4. Shape => Shape'
    BY Zenon, <1>1, <2>2, <2>3 DEF Shape, InLoop
  <2> QED  BY Zenon, <1>1, <2>2, <2>4, GoesOn
<1>7. CASE B!ServerReadFails /\ B!Fail
  BY Zenon, <1>1, <1>7, ReadFails, FailsForCause
<1> QED  BY Zenon, <1>4, <1>5, <1>6, <1>7 DEF B!Sync

\* copyOut: it returns to a loop for which the grammar still holds.
LEMMA CopyOutKeeps ==
  ASSUME BouncerInv, B!CopyOut
  PROVE  Kept'
<1>1. /\ UNCHANGED <<packet, sent, torn, toServer, mode, tx, alive>>
      /\ bpc = "copyout" /\ tx \in B!Status /\ result = "ok"
      /\ caller \in {"query", "abort", "sync"}
  BY Zenon DEF B!CopyOut, B!serverVars, BouncerInv, B!TypeOK, Kept
<1>2. Shape => /\ caller = "query" => Querying
               /\ caller = "abort" => Aborting
               /\ caller = "sync" => Syncing
  BY Zenon, <1>1 DEF Shape, InLoop
<1>3. ASSUME NEW p \in {"CopyData", "Notice", "CopyDone", "Error"}, B!ServerReads(p), Shape
      PROVE  /\ caller = "query" => Querying'
             /\ caller = "abort" => Aborting'
             /\ caller = "sync" => Syncing'
  <2>1. p # "CopyIn" /\ p \notin B!Status
    BY Zenon DEF B!Status
  <2> QED  BY Zenon, <1>1, <1>2, <1>3, <2>1, ReadShape
<1>4. CASE \E p \in {"CopyData", "Notice"} : B!ServerReads(p) /\ B!PassOn(p)
  <2>1. PICK p \in {"CopyData", "Notice"} : B!ServerReads(p) /\ B!PassOn(p)
    BY Zenon, <1>4
  <2>2. UNCHANGED <<bpc, caller, txState, result>>
    BY Zenon, <2>1 DEF B!PassOn
  <2>3. Shape => Shape'
    BY Zenon, <1>1, <1>3, <2>1, <2>2 DEF Shape, InLoop
  <2> QED  BY Zenon, <1>1, <2>2, <2>3, GoesOn
<1>5. CASE \E p \in {"CopyDone", "Error"} :
             B!ServerReads(p) /\ bpc' = caller /\ UNCHANGED <<caller, txState, result>>
  <2>1. PICK p \in {"CopyDone", "Error"} :
          B!ServerReads(p) /\ bpc' = caller /\ UNCHANGED <<caller, txState, result>>
    BY Zenon, <1>5
  <2>2. Shape => Shape'
    BY Zenon, <1>1, <1>3, <2>1 DEF Shape, InLoop
  <2> QED  BY Zenon, <1>1, <2>1, <2>2, GoesOn
<1>6. CASE B!ServerReadFails /\ B!Fail
  BY Zenon, <1>1, <1>6, ReadFails, FailsForCause
<1> QED  BY Zenon, <1>4, <1>5, <1>6 DEF B!CopyOut

-----------------------------------------------------------------------------
\* A packet that the bouncer writes to the server.

\* It arrives; or the connection is broken; or the packet breaks off.
LEMMA WriteKeeps ==
  ASSUME BouncerInv, bpc # "done", UNCHANGED alive,
         NEW p, NEW to, to # "done", B!Relay(p, to),
         Shape /\ toServer' = Append(toServer, p) /\ bpc' = to => Shape'
  PROVE  Kept'
<1>1. CASE B!Fail /\ (~alive \/ torn')
  BY Zenon, <1>1, FailsForCause
<1>2. CASE /\ toServer' = IF alive THEN Append(toServer, p) ELSE toServer
           /\ bpc' = to /\ UNCHANGED <<result, torn>>
  <2>1. result = "ok"
    BY Zenon DEF BouncerInv, Kept
  <2>2. alive /\ Shape => Shape'
    BY Zenon, <1>2
  <2> QED  BY Zenon, <1>2, <2>1, <2>2, GoesOn
<1> QED  BY Zenon, <1>1, <1>2 DEF B!Relay, B!ServerWrite

\* A batch without a COPY, and one that the packet just read is added to.
LEMMA OpenBatch ==
  ASSUME NEW b \in Seq(Batched), \A i \in DOMAIN b : b[i] # "Copy"
  PROVE  /\ b \in Batch /\ b \in Open'
         /\ \A p \in Batched : packet' = p => Append(b, p) \in Open'
<1>1. b \in Batch /\ b \in Open'
  BY Zenon DEF Batch, Open
<1>2. ASSUME NEW p \in Batched, packet' = p
      PROVE  Append(b, p) \in Open'
  <2>1. PICK a : a = Append(b, p)
    BY Zenon
  <2>2. /\ a \in Seq(Batched) /\ Len(a) = Len(b) + 1 /\ a[Len(b) + 1] = p
        /\ \A i \in 1..Len(b) : a[i] = b[i]
    BY <2>1, AppendProperties
  <2>3. /\ Len(b) \in Nat /\ DOMAIN b = 1..Len(b) /\ DOMAIN a = 1..(Len(b) + 1)
    BY Zenon, <2>2, LenProperties
  <2>4. \A i \in DOMAIN a : a[i] = "Copy" => i = Len(a)
    <3> SUFFICES ASSUME NEW i \in DOMAIN a, a[i] = "Copy"
                 PROVE  i = Len(a)
      BY Zenon
    <3>1. i \notin 1..Len(b)
      BY Zenon, <2>2, <2>3
    <3> QED  BY <2>2, <2>3, <3>1
  <2>5. \A i \in DOMAIN a : a[i] = "Copy" => packet' = "Copy"
    <3> SUFFICES ASSUME NEW i \in DOMAIN a, a[i] = "Copy"
                 PROVE  packet' = "Copy"
      BY Zenon
    <3>1. i = Len(b) + 1
      BY Zenon, <2>2, <2>4
    <3> QED  BY Zenon, <1>2, <2>2, <3>1
  <2>6. a \in Open'
    BY Zenon, <2>2, <2>4, <2>5 DEF Open, Batch
  <2> QED  BY Zenon, <2>1, <2>6
<1> QED  BY Zenon, <1>1, <1>2

\* What a server ignores is a batch without a COPY.
LEMMA OpenJunk ==
  ASSUME NEW j \in Seq(Junk)
  PROVE  j \in Seq(Batched) /\ (\A i \in DOMAIN j : j[i] # "Copy") /\ j \in Open'
<1>1. j \in Seq(Batched)
  BY Zenon, SeqMonotonic DEF Batched
<1>2. \A i \in DOMAIN j : j[i] # "Copy"
  <2>1. \A i \in DOMAIN j : j[i] \in Junk
    BY Zenon, LenProperties
  <2> QED  BY Zenon, <2>1 DEF Junk, B!CopyEnds
<1> QED  BY Zenon, <1>1, <1>2, OpenBatch

\* transaction sends a request to a quiet server.
LEMMA DispatchKeeps ==
  ASSUME BouncerInv, B!Dispatch
  PROVE  Kept'
<1>1. /\ bpc = "start" /\ result = "ok" /\ packet \in B!ClientPackets
      /\ UNCHANGED <<packet, caller, txState, toBouncer, alive, mode, tx>>
  BY Zenon DEF B!Dispatch, B!serverVars, BouncerInv, B!TypeOK, Kept
<1>2. Shape => Quiet /\ (txState = tx \/ (txState = "0" /\ tx = "I"))
  BY Zenon, <1>1 DEF Shape
<1>3. ASSUME NEW q, NEW l \in {"query", "call"}, l = "query" => q = "Query",
             l = "call" => q = "FunctionCall", B!Relay(q, l)
      PROVE  Kept'
  <2>1. Shape /\ toServer' = Append(toServer, q) => Asked(q)'
    BY Zenon, <1>1, <1>2 DEF Quiet, Asked
  <2>2. Shape /\ toServer' = Append(toServer, q) /\ bpc' = l => Shape'
    BY Zenon, <1>3, <2>1 DEF Shape, InLoop, Calling, Querying
  <2> QED  BY Zenon, <1>1, <1>3, <2>2, WriteKeeps
<1>4. ASSUME packet \in B!Extended, B!Relay(packet, "eqp")
      PROVE  Kept'
  <2>1. packet \in Batched /\ packet' = packet
    BY Zenon, <1>1, <1>4 DEF B!Extended, Batched
  <2>2. Shape /\ toServer' = Append(toServer, packet) => toServer' \in Open'
    BY Zenon, <1>2, <2>1, OpenJunk, OpenBatch DEF Quiet
  <2>3. Shape => toBouncer' \in Seq(Plain) /\ mode' \in {"ready", "skip"}
    BY Zenon, <1>1, <1>2, SeqsOfPackets DEF Quiet
  <2>4. Shape /\ toServer' = Append(toServer, packet) => Batching'
    BY Zenon, <2>2, <2>3 DEF Batching
  <2>5. Shape /\ toServer' = Append(toServer, packet) /\ bpc' = "eqp" => Shape'
    BY Zenon, <2>4 DEF Shape, InLoop
  <2> QED  BY Zenon, <1>1, <1>4, <2>5, WriteKeeps
<1>5. ASSUME bpc' = "next", UNCHANGED <<toServer, result>>
      PROVE  Kept'
  <2>1. Shape => Quiet'
    BY Zenon, <1>1, <1>2, <1>5 DEF Quiet
  <2>2. Shape => Shape'
    BY Zenon, <1>1, <1>2, <1>5, <2>1 DEF Shape, InLoop
  <2> QED  BY Zenon, <1>1, <1>5, <2>2, GoesOn
<1> QED  BY Zenon, <1>3, <1>4, <1>5 DEF B!Dispatch

\* The ends of a transaction, and the packets that begin and continue one.
LEMMA TransactionKeeps ==
  ASSUME BouncerInv,
         \/ B!TransactionEnds \/ B!TransactionAborts \/ B!Leave
         \/ \E p \in B!ClientPackets : B!Begin(p) \/ B!TransactionReads(p)
  PROVE  Kept'
<1>1. bpc \in {"idle", "next"} /\ result = "ok" /\ UNCHANGED <<toBouncer, alive, mode, tx>>
  BY Zenon DEF B!TransactionEnds, B!TransactionAborts, B!Leave, B!Begin, B!TransactionReads,
         B!serverVars, BouncerInv, Kept
<1>2. Shape => /\ Quiet /\ (bpc = "idle" => tx = "I")
               /\ bpc = "next" => txState = tx \/ (txState = "0" /\ tx = "I")
  BY Zenon, <1>1 DEF Shape
<1>3. Shape /\ UNCHANGED toServer => Quiet'
  BY Zenon, <1>1, <1>2 DEF Quiet
<1>4. CASE B!TransactionAborts
  <2>1. B!Relay("Abort", "abort")
    BY Zenon, <1>4 DEF B!TransactionAborts, B!Relay
  <2>2. Shape /\ toServer' = Append(toServer, "Abort") => Asked("Abort")'
    BY Zenon, <1>1, <1>2 DEF Quiet, Asked
  <2>3. Shape /\ toServer' = Append(toServer, "Abort") /\ bpc' = "abort" => Shape'
    BY Zenon, <2>2 DEF Shape, InLoop, Aborting
  <2> QED  BY Zenon, <1>1, <2>1, <2>3, WriteKeeps
<1>5. CASE B!TransactionEnds \/ B!Leave
  <2>1. /\ bpc' \in {"idle", "done"} /\ result' \in {"ok", "peer_error"} /\ UNCHANGED toServer
        /\ bpc' # "done" => result' = "ok"
        /\ bpc = "next" => txState = "I"
    BY Zenon, <1>5 DEF B!TransactionEnds, B!Leave, B!Return
  <2>2. Shape => Shape'
    BY Zenon, <1>1, <1>2, <1>3, <2>1 DEF Shape, InLoop
  <2> QED  BY Zenon, <1>1, <2>1, <2>2, GoesOn
<1>6. CASE \E p \in B!ClientPackets : B!Begin(p) \/ B!TransactionReads(p)
  <2>1. /\ bpc' = "start" /\ UNCHANGED <<result, toServer>>
        /\ bpc = "idle" => txState' = "0"
        /\ bpc = "next" => txState' = txState
    BY Zenon, <1>6 DEF B!Begin, B!TransactionReads
  <2>2. Shape => Shape'
    BY Zenon, <1>1, <1>2, <1>3, <2>1 DEF Shape, InLoop
  <2> QED  BY Zenon, <1>1, <2>1, <2>2, GoesOn
<1> QED  BY Zenon, <1>4, <1>5, <1>6

\* The parts of a copy that has been sent.
LEMMA SentAppend ==
  ASSUME NEW c \in Copied, NEW e \in B!CopyEnds, NEW b \in Batch,
         NEW p \in Batched \cup {"Sync"}
  PROVE  Append((c \o <<e>>) \o b, p) = (c \o <<e>>) \o Append(b, p)
<1>1. PICK S : S = Batched \cup {"Sync"}
  BY Zenon
<1>2. c \in Seq({"CopyData", "Sync"}) /\ {"CopyData", "Sync"} \subseteq S
  BY Zenon, <1>1 DEF Copied, Batched, Junk
<1>3. c \in Seq(S) /\ e \in S /\ b \in Seq(S) /\ p \in S
  BY Zenon, <1>1, <1>2, SeqMonotonic DEF Batched, Junk, Batch
<1>4. c \o <<e>> \in Seq(S)
  BY <1>3, ConcatProperties
<1>5. PICK d : d = c \o <<e>>
  BY Zenon
<1>6. d \o Append(b, p) = Append(d \o b, p)
  BY <1>3, <1>4, <1>5, ConcatAppend
<1> QED  BY Zenon, <1>5, <1>6

\* The Sync of a batch.
LEMMA SyncWritten ==
  ASSUME Batching, toServer' = Append(toServer, "Sync"), UNCHANGED <<toBouncer, mode, tx>>
  PROVE  Syncing'
<1>1. Closed' = Closed /\ Copied' = Copied /\ Open \subseteq Batch
  BY Zenon DEF Closed, Batch, Copied, Open
<1>2. CASE mode \in {"ready", "skip"} /\ toBouncer \in Seq(Plain) /\ toServer \in Open
  <2>1. toServer' \in Closed'
    BY Zenon, <1>1, <1>2 DEF Closed
  <2> QED  BY Zenon, <1>2, <2>1 DEF Syncing
<1>3. CASE mode = "copyin_ext" /\ Offered({<<>>})
  <2>1. toServer' = <<"Sync">>
    BY <1>3 DEF Offered
  <2>2. Offered({<<>>, <<"Sync">>})'
    BY Zenon, <1>3, <2>1 DEF Offered, EndsWith
  <2> QED  BY Zenon, <1>3, <2>2 DEF Syncing
<1>4. CASE mode = "copyin_ext" /\ Sent(Open)
  <2>1. PICK c \in Copied, e \in B!CopyEnds, b \in Open : toServer = (c \o <<e>>) \o b
    BY Zenon, <1>4 DEF Sent
  <2>2. Append(b, "Sync") \in Closed'
    BY Zenon, <1>1 DEF Closed
  <2>3. toServer' = (c \o <<e>>) \o Append(b, "Sync")
    BY Zenon, <1>1, <2>1, SentAppend
  <2>4. toBouncer' \in Seq(Plain)
    BY Zenon, <1>4 DEF Sent
  <2>5. Sent(Closed)'
    BY Zenon, <1>1, <2>2, <2>3, <2>4 DEF Sent
  <2> QED  BY Zenon, <1>4, <2>5 DEF Syncing
<1> QED  BY Zenon, <1>2, <1>3, <1>4 DEF Batching

\* Another packet of a batch: written to the server, or dropped with the client.
LEMMA BatchWritten ==
  ASSUME Batching, packet # "Copy", UNCHANGED <<toBouncer, mode, tx>>,
         \/ UNCHANGED toServer
         \/ packet' \in Batched /\ toServer' = Append(toServer, packet')
  PROVE  Batching'
<1>1. Copied' = Copied
  BY Zenon DEF Copied
<1>2. ASSUME NEW b \in Open
      PROVE  /\ b \in Batch /\ b \in Open'
             /\ packet' \in Batched => Append(b, packet') \in Open'
  <2>1. b \in Seq(Batched) /\ \A i \in DOMAIN b : b[i] # "Copy"
    BY Zenon DEF Open, Batch
  <2> QED  BY Zenon, <2>1, OpenBatch
<1>3. CASE mode \in {"ready", "skip"} /\ toBouncer \in Seq(Plain) /\ toServer \in Open
  <2>1. toServer' \in Open'
    BY Zenon, <1>2, <1>3
  <2> QED  BY Zenon, <1>3, <2>1 DEF Batching
<1>4. CASE mode = "copyin_ext" /\ Sent(Open)
  <2>1. PICK c \in Copied, e \in B!CopyEnds, b \in Open : toServer = (c \o <<e>>) \o b
    BY Zenon, <1>4 DEF Sent
  <2>2. \E d \in Open' : toServer' = (c \o <<e>>) \o d
    BY Zenon, <1>2, <2>1, SentAppend
  <2>3. toBouncer' \in Seq(Plain)
    BY Zenon, <1>4 DEF Sent
  <2>4. Sent(Open)'
    BY Zenon, <1>1, <2>2, <2>3 DEF Sent
  <2> QED  BY Zenon, <1>4, <2>4 DEF Batching
<1> QED  BY Zenon, <1>3, <1>4 DEF Batching

\* eqp.
LEMMA EqpKeeps ==
  ASSUME BouncerInv,
         \/ B!EqpAborts
         \/ \E p \in B!ClientPackets : B!Eqp(p) \/ B!EqpUnexpected(p)
  PROVE  Kept'
<1>1. bpc = "eqp" /\ result = "ok" /\ UNCHANGED <<toBouncer, alive, mode, tx>>
  BY Zenon DEF B!Eqp, B!EqpAborts, B!EqpUnexpected, B!serverVars, BouncerInv, Kept
<1>2. Shape => Batching
  BY Zenon, <1>1 DEF Shape
<1>3. ASSUME B!Relay("Sync", "sync") PROVE Kept'
  <2>1. Shape /\ toServer' = Append(toServer, "Sync") /\ bpc' = "sync" => Shape'
    BY Zenon, <1>1, <1>2, SyncWritten DEF Shape, InLoop
  <2> QED  BY Zenon, <1>1, <1>3, <2>1, WriteKeeps
<1>4. ASSUME NEW p \in B!Extended, B!PeerReads(p), B!Relay(p, "eqp") PROVE Kept'
  <2>1. packet # "Copy" /\ packet' = p /\ p \in Batched
    BY Zenon, <1>4 DEF B!PeerReads, B!ClientSent, B!Extended, Batched
  <2>2. Shape /\ toServer' = Append(toServer, p) /\ bpc' = "eqp" => Shape'
    BY Zenon, <1>1, <1>2, <2>1, BatchWritten DEF Shape, InLoop
  <2> QED  BY Zenon, <1>1, <1>4, <2>2, WriteKeeps
<1>5. ASSUME NEW p, B!EqpUnexpected(p) PROVE Kept'
  <2>1. packet # "Copy" /\ UNCHANGED <<bpc, result, toServer>>
    BY Zenon, <1>5 DEF B!EqpUnexpected, B!PeerUnexpected, B!ClientSent
  <2>2. Shape => Shape'
    BY Zenon, <1>1, <1>2, <2>1, BatchWritten DEF Shape, InLoop
  <2> QED  BY Zenon, <1>1, <2>1, <2>2, GoesOn
<1>6. CASE B!EqpAborts
  <2>1. B!Relay("Sync", "sync")
    BY Zenon, <1>6 DEF B!EqpAborts, B!Relay
  <2> QED  BY Zenon, <1>3, <2>1
<1>7. ASSUME NEW p, B!Eqp(p) PROVE Kept'
  BY Zenon, <1>3, <1>4, <1>7 DEF B!Eqp
<1> QED  BY Zenon, <1>5, <1>6, <1>7

\* The data of a copy.
LEMMA DataWritten ==
  ASSUME toServer' = Append(toServer, "CopyData"), UNCHANGED <<toBouncer, mode, tx>>
  PROVE  (CopyingIn => CopyingIn') /\ (CopyingInBatch => CopyingInBatch')
<1>1. toServer \in Seq(Junk) => toServer' \in Seq(Junk)
  BY Zenon, AppendProperties DEF Junk
<1>2. toServer \in Copied => toServer' \in Copied'
  <2> SUFFICES ASSUME toServer \in Copied PROVE toServer' \in Copied'
    BY Zenon
  <2>1. PICK c \in Copied : c = toServer
    BY Zenon
  <2>2. /\ c \in Seq({"CopyData", "Sync"})
        /\ \A i \in DOMAIN c : c[i] = "Sync" => i = 1 /\ mode = "copyin_ext"
    BY Zenon DEF Copied
  <2>3. PICK d : d = Append(c, "CopyData")
    BY Zenon
  <2>4. /\ d \in Seq({"CopyData", "Sync"}) /\ Len(d) = Len(c) + 1
        /\ d[Len(c) + 1] = "CopyData" /\ \A i \in 1..Len(c) : d[i] = c[i]
    BY <2>2, <2>3, AppendProperties
  <2>5. Len(c) \in Nat /\ DOMAIN c = 1..Len(c) /\ DOMAIN d = 1..(Len(c) + 1)
    BY Zenon, <2>2, <2>4, LenProperties
  <2>6. \A i \in DOMAIN d : d[i] = "Sync" => i = 1 /\ mode' = "copyin_ext"
    <3> SUFFICES ASSUME NEW i \in DOMAIN d, d[i] = "Sync"
                 PROVE  i = 1 /\ mode' = "copyin_ext"
      BY Zenon
    <3>1. i \in DOMAIN c /\ c[i] = "Sync"
      BY <2>4, <2>5
    <3> QED  BY Zenon, <2>2, <3>1
  <2>7. d \in Copied'
    BY Zenon, <2>4, <2>6 DEF Copied
  <2> QED  BY Zenon, <2>1, <2>3, <2>7
<1>3. Answered => Answered'
  BY Zenon, <1>1 DEF Answered, EndsWith
<1>4. Sending => Sending'
  BY Zenon, <1>2 DEF Sending
<1> QED  BY Zenon, <1>1, <1>3, <1>4 DEF CopyingIn, CopyingInBatch

\* The end of a copy.
LEMMA EndWritten ==
  ASSUME NEW e \in B!CopyEnds, toServer' = Append(toServer, e), UNCHANGED <<toBouncer, mode, tx>>
  PROVE  (CopyingIn => Querying') /\ (CopyingInBatch => Batching')
<1>1. toServer \in Seq(Junk) => toServer' \in Seq(Junk)
  BY Zenon, AppendProperties DEF Junk
<1>2. Copied' = Copied
  BY Zenon DEF Copied
<1>3. toServer \in Copied => toServer' = (toServer \o <<e>>) \o <<>>
  <2> SUFFICES ASSUME toServer \in Copied PROVE toServer' = (toServer \o <<e>>) \o <<>>
    BY Zenon
  <2>1. PICK S : S = {"CopyData", "Sync"} \cup B!CopyEnds
    BY Zenon
  <2>2. toServer \in Seq({"CopyData", "Sync"})
    BY Zenon DEF Copied
  <2>3. toServer \in Seq(S) /\ e \in S
    BY Zenon, <2>1, <2>2, SeqMonotonic
  <2>4. Append(toServer, e) = toServer \o <<e>> /\ Append(toServer, e) \in Seq(S)
    BY Zenon, <2>3, AppendIsConcat, AppendProperties
  <2> QED  BY Zenon, <2>4, ConcatEmptySeq
<1>4. <<>> \in Open'
  <2>1. <<>> \in Seq(Junk)
    BY Zenon, EmptySeq
  <2> QED  BY Zenon, <2>1, OpenJunk
<1>5. Sending => Sent({<<>>})' /\ Sent(Open)'
  BY Zenon, <1>2, <1>3, <1>4 DEF Sending, Sent
<1>6. Answered => Answered'
  BY Zenon, <1>1 DEF Answered, EndsWith
<1>7. CopyingIn => Querying'
  BY Zenon, <1>5, <1>6 DEF CopyingIn, Querying
<1>8. ASSUME mode = "skip", toBouncer \in Seq(Plain), toServer \in Seq(Junk)
      PROVE  Batching'
  <2>1. toServer' \in Open'
    BY Zenon, <1>1, <1>8, OpenJunk
  <2> QED  BY Zenon, <1>8, <2>1 DEF Batching
<1>9. CopyingInBatch => Batching'
  BY Zenon, <1>5, <1>8 DEF CopyingInBatch, Batching
<1> QED  BY Zenon, <1>7, <1>9

\* copyIn.
LEMMA CopyInKeeps ==
  ASSUME BouncerInv,
         \/ B!CopyInAborts
         \/ \E p \in B!ClientPackets : B!CopyIn(p) \/ B!CopyInUnexpected(p)
  PROVE  Kept'
<1>1. /\ bpc = "copyin" /\ result = "ok"
      /\ caller \in {"query", "abort", "sync"}
      /\ UNCHANGED <<caller, toBouncer, alive, mode, tx>>
  BY Zenon DEF B!CopyIn, B!CopyInAborts, B!CopyInUnexpected, B!serverVars, BouncerInv, Kept, B!TypeOK
<1>2. Shape => (caller = "query" /\ CopyingIn) \/ (caller = "sync" /\ CopyingInBatch)
  BY Zenon, <1>1 DEF Shape
<1>3. ASSUME B!Relay("CopyData", "copyin") PROVE Kept'
  <2>1. Shape /\ toServer' = Append(toServer, "CopyData") /\ bpc' = "copyin" => Shape'
    BY Zenon, <1>1, <1>2, DataWritten DEF Shape, InLoop
  <2> QED  BY Zenon, <1>1, <1>3, <2>1, WriteKeeps
<1>4. ASSUME NEW e \in B!CopyEnds, B!Relay(e, B!AfterCopyIn) PROVE Kept'
  <2>1. PICK to : to = B!AfterCopyIn
    BY Zenon
  <2>2. /\ to # "done" /\ B!Relay(e, to)
        /\ to = IF caller = "sync" THEN "eqp" ELSE caller
    BY Zenon, <1>1, <1>4, <2>1 DEF B!AfterCopyIn
  <2>3. Shape /\ toServer' = Append(toServer, e) /\ bpc' = to => Shape'
    BY Zenon, <1>1, <1>2, <2>2, EndWritten DEF Shape, InLoop
  <2> QED  BY Zenon, <1>1, <2>2, <2>3, WriteKeeps
<1>5. ASSUME NEW p, B!CopyInUnexpected(p) PROVE Kept'
  <2>1. UNCHANGED <<bpc, result, toServer>>
    BY Zenon, <1>5 DEF B!CopyInUnexpected
  <2>2. (CopyingIn => CopyingIn') /\ (CopyingInBatch => CopyingInBatch')
    BY Zenon, <1>1, <2>1 DEF CopyingIn, CopyingInBatch, Answered, Sending, EndsWith, Copied
  <2>3. Shape => Shape'
    BY Zenon, <1>1, <1>2, <2>1, <2>2 DEF Shape, InLoop
  <2> QED  BY Zenon, <1>1, <2>1, <2>3, GoesOn
<1>6. CASE B!CopyInAborts
  <2>1. B!Relay("CopyFail", B!AfterCopyIn) /\ "CopyFail" \in B!CopyEnds
    BY Zenon, <1>6 DEF B!CopyInAborts, B!Relay, B!CopyEnds
  <2> QED  BY Zenon, <1>4, <2>1
<1>7. ASSUME NEW p, B!CopyIn(p) PROVE Kept'
  BY Zenon, <1>3, <1>4, <1>7 DEF B!CopyIn
<1> QED  BY Zenon, <1>5, <1>6, <1>7

-----------------------------------------------------------------------------
\* Types.

\* Every answer is made of packets that a server sends.
LEMMA ReplyTypes ==
  ASSUME tx \in B!Status, mode \in {"ready", "skip", "copyin", "copyin_ext"},
         NEW p \in B!ClientPackets \cup {"Abort"}, NEW r \in B!Replies(p)
  PROVE  /\ r.out \in Seq(B!ServerPackets) /\ r.tx \in B!Status
         /\ r.mode \in {"ready", "skip", "copyin", "copyin_ext"}
<1>1. p \in Junk \cup {"Other", "Query", "Abort", "FunctionCall", "Parse", "Execute", "Flush",
                       "Copy", "Sync"}
  BY Zenon DEF B!ClientPackets, B!Extended, B!CopyEnds, Junk
<1>2. Plain \subseteq B!ServerPackets /\ B!Status \subseteq B!ServerPackets
  BY Zenon DEF Plain, B!ServerPackets
<1>3. /\ \A s \in Seq(Plain) : s \in Seq(B!ServerPackets)
      /\ <<>> \in Seq(B!ServerPackets) /\ <<tx>> \in Seq(B!ServerPackets)
      /\ <<"CopyIn">> \in Seq(B!ServerPackets)
  <2>1. \A s \in Seq(Plain) : s \in Seq(B!ServerPackets)
    BY Zenon, <1>2, SeqMonotonic
  <2>2. tx \in B!ServerPackets /\ "CopyIn" \in B!ServerPackets
    BY Zenon, <1>2 DEF B!ServerPackets
  <2> QED  BY <2>1, <2>2, EmptySeq
<1>4. Finished(r) => /\ r.out \in Seq(B!ServerPackets) /\ r.tx \in B!Status
                     /\ r.mode = "ready"
  <2> SUFFICES ASSUME Finished(r)
               PROVE  r.out \in Seq(B!ServerPackets) /\ r.tx \in B!Status /\ r.mode = "ready"
    BY Zenon
  <2>1. PICK o \in Seq(Plain) : r.out = Append(o, r.tx)
    BY Zenon DEF Finished
  <2>2. o \in Seq(B!ServerPackets) /\ r.tx \in B!ServerPackets
    BY Zenon, <1>2, <1>3 DEF Finished
  <2> QED  BY <2>1, <2>2, AppendProperties DEF Finished
<1>5. Unfinished(r) => /\ r.out \in Seq(B!ServerPackets) /\ r.tx \in B!Status
                       /\ r.mode \in {"ready", "skip"}
  BY Zenon, <1>3 DEF Unfinished
<1>6. Ignored(r) => /\ r.out \in Seq(B!ServerPackets) /\ r.tx \in B!Status
                    /\ r.mode = mode
  BY Zenon, <1>3 DEF Ignored
<1>7. CASE mode = "ready"
  BY Zenon, <1>1, <1>3, <1>4, <1>5, <1>6, <1>7, ReadyAnswers
<1>8. CASE mode = "skip"
  <2>1. r \in IF p = "Sync" THEN {B!Reply(<<tx>>, "ready", tx)} ELSE B!Silent
    BY Zenon, <1>8 DEF B!Replies
  <2>2. p # "Sync" => Ignored(r)
    BY <2>1 DEF B!Silent, Ignored, B!Reply
  <2>3. p = "Sync" => r.out = <<tx>> /\ r.mode = "ready" /\ r.tx = tx
    BY <2>1 DEF B!Reply
  <2> QED  BY Zenon, <1>3, <1>6, <1>8, <2>2, <2>3
<1>9. CASE mode \in {"copyin", "copyin_ext"}
  BY Zenon, <1>4, <1>5, <1>6, <1>9, CopyAnswers
<1> QED  BY Zenon, <1>7, <1>8, <1>9

\* What the bouncer writes and reads has the type of its connection.
LEMMA TrafficTypes ==
  ASSUME B!TypeOK
  PROVE  /\ \A p \in B!ClientPackets \cup {"Abort"} :
              Append(toServer, p) \in Seq(B!ClientPackets \cup {"Abort"})
         /\ \A p \in {"Notice", "Bad"} : Append(toBouncer, p) \in Seq(B!ServerPackets)
         /\ toServer # <<>> => /\ Head(toServer) \in B!ClientPackets \cup {"Abort"}
                               /\ Tail(toServer) \in Seq(B!ClientPackets \cup {"Abort"})
         /\ toBouncer # <<>> => Tail(toBouncer) \in Seq(B!ServerPackets)
<1>1. /\ toServer \in Seq(B!ClientPackets \cup {"Abort"}) /\ toBouncer \in Seq(B!ServerPackets)
      /\ {"Notice", "Bad"} \subseteq B!ServerPackets
  BY Zenon DEF B!TypeOK, B!ServerPackets
<1> QED  BY Zenon, <1>1, AppendProperties, HeadTailProperties

\* A write to the server.
LEMMA WriteTypes ==
  ASSUME B!TypeOK, NEW p \in B!ClientPackets \cup {"Abort"},
         NEW to \in {"query", "abort", "call", "eqp", "sync", "copyin"}, B!Relay(p, to)
  PROVE  /\ bpc' \in {"query", "abort", "call", "eqp", "sync", "copyin", "done"}
         /\ result' \in {"ok", "peer_error", "server_error"} /\ torn' \in BOOLEAN
         /\ toServer' \in Seq(B!ClientPackets \cup {"Abort"})
<1>1. /\ Append(toServer, p) \in Seq(B!ClientPackets \cup {"Abort"})
      /\ toServer \in Seq(B!ClientPackets \cup {"Abort"})
      /\ result \in {"ok", "peer_error", "server_error"} /\ torn \in BOOLEAN
  BY Zenon, TrafficTypes DEF B!TypeOK
<1> QED  BY Zenon, <1>1 DEF B!Relay, B!ServerWrite, B!Fail

\* A read from the server or from the client, and a write to the client.
LEMMA PeerTypes ==
  ASSUME B!TypeOK
  PROVE  /\ \A p \in B!ServerPackets \cup {txState} : B!PeerWrite(p) =>
              peerOK' \in BOOLEAN /\ told' \in B!Status \cup {"0"}
         /\ \A p \in B!ClientPackets : B!ClientSent(p) =>
              /\ packet' \in B!ClientPackets /\ sent' \in 0..MaxPackets
              /\ told' \in B!Status \cup {"0"}
         /\ B!PeerFail => peerOK' \in BOOLEAN
         /\ \A p : B!ServerReads(p) => toBouncer' \in Seq(B!ServerPackets)
         /\ B!ServerReadFails => toBouncer' \in Seq(B!ServerPackets)
<1>1. \A p : B!ServerReads(p) => toBouncer' \in Seq(B!ServerPackets)
  BY Zenon, TrafficTypes DEF B!ServerReads
<1>2. B!ServerReadFails => toBouncer' \in Seq(B!ServerPackets)
  BY Zenon, <1>1 DEF B!ServerReadFails, B!TypeOK
<1>3. B!PeerFail => peerOK' \in BOOLEAN
  BY Zenon DEF B!PeerFail
<1>4. \A p \in B!ServerPackets \cup {txState} : B!PeerWrite(p) =>
              peerOK' \in BOOLEAN /\ told' \in B!Status \cup {"0"}
  BY Zenon DEF B!PeerWrite, B!PeerFail, B!TypeOK
<1>5. ASSUME NEW p \in B!ClientPackets, B!ClientSent(p)
      PROVE  /\ packet' \in B!ClientPackets /\ sent' \in 0..MaxPackets
             /\ told' \in B!Status \cup {"0"}
  BY <1>5, RelayAssumption DEF B!ClientSent, B!TypeOK
<1> QED  BY Zenon, <1>1, <1>2, <1>3, <1>4, <1>5

\* Type correctness.
LEMMA BouncerTypes ==
  ASSUME B!TypeOK, B!Next
  PROVE  B!TypeOK'
<1> USE DEF B!TypeOK, B!bindVars, B!serverVars
<1>1. CASE B!Dispatch
  <2>1. CASE packet \in {"Query", "FunctionCall"} \cup B!Extended
    <3>1. /\ bpc' \in {"query", "abort", "call", "eqp", "sync", "copyin", "done"}
          /\ result' \in {"ok", "peer_error", "server_error"} /\ torn' \in BOOLEAN
          /\ toServer' \in Seq(B!ClientPackets \cup {"Abort"})
      BY Zenon, <1>1, <2>1, WriteTypes DEF B!Dispatch, B!Extended, B!CopyEnds
    <3>2. UNCHANGED <<peerOK, told>>
      BY Zenon, <1>1, <2>1 DEF B!Dispatch, B!Extended, B!CopyEnds
    <3> QED  BY Zenon, <1>1, <3>1, <3>2 DEF B!Dispatch
  <2>2. CASE packet \in {"Sync", "Other", "CopyData"} \cup B!CopyEnds
    <3>1. peerOK' \in BOOLEAN /\ told' \in B!Status \cup {"0"} /\ bpc' = "next"
          /\ UNCHANGED <<toServer, result, torn>>
      BY Zenon, <1>1, <2>2, PeerTypes DEF B!Dispatch, B!Extended, B!CopyEnds
    <3> QED  BY Zenon, <1>1, <3>1 DEF B!Dispatch
  <2> QED  BY Zenon, <2>1, <2>2 DEF B!ClientPackets
<1>2. CASE B!TransactionEnds
  BY Zenon, <1>2 DEF B!TransactionEnds, B!Return
<1>3. CASE B!TransactionAborts
  <2>1. B!Relay("Abort", "abort")
    BY Zenon, <1>3 DEF B!TransactionAborts, B!Relay
  <2> QED  BY Zenon, <1>3, <2>1, WriteTypes DEF B!TransactionAborts, B!PeerReadFails, B!PeerFail
<1>4. CASE B!EqpAborts
  <2>1. B!Relay("Sync", "sync") /\ "Sync" \in B!ClientPackets
    BY Zenon, <1>4 DEF B!EqpAborts, B!Relay, B!ClientPackets
  <2> QED  BY Zenon, <1>4, <2>1, WriteTypes DEF B!EqpAborts, B!PeerReadFails, B!PeerFail
<1>5. B!AfterCopyIn \in {"query", "abort", "eqp"}
  BY Zenon DEF B!AfterCopyIn
<1>6. CASE B!CopyInAborts
  <2>1. B!Relay("CopyFail", B!AfterCopyIn) /\ "CopyFail" \in B!ClientPackets
    BY Zenon, <1>6 DEF B!CopyInAborts, B!Relay, B!ClientPackets, B!CopyEnds
  <2> QED  BY Zenon, <1>5, <1>6, <2>1, WriteTypes DEF B!CopyInAborts, B!PeerReadFails, B!PeerFail
<1>7. ASSUME NEW p \in {"Rows", "Notice", "Error", "CopyIn", "CopyOut", "CopyData", "CopyDone"},
             B!PeerWrite(p)
      PROVE  peerOK' \in BOOLEAN /\ told' \in B!Status \cup {"0"}
  BY Zenon, <1>7, PeerTypes DEF B!ServerPackets
<1>8. ASSUME NEW t \in B!Status, B!PeerWrite(t)
      PROVE  peerOK' \in BOOLEAN /\ told' \in B!Status \cup {"0"}
  BY Zenon, <1>8, PeerTypes DEF B!ServerPackets
<1>9. /\ \A p : B!ServerReads(p) => toBouncer' \in Seq(B!ServerPackets)
      /\ B!ServerReadFails => toBouncer' \in Seq(B!ServerPackets)
  BY Zenon, PeerTypes
<1>10. CASE B!Query
  <2>1. toBouncer' \in Seq(B!ServerPackets)
    BY Zenon, <1>9, <1>10 DEF B!Query
  <2>2. peerOK' \in BOOLEAN /\ told' \in B!Status \cup {"0"}
    BY Zenon, <1>7, <1>8, <1>10 DEF B!Query, B!PassOn, B!StartCopy, B!Ready
  <2>3. txState' \in B!Status \cup {"0"} /\ caller' \in {"query", "abort", "sync"}
    BY Zenon, <1>10 DEF B!Query, B!PassOn, B!StartCopy, B!Ready
  <2>4. /\ bpc' \in {"query", "abort", "copyin", "copyout", "next", "done"}
        /\ result' \in {"ok", "peer_error", "server_error"}
    BY Zenon, <1>10 DEF B!Query, B!PassOn, B!StartCopy, B!Ready, B!Fail, B!Return
  <2> QED  BY Zenon, <1>10, <2>1, <2>2, <2>3, <2>4 DEF B!Query
<1>11. CASE B!FunctionCall
  <2>1. toBouncer' \in Seq(B!ServerPackets)
    BY Zenon, <1>9, <1>11 DEF B!FunctionCall
  <2>2. peerOK' \in BOOLEAN /\ told' \in B!Status \cup {"0"}
    BY Zenon, <1>7, <1>8, <1>11 DEF B!FunctionCall, B!PassOn, B!Ready
  <2>3. /\ txState' \in B!Status \cup {"0"} /\ UNCHANGED caller
        /\ bpc' \in {"call", "next", "done"} /\ result' \in {"ok", "peer_error", "server_error"}
    BY Zenon, <1>11 DEF B!FunctionCall, B!PassOn, B!Ready, B!Fail
  <2> QED  BY Zenon, <1>11, <2>1, <2>2, <2>3 DEF B!FunctionCall
<1>12. CASE B!Sync
  <2>1. toBouncer' \in Seq(B!ServerPackets)
    BY Zenon, <1>9, <1>12 DEF B!Sync
  <2>2. peerOK' \in BOOLEAN /\ told' \in B!Status \cup {"0"}
    BY Zenon, <1>7, <1>8, <1>12 DEF B!Sync, B!PassOn, B!StartCopy, B!Ready
  <2>3. /\ txState' \in B!Status \cup {"0"} /\ caller' \in {"query", "abort", "sync"}
        /\ bpc' \in {"sync", "copyin", "copyout", "next", "done"}
        /\ result' \in {"ok", "peer_error", "server_error"}
    BY Zenon, <1>12 DEF B!Sync, B!PassOn, B!StartCopy, B!Ready, B!Fail
  <2> QED  BY Zenon, <1>12, <2>1, <2>2, <2>3 DEF B!Sync
<1>13. CASE B!CopyOut
  <2>1. toBouncer' \in Seq(B!ServerPackets)
    BY Zenon, <1>9, <1>13 DEF B!CopyOut
  <2>2. peerOK' \in BOOLEAN /\ told' \in B!Status \cup {"0"}
    BY Zenon, <1>7, <1>13 DEF B!CopyOut, B!PassOn
  <2>3. /\ UNCHANGED <<txState, caller>>
        /\ bpc' \in {"query", "abort", "sync", "copyout", "done"}
        /\ result' \in {"ok", "peer_error", "server_error"}
    BY Zenon, <1>13 DEF B!CopyOut, B!PassOn, B!Fail
  <2> QED  BY Zenon, <1>13, <2>1, <2>2, <2>3 DEF B!CopyOut
<1>14. ASSUME NEW p \in B!ClientPackets,
              \/ B!Begin(p) \/ B!TransactionReads(p) \/ B!EqpUnexpected(p) \/ B!CopyInUnexpected(p)
       PROVE  B!TypeOK'
  <2>1. /\ packet' \in B!ClientPackets /\ sent' \in 0..MaxPackets
        /\ told' \in B!Status \cup {"0"} /\ peerOK' \in BOOLEAN
    BY Zenon, <1>14, PeerTypes DEF B!Begin, B!TransactionReads, B!EqpUnexpected, B!CopyInUnexpected,
                            B!PeerReads, B!PeerUnexpected
  <2> QED  BY Zenon, <1>14, <2>1
           DEF B!Begin, B!TransactionReads, B!EqpUnexpected, B!CopyInUnexpected
<1>15. ASSUME NEW p \in B!ClientPackets, B!Eqp(p) \/ B!CopyIn(p)
       PROVE  B!TypeOK'
  <2>1. /\ packet' \in B!ClientPackets /\ sent' \in 0..MaxPackets
        /\ told' \in B!Status \cup {"0"} /\ peerOK' \in BOOLEAN
    BY Zenon, <1>15, PeerTypes DEF B!Eqp, B!CopyIn, B!PeerReads
  <2>2. \E to \in {"query", "abort", "eqp", "sync", "copyin"} : B!Relay(p, to)
    BY Zenon, <1>5, <1>15 DEF B!Eqp, B!CopyIn
  <2>3. /\ bpc' \in {"query", "abort", "call", "eqp", "sync", "copyin", "done"}
        /\ result' \in {"ok", "peer_error", "server_error"} /\ torn' \in BOOLEAN
        /\ toServer' \in Seq(B!ClientPackets \cup {"Abort"})
    BY Zenon, <2>2, WriteTypes
  <2> QED  BY Zenon, <1>15, <2>1, <2>3 DEF B!Eqp, B!CopyIn
<1>16. CASE B!Leave
  BY Zenon, <1>16 DEF B!Leave, B!Return, B!PeerReadFails, B!PeerFail
<1>17. CASE B!ServerAnswers
  <2>1. PICK r \in B!Replies(Head(toServer)) :
          toBouncer' = toBouncer \o r.out /\ mode' = r.mode /\ tx' = r.tx
    BY Zenon, <1>17 DEF B!ServerAnswers
  <2>2. /\ Head(toServer) \in B!ClientPackets \cup {"Abort"}
        /\ toServer' \in Seq(B!ClientPackets \cup {"Abort"})
    BY Zenon, <1>17, TrafficTypes DEF B!ServerAnswers
  <2>3. /\ r.out \in Seq(B!ServerPackets) /\ tx' \in B!Status
        /\ mode' \in {"ready", "skip", "copyin", "copyin_ext"}
    BY Zenon, <2>1, <2>2, ReplyTypes
  <2>4. toBouncer' \in Seq(B!ServerPackets)
    BY Zenon, <2>1, <2>3, ConcatProperties
  <2> QED  BY Zenon, <1>17, <2>2, <2>3, <2>4 DEF B!ServerAnswers
<1>18. CASE B!ServerNotifies
  <2>1. toBouncer' \in Seq(B!ServerPackets) /\ notices' \in 0..MaxNotices
    BY <1>18, TrafficTypes, RelayAssumption DEF B!ServerNotifies
  <2> QED  BY <1>18, <2>1 DEF B!ServerNotifies
<1>19. CASE B!ServerBreaks
  <2>1. toBouncer' \in Seq(B!ServerPackets)
    BY Zenon, <1>19, TrafficTypes DEF B!ServerBreaks
  <2>2. toServer' \in Seq(B!ClientPackets \cup {"Abort"})
    BY Zenon, <1>19, EmptySeq DEF B!ServerBreaks
  <2> QED  BY ZenonT(30), <1>19, <2>1, <2>2 DEF B!ServerBreaks
<1> QED  BY Zenon, <1>1, <1>2, <1>3, <1>4, <1>6, <1>10, <1>11, <1>12, <1>13, <1>14, <1>15, <1>16, <1>17,
            <1>18, <1>19 DEF B!Next, B!Bounce, B!ClientSends

-----------------------------------------------------------------------------
\* A step of the bouncer, of its client or of its server keeps the invariant.
LEMMA BouncerStep ==
  ASSUME BouncerInv, B!Next
  PROVE  BouncerInv'
<1>1. B!TypeOK'
  BY Zenon, BouncerTypes DEF BouncerInv
<1>2. CASE B!Bounce
  BY Zenon, <1>1, <1>2, DispatchKeeps, TransactionKeeps, QueryKeeps, CallKeeps, EqpKeeps, SyncKeeps,
     CopyInKeeps, CopyOutKeeps DEF B!Bounce, BouncerInv
<1>3. CASE B!ClientSends \/ B!Leave
  <2>1. Kept'
    BY Zenon, <1>3, TransactionKeeps, EqpKeeps, CopyInKeeps DEF B!ClientSends
  <2> QED  BY Zenon, <1>1, <2>1 DEF BouncerInv
<1>4. CASE B!ServerAnswers \/ B!ServerNotifies
  <2>1. Shape => Shape'
    BY Zenon, <1>4, AnswerShape, NotifyShape DEF BouncerInv
  <2>2. UNCHANGED <<bpc, result, torn, alive>>
    BY Zenon, <1>4 DEF B!ServerAnswers, B!ServerNotifies, B!bindVars
  <2> QED  BY Zenon, <1>1, <2>1, <2>2 DEF BouncerInv, Kept, GivenUpForCause, B!GivenUpForCause
<1>5. CASE B!ServerBreaks
  <2>1. alive' = FALSE /\ UNCHANGED <<bpc, result, torn>>
    BY Zenon, <1>5 DEF B!ServerBreaks, B!bindVars
  <2> QED  BY Zenon, <1>1, <2>1 DEF BouncerInv, Kept, GivenUpForCause, B!GivenUpForCause
<1> QED  BY Zenon, <1>2, <1>3, <1>4, <1>5 DEF B!Next

\* So does a step of which the bouncer has no part.
LEMMA BouncerStutter ==
  ASSUME BouncerInv, UNCHANGED bouncerVars
  PROVE  BouncerInv'
<1> USE DEF bouncerVars
<1>1. UNCHANGED <<Copied, Open, Closed>>
  BY Zenon DEF Copied, Open, Closed, Batch
<1>2. UNCHANGED <<Quiet, Answered, Sending>>
  BY Zenon, <1>1 DEF Quiet, Answered, Sending, EndsWith
<1>3. \A q : Asked(q)' = Asked(q)
  BY Zenon DEF Asked
<1>4. UNCHANGED <<Offered({<<>>}), Offered({<<>>, <<"Sync">>})>>
  BY Zenon DEF Offered, EndsWith
<1>5. UNCHANGED <<Sent({<<>>}), Sent(Open), Sent(Closed)>>
  BY Zenon, <1>1 DEF Sent
<1>6. UNCHANGED <<Calling, Aborting, Querying, CopyingIn>>
  BY Zenon, <1>2, <1>3, <1>4, <1>5 DEF Calling, Aborting, Querying, CopyingIn
<1>7. UNCHANGED <<Batching, Syncing, CopyingInBatch>>
  BY Zenon, <1>1, <1>2, <1>4, <1>5 DEF Batching, Syncing, CopyingInBatch
<1>8. UNCHANGED Shape
  BY Zenon, <1>2, <1>6, <1>7 DEF Shape, InLoop
<1>9. UNCHANGED B!TypeOK
  BY Zenon DEF B!TypeOK
<1>10. UNCHANGED Kept
  BY Zenon, <1>8 DEF Kept, GivenUpForCause, B!GivenUpForCause
<1> QED  BY Zenon, <1>9, <1>10 DEF BouncerInv

\* The invariant holds initially, and says what the bouncer promises.
LEMMA BouncerInitially ==
  /\ B!Init => BouncerInv
  /\ BouncerInv => ServerClean /\ GivenUpForCause
<1>1. ASSUME B!Init PROVE BouncerInv
  <2>1. <<>> \in Seq(Junk) /\ <<>> \in Seq(Notes)
    BY Zenon, EmptySeq
  <2>2. Shape
    BY Zenon, <1>1, <2>1 DEF B!Init, Shape, InLoop, Quiet
  <2>3. B!TypeOK
    <3>1. /\ toServer \in Seq(B!ClientPackets \cup {"Abort"}) /\ toBouncer \in Seq(B!ServerPackets)
          /\ sent \in 0..MaxPackets /\ notices \in 0..MaxNotices
      BY <1>1, RelayAssumption, EmptySeq DEF B!Init
    <3> QED  BY Zenon, <1>1, <3>1 DEF B!Init, B!TypeOK, B!Status, B!ClientPackets
  <2> QED  BY Zenon, <1>1, <2>2, <2>3 DEF B!Init, BouncerInv, Kept, GivenUpForCause, B!GivenUpForCause
<1>2. ASSUME BouncerInv PROVE ServerClean /\ GivenUpForCause
  <2>1. ASSUME Quiet
        PROVE  /\ \A i \in DOMAIN toBouncer : toBouncer[i] = "Notice"
               /\ \A i \in DOMAIN toServer : toServer[i] \in {"CopyData"} \cup B!CopyEnds
    <3>1. /\ \A i \in DOMAIN toBouncer : toBouncer[i] \in Notes
          /\ \A i \in DOMAIN toServer : toServer[i] \in Junk
      BY Zenon, <2>1, LenProperties DEF Quiet
    <3> QED  BY Zenon, <3>1 DEF Notes, Junk
  <2>2. B!Clean
    BY Zenon, <1>2, <2>1 DEF B!Clean, BouncerInv, Kept, Shape, Quiet
  <2>3. B!TxStateTrue
    BY Zenon, <1>2 DEF B!TxStateTrue, BouncerInv, Kept, Shape
  <2> QED  BY Zenon, <1>2, <2>2, <2>3 DEF ServerClean, B!ServerClean, BouncerInv, Kept
<1> QED  BY Zenon, <1>1, <1>2

\* The grammar is an invariant of the bouncer, and of the lifo pooler beside it.
LEMMA BouncerInductive == RelaySpec => []BouncerInv
<1>1. RelayInit => BouncerInv
  BY Zenon, BouncerInitially DEF RelayInit
<1>2. BouncerInv /\ [RelayNext]_<<which, vars, bouncerVars>> => BouncerInv'
  <2> SUFFICES ASSUME BouncerInv, [RelayNext]_<<which, vars, bouncerVars>>
               PROVE  BouncerInv'
    BY Zenon
  <2>1. CASE UNCHANGED bouncerVars
    BY Zenon, <2>1, BouncerStutter
  <2>2. CASE B!Next
    BY Zenon, <2>2, BouncerStep
  <2> QED  BY Zenon, <2>1, <2>2 DEF RelayNext
<1> QED  BY <1>1, <1>2, PTL DEF RelaySpec

\* Whatever a client sends, in whatever order, and wherever it vanishes: the
\* server that Transaction returns without a server error has nothing left to
\* answer, has left no answer behind and is in no transaction, and the status by
\* which it was kept until then was its own.
THEOREM BouncerServerClean == RelaySpec => []ServerClean
<1>1. BouncerInv => ServerClean
  BY Zenon, BouncerInitially
<1> QED  BY <1>1, BouncerInductive, PTL

\* A server is given up only when its connection is broken or a packet of the
\* client broke off half way to it: the bouncer never meets a packet it does not
\* expect from a server that works.
THEOREM BouncerGivesUpForCause == RelaySpec => []GivenUpForCause
<1>1. BouncerInv => GivenUpForCause
  BY Zenon, BouncerInitially
<1> QED  BY <1>1, BouncerInductive, PTL

-----------------------------------------------------------------------------
(* The pooler.                                                             *)

PP == INSTANCE PoolerProofs WITH
        idle <- Elements(queue),
        waiters <- {c \in Clients : Queued(c)},
        owner <- [c \in Clients |-> Owned(c)]

\* A step of the interface keeps the promises of the interface.
LEMMA InterfaceStep == P!PoolerInv /\ [P!Next]_(P!vars) => P!PoolerInv'
<1>1. Nil \notin Servers
  BY Zenon, LifoAssumption
<1> QED
  BY Zenon, <1>1, PP!PoolerStep
  DEF P!PoolerInv, P!TypeOK, P!Exclusive, P!Conserved, P!WorkConserving,
      P!Consistent, P!Next, P!vars, P!AddServer, P!DeleteServer, P!Acquire,
      P!GiveUp, P!Release, P!Close, P!Place,
      PP!PoolerInv, PP!TypeOK, PP!Exclusive, PP!Conserved, PP!WorkConserving,
      PP!Consistent, PP!Next, PP!vars, PP!AddServer, PP!DeleteServer,
      PP!Acquire, PP!GiveUp, PP!Release, PP!Close, PP!Place

\* What LifoInv says apart from the promises of the interface.
OwnInv ==
  /\ TypeOK /\ NeverWedged /\ FilledOK /\ CallsOK /\ WaitersOK /\ NoWaiterLost
  /\ PooledChansClean /\ KnownOK

\* The initial state.
LEMMA LifoInitially == Init => LifoInv /\ P!Init
<1> SUFFICES ASSUME Init PROVE LifoInv /\ P!Init
  BY Zenon
<1> USE DEF Init, ChannelsInit
<1>1. Elements(queue) = {} /\ Elements(waiters) = {} /\ Elements(cc) = {}
  BY Zenon, EmptyElements
<1>2. Distinct(queue) /\ Distinct(waiters) /\ Distinct(cc)
  BY Zenon, EmptyElements
<1>3. [c \in Clients |-> Owned(c)] = [c \in Clients |-> Nil]
  BY Zenon DEF Owned
<1>4. {c \in Clients : Queued(c)} = {}
  BY Zenon, <1>1 DEF Queued
<1>5. TypeOK
  BY Zenon, EmptyElements DEF TypeOK, ChannelsType, Wedges
<1>6. OwnInv
  BY Zenon, <1>1, <1>2, <1>5 DEF OwnInv, NeverWedged, FilledOK, CallsOK, WaitersOK, NoWaiterLost,
     Blocked, PooledChansClean, KnownOK, Owned
<1>7. P!Init
  BY Zenon, <1>1, <1>3, <1>4 DEF P!Init
<1>8. P!PoolerInv
  BY Zenon, <1>1, <1>3, <1>4 DEF P!PoolerInv, P!TypeOK, P!Exclusive, P!Conserved,
     P!WorkConserving, P!Consistent
<1> QED  BY Zenon, <1>6, <1>7, <1>8 DEF LifoInv, OwnInv, Promises

-----------------------------------------------------------------------------
\* release gives a free server to the oldest waiter, whose channel has room
\* for it, or queues it.  hold and chan may change with the calling action.
LEMMA ReleaseCases ==
  ASSUME LifoInv, NEW s \in Servers, s \notin Elements(queue), release(s)
  PROVE  \/ \E d \in Clients :
              /\ waiters # <<>>
              /\ chan[d] = Head(waiters)
              /\ buf' = [buf EXCEPT ![chan[d]] = s]
              /\ wedged' = wedged /\ waiters' = Tail(waiters) /\ queue' = queue
              /\ Elements(waiters') = Elements(waiters) \ {chan[d]}
              /\ Distinct(waiters')
              /\ waiters' \in Seq(Chans)
              /\ chan[d] \in Elements(waiters)
         \/ /\ waiters = <<>> /\ Elements(waiters) = {}
            /\ queue' = Append(queue, s)
            /\ Elements(queue') = Elements(queue) \cup {s}
            /\ Distinct(queue') /\ queue' \in Seq(Servers)
            /\ waiters' = waiters /\ buf' = buf /\ wedged' = wedged
<1>1. CASE waiters # <<>> /\ Send(Head(waiters), s, buf) /\ waiters' = Tail(waiters)
           /\ queue' = queue
  <2> DEFINE h == Head(waiters)
  <2>1. /\ Tail(waiters) \in Seq(Chans) /\ h \in Chans /\ h \in Elements(waiters)
        /\ Elements(Tail(waiters)) = Elements(waiters) \ {h}
        /\ Distinct(Tail(waiters))
    BY Zenon, <1>1, TailElements DEF LifoInv, TypeOK, WaitersOK
  <2>2. buf[h] = Nil /\ h \notin shut /\ \E d \in Clients : chan[d] = h
    BY Zenon, <2>1 DEF LifoInv, WaitersOK
  <2>3. buf' = [buf EXCEPT ![h] = s] /\ wedged' = wedged
    BY Zenon, <1>1, <2>2 DEF Send
  <2> HIDE DEF h
  <2> QED  BY Zenon, <1>1, <2>1, <2>2, <2>3 DEF h
<1>2. CASE waiters = <<>> /\ queue' = Append(queue, s)
           /\ waiters' = waiters /\ buf' = buf /\ wedged' = wedged
  BY Zenon, <1>2, AppendElements, EmptyElements DEF LifoInv, TypeOK, KnownOK
<1> QED  BY Zenon, <1>1, <1>2 DEF release

\* AddServer is AddServer of the interface.
LEMMA AddServerStep ==
  ASSUME LifoInv, NEW s \in Servers, AddServer(s)
  PROVE  OwnInv' /\ P!AddServer(s)
<1> USE LifoAssumption
<1>1. /\ s \notin known /\ known' = known \cup {s} /\ servers' = servers \cup {s}
      /\ closed' = closed /\ cc' = cc /\ shut' = shut /\ pc' = pc /\ chan' = chan
      /\ hold' = hold /\ release(s) /\ wedged = "no"
  BY Zenon DEF AddServer, callVars, Unlocked
<1>2. s \notin Elements(queue) /\ s \notin servers
      /\ \A c \in Clients : Owned(c) # s
  BY Zenon, <1>1 DEF LifoInv, KnownOK, Promises, P!PoolerInv, P!Consistent
<1>3. CASE \E d \in Clients :
              /\ waiters # <<>>
              /\ chan[d] = Head(waiters)
              /\ buf' = [buf EXCEPT ![chan[d]] = s]
              /\ wedged' = wedged /\ waiters' = Tail(waiters) /\ queue' = queue
              /\ Elements(waiters') = Elements(waiters) \ {chan[d]}
              /\ Distinct(waiters')
              /\ waiters' \in Seq(Chans)
              /\ chan[d] \in Elements(waiters)
  <2>1. PICK d \in Clients :
              /\ buf' = [buf EXCEPT ![chan[d]] = s]
              /\ wedged' = wedged /\ queue' = queue
              /\ Elements(waiters') = Elements(waiters) \ {chan[d]}
              /\ Distinct(waiters')
              /\ waiters' \in Seq(Chans)
              /\ chan[d] \in Elements(waiters)
    BY Zenon, <1>3
  <2>2. /\ chan[d] \in Chans /\ hold[d] = Nil /\ chan[d] # Nil
        /\ \A c \in Clients : chan[c] = chan[d] => c = d
    <3>1. chan[d] \in Chans
      BY Zenon, <2>1, ElementsType DEF LifoInv, TypeOK
    <3> QED  BY Zenon, <3>1 DEF LifoInv, TypeOK, CallsOK
  <2>3. TypeOK'
    BY Zenon, <1>1, <2>1, <2>2 DEF LifoInv, TypeOK, ChannelsType
  <2>4. NeverWedged' /\ FilledOK' /\ CallsOK' /\ WaitersOK' /\ NoWaiterLost' /\ PooledChansClean'
    BY <1>1, <2>1, <2>2 DEF LifoInv, NeverWedged, FilledOK, CallsOK, WaitersOK, NoWaiterLost,
       PooledChansClean, Blocked, Queued, InUse, TypeOK, ChannelsType
  <2>5. \A c \in Clients : Owned(c)' = IF c = d THEN s ELSE Owned(c)
    BY Zenon, <1>1, <2>1, <2>2 DEF Owned, LifoInv, TypeOK, ChannelsType
  <2>6. KnownOK'
    BY Zenon, <1>1, <2>1, <2>5 DEF LifoInv, KnownOK
  <2>7. {c \in Clients : Queued(c)}' = {c \in Clients : Queued(c)} \ {d}
        /\ d \in {c \in Clients : Queued(c)}
    BY Zenon, <1>1, <2>1, <2>2 DEF Queued
  <2>8. [c \in Clients |-> Owned(c)]' = [[c \in Clients |-> Owned(c)] EXCEPT ![d] = s]
    BY Zenon, <2>5
  <2>9. P!Place(s, [c \in Clients |-> Owned(c)])
    BY Zenon, <2>1, <2>7, <2>8 DEF P!Place
  <2> QED  BY Zenon, <1>1, <1>2, <2>3, <2>4, <2>6, <2>9 DEF OwnInv, P!AddServer
<1>4. CASE /\ waiters = <<>> /\ Elements(waiters) = {}
           /\ queue' = Append(queue, s)
           /\ Elements(queue') = Elements(queue) \cup {s}
           /\ Distinct(queue') /\ queue' \in Seq(Servers)
           /\ waiters' = waiters /\ buf' = buf /\ wedged' = wedged
  <2>1. \A c \in Clients : Owned(c)' = Owned(c) /\ ~Queued(c) /\ ~Queued(c)'
    BY Zenon, <1>1, <1>4 DEF Owned, Queued
  <2>2. OwnInv'
    BY <1>1, <1>4, <2>1 DEF LifoInv, OwnInv, TypeOK, ChannelsType, NeverWedged, FilledOK, CallsOK,
       WaitersOK, NoWaiterLost, PooledChansClean, KnownOK, Blocked, Queued, InUse
  <2>3. P!Place(s, [c \in Clients |-> Owned(c)])
    BY Zenon, <1>4, <2>1 DEF P!Place
  <2> QED  BY Zenon, <1>1, <1>2, <2>2, <2>3 DEF P!AddServer
<1> QED  BY Zenon, <1>1, <1>2, <1>3, <1>4, ReleaseCases

\* Release is Release of the interface.
LEMMA ReleaseStep ==
  ASSUME LifoInv, NEW c \in Clients, Release(c)
  PROVE  OwnInv' /\ P!Release(c)
<1> USE LifoAssumption
<1> DEFINE s == hold[c]
           own == [[x \in Clients |-> Owned(x)] EXCEPT ![c] = Nil]
<1>1. /\ s \in Servers /\ hold' = [hold EXCEPT ![c] = Nil]
      /\ servers' = servers /\ closed' = closed /\ cc' = cc /\ shut' = shut
      /\ pc' = pc /\ chan' = chan /\ known' = known /\ wedged = "no"
      /\ chan[c] = Nil
  BY Zenon DEF Release, Unlocked, LifoInv, TypeOK, CallsOK
<1>2. /\ Owned(c) = s /\ s \notin Elements(queue)
      /\ [x \in Clients |-> Owned(x)][c] = s
      /\ \A x \in Clients : x # c => Owned(x) # s
  BY Zenon, <1>1 DEF Owned, LifoInv, Promises, P!PoolerInv, P!Exclusive
<1>3. CASE s \in servers
  <2>1. release(s)
    BY Zenon, <1>1, <1>3 DEF Release
  <2>2. CASE \E d \in Clients :
              /\ waiters # <<>>
              /\ chan[d] = Head(waiters)
              /\ buf' = [buf EXCEPT ![chan[d]] = s]
              /\ wedged' = wedged /\ waiters' = Tail(waiters) /\ queue' = queue
              /\ Elements(waiters') = Elements(waiters) \ {chan[d]}
              /\ Distinct(waiters')
              /\ waiters' \in Seq(Chans)
              /\ chan[d] \in Elements(waiters)
    <3>1. PICK d \in Clients :
              /\ buf' = [buf EXCEPT ![chan[d]] = s]
              /\ wedged' = wedged /\ queue' = queue
              /\ Elements(waiters') = Elements(waiters) \ {chan[d]}
              /\ Distinct(waiters')
              /\ waiters' \in Seq(Chans)
              /\ chan[d] \in Elements(waiters)
      BY Zenon, <2>2
    <3>2. chan[d] \in Chans
      BY Zenon, <3>1, ElementsType DEF LifoInv, TypeOK
    <3>3. /\ hold[d] = Nil /\ chan[d] # Nil /\ c # d
          /\ \A x \in Clients : chan[x] = chan[d] => x = d
      BY Zenon, <1>1, <3>2 DEF LifoInv, TypeOK, CallsOK
    <3>4. TypeOK'
      BY Zenon, <1>1, <3>1, <3>2 DEF LifoInv, TypeOK, ChannelsType
    <3>5. NeverWedged' /\ FilledOK' /\ CallsOK' /\ WaitersOK' /\ NoWaiterLost' /\ PooledChansClean'
      BY <1>1, <3>1, <3>2, <3>3 DEF LifoInv, NeverWedged, FilledOK, CallsOK, WaitersOK,
         NoWaiterLost, PooledChansClean, Blocked, Queued, InUse, TypeOK, ChannelsType
    <3>6. \A x \in Clients : Owned(x)' = IF x = d THEN s ELSE own[x]
      BY Zenon, <1>1, <3>1, <3>2, <3>3 DEF Owned, LifoInv, TypeOK, ChannelsType
    <3>7. KnownOK'
      BY Zenon, <1>1, <1>2, <3>1, <3>6 DEF LifoInv, KnownOK
    <3>8. {x \in Clients : Queued(x)}' = {x \in Clients : Queued(x)} \ {d}
          /\ d \in {x \in Clients : Queued(x)}
      BY Zenon, <1>1, <3>1, <3>3 DEF Queued
    <3>9. [x \in Clients |-> Owned(x)]' = [own EXCEPT ![d] = s]
      BY Zenon, <3>6
    <3>10. P!Place(s, own)
      BY Zenon, <3>1, <3>8, <3>9 DEF P!Place
    <3>11. P!Release(c)
      BY Zenon, <1>1, <1>2, <1>3, <3>10 DEF P!Release
    <3> QED  BY Zenon, <3>4, <3>5, <3>7, <3>11 DEF OwnInv
  <2>3. CASE /\ waiters = <<>> /\ Elements(waiters) = {}
             /\ queue' = Append(queue, s)
             /\ Elements(queue') = Elements(queue) \cup {s}
             /\ Distinct(queue') /\ queue' \in Seq(Servers)
             /\ waiters' = waiters /\ buf' = buf /\ wedged' = wedged
    <3>1. \A x \in Clients : /\ Owned(x)' = own[x]
                             /\ ~Queued(x) /\ ~Queued(x)'
      BY Zenon, <1>1, <2>3 DEF Owned, Queued, LifoInv, TypeOK
    <3>2. OwnInv'
      <4>1. TypeOK'
        BY Zenon, <1>1, <2>3 DEF LifoInv, TypeOK, ChannelsType
      <4>2. NeverWedged' /\ FilledOK' /\ CallsOK' /\ WaitersOK' /\ NoWaiterLost' /\ PooledChansClean'
        BY <1>1, <2>3 DEF LifoInv, TypeOK, NeverWedged, FilledOK, CallsOK, WaitersOK,
           NoWaiterLost, PooledChansClean, Blocked, Queued, InUse
      <4>3. KnownOK'
        BY Zenon, <1>1, <2>3, <3>1 DEF LifoInv, KnownOK
      <4> QED  BY Zenon, <4>1, <4>2, <4>3 DEF OwnInv
    <3>3. P!Place(s, own)
      BY Zenon, <2>3, <3>1 DEF P!Place
    <3>4. P!Release(c)
      BY Zenon, <1>1, <1>2, <1>3, <3>3 DEF P!Release
    <3> QED  BY Zenon, <3>2, <3>4
  <2> HIDE DEF s
  <2> QED  BY Zenon, <1>1, <1>2, <2>1, <2>2, <2>3, ReleaseCases
<1>4. CASE s \notin servers
  <2>1. queue' = queue /\ waiters' = waiters /\ buf' = buf /\ wedged' = wedged
    BY Zenon, <1>4 DEF Release
  <2>2. \A x \in Clients : Owned(x)' = own[x] /\ (Queued(x)' <=> Queued(x))
    BY Zenon, <1>1, <2>1 DEF Owned, Queued, LifoInv, TypeOK
  <2>3. OwnInv'
    <3>1. TypeOK'
      BY Zenon, <1>1, <2>1 DEF LifoInv, TypeOK, ChannelsType
    <3>2. NeverWedged' /\ FilledOK' /\ CallsOK' /\ WaitersOK' /\ NoWaiterLost' /\ PooledChansClean'
      BY <1>1, <2>1 DEF LifoInv, TypeOK, NeverWedged, FilledOK, CallsOK, WaitersOK,
         NoWaiterLost, PooledChansClean, Blocked, Queued, InUse
    <3>3. KnownOK'
      BY Zenon, <1>1, <2>1, <2>2 DEF LifoInv, KnownOK
    <3> QED  BY Zenon, <3>1, <3>2, <3>3 DEF OwnInv
  <2>4. P!Release(c)
    BY Zenon, <1>1, <1>2, <1>4, <2>1, <2>2 DEF P!Release
  <2> QED  BY Zenon, <2>3, <2>4
<1> QED  BY Zenon, <1>3, <1>4

\* DeleteServer is DeleteServer of the interface.
LEMMA DeleteServerStep ==
  ASSUME LifoInv, NEW s \in Servers, DeleteServer(s)
  PROVE  OwnInv' /\ P!DeleteServer(s)
<1>1. /\ queue' = Remove(queue, s) /\ servers' = servers \ {s}
      /\ UNCHANGED <<waiters, closed, cc, buf, shut, wedged, pc, chan, hold, known>>
  BY Zenon DEF DeleteServer, chanVars, callVars
<1>2. queue' \in Seq(Servers) /\ Distinct(queue')
      /\ Elements(queue') = Elements(queue) \ {s}
  BY Zenon, <1>1, RemoveProperties DEF LifoInv, TypeOK, KnownOK
<1>3. \A x \in Clients : Owned(x)' = Owned(x) /\ (Queued(x)' <=> Queued(x))
  BY Zenon, <1>1 DEF Owned, Queued
<1>4. OwnInv'
  BY <1>1, <1>2, <1>3 DEF LifoInv, OwnInv, TypeOK, ChannelsType, NeverWedged, FilledOK,
     CallsOK, WaitersOK, NoWaiterLost, PooledChansClean, KnownOK, Blocked, Queued,
     InUse
<1>5. P!DeleteServer(s)
  BY Zenon, <1>1, <1>2, <1>3 DEF P!DeleteServer
<1> QED  BY Zenon, <1>4, <1>5

\* An Acquire that finds an idle server is Acquire of the interface.
LEMMA AcquireIdleStep ==
  ASSUME LifoInv, NEW c \in Clients, AcquireIdle(c)
  PROVE  OwnInv' /\ P!Acquire(c)
<1> USE LifoAssumption
<1> DEFINE s == queue[Len(queue)]
<1>1. /\ ~closed /\ pc[c] = "idle" /\ hold[c] = Nil /\ queue # <<>>
      /\ hold' = [hold EXCEPT ![c] = s]
      /\ queue' = SubSeq(queue, 1, Len(queue) - 1)
      /\ UNCHANGED <<servers, waiters, closed, cc, buf, shut, wedged, pc, chan, known>>
  BY Zenon DEF AcquireIdle, CanAcquire, chanVars
<1>2. /\ queue' \in Seq(Servers) /\ s \in Servers /\ s \in Elements(queue)
      /\ Elements(queue') = Elements(queue) \ {s} /\ Distinct(queue')
  BY Zenon, <1>1, FrontElements DEF LifoInv, TypeOK, KnownOK
<1> HIDE DEF s
<1>3. chan[c] = Nil /\ s \in servers /\ s # Nil
  BY Zenon, <1>1, <1>2 DEF LifoInv, CallsOK, Promises, P!PoolerInv, P!Consistent
<1>4. \A x \in Clients : /\ Owned(x)' = IF x = c THEN s ELSE Owned(x)
                         /\ Queued(x)' <=> Queued(x)
  BY Zenon, <1>1, <1>3 DEF Owned, Queued, LifoInv, TypeOK
<1>5. OwnInv'
  <2>1. TypeOK'
    BY Zenon, <1>1, <1>2 DEF LifoInv, TypeOK, ChannelsType
  <2>2. NeverWedged' /\ FilledOK' /\ CallsOK' /\ WaitersOK' /\ NoWaiterLost' /\ PooledChansClean'
    BY <1>1, <1>3 DEF LifoInv, TypeOK, NeverWedged, FilledOK, CallsOK, WaitersOK,
       NoWaiterLost, PooledChansClean, Blocked, Queued, InUse
  <2>3. KnownOK'
    BY Zenon, <1>1, <1>2, <1>3, <1>4 DEF LifoInv, KnownOK
  <2> QED  BY Zenon, <2>1, <2>2, <2>3 DEF OwnInv
<1>6. Owned(c) = Nil /\ ~Queued(c)
  <2>1. Nil \notin Elements(waiters)
    BY Zenon, ElementsType DEF LifoInv, TypeOK
  <2> QED  BY Zenon, <1>1, <1>3, <2>1 DEF Owned, Queued
<1>7. [x \in Clients |-> Owned(x)]' = [[x \in Clients |-> Owned(x)] EXCEPT ![c] = s]
      /\ {x \in Clients : Queued(x)}' = {x \in Clients : Queued(x)}
  BY Zenon, <1>4
<1>8. P!Acquire(c)
  BY Zenon, <1>1, <1>2, <1>6, <1>7 DEF P!Acquire
<1> QED  BY Zenon, <1>5, <1>8

\* An Acquire that has to wait is Acquire of the interface.
LEMMA AcquireWaitStep ==
  ASSUME LifoInv, NEW c \in Clients, AcquireWait(c)
  PROVE  OwnInv' /\ P!Acquire(c)
<1> USE LifoAssumption
<1>1. PICK h \in Chans :
        /\ GetChan(h, InUse)
        /\ waiters' = Append(waiters, h)
        /\ chan' = [chan EXCEPT ![c] = h]
  BY Zenon DEF AcquireWait
<1>2. /\ ~closed /\ pc[c] = "idle" /\ hold[c] = Nil /\ queue = <<>>
      /\ pc' = [pc EXCEPT ![c] = "waiting"]
      /\ UNCHANGED <<servers, queue, closed, wedged, hold, known>>
  BY Zenon DEF AcquireWait, CanAcquire
<1>3. chan[c] = Nil
  BY Zenon, <1>2 DEF LifoInv, CallsOK
\* Whether recycled or new, the channel is empty, open and nobody else's.
<1>4. /\ h \notin InUse
      /\ cc' \in Seq(Chans) /\ Distinct(cc') /\ Elements(cc') = Elements(cc) \ {h}
      /\ buf' = [buf EXCEPT ![h] = Nil] /\ shut' = shut \ {h}
  <2>1. CASE /\ cc # <<>> /\ h = cc[Len(cc)] /\ cc' = SubSeq(cc, 1, Len(cc) - 1)
             /\ buf' = buf /\ shut' = shut
    <3>1. /\ cc' \in Seq(Chans) /\ Distinct(cc')
          /\ Elements(cc') = Elements(cc) \ {h} /\ h \in Elements(cc)
      BY Zenon, <2>1, FrontElements DEF LifoInv, TypeOK, ChannelsType, PooledChansClean
    <3>2. buf[h] = Nil /\ h \notin shut /\ h \notin InUse
      BY Zenon, <3>1 DEF LifoInv, PooledChansClean
    <3> QED  BY <2>1, <3>1, <3>2 DEF LifoInv, TypeOK, ChannelsType
  <2>2. CASE /\ cc = <<>> /\ h \in Chans \ InUse /\ buf' = [buf EXCEPT ![h] = Nil]
             /\ shut' = shut \ {h} /\ cc' = cc
    BY Zenon, <2>2, EmptyElements
  <2> QED  BY Zenon, <1>1, <2>1, <2>2 DEF GetChan
<1>5. h \notin Elements(waiters) /\ \A x \in Clients : chan[x] # h
  BY Zenon, <1>4 DEF InUse
<1>6. /\ waiters' \in Seq(Chans) /\ Distinct(waiters')
      /\ Elements(waiters') = Elements(waiters) \cup {h}
  BY Zenon, <1>1, <1>5, AppendElements DEF LifoInv, TypeOK, WaitersOK
<1>7. TypeOK'
  BY Zenon, <1>1, <1>2, <1>4, <1>6 DEF LifoInv, TypeOK, ChannelsType
<1>8. NeverWedged' /\ FilledOK' /\ CallsOK' /\ WaitersOK' /\ NoWaiterLost'
  <2>1. NeverWedged' /\ FilledOK' /\ CallsOK'
    BY Zenon, <1>1, <1>2, <1>3, <1>4, <1>5 DEF LifoInv, TypeOK, ChannelsType, NeverWedged,
       FilledOK, CallsOK
  <2>2. \A x \in Clients : chan'[x] = IF x = c THEN h ELSE chan[x]
    BY Zenon, <1>1 DEF LifoInv, TypeOK
  <2>3. WaitersOK'
    <3>1. SUFFICES ASSUME NEW k \in Elements(waiters')
                   PROVE  buf'[k] = Nil /\ k \notin shut' /\ \E x \in Clients : chan'[x] = k
      BY Zenon, <1>6 DEF WaitersOK
    <3>2. CASE k = h
      BY Zenon, <1>4, <2>2, <3>2 DEF LifoInv, TypeOK, ChannelsType
    <3>3. CASE k # h
      <4>1. k \in Elements(waiters) /\ k \in Chans
        BY Zenon, <1>6, <3>3, ElementsType DEF LifoInv, TypeOK
      <4>2. PICK x \in Clients : chan[x] = k
        BY Zenon, <4>1 DEF LifoInv, WaitersOK
      <4>3. x # c
        BY Zenon, <1>3, <4>1, <4>2
      <4>4. chan'[x] = k
        BY Zenon, <2>2, <4>2, <4>3
      <4>5. buf'[k] = Nil /\ k \notin shut'
        BY Zenon, <1>4, <3>3, <4>1 DEF LifoInv, TypeOK, ChannelsType, WaitersOK
      <4> QED  BY Zenon, <4>4, <4>5
    <3> QED  BY Zenon, <3>2, <3>3
  <2>4. NoWaiterLost'
    BY Zenon, <1>2, <1>4, <1>5, <1>6, <2>2 DEF LifoInv, TypeOK, ChannelsType, CallsOK,
       NoWaiterLost, Blocked, Queued
  <2> QED  BY Zenon, <2>1, <2>3, <2>4
<1>9. PooledChansClean'
  BY <1>1, <1>3, <1>4, <1>6 DEF LifoInv, TypeOK, ChannelsType, PooledChansClean, InUse
<1>10. Nil \notin Elements(waiters) /\ ~Queued(c) /\ Owned(c) = Nil
  <2>1. Nil \notin Elements(waiters)
    BY Zenon, ElementsType DEF LifoInv, TypeOK
  <2> QED  BY Zenon, <1>2, <1>3, <2>1 DEF Owned, Queued
<1>11. \A x \in Clients : /\ Owned(x)' = Owned(x)
                          /\ Queued(x)' <=> Queued(x) \/ x = c
  BY Zenon, <1>1, <1>2, <1>3, <1>4, <1>5, <1>6, <1>10 DEF Owned, Queued, LifoInv, TypeOK,
     ChannelsType
<1>12. KnownOK'
  BY Zenon, <1>2, <1>11 DEF LifoInv, KnownOK
<1>13. P!Acquire(c)
  <2>1. Elements(queue) = {} /\ Elements(queue)' = Elements(queue)
    BY Zenon, <1>2, EmptyElements
  <2>2. {x \in Clients : Queued(x)}' = {x \in Clients : Queued(x)} \cup {c}
        /\ [x \in Clients |-> Owned(x)]' = [x \in Clients |-> Owned(x)]
    BY Zenon, <1>11
  <2> QED  BY Zenon, <1>2, <1>10, <2>1, <2>2 DEF P!Acquire
<1> QED  BY Zenon, <1>7, <1>8, <1>9, <1>12, <1>13 DEF OwnInv

\* A call that takes what is in its channel, or finds the channel closed and
\* empty, returns; who owns what does not change.
LEMMA ReceiveStep ==
  ASSUME LifoInv, NEW c \in Clients, pc[c] # "idle", ~Queued(c),
         Return(c, buf[chan[c]]),
         buf' = [buf EXCEPT ![chan[c]] = Nil],
         cc' = IF buf[chan[c]] # Nil THEN Append(cc, chan[c]) ELSE cc,
         buf[chan[c]] = Nil => chan[c] \in shut,
         buf[chan[c]] # Nil => chan[c] \notin shut,
         UNCHANGED <<servers, queue, waiters, closed, shut, wedged, known>>
  PROVE  OwnInv' /\ UNCHANGED P!vars
<1> USE LifoAssumption
<1> DEFINE h == chan[c]
           v == buf[h]
<1>1. h \in Chans /\ hold[c] = Nil /\ v \in Servers \cup {Nil} /\ h \notin Elements(cc)
  BY Zenon DEF LifoInv, TypeOK, ChannelsType, CallsOK, PooledChansClean, InUse
<1>2. /\ pc' = [pc EXCEPT ![c] = "idle"] /\ chan' = [chan EXCEPT ![c] = Nil]
      /\ hold' = [hold EXCEPT ![c] = v] /\ buf' = [buf EXCEPT ![h] = Nil]
  BY Zenon DEF Return
<1>3. \A x \in Clients : x # c => chan[x] # h
  BY Zenon, <1>1 DEF LifoInv, CallsOK
<1>4. /\ cc' \in Seq(Chans) /\ Distinct(cc')
      /\ Elements(cc') = IF v # Nil THEN Elements(cc) \cup {h} ELSE Elements(cc)
  <2>1. cc \in Seq(Chans) /\ Distinct(cc)
    BY Zenon DEF LifoInv, TypeOK, ChannelsType, PooledChansClean
  <2>2. CASE v # Nil
    <3>1. cc' = Append(cc, h)
      BY Zenon, <2>2
    <3> HIDE DEF h, v
    <3> QED  BY <1>1, <2>1, <2>2, <3>1, AppendElements
  <2>3. CASE v = Nil
    BY Zenon, <2>1, <2>3
  <2> QED  BY Zenon, <2>2, <2>3
<1>5. h \notin Elements(waiters) /\ Nil \notin Elements(waiters)
  BY Zenon, ElementsType DEF Queued, LifoInv, TypeOK
<1>6. /\ servers' = servers /\ queue' = queue /\ waiters' = waiters
      /\ closed' = closed /\ shut' = shut /\ wedged' = wedged /\ known' = known
      /\ v = Nil => h \in shut
      /\ v # Nil => h \notin shut
  BY Zenon
<1> HIDE DEF h, v
<1>7. \A x \in Clients : /\ chan'[x] = IF x = c THEN Nil ELSE chan[x]
                         /\ hold'[x] = IF x = c THEN v ELSE hold[x]
                         /\ pc'[x] = IF x = c THEN "idle" ELSE pc[x]
  BY Zenon, <1>2 DEF LifoInv, TypeOK
<1>8. \A k \in Chans : buf'[k] = IF k = h THEN Nil ELSE buf[k]
  BY Zenon, <1>2 DEF LifoInv, TypeOK, ChannelsType
<1>9. TypeOK'
  BY Zenon, <1>1, <1>2, <1>4, <1>6 DEF LifoInv, TypeOK, ChannelsType
<1>10. NeverWedged' /\ FilledOK' /\ CallsOK'
  BY <1>6, <1>7, <1>8 DEF LifoInv, NeverWedged, FilledOK, CallsOK
<1>11. WaitersOK'
  <2>1. SUFFICES ASSUME NEW k \in Elements(waiters)
                 PROVE  buf'[k] = Nil /\ k \notin shut /\ \E x \in Clients : chan'[x] = k
    BY Zenon, <1>6 DEF WaitersOK, LifoInv
  <2>2. PICK x \in Clients : chan[x] = k
    BY Zenon DEF LifoInv, WaitersOK
  <2>3. x # c
    BY Zenon, <1>5, <2>2 DEF h
  <2>4. k \in Chans /\ k # h
    BY Zenon, <1>5, ElementsType DEF LifoInv, TypeOK
  <2> QED  BY Zenon, <1>7, <1>8, <2>2, <2>3, <2>4 DEF LifoInv, WaitersOK
<1>12. NoWaiterLost'
  BY <1>3, <1>6, <1>7, <1>8 DEF LifoInv, TypeOK, CallsOK, NoWaiterLost, Blocked, Queued
<1>13. PooledChansClean'
  <2>1. SUFFICES ASSUME NEW k \in Elements(cc')
                 PROVE  buf'[k] = Nil /\ k \notin shut /\ k \notin InUse'
    BY Zenon, <1>4, <1>6 DEF PooledChansClean
  <2>2. k \in Chans
    BY Zenon, <1>4, ElementsType
  <2>3. CASE k = h
    <3>1. v # Nil
      BY <1>1, <1>4, <2>3
    <3>2. \A x \in Clients : chan'[x] # h
      BY <1>1, <1>3, <1>7
    <3> QED  BY <1>5, <1>6, <1>8, <2>2, <2>3, <3>1, <3>2 DEF InUse
  <2>4. CASE k # h
    BY <1>4, <1>6, <1>7, <1>8, <2>2, <2>4 DEF InUse, LifoInv, PooledChansClean
  <2> QED  BY Zenon, <2>3, <2>4
<1>14. \A x \in Clients : Owned(x)' = Owned(x) /\ (Queued(x)' <=> Queued(x))
  <2> SUFFICES ASSUME NEW x \in Clients
               PROVE  Owned(x)' = Owned(x) /\ (Queued(x)' <=> Queued(x))
    BY Zenon
  <2>1. CASE x = c
    BY Zenon, <1>1, <1>5, <1>6, <1>7, <2>1 DEF Owned, Queued, h, v
  <2>2. CASE x # c
    BY <1>3, <1>6, <1>7, <1>8, <2>2 DEF Owned, Queued, LifoInv, TypeOK
  <2> QED  BY Zenon, <2>1, <2>2
<1>15. KnownOK'
  BY Zenon, <1>6, <1>14 DEF LifoInv, KnownOK
<1>16. UNCHANGED P!vars
  <2>1. {x \in Clients : Queued(x)}' = {x \in Clients : Queued(x)}
        /\ [x \in Clients |-> Owned(x)]' = [x \in Clients |-> Owned(x)]
    BY Zenon, <1>14
  <2>2. Elements(queue)' = Elements(queue)
    BY Zenon, <1>6
  <2> QED  BY Zenon, <1>6, <2>1, <2>2 DEF P!vars
<1> QED  BY Zenon, <1>9, <1>10, <1>11, <1>12, <1>13, <1>15, <1>16 DEF OwnInv

\* The two receives of Acquire.  The one under the mutex never blocks: a channel
\* that is not queued any more has been served or closed.
LEMMA ReceivesStep ==
  ASSUME LifoInv, NEW c \in Clients, Receive(c) \/ TimeoutLost(c)
  PROVE  OwnInv' /\ UNCHANGED P!vars
<1> DEFINE h == chan[c]
<1>0. pc[c] # "idle" /\ h \in Chans
  BY Zenon DEF Receive, TimeoutLost, LifoInv, CallsOK, TypeOK
<1>1. CASE Receive(c)
  <2>1. ~Queued(c)
    BY Zenon, <1>1 DEF Receive, RecvAndPut, LifoInv, WaitersOK, Queued
  <2>2. /\ buf' = [buf EXCEPT ![h] = Nil]
        /\ cc' = IF buf[h] # Nil THEN Append(cc, h) ELSE cc
        /\ buf[h] = Nil => h \in shut
    BY Zenon, <1>0, <1>1 DEF Receive, RecvAndPut, PutChan, LifoInv, TypeOK, ChannelsType
  <2>3. Return(c, buf[h]) /\ UNCHANGED <<servers, queue, waiters, closed, shut, wedged, known>>
    BY Zenon, <1>1 DEF Receive
  <2> QED  BY Zenon, <1>0, <2>1, <2>2, <2>3, ReceiveStep DEF LifoInv, FilledOK
<1>2. CASE TimeoutLost(c)
  <2>1. ~Queued(c)
    BY Zenon, <1>2 DEF TimeoutLost, Queued
  <2>2. buf[h] = Nil => h \in shut
    BY Zenon, <1>0, <2>1 DEF LifoInv, NoWaiterLost, Blocked
  <2>3. /\ buf' = [buf EXCEPT ![h] = Nil]
        /\ cc' = IF buf[h] # Nil THEN Append(cc, h) ELSE cc
        /\ wedged' = wedged
    BY Zenon, <1>2, <2>2 DEF TimeoutLost, RecvLocked
  <2>4. Return(c, buf[h]) /\ UNCHANGED <<servers, queue, waiters, closed, shut, wedged, known>>
    BY Zenon, <1>2, <2>3 DEF TimeoutLost, Unlocked
  <2> QED  BY Zenon, <1>0, <2>1, <2>2, <2>3, <2>4, ReceiveStep DEF LifoInv, FilledOK
<1> QED  BY Zenon, <1>1, <1>2

\* A timer that fires changes nothing yet.
LEMMA TimerStep ==
  ASSUME LifoInv, NEW c \in Clients, TimerFires(c)
  PROVE  OwnInv' /\ UNCHANGED P!vars
<1>1. /\ pc[c] = "waiting" /\ pc' = [pc EXCEPT ![c] = "timedout"]
      /\ UNCHANGED <<servers, queue, waiters, closed, cc, buf, shut, wedged, chan, hold, known>>
  BY Zenon DEF TimerFires, chanVars
<1>2. \A x \in Clients : /\ Owned(x)' = Owned(x) /\ (Queued(x)' <=> Queued(x))
                         /\ pc'[x] = "idle" <=> pc[x] = "idle"
  BY Zenon, <1>1 DEF Owned, Queued, LifoInv, TypeOK
<1>3. TypeOK'
  BY Zenon, <1>1 DEF LifoInv, TypeOK, ChannelsType
<1>4. NeverWedged' /\ FilledOK' /\ CallsOK' /\ WaitersOK' /\ NoWaiterLost' /\ PooledChansClean'
  BY <1>1, <1>2 DEF LifoInv, NeverWedged, FilledOK, CallsOK, WaitersOK, NoWaiterLost,
     PooledChansClean, InUse, Blocked
<1>5. KnownOK'
  BY Zenon, <1>1, <1>2 DEF LifoInv, KnownOK
<1>6. UNCHANGED P!vars
  <2>1. {x \in Clients : Queued(x)}' = {x \in Clients : Queued(x)}
        /\ [x \in Clients |-> Owned(x)]' = [x \in Clients |-> Owned(x)]
    BY Zenon, <1>2
  <2> QED  BY Zenon, <1>1, <2>1 DEF P!vars
<1> QED  BY Zenon, <1>3, <1>4, <1>5, <1>6 DEF OwnInv

\* A timed out call that is still queued gives up; its channel is clean.
LEMMA TimeoutFoundStep ==
  ASSUME LifoInv, NEW c \in Clients, TimeoutFound(c)
  PROVE  OwnInv' /\ P!GiveUp(c)
<1> USE LifoAssumption
<1> DEFINE h == chan[c]
<1>1. /\ pc[c] = "timedout" /\ h \in Elements(waiters)
      /\ waiters' = Remove(waiters, h) /\ cc' = Append(cc, h)
      /\ pc' = [pc EXCEPT ![c] = "idle"] /\ chan' = [chan EXCEPT ![c] = Nil]
      /\ hold' = [hold EXCEPT ![c] = Nil]
      /\ UNCHANGED <<servers, queue, closed, buf, shut, wedged, known>>
  BY Zenon DEF TimeoutFound, PutChan, Return
<1>2. /\ h \in Chans /\ hold[c] = Nil /\ h \notin Elements(cc)
      /\ buf[h] = Nil /\ h \notin shut
      /\ \A x \in Clients : x # c => chan[x] # h
  BY Zenon, <1>1 DEF LifoInv, TypeOK, CallsOK, WaitersOK, PooledChansClean, InUse
<1>3. Nil \notin Elements(waiters)
  BY Zenon, ElementsType DEF LifoInv, TypeOK
<1>4. \A x \in Clients : /\ chan'[x] = IF x = c THEN Nil ELSE chan[x]
                         /\ hold'[x] = IF x = c THEN Nil ELSE hold[x]
                         /\ pc'[x] = IF x = c THEN "idle" ELSE pc[x]
  BY Zenon, <1>1 DEF LifoInv, TypeOK
<1>5. /\ waiters' \in Seq(Chans) /\ Distinct(waiters')
      /\ Elements(waiters') = Elements(waiters) \ {h}
  BY <1>1, RemoveProperties DEF LifoInv, TypeOK, WaitersOK
<1>6. Queued(c) /\ chan[c] = h
  BY Zenon, <1>1 DEF Queued
<1> HIDE DEF h
<1>7. /\ cc' \in Seq(Chans) /\ Distinct(cc') /\ Elements(cc') = Elements(cc) \cup {h}
  <2>1. cc \in Seq(Chans) /\ Distinct(cc)
    BY Zenon DEF LifoInv, TypeOK, ChannelsType, PooledChansClean
  <2> QED  BY <1>1, <1>2, <2>1, AppendElements
<1>8. \A x \in Clients : /\ Owned(x)' = Owned(x)
                         /\ Queued(x)' <=> Queued(x) /\ x # c
  <2> SUFFICES ASSUME NEW x \in Clients
               PROVE  Owned(x)' = Owned(x) /\ (Queued(x)' <=> Queued(x) /\ x # c)
    BY Zenon
  <2>1. CASE x = c
    BY Zenon, <1>1, <1>2, <1>3, <1>4, <1>5, <1>6, <2>1 DEF Owned, Queued
  <2>2. CASE x # c
    BY <1>1, <1>2, <1>4, <1>5, <2>2 DEF Owned, Queued
  <2> QED  BY Zenon, <2>1, <2>2
<1>9. TypeOK'
  BY Zenon, <1>1, <1>5, <1>7 DEF LifoInv, TypeOK, ChannelsType
<1>10. NeverWedged' /\ FilledOK' /\ CallsOK' /\ WaitersOK'
  BY <1>1, <1>2, <1>4, <1>5, <1>6 DEF LifoInv, NeverWedged, FilledOK, CallsOK, WaitersOK
<1>11. NoWaiterLost'
  BY <1>1, <1>2, <1>4, <1>5 DEF LifoInv, NoWaiterLost, Blocked, Queued
<1>12. PooledChansClean'
  BY <1>1, <1>2, <1>3, <1>4, <1>5, <1>7, ElementsType DEF LifoInv, TypeOK, ChannelsType,
     PooledChansClean, InUse
<1>13. KnownOK'
  BY Zenon, <1>1, <1>8 DEF LifoInv, KnownOK
<1>14. P!GiveUp(c)
  <2>1. {x \in Clients : Queued(x)}' = {x \in Clients : Queued(x)} \ {c}
        /\ [x \in Clients |-> Owned(x)]' = [x \in Clients |-> Owned(x)]
        /\ c \in {x \in Clients : Queued(x)}
    BY Zenon, <1>6, <1>8
  <2>2. Elements(queue)' = Elements(queue)
    BY Zenon, <1>1
  <2> QED  BY Zenon, <1>1, <2>1, <2>2 DEF P!GiveUp
<1> QED  BY Zenon, <1>9, <1>10, <1>11, <1>12, <1>13, <1>14 DEF OwnInv

\* Close wakes every waiter, and closes no channel twice.
LEMMA CloseStep ==
  ASSUME LifoInv, Close
  PROVE  OwnInv' /\ P!Close
<1> USE LifoAssumption
<1>1. /\ closed' = TRUE /\ servers' = {} /\ queue' = <<>> /\ waiters' = <<>>
      /\ shut' = shut \cup Elements(waiters)
      /\ UNCHANGED <<cc, buf, wedged, pc, chan, hold, known>>
  BY Zenon DEF Close, CloseAll, callVars, LifoInv, WaitersOK, Unlocked
<1>2. /\ Elements(queue') = {} /\ Elements(waiters') = {}
      /\ Distinct(queue') /\ Distinct(waiters')
      /\ queue' \in Seq(Servers) /\ waiters' \in Seq(Chans)
  BY Zenon, <1>1, EmptyElements
<1>3. Elements(waiters) \subseteq Chans
  BY Zenon, ElementsType DEF LifoInv, TypeOK
<1>4. \A x \in Clients : Owned(x)' = Owned(x) /\ ~Queued(x)'
  BY Zenon, <1>1, <1>2 DEF Owned, Queued
<1>5. TypeOK'
  BY Zenon, <1>1, <1>2, <1>3 DEF LifoInv, TypeOK, ChannelsType
<1>6. NeverWedged' /\ FilledOK' /\ CallsOK' /\ WaitersOK'
  BY Zenon, <1>1, <1>2 DEF LifoInv, NeverWedged, FilledOK, CallsOK, WaitersOK
<1>7. NoWaiterLost'
  BY Zenon, <1>1 DEF LifoInv, NoWaiterLost, Blocked, Queued
<1>8. PooledChansClean'
  BY Zenon, <1>1, <1>2 DEF LifoInv, PooledChansClean, InUse
<1>9. KnownOK'
  BY Zenon, <1>1, <1>2, <1>4 DEF LifoInv, KnownOK
<1>10. P!Close
  <2>1. {x \in Clients : Queued(x)}' = {}
        /\ [x \in Clients |-> Owned(x)]' = [x \in Clients |-> Owned(x)]
    BY Zenon, <1>4
  <2> QED  BY Zenon, <1>1, <1>2, <2>1 DEF P!Close
<1> QED  BY Zenon, <1>5, <1>6, <1>7, <1>8, <1>9, <1>10 DEF OwnInv

\* Nothing happens.
LEMMA StutterStep ==
  ASSUME LifoInv, UNCHANGED vars
  PROVE  OwnInv' /\ UNCHANGED P!vars
<1>1. UNCHANGED <<servers, queue, waiters, closed, cc, buf, shut, wedged, pc, chan, hold, known>>
  BY Zenon DEF vars, chanVars, callVars
<1>2. \A x \in Clients : Owned(x)' = Owned(x) /\ (Queued(x)' <=> Queued(x))
  BY Zenon, <1>1 DEF Owned, Queued
<1>3. OwnInv'
  BY <1>1, <1>2 DEF LifoInv, OwnInv, TypeOK, ChannelsType, NeverWedged, FilledOK,
     CallsOK, WaitersOK, NoWaiterLost, PooledChansClean, KnownOK, Blocked, InUse
<1>4. UNCHANGED P!vars
  <2>1. {x \in Clients : Queued(x)}' = {x \in Clients : Queued(x)}
        /\ [x \in Clients |-> Owned(x)]' = [x \in Clients |-> Owned(x)]
    BY Zenon, <1>2
  <2> QED  BY Zenon, <1>1, <2>1 DEF P!vars
<1> QED  BY Zenon, <1>3, <1>4

-----------------------------------------------------------------------------
\* Every step keeps LifoInv and is a step of the interface, or none.
LEMMA LifoStep == LifoInv /\ [Next]_vars => LifoInv' /\ [P!Next]_(P!vars)
<1> SUFFICES ASSUME LifoInv, [Next]_vars
             PROVE  LifoInv' /\ [P!Next]_(P!vars)
  BY Zenon
<1>1. SUFFICES OwnInv' /\ [P!Next]_(P!vars)
  BY Zenon, InterfaceStep DEF LifoInv, OwnInv, Promises
<1>2. CASE \E s \in Servers : AddServer(s)
  BY Zenon, <1>2, AddServerStep DEF P!Next
<1>3. CASE \E s \in Servers : DeleteServer(s)
  BY Zenon, <1>3, DeleteServerStep DEF P!Next
<1>4. CASE \E c \in Clients : AcquireIdle(c)
  BY Zenon, <1>4, AcquireIdleStep DEF P!Next
<1>5. CASE \E c \in Clients : AcquireWait(c)
  BY Zenon, <1>5, AcquireWaitStep DEF P!Next
<1>6. CASE \E c \in Clients : Receive(c) \/ TimeoutLost(c)
  BY Zenon, <1>6, ReceivesStep
<1>7. CASE \E c \in Clients : TimerFires(c)
  BY Zenon, <1>7, TimerStep
<1>8. CASE \E c \in Clients : TimeoutFound(c)
  BY Zenon, <1>8, TimeoutFoundStep DEF P!Next
<1>9. CASE \E c \in Clients : Release(c)
  BY Zenon, <1>9, ReleaseStep DEF P!Next
<1>10. CASE Close
  BY Zenon, <1>10, CloseStep DEF P!Next
<1>11. CASE UNCHANGED vars
  BY Zenon, <1>11, StutterStep
<1> QED
  BY Zenon, <1>2, <1>3, <1>4, <1>5, <1>6, <1>7, <1>8, <1>9, <1>10, <1>11 DEF Next

\* LifoInv always holds.
THEOREM LifoInvariant == Spec => []LifoInv
<1>1. Init => LifoInv
  BY Zenon, LifoInitially
<1>2. LifoInv /\ [Next]_vars => LifoInv'
  BY Zenon, LifoStep
<1> QED  BY <1>1, <1>2, PTL DEF Spec

\* The variables of lifo.Pooler always have their types.
THEOREM LifoTypeCorrect == Spec => []TypeOK
BY LifoInvariant, PTL DEF LifoInv

\* A blocked Acquire of lifo.Pooler can always be woken: no server or close is
\* lost between the timer firing and the mutex being taken.
THEOREM LifoNoWaiterLost == Spec => []NoWaiterLost
BY LifoInvariant, PTL DEF LifoInv

\* A channel that lifo.Pooler has put back into its pool is open, empty and
\* nobody's.
THEOREM LifoPooledChansClean == Spec => []PooledChansClean
BY LifoInvariant, PTL DEF LifoInv

\* No method of lifo.Pooler blocks for ever or panics while it holds the mutex.
THEOREM LifoNeverWedged == Spec => []NeverWedged
BY LifoInvariant, PTL DEF LifoInv

\* lifo.Pooler gives a server to one client at a time, leaks none, hands out no
\* deleted one and lets nobody wait while one is idle.
THEOREM LifoPromises == Spec => []Promises
BY LifoInvariant, PTL DEF LifoInv

\* lifo.Pooler implements the Pooler interface: exclusive ownership, no leaked
\* server, no waiter while a server is idle, for any clients and servers.
THEOREM LifoRefinement == Spec => ImplementsPooler
<1>1. Init => P!Init
  BY Zenon, LifoInitially
<1>2. LifoInv /\ [Next]_vars => [P!Next]_(P!vars)
  BY Zenon, LifoStep
<1> QED  BY <1>1, <1>2, LifoInvariant, PTL DEF Spec, ImplementsPooler, P!Spec

=============================================================================
