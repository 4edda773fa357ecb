------------------------------ MODULE NetProofs -------------------------------
(***************************************************************************)
(* What goes on around the pools.  The in-memory connection loses,         *)
(* repeats and reorders no byte, reports its end only when everything has  *)
(* been read, and loses no wake-up (MioInv).  A listener serves no more    *)
(* than max_connections (OpenInv), and takes a client to a pool through    *)
(* every handler on its way (RouteInv).  The two sides of a handshake      *)
(* agree, keep TLS and ask for a password before they trust each other     *)
(* (HandshakeInv), and a query over an in-memory connection that succeeds  *)
(* leaves nothing behind (QueryInv).                                       *)
(***************************************************************************)
EXTENDS MCNet, SequenceTheorems, TLAPS

-----------------------------------------------------------------------------
(* Short lists.                                                            *)

\* A list of one message.
LEMMA One ==
  ASSUME NEW a
  PROVE  Head(<<a>>) = a /\ Tail(<<a>>) = <<>> /\ <<a>> # <<>> /\ <<>> \o <<a>> = <<a>>
OBVIOUS

\* Nothing is added to nothing.
LEMMA Nothing == <<>> \o <<>> = <<>>
OBVIOUS

\* The lists of messages of the welcome, from the front.
LEMMA Fronts ==
  ASSUME NEW a, NEW b, NEW c, NEW d, NEW e
  PROVE  /\ Head(<<a, b>>) = a /\ Tail(<<a, b>>) = <<b>>
         /\ Head(<<a, b, c>>) = a /\ Tail(<<a, b, c>>) = <<b, c>>
         /\ Head(<<a, b, c, d>>) = a /\ Tail(<<a, b, c, d>>) = <<b, c, d>>
         /\ Head(<<a, b, c, d, e>>) = a /\ Tail(<<a, b, c, d, e>>) = <<b, c, d, e>>
<1>1. Head(<<a, b>>) = a /\ Tail(<<a, b>>) = <<b>>
  OBVIOUS
<1>2. Head(<<a, b, c>>) = a /\ Tail(<<a, b, c>>) = <<b, c>>
  OBVIOUS
<1>3. Head(<<a, b, c, d>>) = a /\ Tail(<<a, b, c, d>>) = <<b, c, d>>
  OBVIOUS
<1>4. Head(<<a, b, c, d, e>>) = a /\ Tail(<<a, b, c, d, e>>) = <<b, c, d, e>>
  OBVIOUS
<1> QED  BY Zenon, <1>1, <1>2, <1>3, <1>4

\* The welcome is put together, after whatever is still on its way.
LEMMA Joined ==
  ASSUME NEW a, NEW b, NEW c, NEW d, NEW e
  PROVE  /\ <<a, b>> \o <<c, d>> = <<a, b, c, d>>
         /\ <<>> \o <<a, b, c, d>> = <<a, b, c, d>>
         /\ <<e>> \o <<a, b, c, d>> = <<e, a, b, c, d>>
<1>1. <<a, b>> \o <<c, d>> = <<a, b, c, d>>
  <2>1. PICK x : x = <<a, b>> \o <<c, d>>
    BY Zenon
  <2>2. PICK S1 : S1 = {a, b, c, d, e}
    BY Zenon
  <2>3. <<a, b>> \in Seq(S1) /\ <<c, d>> \in Seq(S1) /\ <<a, b, c, d>> \in Seq(S1)
    BY <2>2
  <2>4. x \in Seq(S1) /\ Len(x) = 4
    BY <2>1, <2>3, ConcatProperties
  <2>5. x[1] = a /\ x[2] = b /\ x[3] = c /\ x[4] = d
    BY <2>1, <2>3, ConcatProperties
  <2>6. \A i \in 1 .. Len(x) : x[i] = <<a, b, c, d>>[i]
    BY <2>4, <2>5
  <2> QED  BY Zenon, <2>1, <2>3, <2>4, <2>6, SeqEqual
<1>2. <<>> \o <<a, b, c, d>> = <<a, b, c, d>>
  OBVIOUS
<1>3. <<e>> \o <<a, b, c, d>> = <<e, a, b, c, d>>
  <2>1. PICK x : x = <<e>> \o <<a, b, c, d>>
    BY Zenon
  <2>2. PICK S1 : S1 = {a, b, c, d, e}
    BY Zenon
  <2>3. <<e>> \in Seq(S1) /\ <<a, b, c, d>> \in Seq(S1) /\ <<e, a, b, c, d>> \in Seq(S1)
    BY <2>2
  <2>4. x \in Seq(S1) /\ Len(x) = 5
    BY <2>1, <2>3, ConcatProperties
  <2>5. x[1] = e /\ x[2] = a /\ x[3] = b /\ x[4] = c /\ x[5] = d
    BY <2>1, <2>3, ConcatProperties
  <2>6. \A i \in 1 .. Len(x) : x[i] = <<e, a, b, c, d>>[i]
    BY <2>4, <2>5
  <2> QED  BY Zenon, <2>1, <2>3, <2>4, <2>6, SeqEqual
<1> QED  BY Zenon, <1>1, <1>2, <1>3

-----------------------------------------------------------------------------
(* The query over an in-memory connection.                                 *)

Packets == {"Parse", "Bind", "Describe", "Execute", "Sync", "RowDescription", "DataRow",
            "CommandComplete", "ReadyForQuery", "ErrorResponse", "EmptyQueryResponse"}

QueryType ==
  /\ site \in {"pgbouncer", "google"}
  /\ session \in BOOLEAN /\ shut \in BOOLEAN /\ held \in BOOLEAN
  /\ answer \in {"one", "none", "two", "error", "empty", "lost"}
  /\ pending \in [{"inward", "outward"} -> Seq(Packets)]
  /\ pipe \in [{"inward", "outward"} -> Seq(Packets)]
  /\ rows \in Nat
  /\ ch \in Seq({"err", "nil"})
  /\ site = "google" => held = FALSE /\ s # "acquire"

\* Each goroutine returns once, and Wait goes on while it receives no error.
Waiting ==
  /\ Len(ch) = (IF q = "done" THEN 1 ELSE 0) + (IF s = "done" THEN 1 ELSE 0)
  /\ collected \in 0 .. Len(ch)
  /\ bank # "failed" => \A i \in 1 .. collected : ch[i] = "nil"
  /\ bank = "ok" => collected = 2

\* No goroutine has returned an error.
Fine == \A i \in 1 .. Len(ch) : ch[i] = "nil"

\* The packets that the serving end and the query have still to read.
Outbound == pipe["outward"] \o pending["inward"]
Inbound == pipe["inward"] \o pending["outward"]

\* The serving end has not come to the Sync.
Asking ==
  /\ Inbound = <<>> /\ rows = 0 /\ result = "zero" /\ shut = FALSE
  /\ \/ q = "write" /\ s = "read" /\ Outbound = <<>> /\ held = FALSE
     \/ q = "rows" /\ s = "read" /\ Outbound = Q!Requests /\ held = FALSE
     \/ /\ q = "rows" /\ s = "acquire" /\ site = "pgbouncer" /\ held = FALSE
        /\ Outbound = <<"Bind", "Describe", "Execute", "Sync">>
     \/ /\ q = "rows" /\ s = "bounce"
        /\ Outbound \in {<<"Bind", "Describe", "Execute", "Sync">>, <<"Describe", "Execute", "Sync">>,
                         <<"Execute", "Sync">>, <<"Sync">>}

\* What has been read of the answer, and what has become of it.
Reading(a, where, n, r, left) ==
  answer = a /\ q = where /\ rows = n /\ result = r /\ Inbound = left

Row == "DataRow"
Done == "CommandComplete"
End == "ReadyForQuery"

ReadSoFar ==
  \/ Reading("one", "rows", 0, "zero", <<"RowDescription", Row, Done, End>>)
  \/ Reading("one", "rows", 0, "zero", <<Row, Done, End>>)
  \/ Reading("one", "rows", 1, "row", <<Done, End>>)
  \/ Reading("one", "ready", 1, "row", <<End>>)
  \/ Reading("one", "done", 1, "row", <<>>)
  \/ Reading("none", "rows", 0, "zero", <<"RowDescription", Done, End>>)
  \/ Reading("none", "rows", 0, "zero", <<Done, End>>)
  \/ Reading("none", "ready", 0, "zero", <<End>>)
  \/ Reading("none", "done", 0, "zero", <<>>)
  \/ Reading("two", "rows", 0, "zero", <<"RowDescription", Row, Row, Done, End>>)
  \/ Reading("two", "rows", 0, "zero", <<Row, Row, Done, End>>)
  \/ Reading("two", "rows", 1, "row", <<Row, Done, End>>)
  \/ Reading("error", "rows", 0, "zero", <<"ErrorResponse", End>>)
  \/ Reading("empty", "rows", 0, "zero", <<"EmptyQueryResponse", End>>)
  \/ Reading("empty", "rows", 0, "zero", <<End>>)
  \/ Reading("empty", "rows", 0, "zero", <<>>)

\* Where the serving end is once it has answered.
Replied ==
  \/ s = "read" /\ site = "pgbouncer" /\ shut = (q = "done")
  \/ s = "close" /\ site = "google" /\ shut = FALSE
  \/ /\ s = "done" /\ shut = TRUE /\ held = FALSE /\ pending["outward"] = <<>>
     /\ site = "pgbouncer" => q = "done"

Answering == Outbound = <<>> /\ ReadSoFar /\ Replied

QueryInv == QueryType /\ Waiting /\ (Fine => Asking \/ Answering)

\* A stream whose first part is in the pair and whose rest is in the encoder: the
\* encoder may be emptied into the pair, a piece or the whole of it, and the first
\* packet may be taken.
LEMMA Streams ==
  ASSUME NEW P, NEW p \in Seq(P), NEW w \in Seq(P)
  PROVE  /\ p \o w \in Seq(P) /\ (p \o w) \o <<>> = p \o w
         /\ p # <<>> => Head(p \o w) = Head(p) /\ Tail(p) \o w = Tail(p \o w) /\ p \o w # <<>>
         /\ p \o w = <<>> => p = <<>> /\ w = <<>>
         /\ \A n \in 1 .. Len(w) :
              (p \o SubSeq(w, 1, n)) \o SubSeq(w, n + 1, Len(w)) = p \o w
<1>1. p \o w \in Seq(P) /\ (p \o w) \o <<>> = p \o w
  BY Zenon, ConcatProperties, ConcatEmptySeq
<1>2. ASSUME p # <<>> PROVE Head(p \o w) = Head(p) /\ Tail(p) \o w = Tail(p \o w) /\ p \o w # <<>>
  <2>1. Len(p) \in Nat /\ Len(p) > 0 /\ Len(w) \in Nat /\ Len(p \o w) = Len(p) + Len(w)
    BY <1>2, ConcatProperties, EmptySeq, LenProperties
  <2>2. Head(p \o w) = Head(p) /\ p \o w # <<>>
    BY <1>1, <1>2, <2>1, ConcatProperties, HeadTailProperties
  <2>3. /\ Tail(p) \in Seq(P) /\ Len(Tail(p)) = Len(p) - 1
        /\ Tail(p \o w) \in Seq(P) /\ Len(Tail(p \o w)) = Len(p) + Len(w) - 1
        /\ Tail(p) \o w \in Seq(P) /\ Len(Tail(p) \o w) = Len(p) - 1 + Len(w)
    BY <1>1, <1>2, <2>1, <2>2, ConcatProperties, HeadTailProperties
  <2>4. ASSUME NEW i \in 1 .. Len(Tail(p) \o w) PROVE (Tail(p) \o w)[i] = Tail(p \o w)[i]
    <3>1. Tail(p \o w)[i] = (p \o w)[i + 1]
      BY <1>1, <2>1, <2>2, <2>3, <2>4, HeadTailProperties
    <3>2. (p \o w)[i + 1] = IF i + 1 <= Len(p) THEN p[i + 1] ELSE w[i + 1 - Len(p)]
      BY <2>1, <2>3, <2>4, ConcatProperties
    <3>3. (Tail(p) \o w)[i] = IF i <= Len(p) - 1 THEN Tail(p)[i] ELSE w[i - (Len(p) - 1)]
      BY <2>1, <2>3, <2>4, ConcatProperties
    <3>4. i <= Len(p) - 1 => Tail(p)[i] = p[i + 1]
      BY <1>2, <2>1, <2>3, <2>4, HeadTailProperties
    <3> QED  BY <2>1, <2>3, <2>4, <3>1, <3>2, <3>3, <3>4
  <2> QED  BY <2>2, <2>3, <2>4, SeqEqual
<1>3. p \o w = <<>> => p = <<>> /\ w = <<>>
  BY ConcatEqualIffEmpty
<1>4. ASSUME NEW n \in 1 .. Len(w)
      PROVE  (p \o SubSeq(w, 1, n)) \o SubSeq(w, n + 1, Len(w)) = p \o w
  <2>1. Len(w) \in Nat /\ SubSeq(w, 1, n) \in Seq(P) /\ SubSeq(w, n + 1, Len(w)) \in Seq(P)
    BY <1>4
  <2>2. SubSeq(w, 1, n) \o SubSeq(w, n + 1, Len(w)) = SubSeq(w, 1, Len(w))
    BY <1>4, <2>1, ConcatAdjacentSubSeq
  <2>3. SubSeq(w, 1, Len(w)) = w
    BY Zenon, <2>1, SubSeqFull
  <2>4. PICK x : x = SubSeq(w, 1, n)
    BY Zenon
  <2>5. PICK y : y = SubSeq(w, n + 1, Len(w))
    BY Zenon
  <2>6. x \in Seq(P) /\ y \in Seq(P)
    BY Zenon, <2>1, <2>4, <2>5
  <2>7. (p \o x) \o y = p \o (x \o y)
    BY <2>6, ConcatAssociative
  <2>8. x \o y = w
    BY Zenon, <2>2, <2>3, <2>4, <2>5
  <2> QED  BY Zenon, <2>4, <2>5, <2>7, <2>8
<1> QED  BY Zenon, <1>1, <1>2, <1>3, <1>4

\* The packets of the two streams.
LEMMA PacketLists ==
  /\ Q!Requests \in Seq(Packets)
  /\ \A a \in {"one", "none", "two", "error", "empty", "lost"} : Q!Answers[a] \in Seq(Packets)
<1>1. Q!Requests \in Seq(Packets)
  BY DEF Q!Requests, Packets
<1>2. /\ Q!Answers["one"] \in Seq(Packets) /\ Q!Answers["none"] \in Seq(Packets)
      /\ Q!Answers["two"] \in Seq(Packets) /\ Q!Answers["error"] \in Seq(Packets)
      /\ Q!Answers["empty"] \in Seq(Packets) /\ Q!Answers["lost"] \in Seq(Packets)
  BY DEF Q!Answers, Packets
<1> QED  BY Zenon, <1>1, <1>2

\* The goroutines of the query keep the types.
LEMMA QueryTypeStep ==
  ASSUME QueryType, Q!Next
  PROVE  QueryType'
<1> USE DEF QueryType
<1>1. /\ UNCHANGED <<site, session, answer>>
      /\ ch' = ch \/ ch' = Append(ch, "err") \/ ch' = Append(ch, "nil")
      /\ shut' \in BOOLEAN /\ rows' \in Nat
      /\ held' \in BOOLEAN /\ (site = "google" => held' = FALSE /\ s' # "acquire")
  <2>1. CASE Q!Ask \/ Q!ReadReady \/ Q!QueryEOF \/ Q!Collect
    BY Zenon, <2>1 DEF Q!Ask, Q!ReadReady, Q!QueryEOF, Q!Collect, Q!Returns
  <2>2. CASE Q!ReadRow
    BY <2>2 DEF Q!ReadRow, Q!Returns
  <2>3. CASE \E e \in Q!Ends : Q!Spills(e) \/ Q!FlushToRead(e)
    BY Zenon, <2>3 DEF Q!Spills, Q!FlushToRead
  <2>4. CASE Q!ServeRead \/ Q!ServeEOF \/ Q!ServeClose
    BY Zenon, <2>4 DEF Q!ServeRead, Q!ServeEOF, Q!ServeClose, Q!Returns
  <2>5. CASE Q!Acquire
    BY Zenon, <2>5 DEF Q!Acquire, Q!Returns
  <2>6. CASE Q!Bounce
    BY Zenon, <2>6 DEF Q!Bounce, Q!Returns
  <2> QED  BY Zenon, <2>1, <2>2, <2>3, <2>4, <2>5, <2>6 DEF Q!Next, Q!Query, Q!Serve, Q!Ends
<1>2. ch' \in Seq({"err", "nil"})
  <2>1. Append(ch, "err") \in Seq({"err", "nil"}) /\ Append(ch, "nil") \in Seq({"err", "nil"})
    OBVIOUS
  <2> QED  BY Zenon, <1>1, <2>1
<1>3. /\ pending' \in [{"inward", "outward"} -> Seq(Packets)]
      /\ pipe' \in [{"inward", "outward"} -> Seq(Packets)]
  <2>1. ASSUME NEW e \in {"inward", "outward"}, NEW f \in {"inward", "outward"},
               NEW v \in Seq(Packets), NEW u \in Seq(Packets)
        PROVE  /\ [pending EXCEPT ![e] = v] \in [{"inward", "outward"} -> Seq(Packets)]
               /\ [pipe EXCEPT ![f] = u] \in [{"inward", "outward"} -> Seq(Packets)]
    BY Zenon, <2>1
  <2>2. CASE Q!Ask
    BY Zenon, <2>1, <2>2, PacketLists DEF Q!Ask
  <2>3. CASE Q!ReadRow \/ Q!ReadReady
    <3>1. pipe["inward"] # <<>> /\ pipe' = [pipe EXCEPT !["inward"] = Tail(pipe["inward"])]
          /\ UNCHANGED pending
      BY Zenon, <2>3 DEF Q!ReadRow, Q!ReadReady
    <3>2. Tail(pipe["inward"]) \in Seq(Packets)
      BY <3>1
    <3> QED  BY Zenon, <2>1, <3>1, <3>2
  <2>4. CASE Q!ServeRead \/ Q!Bounce
    <3>1. pipe["outward"] # <<>> /\ pipe' = [pipe EXCEPT !["outward"] = Tail(pipe["outward"])]
          /\ \/ UNCHANGED pending
             \/ pending' = [pending EXCEPT !["outward"] = pending["outward"] \o Q!Answers[answer]]
      BY Zenon, <2>4 DEF Q!ServeRead, Q!Bounce
    <3>2. Tail(pipe["outward"]) \in Seq(Packets)
      BY <3>1
    <3>3. pending["outward"] \o Q!Answers[answer] \in Seq(Packets)
      <4>1. Q!Answers[answer] \in Seq(Packets)
        BY Zenon, PacketLists
      <4> QED  BY <4>1
    <3> QED  BY Zenon, <2>1, <3>1, <3>2, <3>3
  <2>5. CASE \E e \in Q!Ends : Q!Spills(e)
    <3>1. PICK e \in {"inward", "outward"} : Q!Spills(e)
      BY Zenon, <2>5 DEF Q!Ends
    <3>2. PICK n \in 1 .. Len(pending[e]) :
            /\ pipe' = [pipe EXCEPT ![Q!Other(e)] = pipe[Q!Other(e)] \o SubSeq(pending[e], 1, n)]
            /\ pending' = [pending EXCEPT ![e] = SubSeq(pending[e], n + 1, Len(pending[e]))]
      BY Zenon, <3>1 DEF Q!Spills
    <3>3. Q!Other(e) \in {"inward", "outward"} /\ pending[e] \in Seq(Packets)
      BY Zenon DEF Q!Other
    <3>4. /\ pipe[Q!Other(e)] \o SubSeq(pending[e], 1, n) \in Seq(Packets)
          /\ SubSeq(pending[e], n + 1, Len(pending[e])) \in Seq(Packets)
      BY <3>3
    <3> QED  BY Zenon, <2>1, <3>2, <3>3, <3>4
  <2>6. CASE Q!ServeClose \/ \E e \in Q!Ends : Q!FlushToRead(e)
    <3>1. PICK e \in {"inward", "outward"} :
            /\ pipe' = [pipe EXCEPT ![Q!Other(e)] = pipe[Q!Other(e)] \o pending[e]]
            /\ pending' = [pending EXCEPT ![e] = <<>>]
      BY Zenon, <2>6 DEF Q!ServeClose, Q!FlushToRead, Q!Flush, Q!Ends
    <3>2. Q!Other(e) \in {"inward", "outward"}
      BY Zenon DEF Q!Other
    <3>3. pipe[Q!Other(e)] \o pending[e] \in Seq(Packets) /\ <<>> \in Seq(Packets)
      BY <3>2
    <3> QED  BY Zenon, <2>1, <3>1, <3>2, <3>3
  <2>7. CASE Q!QueryEOF \/ Q!Acquire \/ Q!ServeEOF \/ Q!Collect
    BY Zenon, <2>7 DEF Q!QueryEOF, Q!Acquire, Q!ServeEOF, Q!Collect
  <2> QED  BY Zenon, <2>2, <2>3, <2>4, <2>5, <2>6, <2>7 DEF Q!Next, Q!Query, Q!Serve, Q!Ends
<1> QED  BY Zenon, <1>1, <1>2, <1>3

\* Each goroutine returns once, and Wait receives what they return in order.
LEMMA WaitingStep ==
  ASSUME QueryType, Waiting, Q!Next
  PROVE  Waiting' /\ (Fine' => Fine)
<1> USE DEF QueryType, Waiting
<1>1. CASE Q!Collect
  <2>1. /\ collected < Len(ch) /\ collected' = collected + 1 /\ UNCHANGED <<q, s, ch>>
        /\ bank = "waiting" /\ Len(ch) \in Nat
        /\ bank' = IF ch[collected + 1] = "err" THEN "failed"
                   ELSE IF collected + 1 = 2 THEN "ok" ELSE "waiting"
    BY <1>1 DEF Q!Collect
  <2>2. ch[collected + 1] \in {"err", "nil"}
    BY <2>1
  <2>3. bank' # "failed" => \A i \in 1 .. collected' : ch'[i] = "nil"
    BY <2>1, <2>2
  <2> QED  BY <2>1, <2>3 DEF Fine
<1>2. ASSUME NEW err \in {"err", "nil"}, ch' = Append(ch, err), UNCHANGED <<collected, bank>>,
             \/ q # "done" /\ q' = "done" /\ s' = s
             \/ s # "done" /\ s' = "done" /\ q' = q
      PROVE  Waiting' /\ (Fine' => Fine)
  <2>1. /\ Len(ch') = Len(ch) + 1 /\ Len(ch) \in Nat
        /\ \A i \in 1 .. Len(ch) : ch'[i] = ch[i]
    BY <1>2
  <2>2. Fine' => Fine
    BY <2>1 DEF Fine
  <2>3. \A i \in 1 .. collected : ch'[i] = ch[i]
    BY <2>1
  <2> QED  BY <1>2, <2>1, <2>2, <2>3
<1>3. ASSUME UNCHANGED <<ch, collected, bank>>, q' = "done" <=> q = "done", s' = "done" <=> s = "done"
      PROVE  Waiting' /\ (Fine' => Fine)
  BY Zenon, <1>3 DEF Fine
<1>4. CASE Q!Ask \/ Q!ServeRead \/ (\E e \in Q!Ends : Q!Spills(e) \/ Q!FlushToRead(e))
  BY Zenon, <1>3, <1>4 DEF Q!Ask, Q!ServeRead, Q!Spills, Q!FlushToRead
<1>5. CASE Q!ReadRow
  <2>1. UNCHANGED <<s, collected, bank>> /\ q = "rows"
        /\ \/ q' = "done" /\ ch' = Append(ch, "err")
           \/ q' \in {"rows", "ready"} /\ ch' = ch
    BY Zenon, <1>5 DEF Q!ReadRow, Q!Returns
  <2> QED  BY Zenon, <1>2, <1>3, <2>1
<1>6. CASE Q!ReadReady \/ Q!QueryEOF
  BY Zenon, <1>2, <1>6 DEF Q!ReadReady, Q!QueryEOF, Q!Returns
<1>7. CASE Q!Acquire
  BY Zenon, <1>2, <1>3, <1>7 DEF Q!Acquire, Q!Returns
<1>8. CASE Q!Bounce
  BY Zenon, <1>2, <1>3, <1>8 DEF Q!Bounce, Q!Returns
<1>9. CASE Q!ServeEOF \/ Q!ServeClose
  BY Zenon, <1>2, <1>9 DEF Q!ServeEOF, Q!ServeClose, Q!Returns
<1> QED  BY Zenon, <1>1, <1>4, <1>5, <1>6, <1>7, <1>8, <1>9 DEF Q!Next, Q!Query, Q!Serve, Q!Ends

\* Both streams go on where they were: no packet is lost, repeated or overtaken.
LEMMA StreamsStep ==
  ASSUME QueryType
  PROVE  /\ \A e \in {"inward", "outward"} : Q!Spills(e) \/ Q!Flush(e) =>
              /\ Outbound' = Outbound /\ Inbound' = Inbound
              /\ pending["outward"] = <<>> => pending'["outward"] = <<>>
         /\ pipe["inward"] # <<>> =>
              /\ Inbound # <<>> /\ Head(pipe["inward"]) = Head(Inbound)
              /\ Tail(pipe["inward"]) \o pending["outward"] = Tail(Inbound)
         /\ pipe["outward"] # <<>> =>
              /\ Outbound # <<>> /\ Head(pipe["outward"]) = Head(Outbound)
              /\ Tail(pipe["outward"]) \o pending["inward"] = Tail(Outbound)
         /\ Inbound = <<>> => pipe["inward"] = <<>> /\ pending["outward"] = <<>>
         /\ Outbound = <<>> => pipe["outward"] = <<>> /\ pending["inward"] = <<>>
<1>1. /\ pipe["inward"] \in Seq(Packets) /\ pipe["outward"] \in Seq(Packets)
      /\ pending["inward"] \in Seq(Packets) /\ pending["outward"] \in Seq(Packets)
  BY Zenon DEF QueryType
<1>2. /\ pipe["inward"] # <<>> =>
              /\ Inbound # <<>> /\ Head(pipe["inward"]) = Head(Inbound)
              /\ Tail(pipe["inward"]) \o pending["outward"] = Tail(Inbound)
      /\ Inbound = <<>> => pipe["inward"] = <<>> /\ pending["outward"] = <<>>
  BY Zenon, <1>1, Streams DEF Inbound
<1>3. /\ pipe["outward"] # <<>> =>
              /\ Outbound # <<>> /\ Head(pipe["outward"]) = Head(Outbound)
              /\ Tail(pipe["outward"]) \o pending["inward"] = Tail(Outbound)
      /\ Outbound = <<>> => pipe["outward"] = <<>> /\ pending["inward"] = <<>>
  BY Zenon, <1>1, Streams DEF Outbound
<1>4. ASSUME NEW e \in {"inward", "outward"}, Q!Flush(e)
      PROVE  /\ Outbound' = Outbound /\ Inbound' = Inbound
             /\ pending["outward"] = <<>> => pending'["outward"] = <<>>
  <2>1. CASE e = "inward"
    <3>1. /\ pipe' = [pipe EXCEPT !["outward"] = pipe["outward"] \o pending["inward"]]
          /\ pending' = [pending EXCEPT !["inward"] = <<>>]
      BY Zenon, <1>4, <2>1 DEF Q!Flush, Q!Other
    <3>2. /\ pipe'["outward"] = pipe["outward"] \o pending["inward"] /\ pipe'["inward"] = pipe["inward"]
          /\ pending'["inward"] = <<>> /\ pending'["outward"] = pending["outward"]
      BY Zenon, <3>1 DEF QueryType
    <3> QED  BY <1>1, <3>2, Streams DEF Outbound, Inbound
  <2>2. CASE e = "outward"
    <3>1. /\ pipe' = [pipe EXCEPT !["inward"] = pipe["inward"] \o pending["outward"]]
          /\ pending' = [pending EXCEPT !["outward"] = <<>>]
      BY Zenon, <1>4, <2>2 DEF Q!Flush, Q!Other
    <3>2. /\ pipe'["inward"] = pipe["inward"] \o pending["outward"] /\ pipe'["outward"] = pipe["outward"]
          /\ pending'["outward"] = <<>> /\ pending'["inward"] = pending["inward"]
      BY Zenon, <3>1 DEF QueryType
    <3> QED  BY <1>1, <3>2, Streams DEF Outbound, Inbound
  <2> QED  BY Zenon, <1>4, <2>1, <2>2
<1>5. ASSUME NEW e \in {"inward", "outward"}, Q!Spills(e)
      PROVE  /\ Outbound' = Outbound /\ Inbound' = Inbound
             /\ pending["outward"] = <<>> => pending'["outward"] = <<>>
  <2>1. PICK n \in 1 .. Len(pending[e]) :
          /\ pipe' = [pipe EXCEPT ![Q!Other(e)] = pipe[Q!Other(e)] \o SubSeq(pending[e], 1, n)]
          /\ pending' = [pending EXCEPT ![e] = SubSeq(pending[e], n + 1, Len(pending[e]))]
    BY Zenon, <1>5 DEF Q!Spills
  <2>2. CASE e = "inward"
    <3>1. /\ pipe'["outward"] = pipe["outward"] \o SubSeq(pending["inward"], 1, n)
          /\ pipe'["inward"] = pipe["inward"]
          /\ pending'["inward"] = SubSeq(pending["inward"], n + 1, Len(pending["inward"]))
          /\ pending'["outward"] = pending["outward"]
      BY Zenon, <2>1, <2>2 DEF QueryType, Q!Other
    <3>2. Outbound' = Outbound
      <4>1. PICK p \in Seq(Packets), w \in Seq(Packets) : p = pipe["outward"] /\ w = pending["inward"]
        BY Zenon, <1>1
      <4>2. (p \o SubSeq(w, 1, n)) \o SubSeq(w, n + 1, Len(w)) = p \o w
        BY <2>1, <2>2, <4>1, Streams
      <4> QED  BY Zenon, <3>1, <4>1, <4>2 DEF Outbound
    <3> QED  BY Zenon, <3>1, <3>2 DEF Inbound
  <2>3. CASE e = "outward"
    <3>1. /\ pipe'["inward"] = pipe["inward"] \o SubSeq(pending["outward"], 1, n)
          /\ pipe'["outward"] = pipe["outward"]
          /\ pending'["outward"] = SubSeq(pending["outward"], n + 1, Len(pending["outward"]))
          /\ pending'["inward"] = pending["inward"] /\ pending["outward"] # <<>>
      BY Zenon, <1>5, <2>1, <2>3 DEF QueryType, Q!Other, Q!Spills
    <3>2. Inbound' = Inbound
      <4>1. PICK p \in Seq(Packets), w \in Seq(Packets) : p = pipe["inward"] /\ w = pending["outward"]
        BY Zenon, <1>1
      <4>2. (p \o SubSeq(w, 1, n)) \o SubSeq(w, n + 1, Len(w)) = p \o w
        BY <2>1, <2>3, <4>1, Streams
      <4> QED  BY Zenon, <3>1, <4>1, <4>2 DEF Inbound
    <3> QED  BY Zenon, <3>1, <3>2 DEF Outbound
  <2> QED  BY Zenon, <1>5, <2>2, <2>3
<1> QED  BY Zenon, <1>2, <1>3, <1>4, <1>5

\* The query reads the answer packet by packet.
LEMMA ReadRowStep ==
  ASSUME QueryType, Fine, Fine', Asking \/ Answering, Q!ReadRow
  PROVE  Answering'
<1> USE DEF QueryType
<1> DEFINE p == Head(Inbound)
<1>1. Answering /\ q = "rows" /\ p = Head(pipe["inward"])
  BY Zenon, StreamsStep DEF Q!ReadRow, Asking
<1>2. ~(p = "ErrorResponse" \/ (p = "DataRow" /\ rows > 0))
  <2> SUFFICES ASSUME ch' = Append(ch, "err") PROVE FALSE
    BY Zenon, <1>1 DEF Q!ReadRow, Q!Returns, Q!TooBig
  <2>1. Len(ch) + 1 \in 1 .. Len(ch') /\ ch'[Len(ch) + 1] = "err"
    OBVIOUS
  <2> QED  BY Zenon, <2>1 DEF Fine
<1>3. /\ UNCHANGED <<site, answer, s, held, shut, pending>>
      /\ rows' = rows + (IF p = "DataRow" THEN 1 ELSE 0)
      /\ result' = IF p = "DataRow" THEN "row" ELSE result
      /\ q' = IF p = "CommandComplete" THEN "ready" ELSE "rows"
      /\ pipe' = [pipe EXCEPT !["inward"] = Tail(pipe["inward"])] /\ pipe["inward"] # <<>>
  BY Zenon, <1>1, <1>2 DEF Q!ReadRow, Q!TooBig
<1>4. Inbound # <<>> /\ Inbound' = Tail(Inbound) /\ Outbound' = Outbound
  BY Zenon, <1>3, StreamsStep DEF Inbound, Outbound
<1>5. ReadSoFar'
  <2> HIDE DEF p
  <2>3. ReadSoFar /\ q = "rows" /\ Inbound # <<>>
    BY Zenon, <1>1, <1>4 DEF Answering
  <2>4. /\ answer' = answer /\ Inbound' = Tail(Inbound)
        /\ rows' = rows + (IF Head(Inbound) = "DataRow" THEN 1 ELSE 0)
        /\ result' = IF Head(Inbound) = "DataRow" THEN "row" ELSE result
        /\ q' = IF Head(Inbound) = "CommandComplete" THEN "ready" ELSE "rows"
    BY Zenon, <1>3, <1>4 DEF p
  <2>5. ~(Head(Inbound) = "ErrorResponse" \/ (Head(Inbound) = "DataRow" /\ rows > 0))
    BY Zenon, <1>2 DEF p
  <2>6. QED
    <3>1. CASE Reading("one", "rows", 0, "zero", <<"RowDescription", Row, Done, End>>)
      <4>1. Head(Inbound) = "RowDescription" /\ Tail(Inbound) = <<Row, Done, End>>
        BY <3>1, Fronts DEF Reading
      <4> QED  BY <2>4, <2>5, <3>1, <4>1 DEF ReadSoFar, Reading, Row, Done, End
    <3>2. CASE Reading("one", "rows", 0, "zero", <<Row, Done, End>>)
      <4>1. Head(Inbound) = Row /\ Tail(Inbound) = <<Done, End>>
        BY <3>2, Fronts DEF Reading
      <4> QED  BY <2>4, <2>5, <3>2, <4>1 DEF ReadSoFar, Reading, Row, Done, End
    <3>3. CASE Reading("one", "rows", 1, "row", <<Done, End>>)
      <4>1. Head(Inbound) = Done /\ Tail(Inbound) = <<End>>
        BY Zenon, <3>3, Fronts DEF Reading
      <4> QED  BY <2>4, <2>5, <3>3, <4>1 DEF ReadSoFar, Reading, Row, Done, End
    <3>4. CASE Reading("none", "rows", 0, "zero", <<"RowDescription", Done, End>>)
      <4>1. Head(Inbound) = "RowDescription" /\ Tail(Inbound) = <<Done, End>>
        BY <3>4, Fronts DEF Reading
      <4> QED  BY <2>4, <2>5, <3>4, <4>1 DEF ReadSoFar, Reading, Row, Done, End
    <3>5. CASE Reading("none", "rows", 0, "zero", <<Done, End>>)
      <4>1. Head(Inbound) = Done /\ Tail(Inbound) = <<End>>
        BY Zenon, <3>5, Fronts DEF Reading
      <4> QED  BY <2>4, <2>5, <3>5, <4>1 DEF ReadSoFar, Reading, Row, Done, End
    <3>6. CASE Reading("two", "rows", 0, "zero", <<"RowDescription", Row, Row, Done, End>>)
      <4>1. Head(Inbound) = "RowDescription" /\ Tail(Inbound) = <<Row, Row, Done, End>>
        BY <3>6, Fronts DEF Reading
      <4> QED  BY <2>4, <2>5, <3>6, <4>1 DEF ReadSoFar, Reading, Row, Done, End
    <3>7. CASE Reading("two", "rows", 0, "zero", <<Row, Row, Done, End>>)
      <4>1. Head(Inbound) = Row /\ Tail(Inbound) = <<Row, Done, End>>
        BY <3>7, Fronts DEF Reading
      <4> QED  BY <2>4, <2>5, <3>7, <4>1 DEF ReadSoFar, Reading, Row, Done, End
    <3>8. CASE Reading("two", "rows", 1, "row", <<Row, Done, End>>)
      <4>1. Head(Inbound) = Row /\ Tail(Inbound) = <<Done, End>>
        BY <3>8, Fronts DEF Reading
      <4> QED  BY <2>4, <2>5, <3>8, <4>1 DEF ReadSoFar, Reading, Row, Done, End
    <3>9. CASE Reading("error", "rows", 0, "zero", <<"ErrorResponse", End>>)
      <4>1. Head(Inbound) = "ErrorResponse" /\ Tail(Inbound) = <<End>>
        BY Zenon, <3>9, Fronts DEF Reading
      <4> QED  BY Zenon, <2>4, <2>5, <3>9, <4>1 DEF ReadSoFar, Reading, Row, Done, End
    <3>10. CASE Reading("empty", "rows", 0, "zero", <<"EmptyQueryResponse", End>>)
      <4>1. Head(Inbound) = "EmptyQueryResponse" /\ Tail(Inbound) = <<End>>
        BY Zenon, <3>10, Fronts DEF Reading
      <4> QED  BY <2>4, <2>5, <3>10, <4>1 DEF ReadSoFar, Reading, Row, Done, End
    <3>11. CASE Reading("empty", "rows", 0, "zero", <<End>>)
      <4>1. Head(Inbound) = End /\ Tail(Inbound) = <<>>
        BY Zenon, <3>11, One DEF Reading
      <4> QED  BY <2>4, <2>5, <3>11, <4>1 DEF ReadSoFar, Reading, Row, Done, End
    <3> QED
      BY Zenon, <2>3, <3>1, <3>2, <3>3, <3>4, <3>5, <3>6, <3>7, <3>8, <3>9, <3>10, <3>11 DEF ReadSoFar, Reading
<1>6. Replied'
  <2>1. q # "done" /\ q' # "done"
    BY Zenon, <1>1, <1>3
  <2> QED  BY Zenon, <1>1, <1>3, <2>1 DEF Answering, Replied
<1> QED  BY Zenon, <1>1, <1>4, <1>5, <1>6 DEF Answering

\* An error that is returned is never forgotten.
LEMMA NoError ==
  ASSUME QueryType, Fine'
  PROVE  ch' # Append(ch, "err")
<1> SUFFICES ASSUME ch' = Append(ch, "err") PROVE FALSE
  BY Zenon
<1>1. Len(ch) + 1 \in 1 .. Len(ch') /\ ch'[Len(ch) + 1] = "err"
  BY DEF QueryType
<1> QED  BY Zenon, <1>1 DEF Fine

\* The serving end passes the requests on and answers.
LEMMA BounceStep ==
  ASSUME QueryType, Fine, Fine', Asking \/ Answering, Q!Bounce
  PROVE  Asking' \/ Answering'
<1> USE DEF QueryType
<1>1. /\ Inbound = <<>> /\ rows = 0 /\ result = "zero" /\ shut = FALSE /\ q = "rows" /\ s = "bounce"
      /\ Outbound \in {<<"Bind", "Describe", "Execute", "Sync">>, <<"Describe", "Execute", "Sync">>,
                       <<"Execute", "Sync">>, <<"Sync">>}
  BY Zenon DEF Q!Bounce, Asking, Answering, Replied
<1>2. /\ UNCHANGED <<site, answer, q, rows, result, shut>>
      /\ pipe' = [pipe EXCEPT !["outward"] = Tail(pipe["outward"])] /\ pipe["outward"] # <<>>
  BY Zenon DEF Q!Bounce
<1>3. pipe'["outward"] = Tail(pipe["outward"]) /\ pipe'["inward"] = <<>> /\ pending["outward"] = <<>>
  BY Zenon, <1>1, <1>2, StreamsStep
<1>4. CASE Head(Outbound) # "Sync"
  <2>1. UNCHANGED <<pending, s, held>>
    BY Zenon, <1>2, <1>4, StreamsStep DEF Q!Bounce
  <2>2. Outbound' = Tail(Outbound) /\ Inbound' = <<>>
    BY Zenon, <1>1, <1>2, <1>3, <2>1, StreamsStep, Nothing DEF Outbound, Inbound
  <2>3. Outbound' \in {<<"Describe", "Execute", "Sync">>, <<"Execute", "Sync">>, <<"Sync">>}
    <3>1. CASE Outbound = <<"Bind", "Describe", "Execute", "Sync">>
      BY <2>2, <3>1, Fronts
    <3>2. CASE Outbound = <<"Describe", "Execute", "Sync">>
      BY <2>2, <3>2, Fronts
    <3>3. CASE Outbound = <<"Execute", "Sync">>
      BY Zenon, <2>2, <3>3, Fronts
    <3>4. CASE Outbound = <<"Sync">>
      BY Zenon, <1>4, <3>4, One
    <3> QED  BY Zenon, <1>1, <3>1, <3>2, <3>3, <3>4
  <2> QED  BY Zenon, <1>1, <1>2, <2>1, <2>2, <2>3 DEF Asking
<1>5. CASE Head(Outbound) = "Sync"
  <2>1. Outbound = <<"Sync">>
    <3>1. CASE Outbound = <<"Bind", "Describe", "Execute", "Sync">>
      BY <1>5, <3>1, Fronts
    <3>2. CASE Outbound = <<"Describe", "Execute", "Sync">>
      BY <1>5, <3>2, Fronts
    <3>3. CASE Outbound = <<"Execute", "Sync">>
      BY <1>5, <3>3, Fronts
    <3> QED  BY Zenon, <1>1, <3>1, <3>2, <3>3
  <2>2. /\ pending' = [pending EXCEPT !["outward"] = pending["outward"] \o Q!Answers[answer]]
        /\ IF answer = "lost" THEN ch' = Append(ch, "err")
           ELSE s' = IF site = "pgbouncer" THEN "read" ELSE "close"
    BY Zenon, <1>2, <1>5, StreamsStep DEF Q!Bounce, Q!Returns
  <2>3. answer # "lost"
    BY Zenon, <2>2, NoError
  <2>4. Q!Answers[answer] \in Seq(Packets)
    BY Zenon, PacketLists
  <2>5. /\ pending'["inward"] = pending["inward"] /\ pending'["outward"] = Q!Answers[answer]
    BY Zenon, <1>3, <2>2, <2>4, ConcatEmptySeq
  <2>6. Outbound' = <<>> /\ Inbound' = Q!Answers[answer]
    <3>1. Outbound' = Tail(Outbound)
      BY Zenon, <1>2, <1>3, <2>5, StreamsStep DEF Outbound
    <3>2. Inbound' = <<>> \o Q!Answers[answer]
      BY Zenon, <1>3, <2>5 DEF Inbound
    <3> QED  BY Zenon, <2>1, <2>4, <3>1, <3>2, One, ConcatEmptySeq
  <2>7. ReadSoFar'
    BY <1>1, <1>2, <2>3, <2>6 DEF ReadSoFar, Reading, Q!Answers, Row, Done, End
  <2>8. Replied'
    BY Zenon, <1>1, <1>2, <2>2, <2>3 DEF Replied
  <2> QED  BY Zenon, <2>6, <2>7, <2>8 DEF Answering
<1> QED  BY Zenon, <1>4, <1>5

\* A step that moves nobody, and changes nothing that is still to be read, changes
\* nothing of how far the query is.
LEMMA Unmoved ==
  ASSUME UNCHANGED <<site, answer, q, s, rows, result, held, shut>>,
         Outbound' = Outbound, Inbound' = Inbound,
         pending["outward"] = <<>> => pending'["outward"] = <<>>,
         Asking \/ Answering
  PROVE  Asking' \/ Answering'
<1>1. ASSUME Asking PROVE Asking'
  BY Zenon, <1>1 DEF Asking, Q!Requests
<1>2. ASSUME Answering PROVE Answering'
  <2>1. ReadSoFar'
    BY Zenon, <1>2 DEF Answering, ReadSoFar, Reading, Row, Done, End
  <2>2. Replied'
    BY Zenon, <1>2 DEF Answering, Replied
  <2> QED  BY Zenon, <1>2, <2>1, <2>2 DEF Answering
<1> QED  BY Zenon, <1>1, <1>2

\* While no error is returned, the query is being asked, or answered, in step.
LEMMA QueryStep ==
  ASSUME QueryType, Fine, Fine', Asking \/ Answering, Q!Next
  PROVE  Asking' \/ Answering'
<1> USE DEF QueryType
<1>2. CASE Q!Collect
  BY Zenon, <1>2, Unmoved DEF Q!Collect, Outbound, Inbound
<1>3. CASE \E e \in Q!Ends : Q!Spills(e) \/ Q!FlushToRead(e)
  BY Zenon, <1>3, StreamsStep, Unmoved DEF Q!Ends, Q!Spills, Q!FlushToRead
<1>4. CASE Q!Ask
  <2>1. /\ Inbound = <<>> /\ Outbound = <<>> /\ rows = 0 /\ result = "zero" /\ shut = FALSE
        /\ s = "read" /\ held = FALSE
    BY Zenon, <1>4 DEF Q!Ask, Asking, Answering, ReadSoFar, Reading
  <2>2. /\ pending'["inward"] = Q!Requests /\ pending'["outward"] = pending["outward"]
        /\ q' = "rows" /\ UNCHANGED <<s, pipe, rows, result, shut, held>>
    BY Zenon, <1>4 DEF Q!Ask
  <2>3. Inbound' = <<>> /\ Outbound' = <<>> \o Q!Requests
    BY Zenon, <2>1, <2>2, StreamsStep DEF Inbound, Outbound
  <2>4. Outbound' = Q!Requests /\ Q!Requests' = Q!Requests
    BY Zenon, <2>3, PacketLists, ConcatEmptySeq DEF Q!Requests
  <2> QED  BY Zenon, <2>1, <2>2, <2>3, <2>4 DEF Asking
<1>5. CASE Q!ReadRow
  BY Zenon, <1>5, ReadRowStep
<1>6. CASE Q!ReadReady
  <2>1. Answering /\ q = "ready" /\ Inbound # <<>>
    BY Zenon, <1>6, StreamsStep DEF Q!ReadReady, Asking
  <2>2. /\ UNCHANGED <<site, answer, s, rows, result, held, pending>> /\ q' = "done"
        /\ pipe' = [pipe EXCEPT !["inward"] = Tail(pipe["inward"])] /\ pipe["inward"] # <<>>
        /\ shut' = (shut \/ site = "pgbouncer")
    BY Zenon, <1>6, NoError DEF Q!ReadReady, Q!Returns
  <2>3. Inbound' = Tail(Inbound) /\ Outbound' = Outbound
    BY Zenon, <2>2, StreamsStep DEF Inbound, Outbound
  <2>4. Inbound = <<End>> /\ Tail(Inbound) = <<>>
    BY Zenon, <2>1, One DEF Answering, ReadSoFar, Reading
  <2>5. ReadSoFar'
    BY Zenon, <2>1, <2>2, <2>3, <2>4 DEF Answering, ReadSoFar, Reading
  <2>6. Replied'
    <3>1. CASE s = "read" /\ site = "pgbouncer"
      <4>1. shut' = TRUE /\ (q' = "done") = TRUE
        BY Zenon, <2>2, <3>1
      <4> QED  BY Zenon, <2>2, <3>1, <4>1 DEF Replied
    <3>2. CASE s = "close" /\ site = "google" /\ shut = FALSE
      BY Zenon, <2>2, <3>2 DEF Replied
    <3>3. CASE s = "done" /\ shut = TRUE /\ held = FALSE /\ pending["outward"] = <<>>
      BY Zenon, <2>2, <3>3 DEF Replied
    <3> QED  BY Zenon, <2>1, <3>1, <3>2, <3>3 DEF Answering, Replied
  <2> QED  BY Zenon, <2>1, <2>3, <2>5, <2>6 DEF Answering
<1>7. CASE Q!QueryEOF
  BY Zenon, <1>7, NoError DEF Q!QueryEOF, Q!Returns
<1>8. CASE Q!ServeRead
  <2>1. /\ Inbound = <<>> /\ rows = 0 /\ result = "zero" /\ shut = FALSE
        /\ q = "rows" /\ s = "read" /\ Outbound = Q!Requests /\ held = FALSE
    BY Zenon, <1>8, StreamsStep DEF Q!ServeRead, Asking, Answering
  <2>2. /\ UNCHANGED <<site, q, rows, result, held, shut, pending>>
        /\ pipe' = [pipe EXCEPT !["outward"] = Tail(pipe["outward"])] /\ pipe["outward"] # <<>>
        /\ s' = IF site = "pgbouncer" /\ ~held THEN "acquire" ELSE "bounce"
    BY Zenon, <1>8 DEF Q!ServeRead
  <2>3. Inbound' = Inbound /\ Outbound' = Tail(Outbound)
    BY Zenon, <2>2, StreamsStep DEF Inbound, Outbound
  <2>4. Outbound' = <<"Bind", "Describe", "Execute", "Sync">>
    BY <2>1, <2>3, Fronts DEF Q!Requests
  <2> QED  BY Zenon, <2>1, <2>2, <2>3, <2>4 DEF Asking
<1>9. CASE Q!Acquire
  <2>1. Asking /\ s = "acquire"
    BY Zenon, <1>9 DEF Q!Acquire, Answering, Replied
  <2>2. s' = "bounce" /\ UNCHANGED <<site, answer, q, rows, result, shut, pending, pipe>>
    BY Zenon, <1>9, NoError DEF Q!Acquire, Q!Returns
  <2> QED  BY Zenon, <2>1, <2>2 DEF Asking, Inbound, Outbound
<1>10. CASE Q!Bounce
  BY Zenon, <1>10, BounceStep
<1>11. CASE Q!ServeEOF
  <2>1. Answering /\ s = "read" /\ shut = TRUE /\ pending["outward"] = <<>>
    BY Zenon, <1>11 DEF Q!ServeEOF, Asking
  <2>2. q = "done"
    BY Zenon, <2>1 DEF Answering, Replied
  <2>3. /\ UNCHANGED <<site, answer, q, rows, result, shut, pending, pipe>>
        /\ s' = "done" /\ held' = FALSE
    BY Zenon, <1>11 DEF Q!ServeEOF
  <2>4. Replied'
    BY Zenon, <2>1, <2>2, <2>3 DEF Replied
  <2>5. Outbound' = Outbound /\ Inbound' = Inbound
    BY Zenon, <2>3 DEF Outbound, Inbound
  <2> QED  BY Zenon, <2>1, <2>3, <2>4, <2>5 DEF Answering, ReadSoFar, Reading, Row, Done, End
<1>12. CASE Q!ServeClose
  <2>1. Answering /\ s = "close" /\ site = "google" /\ held = FALSE
    BY Zenon, <1>12 DEF Q!ServeClose, Asking, Answering, Replied
  <2>2. /\ UNCHANGED <<site, answer, q, rows, result, held>> /\ s' = "done" /\ shut' = TRUE
        /\ Q!Flush("outward") /\ pending' = [pending EXCEPT !["outward"] = <<>>]
    BY Zenon, <1>12 DEF Q!ServeClose, Q!Flush
  <2>3. Outbound' = Outbound /\ Inbound' = Inbound
    BY Zenon, <2>2, StreamsStep
  <2>4. Replied'
    BY Zenon, <2>1, <2>2 DEF Replied
  <2> QED  BY Zenon, <2>1, <2>2, <2>3, <2>4 DEF Answering, ReadSoFar, Reading, Row, Done, End
<1> QED  BY Zenon, <1>2, <1>3, <1>4, <1>5, <1>6, <1>7, <1>8, <1>9, <1>10, <1>11, <1>12
         DEF Q!Next, Q!Query, Q!Serve, Q!Ends

\* Only the steps of the query change it.
LEMMA QuerySteps ==
  ASSUME [NetNext]_<<which, vars, queryVars, serverVars, handshakeVars>>
  PROVE  Q!Next \/ UNCHANGED queryVars
BY Zenon DEF NetNext, queryVars

\* When Bank.Wait returns nil, both goroutines have returned, the result holds the one
\* row that PostgreSQL sent or nothing if it sent none, the pair is closed, nothing is
\* left in an encoder and the pool has its server back, in whatever pieces the packets
\* have crossed the pair and in whatever order the goroutines have run.
THEOREM QueryComplete == NetSpec => []QueryDone
<1>1. NetInit => QueryInv
  <2> SUFFICES ASSUME NetInit PROVE QueryInv
    BY Zenon
  <2>1. Q!Init
    BY Zenon DEF NetInit, QueryOff
  <2>2. /\ pipe["inward"] = <<>> /\ pipe["outward"] = <<>>
        /\ pending["inward"] = <<>> /\ pending["outward"] = <<>>
    BY Zenon, <2>1 DEF Q!Init, Q!Ends
  <2>3. QueryType
    <3>1. answer \in {"one", "none", "two", "error", "empty", "lost"}
      BY Zenon, <2>1 DEF Q!Init, Q!Answers
    <3>2. <<>> \in Seq(Packets) /\ <<>> \in Seq({"err", "nil"})
      OBVIOUS
    <3> QED  BY Zenon, <2>1, <3>1, <3>2 DEF Q!Init, Q!Ends, QueryType
  <2>4. Waiting
    BY <2>1 DEF Q!Init, Waiting
  <2>5. Asking
    BY Zenon, <2>1, <2>2, Nothing DEF Q!Init, Asking, Inbound, Outbound
  <2> QED  BY Zenon, <2>3, <2>4, <2>5 DEF QueryInv
<1>2. QueryInv /\ [NetNext]_<<which, vars, queryVars, serverVars, handshakeVars>> => QueryInv'
  <2>1. ASSUME QueryInv, Q!Next PROVE QueryInv'
    BY Zenon, <2>1, QueryTypeStep, WaitingStep, QueryStep DEF QueryInv
  <2>2. ASSUME QueryInv, UNCHANGED queryVars PROVE QueryInv'
    <3>1. UNCHANGED <<site, session, answer, pending, pipe, shut, q, s, rows, result, held, ch,
                      collected, bank>>
      BY Zenon, <2>2 DEF queryVars
    <3>2. QueryType'
      BY Zenon, <2>2, <3>1 DEF QueryInv, QueryType
    <3>3. Waiting' /\ (Fine' => Fine)
      BY Zenon, <2>2, <3>1 DEF QueryInv, Waiting, Fine
    <3>4. Inbound' = Inbound /\ Outbound' = Outbound
      BY Zenon, <3>1 DEF Inbound, Outbound
    <3>5. ASSUME Asking \/ Answering PROVE Asking' \/ Answering'
      BY Zenon, <3>1, <3>4, <3>5, Unmoved
    <3> QED  BY Zenon, <2>2, <3>2, <3>3, <3>5 DEF QueryInv
  <2> QED  BY Zenon, <2>1, <2>2, QuerySteps
<1>3. QueryInv => QueryDone
  <2> SUFFICES ASSUME QueryInv, bank = "ok"
               PROVE  /\ q = "done" /\ s = "done" /\ (result = "row" <=> answer = "one")
                      /\ answer \in {"one", "none"} /\ shut /\ ~held
                      /\ \A e \in Q!Ends : pending[e] = <<>>
    BY Zenon DEF QueryDone, Q!QueryDone, Q!ResultReady, Q!TornDown
  <2>1. q = "done" /\ s = "done" /\ Fine
    BY DEF QueryInv, Waiting, Fine
  <2>2. Answering
    BY Zenon, <2>1 DEF QueryInv, Asking
  <2>3. Outbound = <<>>
    BY Zenon, <2>2 DEF Answering
  <2>4. pending["inward"] = <<>>
    BY Zenon, <2>3, StreamsStep DEF QueryInv
  <2>5. shut /\ ~held /\ pending["outward"] = <<>>
    BY Zenon, <2>1, <2>2 DEF Answering, Replied
  <2>6. (result = "row" <=> answer = "one") /\ answer \in {"one", "none"}
    BY Zenon, <2>1, <2>2 DEF Answering, ReadSoFar, Reading
  <2> QED  BY Zenon, <2>1, <2>4, <2>5, <2>6 DEF Q!Ends
<1> QED  BY <1>1, <1>2, <1>3, PTL DEF NetSpec

-----------------------------------------------------------------------------
(* The handshake.                                                          *)

\* Who the two sides are, and the shape of their states.
SidesType ==
  /\ setup \in H!Setups /\ H!Relevant(setup)
  /\ D = [pc |-> D.pc, tls |-> D.tls, key |-> D.key, proofs |-> D.proofs]
  /\ A = [pc |-> A.pc, tls |-> A.tls, user |-> A.user, database |-> A.database,
          auth |-> A.auth, proved |-> A.proved, key |-> A.key]
  /\ D.tls \in BOOLEAN /\ A.tls \in BOOLEAN
  /\ IF setup.who = "client" THEN D.pc \in {"other", "secure", "failed"}
     ELSE D.pc \in {"start", "ssl", "tls", "auth", "sasl", "ready", "cancel", "done", "failed"}
  /\ IF setup.who = "server" THEN A.pc \in {"other", "ended"} ELSE A.pc # "other"
  /\ IF setup.who = "cancel" THEN D.pc \in {"start", "cancel", "done"} ELSE D.pc # "cancel"

\* The acceptor goes on to the welcome only where the password was proved.
ProvedBefore == A.pc = "welcome" \/ A.auth => setup.accepts = "nil" \/ A.proved

\* What may be on its way to the acceptor: with ssl_mode require, nothing in the
\* clear but the request for TLS, or the cancel request.
Payloads ==
  {"empty", "k"} \cup BOOLEAN
    \cup [user : {"empty", "u"}, minor : {0, 2}, unsupported : {FALSE}, database : {"empty", "u", "db"}]
Sendable ==
  {x \in [type : {"SSLRequest", "GSSRequest", "Unknown", "Cancel", "Startup", "SASLInitial",
                  "SASLResponse", "MD5", "Password"},
          payload : Payloads, tls : BOOLEAN] :
     setup.mode = "require" => x.tls \/ x.type \in H!Plain}

ClearOnlyBefore ==
  /\ up \in Seq(Sendable)
  /\ setup.mode = "require" /\ setup.who # "cancel" /\ D.pc \in {"auth", "sasl", "ready", "done"} =>
       D.tls

\* How far a dialer and an acceptor of pggat have come with each other, and what is
\* on its way between them.
Both(dialer, acceptor, upward, downward) ==
  D.pc = dialer /\ A.pc = acceptor /\ up = upward /\ down = downward

Approach ==
  \/ /\ D.tls = FALSE
     /\ \/ Both("start", "startup", <<>>, <<>>)
        \/ Both("ssl", "startup", <<H!Message("SSLRequest", "empty", FALSE)>>, <<>>)
        \/ Both("ssl", "startup", <<>>, <<H!Message("N", "empty", A.tls)>>)
        \/ Both("ssl", "tls", <<>>, <<H!Message("S", "empty", A.tls)>>)
        \/ Both("tls", "tls", <<>>, <<>>)
  \/ Both("auth", "startup", <<H!Startup(D.tls)>>, <<>>)

Proof ==
  \/ Both("auth", "md5", <<>>, <<H!Message("Authentication", "MD5", A.tls)>>)
  \/ Both("auth", "md5", <<H!Message("MD5", setup.knows, D.tls)>>, <<>>)
  \/ Both("auth", "sasl", <<>>, <<H!Message("Authentication", "SASL", A.tls)>>)
  \/ D.proofs = 0 /\ Both("sasl", "sasl", <<H!Message("SASLInitial", TRUE, D.tls)>>, <<>>)
  \/ D.proofs = 0 /\ Both("sasl", "proof", <<>>, <<H!Message("SASLContinue", "empty", A.tls)>>)
  \/ D.proofs = 1 /\ Both("sasl", "proof", <<H!Message("SASLResponse", setup.knows, D.tls)>>, <<>>)

Final == H!Message("SASLFinal", TRUE, A.tls)
Ok == H!Message("Authentication", "Ok", A.tls)
Key == H!Message("BackendKeyData", "k", A.tls)
Parameter == H!Message("ParameterStatus", "empty", A.tls)
Ready == H!Message("ReadyForQuery", "empty", A.tls)

Welcoming ==
  \/ D.proofs = 1 /\ Both("sasl", "welcome", <<>>, <<Final>>)
  \/ Both("auth", "welcome", <<>>, <<>>)

Serving ==
  /\ A.auth /\ A.key = "k"
  /\ \/ D.proofs = 1 /\ Both("sasl", "serving", <<>>, <<Final, Ok, Key, Parameter, Ready>>)
     \/ Both("auth", "serving", <<>>, <<Ok, Key, Parameter, Ready>>)
     \/ Both("ready", "serving", <<>>, <<Key, Parameter, Ready>>)
     \/ D.key = "k" /\ Both("ready", "serving", <<>>, <<Parameter, Ready>>)
     \/ D.key = "k" /\ Both("ready", "serving", <<>>, <<Ready>>)
     \/ D.key = "k" /\ Both("done", "serving", <<>>, <<>>)

\* The session that was dialled.
Dialled ==
  A.user = "u" /\ A.database = IF setup.database = "empty" THEN "u" ELSE setup.database

\* What an acceptor that has given up may have left on its way: no ReadyForQuery.
Refusals ==
  [type : {"N", "S", "Authentication", "SASLContinue", "SASLFinal", "BackendKeyData", "Error"},
   payload : {"empty", "k", "Ok", "MD5", "SASL"} \cup BOOLEAN, tls : BOOLEAN]

\* The dialer has given up, or the acceptor has and the dialer will, or they are
\* somewhere on the way.
Together ==
  /\ D.tls = A.tls
  /\ \/ D.pc = "failed"
     \/ A.pc = "ended" /\ D.pc # "done" /\ down \in Seq(Refusals)
     \/ Approach
     \/ Dialled /\ (Proof \/ Welcoming \/ Serving)

\* A cancel request, and the connection that carries it.
Cancelling ==
  /\ down = <<>>
  /\ \/ Both("start", "startup", <<>>, <<>>) /\ gone = {}
     \/ Both("cancel", "startup", <<H!Message("Cancel", "k", FALSE)>>, <<>>) /\ gone = {}
     \/ Both("cancel", "cancel", <<>>, <<>>) /\ gone = {} /\ A.key = "k"
     \/ D.pc \in {"cancel", "done"} /\ A.pc = "ended" /\ A.key = "k"

HandshakeInv ==
  /\ SidesType /\ ProvedBefore /\ ClearOnlyBefore
  /\ setup.who = "peers" => Together
  /\ setup.who = "cancel" => Cancelling


\* The challenge the acceptor puts, by the credentials it checks.
LEMMA Challenged ==
  ASSUME SidesType, NEW next, H!Challenge(next)
  PROVE  /\ UNCHANGED <<setup, gone, D, sends>>
         /\ \/ /\ A' = [next EXCEPT !.pc = "sasl"]
               /\ down' = down \o <<H!Message("Authentication", "SASL", A.tls)>>
            \/ /\ A' = [next EXCEPT !.pc = "md5"]
               /\ down' = down \o <<H!Message("Authentication", "MD5", A.tls)>>
            \/ /\ setup.accepts = "nil" /\ A' = [next EXCEPT !.pc = "welcome"]
               /\ down' = down \o <<>>
<1>1. setup.accepts \in {"nil", "cleartext", "md5", "scram"}
  BY Zenon DEF SidesType, H!Setups, H!Relevant, H!CredentialKinds
<1>2. CASE setup.accepts \in {"cleartext", "scram"}
  BY Zenon, <1>2 DEF H!Challenge, H!SASLServer, H!ASends
<1>3. CASE setup.accepts = "md5"
  BY Zenon, <1>3 DEF H!Challenge, H!SASLServer, H!ASends
<1>4. CASE setup.accepts = "nil"
  BY Zenon, <1>4 DEF H!Challenge, H!SASLServer, H!ASends
<1> QED  BY Zenon, <1>1, <1>2, <1>3, <1>4

\* The configuration of the two sides stays.
LEMMA SetupKept ==
  ASSUME SidesType, H!Next
  PROVE  UNCHANGED setup
<1>1. CASE H!Dialer
  BY Zenon, <1>1 DEF H!Dialer, H!DStart, H!DByte, H!DAnswers, H!DStartup0, H!DChallenge, H!DStartup1,
              H!DEOF, H!DCancel, H!DCancelled, H!DSends, H!DFails
<1>2. CASE H!Acceptor
  BY Zenon, <1>2, Challenged DEF H!Acceptor, H!AStartup, H!ARouted, H!AProof, H!AWelcome, H!ACancels,
                          H!AEOF, H!ASends, H!AFails
<1>3. CASE H!Secure \/ H!Others
  BY Zenon, <1>3 DEF H!Secure, H!Others, H!XSends, H!XReads, H!XSecures, H!XLeaves, H!YSends, H!YSecures,
              H!YLeaves
<1> QED  BY Zenon, <1>1, <1>2, <1>3 DEF H!Next

\* The two sides keep their shape, and stay who they are.
LEMMA SidesStep ==
  ASSUME SidesType, H!Next
  PROVE  SidesType'
<1> USE DEF SidesType
<1>1. CASE H!DStart
  BY Zenon, <1>1 DEF H!DStart, H!DSends
<1>2. CASE H!DByte
  BY Zenon, <1>2 DEF H!DByte, H!DSends, H!DFails
<1>3. CASE H!DStartup0
  BY Zenon, <1>3 DEF H!DStartup0, H!DAnswers, H!DSends, H!DFails
<1>4. CASE H!DChallenge
  BY Zenon, <1>4 DEF H!DChallenge, H!DSends, H!DFails
<1>5. CASE H!DStartup1
  BY Zenon, <1>5 DEF H!DStartup1, H!DSends, H!DFails, H!KeepKey
<1>6. CASE H!DEOF
  BY Zenon, <1>6 DEF H!DEOF, H!DFails
<1>7. CASE H!DCancel
  BY Zenon, <1>7 DEF H!DCancel, H!DSends
<1>8. CASE H!DCancelled
  BY Zenon, <1>8 DEF H!DCancelled
<1>9. CASE H!AStartup
  <2>1. PICK next : next = [A EXCEPT !.user = Head(up).payload.user,
                              !.database = IF Head(up).payload.database = "empty" THEN Head(up).payload.user
                                           ELSE Head(up).payload.database]
    BY Zenon
  <2>2. CASE H!Challenge(next)
    <3>1. A.pc = "startup"
      BY Zenon, <1>9 DEF H!AStartup
    <3>2. UNCHANGED <<setup, D>> /\ \E to \in {"sasl", "md5", "welcome"} : A' = [next EXCEPT !.pc = to]
      BY Zenon, <2>2, Challenged
    <3> QED  BY Zenon, <2>1, <3>1, <3>2
  <2>3. CASE ~H!Challenge(next)
    BY Zenon, <1>9, <2>1, <2>3 DEF H!AStartup, H!ASends, H!AFails
  <2> QED  BY Zenon, <2>2, <2>3
<1>10. CASE H!ARouted
  BY <1>10, Challenged DEF H!ARouted
<1>11. CASE H!AProof
  BY Zenon, <1>11 DEF H!AProof, H!ASends, H!AFails
<1>12. CASE H!AWelcome
  BY Zenon, <1>12 DEF H!AWelcome, H!ASends
<1>13. CASE H!ACancels
  BY Zenon, <1>13 DEF H!ACancels
<1>14. CASE H!AEOF
  BY Zenon, <1>14 DEF H!AEOF
<1>15. CASE H!Secure
  BY Zenon, <1>15 DEF H!Secure
<1>16. CASE H!XSends
  BY Zenon, <1>16 DEF H!XSends
<1>17. CASE H!XReads
  BY Zenon, <1>17 DEF H!XReads
<1>18. CASE H!XSecures
  BY Zenon, <1>18 DEF H!XSecures
<1>19. CASE H!XLeaves
  BY Zenon, <1>19 DEF H!XLeaves
<1>20. CASE H!YSends
  BY Zenon, <1>20 DEF H!YSends
<1>21. CASE H!YSecures
  BY Zenon, <1>21 DEF H!YSecures
<1>22. CASE H!YLeaves
  BY Zenon, <1>22 DEF H!YLeaves
<1> QED
  BY Zenon, <1>1, <1>2, <1>3, <1>4, <1>5, <1>6, <1>7, <1>8, <1>9, <1>10, <1>11, <1>12, <1>13,
     <1>14, <1>15, <1>16, <1>17, <1>18, <1>19, <1>20, <1>21, <1>22
     DEF H!Next, H!Dialer, H!Acceptor, H!Others

\* Nobody is welcomed who has not proved the password, where one is asked for.
LEMMA ProvedStep ==
  ASSUME SidesType, ProvedBefore, H!Next
  PROVE  ProvedBefore'
<1> USE DEF ProvedBefore
<1>1. CASE UNCHANGED <<setup, A>>
  BY Zenon, <1>1
<1>2. CASE H!AStartup
  <2>1. PICK next : next = [A EXCEPT !.user = Head(up).payload.user,
                              !.database = IF Head(up).payload.database = "empty" THEN Head(up).payload.user
                                           ELSE Head(up).payload.database]
    BY Zenon
  <2>2. CASE H!Challenge(next)
    <3>1. /\ UNCHANGED setup
          /\ \/ \E to \in {"sasl", "md5"} : A' = [next EXCEPT !.pc = to]
             \/ setup.accepts = "nil"
      BY Zenon, <2>2, Challenged
    <3> QED  BY Zenon, <2>1, <3>1 DEF SidesType
  <2>3. CASE ~H!Challenge(next)
    BY Zenon, <1>2, <2>1, <2>3 DEF H!AStartup, H!ASends, H!AFails, SidesType
  <2> QED  BY Zenon, <2>2, <2>3
<1>3. CASE H!ARouted
  <2>1. /\ UNCHANGED setup
        /\ \/ \E to \in {"sasl", "md5"} : A' = [A EXCEPT !.pc = to]
           \/ setup.accepts = "nil"
    BY Zenon, <1>3, Challenged DEF H!ARouted
  <2> QED  BY Zenon, <2>1 DEF SidesType
<1>4. CASE H!AProof
  BY Zenon, <1>4 DEF H!AProof, H!ASends, H!AFails, H!Verified, SidesType
<1>5. CASE H!AWelcome
  BY Zenon, <1>5 DEF H!AWelcome, H!ASends, SidesType
<1>6. CASE H!ACancels \/ H!AEOF \/ H!YLeaves \/ H!Secure \/ H!XSecures
  BY Zenon, <1>6 DEF H!ACancels, H!AEOF, H!YLeaves, H!Secure, H!XSecures, SidesType
<1>7. CASE H!Dialer
  BY Zenon, <1>1, <1>7 DEF H!Dialer, H!DStart, H!DByte, H!DStartup0, H!DChallenge, H!DStartup1, H!DEOF,
                    H!DCancel, H!DCancelled, H!DSends, H!DFails, H!DAnswers
<1>8. CASE H!XSends \/ H!XReads \/ H!XLeaves \/ H!YSends \/ H!YSecures
  BY Zenon, <1>1, <1>8 DEF H!XSends, H!XReads, H!XLeaves, H!YSends, H!YSecures
<1> QED  BY Zenon, <1>2, <1>3, <1>4, <1>5, <1>6, <1>7, <1>8 DEF H!Next, H!Acceptor, H!Others

\* What the dialer may write in each of its states.
LEMMA MaySend ==
  ASSUME SidesType, ClearOnlyBefore
  PROVE  /\ setup.who # "cancel" => H!Message("SSLRequest", "empty", FALSE) \in Sendable
         /\ H!Startup(TRUE) \in Sendable
         /\ setup.mode # "require" => H!Startup(FALSE) \in Sendable
         /\ D.pc \in {"auth", "sasl"} =>
              \A type \in {"Password", "MD5", "SASLInitial", "SASLResponse"}, right \in BOOLEAN :
                 H!Message(type, right, D.tls) \in Sendable
<1>1. setup.who # "cancel" => H!Message("SSLRequest", "empty", FALSE) \in Sendable
  BY Zenon DEF H!Message, Sendable, Payloads, H!Plain
<1>2. ASSUME NEW secure \in BOOLEAN PROVE
        (setup.mode = "require" => secure) => H!Startup(secure) \in Sendable
  <2>1. PICK p : p = [user |-> "u", minor |-> 0, unsupported |-> FALSE,
                      database |-> IF setup.database = "empty" THEN "u" ELSE setup.database]
    BY Zenon
  <2>2. p \in Payloads
    BY Zenon, <2>1 DEF SidesType, H!Setups, Payloads
  <2>3. H!Startup(secure) = [type |-> "Startup", payload |-> p, tls |-> secure]
    BY Zenon, <2>1 DEF H!Startup, H!Message
  <2> QED  BY <2>2, <2>3 DEF Sendable
<1>3. ASSUME D.pc \in {"auth", "sasl"},
             NEW type \in {"Password", "MD5", "SASLInitial", "SASLResponse"}, NEW right \in BOOLEAN
      PROVE  H!Message(type, right, D.tls) \in Sendable
  BY Zenon, <1>3 DEF H!Message, Sendable, Payloads, ClearOnlyBefore, SidesType
<1> QED  BY Zenon, <1>1, <1>2, <1>3

\* With ssl_mode require, nothing is sent in the clear but the request for TLS, or the
\* cancel request.
LEMMA ClearStep ==
  ASSUME SidesType, ClearOnlyBefore, H!Next
  PROVE  ClearOnlyBefore'
<1>1. ASSUME UNCHANGED setup, up' \in Seq(Sendable),
             D'.tls = D.tls \/ D'.tls, setup.mode = "require",
             \/ D'.pc = D.pc \/ D'.pc \in {"ssl", "tls", "cancel", "failed", "other", "secure"}
             \/ D'.tls \/ D.pc \in {"auth", "sasl", "ready"}
      PROVE  ClearOnlyBefore'
  BY Zenon, <1>1 DEF ClearOnlyBefore, Sendable, H!Plain
<1>2. ASSUME UNCHANGED setup, up' \in Seq(Sendable), setup.mode # "require"
      PROVE  ClearOnlyBefore'
  BY Zenon, <1>2 DEF ClearOnlyBefore, Sendable, H!Plain
<1>3. /\ up \in Seq(Sendable) /\ up \o <<>> = up
      /\ up # <<>> => Tail(up) \in Seq(Sendable)
      /\ \A x \in Sendable : <<x>> \in Seq(Sendable) /\ up \o <<x>> \in Seq(Sendable)
  BY DEF ClearOnlyBefore
<1>4. setup.who = "client" => setup.mode # "require"
  BY Zenon DEF SidesType, H!Relevant
<1>5. setup.knows \in BOOLEAN
  BY Zenon DEF SidesType, H!Setups
<1>6. CASE H!DStart
  BY Zenon, <1>1, <1>2, <1>3, <1>6, MaySend DEF H!DStart, H!DSends, H!ShouldAttempt, SidesType
<1>7. CASE H!DByte
  BY Zenon, <1>1, <1>2, <1>3, <1>7, MaySend DEF H!DByte, H!DSends, H!DFails, H!IsRequired, SidesType
<1>8. CASE H!DStartup0
  BY Zenon, <1>1, <1>2, <1>3, <1>5, <1>8, MaySend DEF H!DStartup0, H!DAnswers, H!DSends, H!DFails, SidesType
<1>9. CASE H!DChallenge
  BY Zenon, <1>1, <1>2, <1>3, <1>5, <1>9, MaySend DEF H!DChallenge, H!DSends, H!DFails, SidesType
<1>10. CASE H!DStartup1
  BY Zenon, <1>1, <1>2, <1>3, <1>10 DEF H!DStartup1, H!DSends, H!DFails, H!KeepKey, SidesType
<1>11. CASE H!DEOF
  BY Zenon, <1>1, <1>2, <1>3, <1>11 DEF H!DEOF, H!DFails, SidesType
<1>12. CASE H!DCancel
  <2>1. H!Message("Cancel", "k", FALSE) \in Sendable
    BY Zenon, <1>12 DEF H!DCancel, H!Message, Sendable, Payloads, H!Plain
  <2>2. UNCHANGED setup /\ setup.who = "cancel" /\ up' \in Seq(Sendable)
    BY Zenon, <1>3, <1>12, <2>1 DEF H!DCancel, H!DSends
  <2> QED  BY Zenon, <2>2 DEF ClearOnlyBefore, Sendable, H!Plain
<1>13. CASE H!DCancelled
  <2>1. UNCHANGED <<setup, up>> /\ setup.who = "cancel"
    BY Zenon, <1>13 DEF H!DCancelled, SidesType
  <2> QED  BY Zenon, <1>3, <2>1 DEF ClearOnlyBefore, Sendable, H!Plain
<1>14. CASE H!AStartup
  <2>1. UNCHANGED <<setup, D>> /\ up' \in Seq(Sendable)
    BY Zenon, <1>3, <1>14, Challenged DEF H!AStartup, H!ASends, H!AFails
  <2> QED  BY Zenon, <1>1, <1>2, <2>1
<1>15. CASE H!ARouted
  BY Zenon, <1>1, <1>2, <1>3, <1>15, Challenged DEF H!ARouted
<1>16. CASE H!AProof
  BY Zenon, <1>1, <1>2, <1>3, <1>16 DEF H!AProof, H!ASends, H!AFails
<1>17. CASE H!AWelcome \/ H!ACancels \/ H!AEOF \/ H!YLeaves
  BY Zenon, <1>1, <1>2, <1>3, <1>17 DEF H!AWelcome, H!ASends, H!ACancels, H!AEOF, H!YLeaves
<1>18. CASE H!Secure
  BY ZenonT(40), <1>1, <1>2, <1>3, <1>18, MaySend DEF H!Secure, SidesType
<1>19. CASE H!XSends
  <2>1. ASSUME NEW x \in H!XMessages PROVE x \in Sendable
    <3>1. setup.mode # "require" /\ D.tls \in BOOLEAN
      BY Zenon, <1>4, <1>19 DEF H!XSends, SidesType
    <3>2. x.payload \in Payloads
      BY Zenon, <2>1 DEF H!XMessages, H!Any, Payloads
    <3> QED  BY Zenon, <2>1, <3>1, <3>2 DEF H!XMessages, H!Any, Sendable
  <2> QED  BY Zenon, <1>2, <1>3, <1>4, <1>19, <2>1 DEF H!XSends, SidesType
<1>20. CASE H!XReads \/ H!XSecures \/ H!XLeaves
  BY Zenon, <1>2, <1>3, <1>4, <1>20 DEF H!XReads, H!XSecures, H!XLeaves, SidesType
<1>21. CASE H!YSends
  BY <1>1, <1>2, <1>3, <1>21 DEF H!YSends
<1>22. CASE H!YSecures
  BY Zenon, <1>1, <1>2, <1>3, <1>22, MaySend DEF H!YSecures, SidesType
<1> QED
  BY Zenon, <1>6, <1>7, <1>8, <1>9, <1>10, <1>11, <1>12, <1>13, <1>14, <1>15, <1>16, <1>17, <1>18,
     <1>19, <1>20, <1>21, <1>22 DEF H!Next, H!Dialer, H!Acceptor, H!Others

\* What the acceptor may still answer before it serves.
LEMMA MayRefuse ==
  ASSUME SidesType
  PROVE  /\ \A type \in {"N", "S", "SASLContinue", "Error"} : H!Message(type, "empty", A.tls) \in Refusals
         /\ \A payload \in {"Ok", "MD5", "SASL"} : H!Message("Authentication", payload, A.tls) \in Refusals
         /\ Final \in Refusals /\ Ok \in Refusals /\ Key \in Refusals
BY Zenon DEF SidesType, Refusals, H!Message, Final, Ok, Key

\* Until the acceptor serves, nothing on its way ends the dialer's part.
LEMMA Unserved ==
  ASSUME SidesType, Approach \/ Proof \/ Welcoming
  PROVE  down \in Seq(Refusals) /\ D.pc # "done"
<1>1. /\ <<>> \in Seq(Refusals)
      /\ \A x \in Refusals : <<x>> \in Seq(Refusals)
  OBVIOUS
<1>2. CASE Approach
  BY Zenon, <1>1, <1>2, MayRefuse DEF Approach, Both
<1>3. CASE Proof
  BY Zenon, <1>1, <1>3, MayRefuse DEF Proof, Both
<1>4. CASE Welcoming
  BY Zenon, <1>1, <1>4, MayRefuse DEF Welcoming, Both
<1> QED  BY Zenon, <1>2, <1>3, <1>4

\* The dialer's steps, with an acceptor of pggat.
LEMMA DialerTogether ==
  ASSUME SidesType, setup.who = "peers", Together, D.pc # "failed", H!Dialer
  PROVE  Together'
<1> USE DEF SidesType
<1>1. /\ UNCHANGED <<setup, A>> /\ D'.tls = D.tls
      /\ \/ down' = down
         \/ down # <<>> /\ down' = Tail(down)
  <2>1. CASE H!DStart \/ H!DCancel
    BY Zenon, <2>1 DEF H!DStart, H!DCancel, H!DSends
  <2>2. CASE H!DByte
    BY Zenon, <2>2 DEF H!DByte, H!DSends, H!DFails
  <2>3. CASE H!DStartup0
    BY Zenon, <2>3 DEF H!DStartup0, H!DAnswers, H!DSends, H!DFails
  <2>4. CASE H!DChallenge
    BY Zenon, <2>4 DEF H!DChallenge, H!DSends, H!DFails
  <2>5. CASE H!DStartup1
    BY Zenon, <2>5 DEF H!DStartup1, H!DSends, H!DFails, H!KeepKey
  <2>6. CASE H!DEOF \/ H!DCancelled
    BY Zenon, <2>6 DEF H!DEOF, H!DFails, H!DCancelled
  <2> QED  BY Zenon, <2>1, <2>2, <2>3, <2>4, <2>5, <2>6 DEF H!Dialer
<1>2. CASE D'.pc = "failed"
  BY Zenon, <1>1, <1>2 DEF Together
<1>3. CASE A.pc = "ended" /\ down \in Seq(Refusals)
  <2>1. down' \in Seq(Refusals)
    BY <1>1, <1>3
  <2>2. down # <<>> => Head(down).type # "ReadyForQuery"
    <3>1. down # <<>> => Head(down) \in Refusals
      BY <1>3
    <3> QED  BY Zenon, <3>1 DEF Refusals
  <2>3. D.pc # "done" /\ D'.pc # "done"
    BY Zenon, <1>3, <2>2 DEF Together, Approach, Proof, Welcoming, Serving, Both, H!Dialer, H!DStart,
      H!DByte, H!DStartup0, H!DAnswers, H!DChallenge, H!DStartup1, H!DEOF, H!DCancel,
      H!DCancelled, H!DSends, H!DFails, H!KeepKey
  <2> QED  BY Zenon, <1>1, <1>3, <2>1, <2>3 DEF Together, Refusals
<1>4. CASE H!DStart /\ A.pc # "ended"
  <2>1. D.tls = FALSE /\ Both("start", "startup", <<>>, <<>>)
    BY Zenon, <1>4 DEF H!DStart, Together, Approach, Proof, Welcoming, Serving, Both
  <2>2. /\ UNCHANGED down
        /\ \/ up' = <<H!Message("SSLRequest", "empty", FALSE)>> /\ D' = [D EXCEPT !.pc = "ssl"]
           \/ up' = <<H!Startup(FALSE)>> /\ D' = [D EXCEPT !.pc = "auth"]
    BY Zenon, <1>4, <2>1, One DEF H!DStart, H!DSends, Both
  <2>3. H!Startup(FALSE)' = H!Startup(FALSE)
    BY Zenon, <1>1 DEF H!Startup
  <2>4. Approach'
    <3>1. D'.tls = FALSE /\ A'.pc = "startup" /\ down' = <<>>
      BY Zenon, <1>1, <2>1, <2>2 DEF Both
    <3>2. CASE up' = <<H!Message("SSLRequest", "empty", FALSE)>> /\ D' = [D EXCEPT !.pc = "ssl"]
      <4>1. D'.pc = "ssl"
        BY Zenon, <3>2
      <4> QED  BY Zenon, <3>1, <3>2, <4>1 DEF Approach, Both
    <3>3. CASE up' = <<H!Startup(FALSE)>> /\ D' = [D EXCEPT !.pc = "auth"]
      <4>1. D'.pc = "auth"
        BY Zenon, <3>3
      <4>2. H!Startup(D.tls)' = H!Startup(FALSE)
        BY Zenon, <2>3, <3>1 DEF H!Startup
      <4> QED  BY Zenon, <3>1, <3>3, <4>1, <4>2 DEF Approach, Both
    <3> QED  BY Zenon, <2>2, <3>2, <3>3
  <2> QED  BY Zenon, <1>1, <2>4 DEF Together
<1>5. CASE H!DByte /\ A.pc # "ended" /\ D'.pc # "failed"
  <2>1. /\ D.tls = FALSE
        /\ \/ Both("ssl", "startup", <<>>, <<H!Message("N", "empty", A.tls)>>)
           \/ Both("ssl", "tls", <<>>, <<H!Message("S", "empty", A.tls)>>)
    BY Zenon, <1>5 DEF H!DByte, Together, Approach, Proof, Welcoming, Serving, Both
  <2>2. Tail(down) = <<>> /\ (A.pc = "tls" <=> Head(down).type = "S")
    <3>1. CASE Both("ssl", "startup", <<>>, <<H!Message("N", "empty", A.tls)>>)
      BY <3>1, One DEF Both, H!Message
    <3>2. CASE Both("ssl", "tls", <<>>, <<H!Message("S", "empty", A.tls)>>)
      BY <3>2, One DEF Both, H!Message
    <3> QED  BY Zenon, <2>1, <3>1, <3>2
  <2>3. /\ down' = <<>>
        /\ \/ A.pc = "tls" /\ up' = <<>> /\ D' = [D EXCEPT !.pc = "tls"]
           \/ A.pc = "startup" /\ up' = <<H!Startup(FALSE)>> /\ D' = [D EXCEPT !.pc = "auth"]
    BY Zenon, <1>5, <2>1, <2>2, One, Nothing DEF H!DByte, H!DSends, H!DFails, Both
  <2>4. Approach'
    <3>1. CASE A.pc = "tls"
      <4>1. D'.pc = "tls" /\ D'.tls = FALSE /\ A'.pc = "tls" /\ up' = <<>> /\ down' = <<>>
        BY Zenon, <1>1, <2>1, <2>3, <3>1
      <4> QED  BY Zenon, <4>1 DEF Approach, Both
    <3>2. CASE A.pc = "startup"
      <4>1. /\ D'.pc = "auth" /\ D'.tls = FALSE /\ A'.pc = "startup" /\ down' = <<>>
            /\ up' = <<H!Startup(FALSE)>>
        BY Zenon, <1>1, <2>1, <2>3, <3>2
      <4>2. H!Startup(D.tls)' = H!Startup(FALSE)
        BY Zenon, <1>1, <4>1 DEF H!Startup
      <4> QED  BY Zenon, <4>1, <4>2 DEF Approach, Both
    <3> QED  BY Zenon, <2>3, <3>1, <3>2
  <2> QED  BY Zenon, <1>1, <2>4 DEF Together
<1>6. CASE H!DStartup0 /\ A.pc # "ended" /\ D'.pc # "failed"
  <2>1. /\ Dialled /\ D.pc = "auth" /\ up = <<>>
        /\ \/ A.pc = "md5" /\ down = <<H!Message("Authentication", "MD5", A.tls)>>
           \/ A.pc = "sasl" /\ down = <<H!Message("Authentication", "SASL", A.tls)>>
           \/ /\ A.pc = "serving" /\ A.auth /\ A.key = "k" /\ down = <<Ok, Key, Parameter, Ready>>
    BY Zenon, <1>6 DEF H!DStartup0, Together, Approach, Proof, Welcoming, Serving, Both
  <2>2. Dialled'
    BY Zenon, <1>1, <2>1 DEF Dialled
  <2>3. CASE A.pc = "md5"
    <3>1. Head(down) = H!Message("Authentication", "MD5", A.tls) /\ Tail(down) = <<>>
      BY Zenon, <2>1, <2>3, One
    <3>2. Head(down).type = "Authentication" /\ Head(down).payload = "MD5"
      BY <3>1 DEF H!Message
    <3>3. /\ down' = <<>> /\ up' = <<H!Message("MD5", setup.knows, D.tls)>> /\ D' = D
      BY Zenon, <1>6, <2>1, <3>1, <3>2, One, Nothing DEF H!DStartup0, H!DAnswers, H!DSends, H!DFails
    <3>4. Proof'
      BY Zenon, <1>1, <2>1, <2>3, <3>3 DEF Proof, Both
    <3> QED  BY Zenon, <1>1, <2>2, <3>4 DEF Together
  <2>4. CASE A.pc = "sasl"
    <3>1. Head(down) = H!Message("Authentication", "SASL", A.tls) /\ Tail(down) = <<>>
      BY Zenon, <2>1, <2>4, One
    <3>2. Head(down).type = "Authentication" /\ Head(down).payload = "SASL"
      BY <3>1 DEF H!Message
    <3>3. /\ down' = <<>> /\ up' = <<H!Message("SASLInitial", TRUE, D.tls)>>
          /\ D' = [D EXCEPT !.pc = "sasl", !.proofs = 0]
      BY Zenon, <1>6, <2>1, <3>1, <3>2, One, Nothing DEF H!DStartup0, H!DAnswers, H!DSends, H!DFails
    <3>4. Proof'
      BY Zenon, <1>1, <2>1, <2>4, <3>3 DEF Proof, Both
    <3> QED  BY Zenon, <1>1, <2>2, <3>4 DEF Together
  <2>5. CASE A.pc = "serving"
    <3>1. Head(down) = Ok /\ Tail(down) = <<Key, Parameter, Ready>>
      <4>1. down = <<Ok, Key, Parameter, Ready>>
        BY Zenon, <2>1, <2>5
      <4> QED  BY <4>1, Fronts
    <3>2. Head(down).type = "Authentication" /\ Head(down).payload = "Ok"
      BY <3>1 DEF H!Message, Ok
    <3>3. down' = <<Key, Parameter, Ready>> /\ up' = <<>> /\ D' = [D EXCEPT !.pc = "ready"]
      BY Zenon, <1>6, <2>1, <3>1, <3>2, One, Nothing DEF H!DStartup0, H!DAnswers, H!DSends, H!DFails
    <3>4. Serving'
      BY Zenon, <1>1, <2>1, <2>5, <3>3 DEF Serving, Both, Key, Parameter, Ready
    <3> QED  BY Zenon, <1>1, <2>2, <3>4 DEF Together
  <2> QED  BY Zenon, <2>1, <2>3, <2>4, <2>5
<1>7. CASE H!DChallenge /\ A.pc # "ended" /\ D'.pc # "failed"
  <2>1. /\ Dialled /\ D.pc = "sasl" /\ up = <<>>
        /\ \/ A.pc = "proof" /\ D.proofs = 0 /\ down = <<H!Message("SASLContinue", "empty", A.tls)>>
           \/ A.pc = "welcome" /\ D.proofs = 1 /\ down = <<Final>>
           \/ /\ A.pc = "serving" /\ A.auth /\ A.key = "k" /\ D.proofs = 1
              /\ down = <<Final, Ok, Key, Parameter, Ready>>
    BY Zenon, <1>7 DEF H!DChallenge, Together, Approach, Proof, Welcoming, Serving, Both
  <2>2. Dialled'
    BY Zenon, <1>1, <2>1 DEF Dialled
  <2>3. CASE A.pc = "proof"
    <3>1. Head(down).type = "SASLContinue" /\ Tail(down) = <<>> /\ D.proofs = 0
      <4>1. down = <<H!Message("SASLContinue", "empty", A.tls)>> /\ D.proofs = 0
        BY Zenon, <2>1, <2>3
      <4>2. Head(down) = H!Message("SASLContinue", "empty", A.tls) /\ Tail(down) = <<>>
        BY Zenon, <4>1, One
      <4> QED  BY <4>1, <4>2 DEF H!Message
    <3>2. /\ down' = <<>> /\ up' = <<H!Message("SASLResponse", setup.knows, D.tls)>>
          /\ D' = [D EXCEPT !.proofs = 1]
      BY Zenon, <1>7, <2>1, <3>1, One, Nothing DEF H!DChallenge, H!DSends, H!DFails
    <3>3. Proof'
      BY Zenon, <1>1, <2>1, <2>3, <3>2 DEF Proof, Both
    <3> QED  BY Zenon, <1>1, <2>2, <3>3 DEF Together
  <2>4. CASE A.pc \in {"welcome", "serving"}
    <3>1. /\ Head(down).type = "SASLFinal" /\ D.proofs = 1
          /\ Tail(down) = IF A.pc = "welcome" THEN <<>> ELSE <<Ok, Key, Parameter, Ready>>
      <4>1. CASE A.pc = "welcome"
        <5>1. down = <<Final>> /\ D.proofs = 1
          BY Zenon, <2>1, <4>1
        <5>2. Head(down) = Final /\ Tail(down) = <<>>
          BY Zenon, <5>1, One
        <5>3. Final.type = "SASLFinal"
          BY Zenon DEF Final, H!Message
        <5> QED  BY Zenon, <4>1, <5>1, <5>2, <5>3
      <4>2. CASE A.pc = "serving"
        <5>1. down = <<Final, Ok, Key, Parameter, Ready>> /\ D.proofs = 1
          BY Zenon, <2>1, <4>2
        <5>2. Head(down) = Final /\ Tail(down) = <<Ok, Key, Parameter, Ready>>
          BY <5>1, Fronts
        <5>3. Final.type = "SASLFinal"
          BY Zenon DEF Final, H!Message
        <5> QED  BY Zenon, <4>2, <5>1, <5>2, <5>3
      <4> QED  BY Zenon, <2>4, <4>1, <4>2
    <3>2. down' = Tail(down) /\ up' = <<>> /\ D' = [D EXCEPT !.pc = "auth"]
      BY Zenon, <1>7, <2>1, <3>1, One, Nothing DEF H!DChallenge, H!DSends, H!DFails
    <3>3. Welcoming' \/ Serving'
      BY Zenon, <1>1, <2>1, <2>4, <3>1, <3>2 DEF Welcoming, Serving, Both, Ok, Key, Parameter, Ready
    <3> QED  BY Zenon, <1>1, <2>2, <3>3 DEF Together
  <2> QED  BY Zenon, <2>1, <2>3, <2>4
<1>8. CASE H!DStartup1 /\ A.pc # "ended" /\ D'.pc # "failed"
  <2>1. /\ Dialled /\ D.pc = "ready" /\ up = <<>> /\ A.pc = "serving" /\ A.auth /\ A.key = "k"
        /\ \/ down = <<Key, Parameter, Ready>>
           \/ D.key = "k" /\ down = <<Parameter, Ready>>
           \/ D.key = "k" /\ down = <<Ready>>
    BY Zenon, <1>8 DEF H!DStartup1, Together, Approach, Proof, Welcoming, Serving, Both
  <2>2. Dialled'
    BY Zenon, <1>1, <2>1 DEF Dialled
  <2>3. /\ Key.type = "BackendKeyData" /\ Key.payload = "k"
        /\ Parameter.type = "ParameterStatus" /\ Ready.type = "ReadyForQuery"
    BY Zenon DEF Key, Parameter, Ready, H!Message
  <2>4. up' = <<>> /\ Key' = Key /\ Parameter' = Parameter /\ Ready' = Ready
    BY Zenon, <1>1, <1>8, <2>1, Nothing DEF H!DStartup1, H!DSends, H!DFails, Key, Parameter, Ready
  <2>5. Serving'
    <3>1. CASE down = <<Key, Parameter, Ready>>
      <4>1. Head(down) = Key /\ Tail(down) = <<Parameter, Ready>>
        BY <3>1, Fronts
      <4>2. down' = <<Parameter, Ready>> /\ D' = [D EXCEPT !.key = "k"]
        BY Zenon, <1>8, <2>3, <4>1 DEF H!DStartup1, H!DSends, H!KeepKey
      <4> QED  BY Zenon, <1>1, <2>1, <2>4, <4>2 DEF Serving, Both
    <3>2. CASE D.key = "k" /\ down = <<Parameter, Ready>>
      <4>1. Head(down) = Parameter /\ Tail(down) = <<Ready>>
        BY Zenon, <3>2, Fronts
      <4>2. down' = <<Ready>> /\ D' = D
        BY Zenon, <1>8, <2>3, <4>1 DEF H!DStartup1, H!DSends
      <4> QED  BY Zenon, <1>1, <2>1, <2>4, <3>2, <4>2 DEF Serving, Both
    <3>3. CASE D.key = "k" /\ down = <<Ready>>
      <4>1. Head(down) = Ready /\ Tail(down) = <<>>
        BY Zenon, <3>3, One
      <4>2. down' = <<>> /\ D' = [D EXCEPT !.pc = "done"]
        BY Zenon, <1>8, <2>3, <4>1 DEF H!DStartup1, H!DSends
      <4> QED  BY Zenon, <1>1, <2>1, <2>4, <3>3, <4>2 DEF Serving, Both
    <3> QED  BY Zenon, <2>1, <3>1, <3>2, <3>3
  <2> QED  BY Zenon, <1>1, <2>2, <2>5 DEF Together
<1>9. CASE H!DEOF \/ H!DCancel \/ H!DCancelled
  BY Zenon, <1>2, <1>9 DEF H!DEOF, H!DFails, H!DCancel, H!DCancelled
<1>10. A.pc = "ended" => down \in Seq(Refusals)
  BY Zenon DEF Together, Approach, Proof, Welcoming, Serving, Both
<1> QED  BY Zenon, <1>2, <1>3, <1>4, <1>5, <1>6, <1>7, <1>8, <1>9, <1>10 DEF H!Dialer

\* The acceptor gives up, and the dialer will.
LEMMA GivesUp ==
  ASSUME SidesType, Together, D.pc # "failed", A.pc \notin {"ended", "serving"},
         UNCHANGED <<setup, D>>, A'.pc = "ended", A'.tls = A.tls,
         NEW ms, ms \in Seq(Refusals), down' = down \o ms
  PROVE  Together'
<1>1. down \in Seq(Refusals) /\ D.pc # "done"
  BY Zenon, Unserved DEF Together, Serving, Both
<1>2. down \o ms \in Seq(Refusals)
  BY <1>1
<1> QED  BY Zenon, <1>1, <1>2 DEF Together, Refusals

\* The acceptor's steps, with a dialer of pggat.
LEMMA AcceptorTogether ==
  ASSUME SidesType, setup.who = "peers", Together, D.pc # "failed", H!Acceptor
  PROVE  Together'
<1> USE DEF SidesType
<1>1. A.pc \notin {"ended", "serving"}
  BY Zenon DEF H!Acceptor, H!AStartup, H!ARouted, H!AProof, H!AWelcome, H!ACancels, H!AEOF
<1>2. <<>> \in Seq(Refusals) /\ \A x \in Refusals : <<x>> \in Seq(Refusals)
  OBVIOUS
<1>3. ASSUME H!AFails(<<>>) PROVE Together'
  <2>1. /\ UNCHANGED <<setup, D>> /\ A'.pc = "ended" /\ A'.tls = A.tls
        /\ down' = down \o <<H!Message("Error", "empty", A.tls)>>
    <3>1. down \in Seq(Refusals)
      BY Zenon, <1>1, Unserved DEF Together, Serving, Both
    <3>2. down \o <<>> = down
      BY <3>1
    <3> QED  BY Zenon, <1>3, <3>2 DEF H!AFails
  <2>2. <<H!Message("Error", "empty", A.tls)>> \in Seq(Refusals)
    BY Zenon, <1>2, MayRefuse
  <2> QED  BY Zenon, <1>1, <2>1, <2>2, GivesUp
<1>4. CASE H!AStartup /\ D.pc = "ssl"
  <2>1. D.tls = FALSE /\ A.pc = "startup" /\ up = <<H!Message("SSLRequest", "empty", FALSE)>> /\ down = <<>>
    BY Zenon, <1>1, <1>4, One DEF H!AStartup, Together, Approach, Proof, Welcoming, Serving, Both
  <2>2. up' = <<>> /\ Head(up).type = "SSLRequest" /\ A.tls = FALSE
    <3>1. Head(up) = H!Message("SSLRequest", "empty", FALSE) /\ Tail(up) = <<>>
      BY Zenon, <2>1, One
    <3> QED  BY <1>4, <2>1, <3>1 DEF H!AStartup, H!Message, Together
  <2>3. /\ UNCHANGED <<setup, D>>
        /\ \/ down' = <<H!Message("N", "empty", A.tls)>> /\ A' = A
           \/ down' = <<H!Message("S", "empty", A.tls)>> /\ A' = [A EXCEPT !.pc = "tls"]
    BY Zenon, <1>4, <2>1, <2>2, One DEF H!AStartup, H!ASends, H!Byte
  <2>4. Approach'
    BY Zenon, <1>4, <2>1, <2>2, <2>3 DEF Approach, Both
  <2> QED  BY Zenon, <2>3, <2>4 DEF Together
<1>5. CASE H!AStartup /\ D.pc # "ssl"
  <2>1. D.pc = "auth" /\ A.pc = "startup" /\ up = <<H!Startup(D.tls)>> /\ down = <<>> /\ D.tls = A.tls
    BY Zenon, <1>1, <1>5 DEF H!AStartup, Together, Approach, Proof, Welcoming, Serving, Both
  <2>2. PICK p : p = [user |-> "u", minor |-> 0, unsupported |-> FALSE,
                      database |-> IF setup.database = "empty" THEN "u" ELSE setup.database]
    BY Zenon
  <2>3. up' = <<>> /\ Head(up).type = "Startup" /\ Head(up).payload = p
    <3>1. Head(up) = H!Startup(D.tls) /\ Tail(up) = <<>>
      BY Zenon, <2>1, One
    <3> QED  BY <1>5, <2>2, <3>1 DEF H!AStartup, H!Startup, H!Message
  <2>4. /\ p.user = "u" /\ p.minor = 0 /\ p.unsupported = FALSE
        /\ p.database = IF setup.database = "empty" THEN "u" ELSE setup.database
        /\ p.database # "empty"
    BY Zenon, <2>2 DEF H!Setups
  <2>5. PICK next : next = [A EXCEPT !.user = p.user,
                              !.database = IF p.database = "empty" THEN p.user ELSE p.database]
    BY Zenon
  <2>6. H!Challenge(next)
    BY Zenon, <1>5, <2>3, <2>4, <2>5 DEF H!AStartup
  <2>7. /\ next.user = "u" /\ next.tls = A.tls
        /\ next.database = IF setup.database = "empty" THEN "u" ELSE setup.database
        /\ \A to : /\ [next EXCEPT !.pc = to].pc = to /\ [next EXCEPT !.pc = to].tls = A.tls
                   /\ [next EXCEPT !.pc = to].user = next.user
                   /\ [next EXCEPT !.pc = to].database = next.database
    BY Zenon, <2>4, <2>5
  <2>8. /\ UNCHANGED <<setup, D>> /\ A'.user = "u" /\ A'.tls = A.tls
        /\ A'.database = IF setup.database = "empty" THEN "u" ELSE setup.database
        /\ \/ A'.pc = "sasl" /\ down' = <<H!Message("Authentication", "SASL", A.tls)>>
           \/ A'.pc = "md5" /\ down' = <<H!Message("Authentication", "MD5", A.tls)>>
           \/ A'.pc = "welcome" /\ down' = <<>>
    <3>1. /\ UNCHANGED <<setup, D>>
          /\ \/ /\ A' = [next EXCEPT !.pc = "sasl"]
                /\ down' = down \o <<H!Message("Authentication", "SASL", A.tls)>>
             \/ /\ A' = [next EXCEPT !.pc = "md5"]
                /\ down' = down \o <<H!Message("Authentication", "MD5", A.tls)>>
             \/ A' = [next EXCEPT !.pc = "welcome"] /\ down' = down \o <<>>
      BY Zenon, <2>6, Challenged
    <3>2. /\ down \o <<H!Message("Authentication", "SASL", A.tls)>>
               = <<H!Message("Authentication", "SASL", A.tls)>>
          /\ down \o <<H!Message("Authentication", "MD5", A.tls)>>
               = <<H!Message("Authentication", "MD5", A.tls)>>
          /\ down \o <<>> = <<>>
      BY Zenon, <2>1, One, Nothing
    <3>3. PICK to \in {"sasl", "md5", "welcome"} :
             /\ A' = [next EXCEPT !.pc = to]
             /\ to = "sasl" => down' = <<H!Message("Authentication", "SASL", A.tls)>>
             /\ to = "md5" => down' = <<H!Message("Authentication", "MD5", A.tls)>>
             /\ to = "welcome" => down' = <<>>
      BY Zenon, <3>1, <3>2
    <3>4. /\ A'.pc = to /\ A'.tls = A.tls /\ A'.user = "u"
          /\ A'.database = IF setup.database = "empty" THEN "u" ELSE setup.database
      BY Zenon, <2>7, <3>3
    <3> QED  BY Zenon, <3>1, <3>3, <3>4
  <2>9. Dialled' /\ (Proof' \/ Welcoming')
    BY Zenon, <2>1, <2>3, <2>8 DEF Dialled, Proof, Welcoming, Both
  <2> QED  BY Zenon, <2>1, <2>8, <2>9 DEF Together
<1>6. CASE H!ARouted \/ H!ACancels
  BY Zenon, <1>6 DEF H!ARouted, H!ACancels, Together, Approach, Proof, Welcoming, Serving, Both
<1>7. CASE H!AProof /\ ~H!AFails(<<>>)
  <2>1. /\ Dialled /\ D.tls = A.tls /\ down = <<>>
        /\ \/ D.pc = "auth" /\ A.pc = "md5" /\ up = <<H!Message("MD5", setup.knows, D.tls)>>
           \/ D.pc = "sasl" /\ D.proofs = 0 /\ A.pc = "sasl" /\ up = <<H!Message("SASLInitial", TRUE, D.tls)>>
           \/ D.pc = "sasl" /\ D.proofs = 1 /\ A.pc = "proof"
              /\ up = <<H!Message("SASLResponse", setup.knows, D.tls)>>
    BY Zenon, <1>1, <1>7 DEF H!AProof, Together, Approach, Proof, Welcoming, Serving, Both
  <2>2. /\ UNCHANGED <<setup, D>> /\ Tail(up) = <<>> /\ up' = <<>>
        /\ \/ /\ A.pc = "md5" /\ down' = down \o <<>>
              /\ A' = [A EXCEPT !.pc = "welcome", !.proved = Head(up).payload]
           \/ /\ A.pc = "sasl" /\ down' = down \o <<H!Message("SASLContinue", "empty", A.tls)>>
              /\ A' = [A EXCEPT !.pc = "proof"]
           \/ /\ A.pc = "proof" /\ down' = down \o <<Final>>
              /\ A' = [A EXCEPT !.pc = "welcome", !.proved = Head(up).payload]
    <3>1. Tail(up) = <<>> /\ up' = <<>>
      BY Zenon, <1>7, <2>1, One DEF H!AProof
    <3>2. CASE A.pc = "md5"
      BY Zenon, <1>7, <2>1, <3>1, <3>2 DEF H!AProof, H!ASends
    <3>3. CASE A.pc = "sasl"
      BY Zenon, <1>7, <2>1, <3>1, <3>3 DEF H!AProof, H!ASends
    <3>4. CASE A.pc = "proof"
      BY Zenon, <1>7, <2>1, <3>1, <3>4 DEF H!AProof, H!ASends, Final
    <3> QED  BY Zenon, <2>1, <3>2, <3>3, <3>4
  <2>3. Dialled' /\ A'.tls = A.tls
    BY Zenon, <2>1, <2>2 DEF Dialled
  <2>4. Proof' \/ Welcoming'
    <3>1. CASE A.pc = "md5"
      BY Zenon, <2>1, <2>2, <3>1, Nothing DEF Welcoming, Both
    <3>2. CASE A.pc = "sasl"
      BY Zenon, <2>1, <2>2, <2>3, <3>2, One DEF Proof, Both
    <3>3. CASE A.pc = "proof"
      BY Zenon, <2>1, <2>2, <2>3, <3>3, One DEF Welcoming, Both, Final
    <3> QED  BY Zenon, <2>1, <3>1, <3>2, <3>3
  <2> QED  BY Zenon, <2>1, <2>2, <2>3, <2>4 DEF Together
<1>8. CASE H!AProof /\ H!AFails(<<>>)
  BY Zenon, <1>3, <1>8
<1>9. CASE H!AWelcome
  <2>1. /\ Dialled /\ D.tls = A.tls /\ up = <<>> /\ A.pc = "welcome"
        /\ \/ D.pc = "sasl" /\ D.proofs = 1 /\ down = <<Final>>
           \/ D.pc = "auth" /\ down = <<>>
    BY Zenon, <1>1, <1>9 DEF H!AWelcome, Together, Approach, Proof, Welcoming, Serving, Both
  <2>2. UNCHANGED <<setup, D, up>>
    BY Zenon, <1>9 DEF H!AWelcome, H!ASends
  <2>3. ASSUME H!ASends(<<Ok, Key>> \o <<Parameter, Ready>>,
                        [A EXCEPT !.auth = TRUE, !.key = "k", !.pc = "serving"])
        PROVE  Together'
    <3>1. /\ A'.pc = "serving" /\ A'.auth /\ A'.key = "k" /\ A'.tls = A.tls
          /\ A'.user = A.user /\ A'.database = A.database
      BY Zenon, <2>3 DEF H!ASends
    <3>2. down' = down \o <<Ok, Key, Parameter, Ready>>
      BY Zenon, <2>3, Joined DEF H!ASends
    <3>3. Final' = Final /\ Ok' = Ok /\ Key' = Key /\ Parameter' = Parameter /\ Ready' = Ready
      BY Zenon, <3>1 DEF Final, Ok, Key, Parameter, Ready
    <3>4. \/ D.pc = "sasl" /\ D.proofs = 1 /\ down' = <<Final, Ok, Key, Parameter, Ready>>
          \/ D.pc = "auth" /\ down' = <<Ok, Key, Parameter, Ready>>
      <4>1. CASE D.pc = "sasl" /\ D.proofs = 1 /\ down = <<Final>>
        BY Zenon, <3>2, <4>1, Joined
      <4>2. CASE D.pc = "auth" /\ down = <<>>
        BY Zenon, <3>2, <4>2, Joined
      <4> QED  BY Zenon, <2>1, <4>1, <4>2
    <3>5. Serving' /\ Dialled'
      BY Zenon, <2>1, <2>2, <3>1, <3>3, <3>4 DEF Serving, Both, Dialled
    <3> QED  BY Zenon, <2>1, <2>2, <3>1, <3>5 DEF Together
  <2>4. ASSUME down' = down \o <<Ok, Key>> \o <<H!Message("Error", "empty", A.tls)>>,
               A' = [A EXCEPT !.auth = TRUE, !.key = "k", !.pc = "ended"]
        PROVE  Together'
    <3>1. A'.pc = "ended" /\ A'.tls = A.tls
      BY Zenon, <2>4
    <3>2. down \in Seq(Refusals) /\ Ok \in Refusals /\ Key \in Refusals
          /\ H!Message("Error", "empty", A.tls) \in Refusals
      BY Zenon, <1>1, Unserved, MayRefuse DEF Together, Serving, Both
    <3>3. PICK ms : ms = <<Ok, Key>> \o <<H!Message("Error", "empty", A.tls)>>
      BY Zenon
    <3>4. ms \in Seq(Refusals) /\ down' = down \o ms
      BY <2>4, <3>2, <3>3, ConcatAssociative
    <3> QED  BY Zenon, <1>1, <2>2, <3>1, <3>4, GivesUp
  <2> QED  BY Zenon, <1>9, <2>3, <2>4 DEF H!AWelcome, Ok, Key, Parameter, Ready
<1>10. CASE H!AEOF
  <2>1. down \in Seq(Refusals)
    BY Zenon, <1>1, Unserved DEF Together, Serving, Both
  <2>2. down' = down \o <<>>
    BY <1>10, <2>1 DEF H!AEOF
  <2> QED  BY Zenon, <1>1, <1>2, <1>10, <2>2, GivesUp DEF H!AEOF
<1> QED  BY Zenon, <1>4, <1>5, <1>6, <1>7, <1>8, <1>9, <1>10 DEF H!Acceptor

\* A dialer and an acceptor of pggat stay together.
LEMMA TogetherStep ==
  ASSUME SidesType, setup.who = "peers", Together, H!Next
  PROVE  Together'
<1>1. CASE H!Others
  BY Zenon, <1>1 DEF SidesType, H!Others, H!XSends, H!XReads, H!XSecures, H!XLeaves, H!YSends, H!YSecures,
              H!YLeaves
<1>2. CASE H!Secure
  <2>1. CASE D'.pc = "failed"
    BY Zenon, <1>2, <2>1 DEF H!Secure, SidesType, Together
  <2>2. CASE D'.pc # "failed"
    <3>1. /\ D'.pc = "auth" /\ D'.tls = TRUE /\ A'.pc = "startup" /\ A'.tls = TRUE
          /\ up' = <<H!Startup(TRUE)>> /\ down' = <<>> /\ UNCHANGED setup
      BY Zenon, <1>2, <2>2 DEF H!Secure, SidesType
    <3>2. H!Startup(D.tls)' = H!Startup(TRUE)
      BY Zenon, <3>1 DEF H!Startup
    <3>3. Approach'
      BY Zenon, <3>1, <3>2 DEF Approach, Both
    <3> QED  BY Zenon, <3>1, <3>3 DEF Together
  <2> QED  BY Zenon, <2>1, <2>2
<1>3. CASE H!Dialer /\ D.pc = "failed"
  BY Zenon, <1>3 DEF H!Dialer, H!DStart, H!DByte, H!DStartup0, H!DChallenge, H!DStartup1, H!DEOF,
              H!DCancel, H!DCancelled
<1>4. CASE H!Acceptor /\ D.pc = "failed"
  <2>1. UNCHANGED D /\ A'.tls = A.tls
    <3> USE DEF SidesType
    <3>1. CASE H!AStartup
      <4>1. PICK next : next = [A EXCEPT !.user = Head(up).payload.user,
                                  !.database = IF Head(up).payload.database = "empty"
                                               THEN Head(up).payload.user
                                               ELSE Head(up).payload.database]
        BY Zenon
      <4>2. CASE H!Challenge(next)
        <5>1. UNCHANGED D /\ \E to : A' = [next EXCEPT !.pc = to]
          BY Zenon, <4>2, Challenged
        <5> QED  BY Zenon, <4>1, <5>1
      <4>3. CASE ~H!Challenge(next)
        BY Zenon, <3>1, <4>1, <4>3 DEF H!AStartup, H!ASends, H!AFails
      <4> QED  BY Zenon, <4>2, <4>3
    <3>2. CASE H!ARouted
      <4>1. UNCHANGED D /\ \E to : A' = [A EXCEPT !.pc = to]
        BY Zenon, <3>2, Challenged DEF H!ARouted
      <4> QED  BY Zenon, <4>1
    <3>3. CASE H!AProof
      BY Zenon, <3>3 DEF H!AProof, H!ASends, H!AFails
    <3>4. CASE H!AWelcome
      BY Zenon, <3>4 DEF H!AWelcome, H!ASends
    <3>5. CASE H!ACancels \/ H!AEOF
      BY Zenon, <3>5 DEF H!ACancels, H!AEOF
    <3> QED  BY Zenon, <1>4, <3>1, <3>2, <3>3, <3>4, <3>5 DEF H!Acceptor
  <2> QED  BY Zenon, <1>4, <2>1 DEF Together
<1> QED  BY Zenon, <1>1, <1>2, <1>3, <1>4, DialerTogether, AcceptorTogether DEF H!Next

\* A cancel request arrives before its connection is closed.
LEMMA CancelStep ==
  ASSUME SidesType, setup.who = "cancel", Cancelling, H!Next
  PROVE  Cancelling'
<1> USE DEF SidesType
<1>1. CASE H!Others
  BY Zenon, <1>1 DEF H!Others, H!XSends, H!XReads, H!XSecures, H!XLeaves, H!YSends, H!YSecures, H!YLeaves
<1>2. CASE H!Secure
  BY Zenon, <1>2 DEF H!Secure
<1>3. CASE H!DCancel
  <2>1. Both("start", "startup", <<>>, <<>>) /\ gone = {}
    BY Zenon, <1>3 DEF H!DCancel, Cancelling, Both
  <2>2. /\ D'.pc = "cancel" /\ A' = A /\ gone' = {} /\ down' = <<>>
        /\ up' = <<H!Message("Cancel", "k", FALSE)>>
    BY Zenon, <1>3, <2>1, One DEF H!DCancel, H!DSends, Both
  <2> QED  BY Zenon, <2>1, <2>2 DEF Cancelling, Both
<1>4. CASE H!DCancelled
  <2>1. D.pc = "cancel" /\ A.pc = "ended" /\ A.key = "k" /\ down = <<>>
    BY Zenon, <1>4 DEF H!DCancelled, Cancelling, Both
  <2>2. D'.pc = "done" /\ A' = A /\ down' = <<>>
    BY Zenon, <1>4, <2>1 DEF H!DCancelled
  <2> QED  BY Zenon, <2>1, <2>2 DEF Cancelling
<1>5. CASE H!Dialer /\ ~H!DCancel /\ ~H!DCancelled
  BY Zenon, <1>5 DEF H!Dialer, H!DStart, H!DByte, H!DStartup0, H!DChallenge, H!DStartup1, H!DEOF
<1>6. CASE H!AStartup
  <2>1. Both("cancel", "startup", <<H!Message("Cancel", "k", FALSE)>>, <<>>) /\ gone = {}
    BY Zenon, <1>6 DEF H!AStartup, Cancelling, Both
  <2>2. Head(up).type = "Cancel" /\ Head(up).payload = "k" /\ Tail(up) = <<>>
    BY <2>1, One DEF Both, H!Message
  <2>3. /\ D' = D /\ A' = [A EXCEPT !.pc = "cancel", !.key = "k"] /\ up' = <<>>
        /\ UNCHANGED <<down, gone>>
    BY Zenon, <1>6, <2>2 DEF H!AStartup
  <2>4. A'.pc = "cancel" /\ A'.key = "k" /\ D'.pc = "cancel" /\ down' = <<>> /\ gone' = {}
    BY Zenon, <2>1, <2>3 DEF Both
  <2> QED  BY Zenon, <2>3, <2>4 DEF Cancelling, Both
<1>7. CASE H!ACancels
  <2>1. D.pc = "cancel" /\ A.key = "k" /\ down = <<>>
    BY Zenon, <1>7 DEF H!ACancels, Cancelling, Both
  <2>2. D' = D /\ A'.pc = "ended" /\ A'.key = A.key /\ down' = down
    BY Zenon, <1>7 DEF H!ACancels
  <2> QED  BY Zenon, <2>1, <2>2 DEF Cancelling
<1>8. CASE H!Acceptor /\ ~H!AStartup /\ ~H!ACancels
  BY Zenon, <1>8 DEF H!Acceptor, H!ARouted, H!AProof, H!AWelcome, H!AEOF, Cancelling, Both
<1> QED  BY Zenon, <1>1, <1>2, <1>3, <1>4, <1>5, <1>6, <1>7, <1>8 DEF H!Next

\* Only the steps of the handshake change it.
LEMMA HandshakeSteps ==
  ASSUME [NetNext]_<<which, vars, queryVars, serverVars, handshakeVars>>
  PROVE  H!Next \/ UNCHANGED handshakeVars
BY Zenon DEF NetNext, handshakeVars

\* What a finished handshake has set up can be relied on: dialer and acceptor agree on
\* the session, its key and its encryption; with ssl_mode require nothing was sent in
\* the clear but the request for TLS, when a connection was dialled, and the cancel
\* request, which is sent in the clear whatever ssl_mode is; and a client that had to prove that it knows the
\* password has done so before it counts as authenticated.
THEOREM HandshakeTrusted == NetSpec => []Trusted
<1>1. NetInit => HandshakeInv
  <2> SUFFICES ASSUME NetInit PROVE HandshakeInv
    BY Zenon
  <2>1. H!Init
    <3>1. CASE HandshakeOff
      <4>1. setup \in H!Setups /\ H!Relevant(setup) /\ setup.who = "cancel"
        BY Zenon, <3>1 DEF HandshakeOff, H!Setups, H!Relevant, H!Modes, H!CredentialKinds
      <4> QED  BY Zenon, <3>1, <4>1 DEF HandshakeOff, H!Init
    <3> QED  BY Zenon, <3>1 DEF NetInit
  <2>2. SidesType
    BY Zenon, <2>1 DEF H!Init, SidesType
  <2>3. ProvedBefore /\ ClearOnlyBefore
    BY <2>1 DEF H!Init, ProvedBefore, ClearOnlyBefore
  <2>4. setup.who = "peers" => Together
    BY Zenon, <2>1 DEF H!Init, Together, Approach, Both
  <2>5. setup.who = "cancel" => Cancelling
    BY Zenon, <2>1 DEF H!Init, Cancelling, Both
  <2> QED  BY Zenon, <2>2, <2>3, <2>4, <2>5 DEF HandshakeInv
<1>2. HandshakeInv /\ [NetNext]_<<which, vars, queryVars, serverVars, handshakeVars>> => HandshakeInv'
  <2>1. ASSUME HandshakeInv, H!Next PROVE HandshakeInv'
    <3>1. SidesType' /\ ProvedBefore' /\ ClearOnlyBefore'
      BY Zenon, <2>1, SidesStep, ProvedStep, ClearStep DEF HandshakeInv
    <3>2. UNCHANGED setup
      BY Zenon, <2>1, SetupKept DEF HandshakeInv
    <3>3. setup.who = "peers" => Together'
      BY Zenon, <2>1, TogetherStep DEF HandshakeInv
    <3>4. setup.who = "cancel" => Cancelling'
      BY Zenon, <2>1, CancelStep DEF HandshakeInv
    <3> QED  BY Zenon, <3>1, <3>2, <3>3, <3>4 DEF HandshakeInv
  <2>2. ASSUME HandshakeInv, UNCHANGED handshakeVars PROVE HandshakeInv'
    BY Zenon, <2>2 DEF handshakeVars, HandshakeInv, SidesType, ProvedBefore, ClearOnlyBefore, Sendable,
                H!Plain, Together, Approach, Proof, Welcoming, Serving, Both, Dialled, H!Startup,
                Final, Ok, Key, Parameter, Ready, Cancelling
  <2> QED  BY Zenon, <2>1, <2>2, HandshakeSteps
<1>3. HandshakeInv => Trusted
  <2> SUFFICES ASSUME HandshakeInv PROVE H!Agreed /\ H!NothingInClear /\ H!ProvedFirst
    BY Zenon DEF Trusted, H!Trusted
  <2>1. H!Agreed
    <3>1. CASE setup.who = "peers" /\ D.pc = "done"
      <4>1. Dialled /\ Serving /\ D.tls = A.tls
        BY Zenon, <3>1 DEF HandshakeInv, Together, Approach, Proof, Welcoming, Both
      <4> QED  BY Zenon, <3>1, <4>1 DEF Dialled, Serving, Both, H!Agreed
    <3>2. CASE setup.who = "cancel" /\ D.pc = "done"
      BY Zenon, <3>2 DEF HandshakeInv, Cancelling, Both, H!Agreed
    <3>3. CASE setup.who \notin {"peers", "cancel"} \/ D.pc # "done"
      BY Zenon, <3>3 DEF H!Agreed
    <3> QED  BY Zenon, <3>1, <3>2, <3>3
  <2>2. H!NothingInClear
    BY DEF HandshakeInv, ClearOnlyBefore, Sendable, H!NothingInClear
  <2>3. H!ProvedFirst
    BY Zenon DEF HandshakeInv, ProvedBefore, H!ProvedFirst
  <2> QED  BY Zenon, <2>1, <2>2, <2>3
<1> QED  BY <1>1, <1>2, <1>3, PTL DEF NetSpec

-----------------------------------------------------------------------------
(* The in-memory connection.                                              *)

\* The types the argument needs: bytes are numbered, and the flags of the two
\* buffers are Boolean.
MioType ==
  /\ buf \in [Dirs -> Seq(Nat)]
  /\ taken \in [Dirs -> Seq(Nat)]
  /\ written \in [Dirs -> Seq(Nat)]
  /\ closed \in [Dirs -> BOOLEAN]
  /\ DOMAIN pc = Goroutines

\* What a Read that returned io.EOF has seen, and what stays so: a closed buffer
\* is never written to again.
Ended == \A g \in eof : buf[ReadsFrom(g)] = <<>> /\ closed[ReadsFrom(g)]

MioInv == MioType /\ InOrder /\ Ended /\ NoLostWakeup

\* Both ends read from and write to a buffer of the connection.
LEMMA EndsAreDirs == \A g : ReadsFrom(g) \in Dirs /\ WritesTo(g) \in Dirs
  BY Zenon DEF ReadsFrom, WritesTo, Dirs

\* Concatenation may be regrouped.
LEMMA Regrouped ==
  ASSUME NEW x \in Seq(Nat), NEW y \in Seq(Nat), NEW z \in Seq(Nat)
  PROVE  (x \o y) \o z = x \o (y \o z)
  OBVIOUS

\* Read splits the buffer into what it returns and what it keeps.
LEMMA SplitAt ==
  ASSUME NEW t \in Seq(Nat), NEW b \in Seq(Nat), NEW n \in 1..Len(b)
  PROVE  /\ SubSeq(b, 1, n) \in Seq(Nat)
         /\ DropFront(b, n) \in Seq(Nat)
         /\ (t \o SubSeq(b, 1, n)) \o DropFront(b, n) = t \o b
  <1>1. SubSeq(b, 1, n) \in Seq(Nat)
    <2>1. \A i \in 1..n : b[i] \in Nat
      OBVIOUS
    <2>. QED  BY <2>1, SubSeqProperties
  <1>2. SubSeq(b, n + 1, Len(b)) \in Seq(Nat)
    <2>1. \A i \in (n + 1)..Len(b) : b[i] \in Nat
      OBVIOUS
    <2>. QED  BY <2>1, SubSeqProperties
  <1>3. SubSeq(b, 1, n) \o SubSeq(b, n + 1, Len(b)) = SubSeq(b, 1, Len(b))
    <2>1. /\ 1 \in 1..Len(b) + 1
          /\ n \in (1 - 1)..Len(b)
          /\ Len(b) \in n..Len(b)
      OBVIOUS
    <2>. QED  BY Zenon, <2>1, ConcatAdjacentSubSeq
  <1>4. SubSeq(b, 1, Len(b)) = b
    BY Zenon, SubSeqFull
  <1>5. (t \o SubSeq(b, 1, n)) \o SubSeq(b, n + 1, Len(b))
          = t \o (SubSeq(b, 1, n) \o SubSeq(b, n + 1, Len(b)))
    BY Zenon, <1>1, <1>2, Regrouped
  <1>. QED  BY Zenon, <1>1, <1>2, <1>3, <1>4, <1>5 DEF DropFront

\* Write adds the byte at the end of what was accepted.
LEMMA AppendAt ==
  ASSUME NEW t \in Seq(Nat), NEW b \in Seq(Nat), NEW x \in Nat
  PROVE  t \o Append(b, x) = Append(t \o b, x)
  <1>1. Append(b, x) = b \o <<x>>
    BY Zenon, AppendIsConcat
  <1>2. t \o b \in Seq(Nat)
    BY Zenon, ConcatProperties
  <1>3. Append(t \o b, x) = (t \o b) \o <<x>>
    BY Zenon, <1>2, AppendIsConcat
  <1>4. (t \o b) \o <<x>> = t \o (b \o <<x>>)
    <2>1. <<x>> \in Seq(Nat)
      OBVIOUS
    <2>. QED  BY <2>1, ConcatAssociative
  <1>. QED  BY Zenon, <1>1, <1>3, <1>4

\* After a broadcast nobody sleeps on the buffer, and the others sleep as before.
LEMMA Woken ==
  ASSUME NEW d, NEW place, NEW g \in Goroutines, Broadcast(d, place)[g] = "asleep"
  PROVE  ReadsFrom(g) # d /\ place[g] = "asleep"
  BY Zenon DEF Broadcast

\* A new connection is empty and open.
LEMMA MioInitially == Init => MioInv
  <1>. SUFFICES ASSUME Init PROVE MioInv
    BY Zenon
  <1>1. MioType
    BY DEF Init, MioType
  <1>2. InOrder
    BY DEF Init, InOrder
  <1>3. Ended /\ NoLostWakeup
    BY Zenon DEF Init, Ended, NoLostWakeup
  <1>. QED  BY Zenon, <1>1, <1>2, <1>3 DEF MioInv

\* Read, in its four outcomes: bytes, io.EOF, the deadline and a wait.
LEMMA ReadKeeps ==
  ASSUME MioInv, NEW g \in Goroutines, NEW size \in 1..2, Read(g, size)
  PROVE  MioInv'
  <1>. DEFINE d == ReadsFrom(g)
              n == IF size < Len(buf[d]) THEN size ELSE Len(buf[d])
  <1>0. d \in Dirs /\ buf[d] \in Seq(Nat) /\ taken[d] \in Seq(Nat)
    BY Zenon, EndsAreDirs DEF MioInv, MioType
  <1>1. CASE /\ buf[d] # <<>>
             /\ taken' = [taken EXCEPT ![d] = @ \o SubSeq(buf[d], 1, n)]
             /\ buf' = [buf EXCEPT ![d] = DropFront(@, n)]
             /\ pc' = [pc EXCEPT ![g] = "idle"]
             /\ UNCHANGED eof
    <2>0. UNCHANGED <<closed, written>>
      BY Zenon DEF Read
    <2>1. n \in 1..Len(buf[d])
      BY <1>0, <1>1
    <2>2. /\ SubSeq(buf[d], 1, n) \in Seq(Nat)
          /\ DropFront(buf[d], n) \in Seq(Nat)
          /\ (taken[d] \o SubSeq(buf[d], 1, n)) \o DropFront(buf[d], n)
               = taken[d] \o buf[d]
      BY Zenon, <1>0, <2>1, SplitAt
    <2>3. taken[d] \o SubSeq(buf[d], 1, n) \in Seq(Nat)
      BY Zenon, <1>0, <2>2, ConcatProperties
    <2>. HIDE DEF n
    <2>4. MioType'
      BY Zenon, <1>0, <1>1, <2>0, <2>2, <2>3 DEF MioInv, MioType
    <2>5. InOrder'
      <3>1. \A e \in Dirs : e # d => taken'[e] = taken[e] /\ buf'[e] = buf[e]
        BY Zenon, <1>1 DEF MioInv, MioType
      <3>2. /\ taken'[d] = taken[d] \o SubSeq(buf[d], 1, n)
            /\ buf'[d] = DropFront(buf[d], n)
        BY Zenon, <1>0, <1>1 DEF MioInv, MioType
      <3>. QED  BY Zenon, <2>0, <2>2, <3>1, <3>2 DEF MioInv, InOrder
    <2>6. Ended'
      BY <1>1, <2>0 DEF MioInv, MioType, Ended
    <2>7. NoLostWakeup'
      BY <1>1, <2>0 DEF MioInv, MioType, NoLostWakeup
    <2>. QED  BY Zenon, <2>4, <2>5, <2>6, <2>7 DEF MioInv
  <1>2. CASE /\ Exhausted(d)
             /\ eof' = eof \cup {g}
             /\ pc' = [pc EXCEPT ![g] = "idle"]
             /\ UNCHANGED <<buf, taken>>
    BY Zenon, <1>2 DEF Read, Exhausted, MioInv, MioType, InOrder, Ended, NoLostWakeup
  <1>3. CASE /\ buf[d] = <<>>
             /\ ~closed[d]
             /\ pc' = [pc EXCEPT ![g] = IF readDeadline[d] = "past"
                                        THEN "idle" ELSE "asleep"]
             /\ UNCHANGED <<buf, taken, eof>>
    BY Zenon, <1>3 DEF Read, MioInv, MioType, InOrder, Ended, NoLostWakeup
  <1>. QED  BY Zenon, <1>1, <1>2, <1>3 DEF Read

\* Write appends to both sequences and wakes the readers.
LEMMA WriteKeeps ==
  ASSUME MioInv, NEW g \in Goroutines, Write(g)
  PROVE  MioInv'
  <1>. DEFINE d == WritesTo(g)
              b == Len(written[d]) + 1
  <1>0. /\ d \in Dirs /\ buf[d] \in Seq(Nat) /\ taken[d] \in Seq(Nat)
        /\ written[d] \in Seq(Nat) /\ b \in Nat
    BY EndsAreDirs DEF MioInv, MioType
  <1>1. /\ ~closed[d]
        /\ buf' = [buf EXCEPT ![d] = Append(@, b)]
        /\ written' = [written EXCEPT ![d] = Append(@, b)]
        /\ pc' = Broadcast(d, pc)
        /\ UNCHANGED <<closed, eof, taken>>
    BY Zenon DEF Write
  <1>. HIDE DEF b, d
  <1>2. Append(buf[d], b) \in Seq(Nat) /\ Append(written[d], b) \in Seq(Nat)
    BY Zenon, <1>0, AppendProperties
  <1>3. MioType'
    BY Zenon, <1>0, <1>1, <1>2 DEF MioInv, MioType, Broadcast
  <1>4. InOrder'
    <2>1. \A e \in Dirs : e # d => written'[e] = written[e] /\ buf'[e] = buf[e]
      BY Zenon, <1>1 DEF MioInv, MioType
    <2>2. written'[d] = Append(written[d], b) /\ buf'[d] = Append(buf[d], b)
      BY Zenon, <1>0, <1>1 DEF MioInv, MioType
    <2>3. taken[d] \o Append(buf[d], b) = Append(taken[d] \o buf[d], b)
      BY Zenon, <1>0, AppendAt
    <2>. QED  BY Zenon, <1>0, <1>1, <2>1, <2>2, <2>3 DEF MioInv, InOrder
  <1>5. Ended'
    BY <1>1 DEF MioInv, MioType, Ended
  <1>6. NoLostWakeup'
    BY <1>1, Woken, EndsAreDirs DEF MioInv, MioType, NoLostWakeup
  <1>. QED  BY Zenon, <1>3, <1>4, <1>5, <1>6 DEF MioInv

\* Closing a buffer wakes the readers that would otherwise sleep on it.
LEMMA ShutKeeps ==
  ASSUME MioInv, NEW d \in Dirs, NEW place, Shut(d, place),
         UNCHANGED <<buf, eof, written, taken>>,
         \A g \in Goroutines : place[g] = "asleep" => pc[g] = "asleep"
  PROVE  MioInv'
  <1>1. MioType'
    BY Zenon DEF MioInv, MioType, Shut, Broadcast
  <1>2. InOrder' /\ Ended'
    BY DEF MioInv, MioType, InOrder, Ended, Shut
  <1>3. NoLostWakeup'
    BY Woken, EndsAreDirs DEF MioInv, MioType, NoLostWakeup, Shut
  <1>. QED  BY Zenon, <1>1, <1>2, <1>3 DEF MioInv

\* Every step of the connection preserves the invariant.
LEMMA MioStep == MioInv /\ [Next]_vars => MioInv'
  <1>. SUFFICES ASSUME MioInv, [Next]_vars PROVE MioInv'
    BY Zenon
  <1>1. ASSUME NEW g \in Goroutines, NEW size \in 1..2, Read(g, size)
        PROVE  MioInv'
    BY Zenon, <1>1, ReadKeeps
  <1>2. ASSUME NEW g \in Goroutines, Write(g) PROVE MioInv'
    BY Zenon, <1>2, WriteKeeps
  <1>3. ASSUME NEW g \in Goroutines, CloseOut(g) PROVE MioInv'
    <2>. DEFINE place == [pc EXCEPT ![g] = "closing"]
    <2>1. Shut("out", place) /\ UNCHANGED <<buf, eof, written, taken>>
      BY Zenon, <1>3 DEF CloseOut
    <2>2. \A h \in Goroutines : place[h] = "asleep" => pc[h] = "asleep"
      BY Zenon DEF MioInv, MioType
    <2>3. "out" \in Dirs
      BY Zenon DEF Dirs
    <2>. HIDE DEF place
    <2>. QED  BY Zenon, <2>1, <2>2, <2>3, ShutKeeps
  <1>4. ASSUME NEW g \in Goroutines, CloseIn(g) PROVE MioInv'
    <2>. DEFINE place == [pc EXCEPT ![g] = "idle"]
    <2>1. Shut("in", place) /\ UNCHANGED <<buf, eof, written, taken>>
      BY Zenon, <1>4 DEF CloseIn
    <2>2. \A h \in Goroutines : place[h] = "asleep" => pc[h] = "asleep"
      BY Zenon DEF MioInv, MioType
    <2>3. "in" \in Dirs
      BY Zenon DEF Dirs
    <2>. HIDE DEF place
    <2>. QED  BY Zenon, <2>1, <2>2, <2>3, ShutKeeps
  <1>5. ASSUME NEW g \in Goroutines, NEW t \in {"none", "ahead"},
               SetReadDeadline(g, t) \/ SetWriteDeadline(g, t)
        PROVE  MioInv'
    BY Zenon, <1>5 DEF SetReadDeadline, SetWriteDeadline, MioInv, MioType, InOrder,
                Ended, NoLostWakeup
  <1>6. ASSUME NEW d \in Dirs, Passes(d) PROVE MioInv'
    BY Zenon, <1>6 DEF Passes, MioInv, MioType, InOrder, Ended, NoLostWakeup
  <1>7. ASSUME NEW d \in Dirs, Fires(d) PROVE MioInv'
    <2>1. MioType' /\ InOrder' /\ Ended'
      BY Zenon, <1>7 DEF Fires, Broadcast, MioInv, MioType, InOrder, Ended
    <2>2. NoLostWakeup'
      BY Zenon, <1>7, Woken DEF Fires, MioInv, NoLostWakeup
    <2>. QED  BY Zenon, <2>1, <2>2 DEF MioInv
  <1>8. CASE UNCHANGED vars
    BY Zenon, <1>8 DEF vars, MioInv, MioType, InOrder, Ended, NoLostWakeup
  <1>. QED  BY Zenon, <1>1, <1>2, <1>3, <1>4, <1>5, <1>6, <1>7, <1>8 DEF Next

\* The invariant holds in every reachable state of the connection.
LEMMA MioAlways == Spec => []MioInv
  BY MioInitially, MioStep, PTL DEF Spec

\* The bytes read, then those in the buffer, are always the bytes written.
THEOREM BytesInOrder == Spec => []InOrder
  <1>1. MioInv => InOrder
    BY Zenon DEF MioInv
  <1>. QED  BY <1>1, MioAlways, PTL

\* Read reports io.EOF only when everything ever accepted has been read.
THEOREM EndIsLast == Spec => []EndAfterAll
  <1>1. MioInv => EndAfterAll
    <2>. SUFFICES ASSUME MioInv, NEW g \in eof
                  PROVE  /\ closed[ReadsFrom(g)]
                         /\ taken[ReadsFrom(g)] = written[ReadsFrom(g)]
      BY Zenon DEF EndAfterAll
    <2>1. /\ ReadsFrom(g) \in Dirs
          /\ closed[ReadsFrom(g)]
          /\ buf[ReadsFrom(g)] = <<>>
      BY Zenon, EndsAreDirs DEF MioInv, Ended
    <2>2. taken[ReadsFrom(g)] \o <<>> = taken[ReadsFrom(g)]
      BY Zenon, <2>1, ConcatEmptySeq DEF MioInv, MioType
    <2>. QED  BY Zenon, <2>1, <2>2 DEF MioInv, InOrder
  <1>. QED  BY <1>1, MioAlways, PTL

\* No Read ever sleeps on a buffer that has bytes or is closed.
THEOREM WakeupsKept == Spec => []NoLostWakeup
  <1>1. MioInv => NoLostWakeup
    BY Zenon DEF MioInv
  <1>. QED  BY <1>1, MioAlways, PTL

\* An in-memory connection delivers: bytes in order, io.EOF after the last of them,
\* and no Read that sleeps through what it waits for.
THEOREM MioDelivers == Spec => []Delivered
  BY BytesInOrder, EndIsLast, WakeupsKept, PTL DEF Delivered

-----------------------------------------------------------------------------
(* The routes of a connection.                                             *)

\* Where the goroutine of a connection may be.
Places == {"dialing", "handshake", "count", "refuse", "check", "route", "pool", "failed",
           "leave", "closed"}

\* A step of the four parts is a step of the server, or leaves the server alone.
LEMMA ServerSteps ==
  ASSUME [NetNext]_<<which, vars, queryVars, serverVars, handshakeVars>>
  PROVE  S!Next \/ UNCHANGED serverVars
BY Zenon DEF NetNext

\* The handlers of the first k routes have let the connection c pass, and left it as
\* it is now; the chain is what comes after them.
Passed(c, k) ==
  /\ chain[c] = {i \in S!Compose(first[c]) : i > k}
  /\ conn[c] = S!Rewritten(k + 1, first[c])
  /\ \A j \in S!Compose(first[c]) : j <= k =>
       S!Enter(routes[j].handle, S!Rewritten(j, first[c])) = "next"

\* Route i has a pool, which the handlers before it let the connection get to.
Reached(c, i) ==
  /\ S!Matches(routes[i].match, first[c])
  /\ routes[i].handle \in {"pool", "lookup"}
  /\ S!Enter(routes[i].handle, S!Rewritten(i, first[c])) = "pool"
  /\ \A j \in S!Before(i, first[c]) :
       S!Enter(routes[j].handle, S!Rewritten(j, first[c])) = "next"

RouteTypes ==
  /\ routes \in Seq(S!RouteType)
  /\ spc \in [Conns -> Places]
  /\ DOMAIN conn = Conns /\ DOMAIN chain = Conns /\ DOMAIN at = Conns
  /\ told \in [Conns -> Nat]

\* Where a connection is, how far it has come along the routes, and whether its
\* client has been told anything.
Standing(c) ==
  /\ spc[c] \in {"dialing", "handshake", "count", "refuse", "check"} =>
       conn[c] = first[c] /\ told[c] = 0
  /\ spc[c] = "route" => told[c] = 0 /\ \E k \in Nat : Passed(c, k)
  /\ spc[c] = "pool" =>
       told[c] = 0 /\ at[c] \in {"pool", "lookup"} /\ \E i \in DOMAIN routes : Reached(c, i)
  /\ spc[c] = "failed" => told[c] = 0
  /\ spc[c] = "leave" => told[c] <= 1 /\ (told[c] = 0 => at[c] \in {"pool", "lookup"})
  /\ spc[c] = "closed" => told[c] <= 1

RouteInv == RouteTypes /\ \A c \in Conns : Standing(c)

\* A connection starts as the handshake left it, and nobody has been told anything.
LEMMA RouteInitially ==
  ASSUME S!Init \/ ServerOff
  PROVE  RouteInv
<1>1. CASE S!Init
  <2>1. PICK config \in Configs :
          /\ routes = config.routes
          /\ spc = [c \in Conns |-> IF c \in config.clients THEN "dialing" ELSE "closed"]
          /\ conn \in [Conns -> config.kinds]
    BY Zenon, <1>1 DEF S!Init
  <2>2. first = conn /\ DOMAIN chain = Conns /\ DOMAIN at = Conns /\ told = [c \in Conns |-> 0]
    BY Zenon, <1>1 DEF S!Init
  <2>3. RouteTypes
    BY Zenon, <2>1, <2>2, NetAssumption DEF RouteTypes, Places
  <2>4. \A c \in Conns : Standing(c)
    BY <2>1, <2>2 DEF Standing
  <2> QED  BY Zenon, <2>3, <2>4 DEF RouteInv
<1>2. CASE ServerOff
  <2>1. RouteTypes
    BY <1>2 DEF ServerOff, RouteTypes, Places
  <2>2. \A c \in Conns : Standing(c)
    BY <1>2 DEF ServerOff, Standing
  <2> QED  BY Zenon, <2>1, <2>2 DEF RouteInv
<1> QED  BY Zenon, <1>1, <1>2

\* A goroutine changes the standing of its own connection only.
LEMMA OthersStand ==
  ASSUME RouteInv, NEW c \in Conns, NEW d \in Conns, d # c, UNCHANGED <<routes, first>>,
         spc'[d] = spc[d], conn'[d] = conn[d], chain'[d] = chain[d], at'[d] = at[d],
         told'[d] = told[d]
  PROVE  Standing(d)'
<1>1. \A x : S!Compose(x)' = S!Compose(x)
  BY Zenon DEF S!Compose
<1>2. \A i, x : S!Rewritten(i, x)' = S!Rewritten(i, x) /\ S!Before(i, x)' = S!Before(i, x)
  BY Zenon DEF S!Rewritten, S!Before
<1>3. \A k \in Nat : Passed(d, k) => Passed(d, k)'
  BY Zenon, <1>1, <1>2 DEF Passed
<1>4. \A i \in DOMAIN routes : Reached(d, i) => Reached(d, i)'
  BY Zenon, <1>2 DEF Reached
<1> QED  BY Zenon, <1>3, <1>4 DEF RouteInv, Standing

\* What Before and Rewritten say of the routes that the connection has passed.
LEMMA RewrittenUpTo ==
  ASSUME RouteTypes, NEW x, NEW k \in Nat, NEW i \in DOMAIN routes,
         i \in S!Compose(x), i > k, \A j \in S!Compose(x) : j > k => i <= j
  PROVE  /\ S!Rewritten(i, x) = S!Rewritten(k + 1, x)
         /\ S!Rewrite(routes[i].handle, S!Rewritten(i, x)) = S!Rewritten(i + 1, x)
         /\ S!Before(i, x) = {j \in S!Compose(x) : j <= k}
<1>1. DOMAIN routes \subseteq Nat
  BY DEF RouteTypes
<1>2. S!Before(i, x) = {j \in S!Compose(x) : j <= k}
  BY <1>1 DEF S!Before, S!Compose
<1>3. S!Before(k + 1, x) = S!Before(i, x)
  BY <1>1, <1>2 DEF S!Before, S!Compose
<1>4. S!Rewritten(i, x) = S!Rewritten(k + 1, x)
  BY Zenon, <1>3 DEF S!Rewritten
<1>5. S!Before(i + 1, x) = S!Before(i, x) \cup {i}
  BY <1>1 DEF S!Before, S!Compose
<1>6. S!Rewrite(routes[i].handle, S!Rewritten(i, x)) = S!Rewritten(i + 1, x)
  <2>1. CASE routes[i].handle = "rewrite_database"
    <3>1. S!Rewritten(i + 1, x) = [x EXCEPT !.database = "d2"]
      BY Zenon, <1>5, <2>1 DEF S!Rewritten
    <3>2. S!Rewritten(i, x) \in {x, [x EXCEPT !.database = "d2"]}
      BY Zenon DEF S!Rewritten
    <3>3. [[x EXCEPT !.database = "d2"] EXCEPT !.database = "d2"] = [x EXCEPT !.database = "d2"]
      BY Zenon
    <3> QED  BY Zenon, <2>1, <3>1, <3>2, <3>3 DEF S!Rewrite
  <2>2. CASE routes[i].handle # "rewrite_database"
    BY Zenon, <1>5, <2>2 DEF S!Rewrite, S!Rewritten
  <2> QED  BY Zenon, <2>1, <2>2
<1> QED  BY Zenon, <1>2, <1>4, <1>6

\* The next handler of the chain is entered.
LEMMA RouteKeeps ==
  ASSUME RouteInv, NEW c \in Conns, S!Route(c)
  PROVE  Standing(c)'
<1>1. /\ RouteTypes /\ spc[c] = "route" /\ UNCHANGED <<routes, first>> /\ told[c] = 0
      /\ DOMAIN routes \subseteq Nat
  BY DEF RouteInv, RouteTypes, Standing, S!Route
<1>2. PICK k \in Nat : Passed(c, k)
  BY Zenon, <1>1 DEF RouteInv, Standing
<1>3. CASE chain[c] = {}
  BY <1>1, <1>3 DEF S!Route, Standing, RouteTypes
<1>4. CASE chain[c] # {}
  <2>1. PICK i \in S!Outermost(chain[c]) :
          LET h == routes[i].handle
              to == S!Enter(h, conn[c]) IN
          /\ conn' = [conn EXCEPT ![c] = S!Rewrite(h, @)]
          /\ chain' = [chain EXCEPT ![c] = @ \ {i}]
          /\ spc' = [spc EXCEPT ![c] =
                      CASE to = "next" -> "route"
                        [] to = "error" -> "failed"
                        [] OTHER -> "pool"]
          /\ at' = [at EXCEPT ![c] = h]
          /\ UNCHANGED told
    BY Zenon, <1>4 DEF S!Route
  <2>2. PICK x : x = first[c]
    BY Zenon
  <2>3. PICK h : h = routes[i].handle
    BY Zenon
  <2>4. PICK to : to = S!Enter(h, conn[c])
    BY Zenon
  <2>5. /\ i \in S!Compose(x) /\ i \in DOMAIN routes /\ i \in Nat /\ i > k
        /\ \A j \in S!Compose(x) : j > k => i <= j
    BY Zenon, <1>1, <1>2, <2>2 DEF S!Outermost, Passed, S!Compose
  <2>6. /\ conn[c] = S!Rewritten(i, x) /\ S!Rewrite(h, conn[c]) = S!Rewritten(i + 1, x)
        /\ S!Before(i, x) = {j \in S!Compose(x) : j <= k}
    BY <1>1, <1>2, <2>2, <2>3, <2>5, RewrittenUpTo DEF Passed
  <2>7. /\ conn'[c] = S!Rewritten(i + 1, x) /\ chain'[c] = chain[c] \ {i}
        /\ at'[c] = h /\ told'[c] = 0
        /\ spc'[c] = CASE to = "next" -> "route" [] to = "error" -> "failed" [] OTHER -> "pool"
    BY Zenon, <1>1, <2>1, <2>3, <2>4, <2>6 DEF RouteTypes
  <2>8. /\ \A y : S!Compose(y)' = S!Compose(y)
        /\ \A j, y : S!Rewritten(j, y)' = S!Rewritten(j, y) /\ S!Before(j, y)' = S!Before(j, y)
    BY Zenon, <1>1 DEF S!Compose, S!Rewritten, S!Before
  <2>9. h \in {"require_ssl", "allowed_startup_parameters", "rewrite_database",
               "error", "pool", "lookup"} /\ S!Matches(routes[i].match, x)
    <3>1. routes[i] \in S!RouteType
      BY <1>1, <2>5 DEF RouteTypes
    <3>2. S!Matches(routes[i].match, x) /\ h # "nil"
      BY Zenon, <2>3, <2>5 DEF S!Compose
    <3>3. h \in {"nil", "require_ssl", "allowed_startup_parameters", "rewrite_database",
                "error", "pool", "lookup"}
      BY Zenon, <2>3, <3>1 DEF S!RouteType
    <3> QED  BY Zenon, <3>2, <3>3
  <2>10. /\ to \in {"next", "error", "pool"}
         /\ to = "pool" => h \in {"pool", "lookup"}
    BY Zenon, <2>4, <2>9 DEF S!Enter
  <2>11. CASE to = "next"
    <3>1. Passed(c, i)'
      <4>1. chain'[c] = {j \in S!Compose(x) : j > i}
        BY <1>1, <1>2, <2>2, <2>5, <2>7 DEF Passed, S!Compose
      <4>2. \A j \in S!Compose(x) : j <= i =>
              S!Enter(routes[j].handle, S!Rewritten(j, x)) = "next"
        <5>1. \A j \in S!Compose(x) : j <= i => j = i \/ j <= k
          BY <1>1, <2>5 DEF S!Compose
        <5> QED  BY Zenon, <1>2, <2>2, <2>3, <2>4, <2>6, <2>11, <5>1 DEF Passed
      <4> QED  BY Zenon, <1>1, <2>2, <2>7, <2>8, <4>1, <4>2 DEF Passed
    <3> QED  BY Zenon, <2>5, <2>7, <2>11, <3>1 DEF Standing
  <2>12. CASE to = "error"
    BY Zenon, <2>7, <2>12 DEF Standing
  <2>13. CASE to = "pool"
    <3>1. Reached(c, i)'
      BY Zenon, <1>1, <1>2, <2>2, <2>3, <2>4, <2>6, <2>8, <2>9, <2>10, <2>13 DEF Reached, Passed
    <3> QED  BY Zenon, <1>1, <2>5, <2>7, <2>10, <2>13, <3>1 DEF Standing
  <2> QED  BY Zenon, <2>10, <2>11, <2>12, <2>13
<1> QED  BY Zenon, <1>3, <1>4

\* Every step of the server keeps the standing of every connection.
LEMMA RouteStep ==
  ASSUME RouteInv, S!Next \/ UNCHANGED serverVars
  PROVE  RouteInv'
<1>1. ASSUME NEW c \in Conns, S!Accept(c) \/ S!Goroutine(c) PROVE RouteInv'
  <2> USE <1>1
  <2>1. UNCHANGED <<routes, first>>
    BY Zenon DEF S!Accept, S!Goroutine, S!Shake, S!Count, S!Refuse, S!Serve, S!Route, S!PoolEnds,
           S!Failed, S!Leave
  <2>2. \E to \in Places : spc' = [spc EXCEPT ![c] = to]
    <3>1. CASE S!Route(c)
      <4>1. CASE chain[c] = {}
        BY Zenon, <3>1, <4>1 DEF S!Route, Places
      <4>2. CASE chain[c] # {}
        <5>1. PICK i : spc' = [spc EXCEPT ![c] =
                         CASE S!Enter(routes[i].handle, conn[c]) = "next" -> "route"
                           [] S!Enter(routes[i].handle, conn[c]) = "error" -> "failed"
                           [] OTHER -> "pool"]
          BY Zenon, <3>1, <4>2 DEF S!Route
        <5>2. (CASE S!Enter(routes[i].handle, conn[c]) = "next" -> "route"
                 [] S!Enter(routes[i].handle, conn[c]) = "error" -> "failed"
                 [] OTHER -> "pool") \in Places
          BY Zenon DEF Places
        <5> QED  BY Zenon, <5>1, <5>2
      <4> QED  BY Zenon, <4>1, <4>2
    <3> QED  BY Zenon, <3>1 DEF S!Accept, S!Goroutine, S!Shake, S!Count, S!Refuse, S!Serve,
                         S!PoolEnds, S!Failed, S!Leave, Places
  <2>3. /\ \/ UNCHANGED conn \/ \E v : conn' = [conn EXCEPT ![c] = v]
        /\ \/ UNCHANGED chain \/ \E v : chain' = [chain EXCEPT ![c] = v]
        /\ \/ UNCHANGED at \/ \E v : at' = [at EXCEPT ![c] = v]
        /\ \/ UNCHANGED told \/ told' = [told EXCEPT ![c] = told[c] + 1]
    <3>1. CASE S!Route(c)
      BY Zenon, <3>1 DEF S!Route
    <3> QED  BY Zenon, <3>1 DEF S!Accept, S!Goroutine, S!Shake, S!Count, S!Refuse, S!Serve,
                         S!PoolEnds, S!Failed, S!Leave
  <2>4. RouteTypes'
    BY SMTT(30), <2>1, <2>2, <2>3 DEF RouteInv, RouteTypes
  <2>5. ASSUME NEW d \in Conns, d # c PROVE Standing(d)'
    BY Zenon, <2>1, <2>2, <2>3, <2>5, OthersStand DEF RouteInv, RouteTypes
  <2>6. Standing(c)'
    <3>0. /\ Standing(c) /\ routes \in Seq(S!RouteType) /\ spc \in [Conns -> Places]
          /\ DOMAIN conn = Conns /\ DOMAIN chain = Conns /\ DOMAIN at = Conns
          /\ told \in [Conns -> Nat]
      BY Zenon DEF RouteInv, RouteTypes
    <3>1. CASE S!Accept(c) \/ S!Shake(c)
      BY SMTT(30), <3>0, <3>1 DEF S!Accept, S!Shake, Standing
    <3>2. CASE S!Count(c)
      BY Zenon, <3>0, <3>2 DEF S!Count, Standing
    <3>3. CASE S!Refuse(c) \/ S!Failed(c)
      BY SMTT(30), <3>0, <3>3 DEF S!Refuse, S!Failed, Standing
    <3>4. CASE S!Serve(c)
      <4>0. DOMAIN routes \subseteq Nat /\ 0 \notin DOMAIN routes
        BY <3>0
      <4>1. /\ chain'[c] = S!Compose(first[c]) /\ conn'[c] = first[c] /\ spc'[c] = "route"
            /\ told'[c] = 0
        BY Zenon, <3>0, <3>4 DEF S!Serve, Standing
      <4>2. S!Compose(first[c])' = S!Compose(first[c]) /\ S!Compose(first[c]) \subseteq DOMAIN routes
        BY Zenon, <2>1 DEF S!Compose
      <4>3. S!Rewritten(0 + 1, first[c])' = first[c]
        <5>1. S!Before(0 + 1, first[c])' = {}
          BY <2>1, <4>0 DEF S!Before
        <5> QED  BY Zenon, <2>1, <5>1 DEF S!Rewritten
      <4>4. Passed(c, 0)'
        BY <2>1, <4>0, <4>1, <4>2, <4>3 DEF Passed
      <4>5. (\E k \in Nat : Passed(c, k))'
        BY Zenon, <4>4
      <4> QED  BY Zenon, <4>1, <4>5 DEF Standing
    <3>5. CASE S!Route(c)
      BY Zenon, <3>5, RouteKeeps
    <3>6. CASE S!PoolEnds(c)
      <4>1. spc[c] = "pool" /\ spc'[c] \in {"failed", "leave"} /\ told' = told /\ at' = at
        BY Zenon, <3>0, <3>6 DEF S!PoolEnds
      <4> QED  BY SMTT(30), <3>0, <4>1 DEF Standing
    <3>7. CASE S!Leave(c)
      <4>1. spc[c] = "leave" /\ spc'[c] = "closed" /\ told' = told
        BY Zenon, <3>0, <3>7 DEF S!Leave
      <4> QED  BY Zenon, <3>0, <4>1 DEF Standing
    <3> QED  BY Zenon, <3>1, <3>2, <3>3, <3>4, <3>5, <3>6, <3>7 DEF S!Goroutine
  <2> QED  BY Zenon, <2>4, <2>5, <2>6 DEF RouteInv
<1>2. ASSUME S!AcceptFails \/ S!Stop \/ S!AcceptClosed \/ UNCHANGED serverVars PROVE RouteInv'
  <2>1. UNCHANGED <<routes, first, spc, conn, chain, at, told>>
    BY Zenon, <1>2 DEF S!AcceptFails, S!Stop, S!AcceptClosed, serverVars
  <2>2. RouteTypes'
    BY Zenon, <2>1 DEF RouteInv, RouteTypes
  <2>3. /\ \A x : S!Compose(x)' = S!Compose(x)
        /\ \A i, x : S!Rewritten(i, x)' = S!Rewritten(i, x) /\ S!Before(i, x)' = S!Before(i, x)
    BY Zenon, <2>1 DEF S!Compose, S!Rewritten, S!Before
  <2>4. \A c \in Conns : Standing(c)'
    BY Zenon, <2>1, <2>3 DEF RouteInv, Standing, Passed, Reached
  <2> QED  BY Zenon, <2>2, <2>4 DEF RouteInv
<1> QED  BY Zenon, <1>1, <1>2 DEF S!Next

\* A client is taken to the pool of a route only if the route matches it and every
\* handler that is configured before it, and matches, let it pass, each of which saw
\* what the earlier ones rewrote; a client that is turned away is told why, once.
THEOREM ServerRoutes == NetSpec => []Routed
<1>1. NetInit => RouteInv
  BY Zenon, RouteInitially DEF NetInit
<1>2. RouteInv /\ [NetNext]_<<which, vars, queryVars, serverVars, handshakeVars>> => RouteInv'
  BY Zenon, RouteStep, ServerSteps
<1>3. RouteInv => Routed
  <2> SUFFICES ASSUME RouteInv PROVE S!Screened /\ S!ToldOnce
    BY Zenon DEF Routed, S!Routed
  <2>1. S!Screened
    BY Zenon DEF RouteInv, Standing, Reached, S!Screened
  <2>2. S!ToldOnce
    BY DEF RouteInv, RouteTypes, Places, Standing, S!ToldOnce
  <2> QED  BY Zenon, <2>1, <2>2
<1> QED  BY <1>1, <1>2, <1>3, PTL DEF NetSpec

-----------------------------------------------------------------------------
(* The connections of a listener.                                          *)

INSTANCE FiniteSetTheorems

\* The connections that are counted in Listener.open, and those that are served.
Counted == {c \in Conns : spc[c] \in {"refuse", "check", "route", "pool", "failed", "leave"}}
Served == {c \in Conns : spc[c] \in {"check", "route", "pool", "failed"}}

\* open is the number of connections between Add(1) and the deferred Add(-1).
OpenInv ==
  /\ spc \in [Conns -> Places]
  /\ limit \in Nat
  /\ IsFiniteSet(Counted)
  /\ open = Cardinality(Counted)
  /\ S!Limited

\* The Cardinality of module Server is the one of the library.
LEMMA SameCardinality == \A T : S!Cardinality(T) = Cardinality(T)
BY Zenon DEF S!Cardinality, Cardinality

\* Nobody is counted at first.
LEMMA OpenInitially ==
  ASSUME S!Init \/ ServerOff
  PROVE  OpenInv
<1>1. spc \in [Conns -> {"dialing", "closed"}] /\ limit \in Nat /\ open = 0
  BY NetAssumption DEF S!Init, ServerOff
<1>2. Counted = {} /\ Served = {}
  BY Zenon, <1>1 DEF Counted, Served
<1>3. IsFiniteSet({}) /\ Cardinality({}) = 0
  BY Zenon, FS_EmptySet
<1>4. spc \in [Conns -> Places]
  BY Zenon, <1>1 DEF Places
<1>5. S!Limited
  BY <1>1, <1>2, <1>3, SameCardinality DEF S!Limited, Served
<1> QED  BY Zenon, <1>1, <1>2, <1>3, <1>4, <1>5 DEF OpenInv

\* A step that changes neither who is counted nor serves anybody new.
LEMMA SameCount ==
  ASSUME OpenInv, spc' \in [Conns -> Places], UNCHANGED <<open, limit>>,
         Counted' = Counted, Served' \subseteq Served
  PROVE  OpenInv'
<1>1. IsFiniteSet(Served) /\ Served \subseteq Counted
  BY Zenon, FS_Subset DEF OpenInv, Served, Counted
<1>2. Cardinality(Served') <= Cardinality(Served)
      /\ Cardinality(Served') \in Nat /\ Cardinality(Served) \in Nat
  BY Zenon, <1>1, FS_Subset, FS_CardinalityType
<1>3. S!Limited'
  BY <1>2, SameCardinality DEF OpenInv, S!Limited, Served
<1> QED  BY Zenon, <1>3 DEF OpenInv

\* Add(1) returns a count of its own, which decides.
LEMMA CountStep ==
  ASSUME OpenInv, NEW c \in Conns, S!Count(c)
  PROVE  OpenInv'
<1> DEFINE to == IF limit # 0 /\ open + 1 > limit THEN "refuse" ELSE "check"
<1>1. /\ spc[c] = "count" /\ open' = open + 1 /\ limit' = limit
      /\ spc' = [spc EXCEPT ![c] = to] /\ to \in {"refuse", "check"}
  BY Zenon DEF S!Count
<1>2. spc' \in [Conns -> Places]
  BY Zenon, <1>1 DEF OpenInv, Places
<1>3. Counted' = Counted \cup {c} /\ c \notin Counted
  <2>1. \A d \in Conns : spc'[d] = IF d = c THEN to ELSE spc[d]
    BY Zenon, <1>1 DEF OpenInv
  <2> HIDE DEF to
  <2> QED  BY Zenon, <1>1, <2>1 DEF Counted
<1>4. IsFiniteSet(Counted') /\ Cardinality(Counted') = Cardinality(Counted) + 1
      /\ Cardinality(Counted) \in Nat
  BY Zenon, <1>3, FS_AddElement, FS_CardinalityType DEF OpenInv
<1>5. open' = Cardinality(Counted')
  BY Zenon, <1>1, <1>4 DEF OpenInv
<1>6. CASE to = "check" /\ limit # 0
  <2>1. open' <= limit
    BY <1>1, <1>4, <1>6 DEF OpenInv
  <2>2. Cardinality(Served') <= Cardinality(Counted')
    BY Zenon, <1>4, FS_Subset DEF Served, Counted
  <2>3. Cardinality(Served') \in Nat
    BY Zenon, <1>4, FS_Subset, FS_CardinalityType DEF Served, Counted
  <2>4. S!Limited'
    BY <1>1, <1>4, <1>5, <2>1, <2>2, <2>3, SameCardinality DEF S!Limited, Served, OpenInv
  <2> QED  BY Zenon, <1>1, <1>2, <1>4, <1>5, <2>4 DEF OpenInv
<1>7. CASE limit = 0
  BY Zenon, <1>1, <1>2, <1>4, <1>5, <1>7 DEF OpenInv, S!Limited
<1>8. CASE to = "refuse"
  <2>1. Served' = Served
    BY Zenon, <1>1, <1>8 DEF OpenInv, Served
  <2>2. S!Limited'
    BY Zenon, <1>1, <2>1 DEF OpenInv, S!Limited, Served
  <2> QED  BY Zenon, <1>1, <1>2, <1>4, <1>5, <2>2 DEF OpenInv
<1> QED  BY Zenon, <1>1, <1>6, <1>7, <1>8

\* The deferred Add(-1).
LEMMA LeaveStep ==
  ASSUME OpenInv, NEW c \in Conns, S!Leave(c)
  PROVE  OpenInv'
<1>1. /\ spc[c] = "leave" /\ open' = open - 1 /\ limit' = limit
      /\ spc' = [spc EXCEPT ![c] = "closed"]
  BY Zenon DEF S!Leave
<1>2. spc' \in [Conns -> Places]
  BY Zenon, <1>1 DEF OpenInv, Places
<1>3. Counted' = Counted \ {c} /\ c \in Counted /\ Served' = Served
  BY Zenon, <1>1 DEF OpenInv, Counted, Served
<1>4. IsFiniteSet(Counted') /\ Cardinality(Counted') = Cardinality(Counted) - 1
  BY Zenon, <1>3, FS_RemoveElement DEF OpenInv
<1>5. S!Limited'
  BY Zenon, <1>1, <1>3 DEF OpenInv, S!Limited, Served
<1> QED  BY Zenon, <1>1, <1>2, <1>4, <1>5 DEF OpenInv

\* The other steps of a goroutine move it among the places where it is counted, or
\* among those where it is not.
LEMMA OtherStep ==
  ASSUME OpenInv, NEW c \in Conns,
         S!Accept(c) \/ S!Shake(c) \/ S!Refuse(c) \/ S!Serve(c) \/ S!Route(c) \/ S!PoolEnds(c) \/ S!Failed(c)
  PROVE  OpenInv'
<1>1. UNCHANGED <<open, limit>>
  BY Zenon DEF S!Accept, S!Shake, S!Refuse, S!Serve, S!Route, S!PoolEnds, S!Failed
<1>2. PICK to :
        /\ spc' = [spc EXCEPT ![c] = to]
        /\ \/ spc[c] = "dialing" /\ to = "handshake"
           \/ spc[c] = "handshake" /\ to \in {"closed", "count"}
           \/ spc[c] = "refuse" /\ to = "leave"
           \/ spc[c] \in {"check", "route", "pool", "failed"}
              /\ to \in {"route", "pool", "failed", "leave"}
  <2>1. CASE S!Route(c)
    <3>1. CASE chain[c] = {}
      BY Zenon, <2>1, <3>1 DEF S!Route
    <3>2. CASE chain[c] # {}
      <4>1. PICK i : spc' = [spc EXCEPT ![c] =
                       CASE S!Enter(routes[i].handle, conn[c]) = "next" -> "route"
                         [] S!Enter(routes[i].handle, conn[c]) = "error" -> "failed"
                         [] OTHER -> "pool"]
        BY Zenon, <2>1, <3>2 DEF S!Route
      <4> DEFINE verdict == S!Enter(routes[i].handle, conn[c])
                 to == CASE verdict = "next" -> "route"
                         [] verdict = "error" -> "failed"
                         [] OTHER -> "pool"
      <4>2. spc[c] = "route" /\ spc' = [spc EXCEPT ![c] = to]
        BY Zenon, <2>1, <4>1 DEF S!Route
      <4> QED  BY Zenon, <4>2
    <3> QED  BY Zenon, <3>1, <3>2
  <2> QED  BY Zenon, <2>1 DEF S!Accept, S!Shake, S!Refuse, S!Serve, S!PoolEnds, S!Failed
<1>3. spc' \in [Conns -> Places]
  BY Zenon, <1>2 DEF OpenInv, Places
<1>4. Counted' = Counted /\ Served' \subseteq Served
  BY Zenon, <1>2 DEF OpenInv, Counted, Served
<1> QED  BY Zenon, <1>1, <1>3, <1>4, SameCount

\* The accept loop counts nobody.
LEMMA LoopStep ==
  ASSUME OpenInv, S!AcceptFails \/ S!Stop \/ S!AcceptClosed \/ UNCHANGED serverVars
  PROVE  OpenInv'
<1>1. UNCHANGED <<open, limit, spc>>
  BY Zenon DEF S!AcceptFails, S!Stop, S!AcceptClosed, serverVars
<1>2. Counted' = Counted /\ Served' \subseteq Served
  BY Zenon, <1>1 DEF Counted, Served
<1> QED  BY Zenon, <1>1, <1>2, SameCount DEF OpenInv

\* No more connections than max_connections are served at a time, for any number of
\* connections, of routes and of failures: Add gives every connection its own count.
\* And the count is right: a connection that is gone no longer uses up the limit.
THEOREM ServerLimit == NetSpec => []LimitHolds
<1>1. NetInit => OpenInv
  BY Zenon, OpenInitially DEF NetInit
<1>2. OpenInv /\ [NetNext]_<<which, vars, queryVars, serverVars, handshakeVars>> => OpenInv'
  BY Zenon, CountStep, LeaveStep, OtherStep, LoopStep, ServerSteps DEF S!Next, S!Goroutine
<1>3. OpenInv => LimitHolds
  BY Zenon, SameCardinality DEF OpenInv, LimitHolds, S!LimitHolds, Counted, S!Counted
<1> QED  BY <1>1, <1>2, <1>3, PTL DEF NetSpec

=============================================================================
