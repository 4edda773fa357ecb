--------------------------------- MODULE Eqp ---------------------------------
(***************************************************************************)
(* lib/fed/middlewares/eqp: prepared statements in transaction pooling.    *)
(* Each connection carries a mirror (State) of the statements and portals  *)
(* that its peer has made, kept up to date from the packets that pass; when*)
(* a client gets a server, SyncMiddleware compares the two mirrors and     *)
(* makes the server hold what the client expects.                          *)
(*                                                                         *)
(* One server serves several clients in turn.  The bouncer that relays the *)
(* packets is Bouncer; here it is a phase.  What the server really holds   *)
(* (real) is external, as is what a connection of its own would hold for a *)
(* client (ideal).                                                         *)
(***************************************************************************)
EXTENDS Integers, Sequences, FiniteSets, Folds

CONSTANTS
  Clients,
  Names,           \* names of prepared statements, Unnamed not among them
  Unnamed,         \* the name ""
  Queries,         \* what a statement can be prepared from
  Nil,
  MaxPackets       \* bound: packets that clients send

VARIABLES
  client,      \* mirror of a client connection
  server,      \* mirror of the server connection
  real,        \* what the server holds: statements, portals, status, skipping
  ideal,       \* the statements of a client on a connection of its own
  cur,         \* the client that has the server, or Nil
  held,        \* the packet that cur was paired for, or Nil
  phase,       \* what the bouncer is doing
  toServer,    \* packets on their way to the server
  toBouncer,   \* answers on their way back
  gone,        \* clients that have vanished
  untracked,   \* the server dropped a statement without a packet that says so
  lost,        \* the server refused a statement when cur was paired
  sent         \* packets sent by clients so far

vars == <<client, server, real, ideal, cur, held, phase, toServer, toBouncer,
          gone, untracked, lost, sent>>

AllNames == Names \cup {Unnamed}
Statements == [AllNames -> Queries \cup {Nil}]
NoStatements == [n \in AllNames |-> Nil]

\* The packets that the mirrors look at.  All portals are the unnamed one, and
\* are told apart by the statement they are bound from.
Parse(n, q) == [type |-> "Parse", name |-> n, query |-> q]
Packet(type, n) == [type |-> type, name |-> n, query |-> Nil]
Batched ==
  {Parse(n, q) : n \in AllNames, q \in Queries}
    \cup {Packet("CloseS", n) : n \in AllNames}
    \cup {Packet("Bind", n) : n \in AllNames}
    \cup {Packet("CloseP", Unnamed)}
Simple ==
  {Packet(t, Unnamed) : t \in {"Begin", "Commit", "DiscardAll", "Deallocate"}}
Sync == Packet("Sync", Unnamed)
Abort == Packet("Commit", Unnamed)
Packets == Batched \cup Simple \cup {Sync}

Status == {"I", "T", "E"}
Answers == {"ParseComplete", "BindComplete", "CloseComplete", "Complete",
            "DiscardAll", "Error"} \cup Status

Mirror ==
  [statements : Statements, portal : AllNames \cup {Nil},
   pendingStatements : Seq(Batched), pendingPortals : Seq(Batched),
   pendingCloses : Seq(Batched)]

EmptyMirror ==
  [statements |-> NoStatements, portal |-> Nil, pendingStatements |-> <<>>,
   pendingPortals |-> <<>>, pendingCloses |-> <<>>]

TypeOK ==
  /\ client \in [Clients -> Mirror]
  /\ server \in Mirror
  /\ real \in [statements : Statements, portal : AllNames \cup {Nil},
               tx : Status, skip : BOOLEAN]
  /\ ideal \in [Clients -> Statements]
  /\ cur \in Clients \cup {Nil}
  /\ held \in Batched \cup Simple \cup {Nil}
  /\ phase \in {"free", "pairing", "held", "active", "batch", "reading"}
  /\ toServer \in Seq(Packets)
  /\ toBouncer \in Seq(Answers)
  /\ gone \in SUBSET Clients
  /\ untracked \in BOOLEAN
  /\ lost \in BOOLEAN
  /\ sent \in 0..MaxPackets

Init ==
  /\ client = [c \in Clients |-> EmptyMirror]
  /\ server = EmptyMirror
  /\ real = [statements |-> NoStatements, portal |-> Nil, tx |-> "I",
             skip |-> FALSE]
  /\ ideal = [c \in Clients |-> NoStatements]
  /\ cur = Nil
  /\ held = Nil
  /\ phase = "free"
  /\ toServer = <<>>
  /\ toBouncer = <<>>
  /\ gone = {}
  /\ untracked = FALSE
  /\ lost = FALSE
  /\ sent = 0

-----------------------------------------------------------------------------
(* State: what a mirror does with a packet of each direction.              *)

NoPending(m) ==
  [m EXCEPT !.pendingStatements = <<>>, !.pendingPortals = <<>>,
            !.pendingCloses = <<>>]

\* C2S: Parse, Bind and Close are pending until they are confirmed; a simple
\* query clobbers the unnamed statement and portal.
C2S(m, p) ==
  CASE p.type = "Parse" -> [m EXCEPT !.pendingStatements = Append(@, p)]
    [] p.type = "Bind" -> [m EXCEPT !.pendingPortals = Append(@, p)]
    [] p.type \in {"CloseS", "CloseP"} -> [m EXCEPT !.pendingCloses = Append(@, p)]
    [] p.type = "Sync" -> m
    [] OTHER -> [m EXCEPT !.statements[Unnamed] = Nil, !.portal = Nil]

ParseComplete(m) ==
  IF m.pendingStatements = <<>> THEN m
  ELSE LET p == Head(m.pendingStatements)
       IN  [m EXCEPT !.pendingStatements = Tail(@), !.statements[p.name] = p.query]

BindComplete(m) ==
  IF m.pendingPortals = <<>> THEN m
  ELSE [m EXCEPT !.pendingPortals = Tail(@), !.portal = Head(m.pendingPortals).name]

CloseComplete(m) ==
  IF m.pendingCloses = <<>> THEN m
  ELSE LET p == Head(m.pendingCloses)
           closed == [m EXCEPT !.pendingCloses = Tail(@)]
       IN  IF p.type = "CloseP" THEN [closed EXCEPT !.portal = Nil]
           ELSE [closed EXCEPT !.statements[p.name] = Nil]

\* Mutant: what failed stays pending.
ReadyForQueryKeeps(m, t) == IF t = "I" THEN [m EXCEPT !.portal = Nil] ELSE m

\* The end of the transaction destroys the portals; what has not been
\* confirmed by now has failed.
ReadyForQuery(m, t) ==
  NoPending(IF t = "I" THEN [m EXCEPT !.portal = Nil] ELSE m)

S2C(m, a) ==
  CASE a = "ParseComplete" -> ParseComplete(m)
    [] a = "BindComplete" -> BindComplete(m)
    [] a = "CloseComplete" -> CloseComplete(m)
    [] a = "DiscardAll" -> EmptyMirror
    [] a \in Status -> ReadyForQuery(m, a)
    [] OTHER -> m

-----------------------------------------------------------------------------
(* SyncMiddleware.                                                         *)

\* Statements of the server that the client does not have, or has otherwise;
\* the unnamed one is overwritten rather than closed.
ToClose(s, c) ==
  {n \in AllNames :
     /\ s.statements[n] # Nil
     /\ s.statements[n] # c.statements[n]
     /\ n = Unnamed => c.statements[n] = Nil}

\* Mutant: only names that the server does not know are prepared.
ToParseMissing(s, c) ==
  {n \in AllNames : c.statements[n] # Nil /\ s.statements[n] = Nil}

ToParse(s, c) ==
  {n \in AllNames : c.statements[n] # Nil /\ s.statements[n] # c.statements[n]}

\* The orders in which Go may range over S.
Orders(S) ==
  {f \in [1..Cardinality(S) -> S] : \A x \in S : \E i \in DOMAIN f : f[i] = x}

\* The packets that make the server hold what the client expects: portals
\* closed, statements closed, statements prepared, portals bound.  Within each
\* group the order is that of a Go map.
SyncPackets(s, c) ==
  LET unbind == IF s.portal = Nil THEN <<>> ELSE <<Packet("CloseP", Unnamed)>>
      bind == IF c.portal = Nil THEN <<>> ELSE <<Packet("Bind", c.portal)>>
      closes == {Packet("CloseS", n) : n \in ToClose(s, c)}
      parses == {Parse(n, c.statements[n]) : n \in ToParse(s, c)}
  IN  {unbind \o x \o y \o bind : x \in Orders(closes), y \in Orders(parses)}

\* The mirror of the server after these packets have been written.
Written(s, ps) ==
  MapThenFoldSet(LAMBDA p, mirror : C2S(mirror, p), s, LAMBDA i : ps[i],
                 LAMBDA S : CHOOSE i \in S : \A j \in S : j <= i, DOMAIN ps)

\* A client gets the server for a packet that has passed its mirror already;
\* Sync is sent if there was anything to send.
SyncMiddleware(c, p) ==
  /\ phase = "free"
  /\ c \notin gone
  /\ sent < MaxPackets
  /\ sent' = sent + 1
  /\ cur' = c
  /\ held' = p
  /\ lost' = FALSE
  /\ client' = [client EXCEPT ![c] = C2S(@, p)]
  /\ \E ps \in SyncPackets(server, client'[c]) :
       /\ server' = Written(server, ps)
       /\ toServer' = IF ps = <<>> THEN <<>> ELSE Append(ps, Sync)
       /\ phase' = IF ps = <<>> THEN "held" ELSE "pairing"
  /\ UNCHANGED <<real, ideal, toBouncer, gone, untracked>>

-----------------------------------------------------------------------------
(* The bouncer.                                                            *)

After(p) == IF p \in Simple THEN "reading" ELSE "batch"

\* The packet that cur was paired for is written to the server.
Bounce ==
  /\ phase = "held"
  /\ server' = C2S(server, held)
  /\ toServer' = Append(toServer, held)
  /\ phase' = After(held)
  /\ held' = Nil
  /\ UNCHANGED <<client, real, ideal, cur, toBouncer, gone, untracked, lost, sent>>

\* A packet of the client passes its mirror, then that of the server.
Send(p, then) ==
  /\ cur \notin gone
  /\ sent < MaxPackets
  /\ sent' = sent + 1
  /\ client' = [client EXCEPT ![cur] = C2S(@, p)]
  /\ server' = C2S(server, p)
  /\ toServer' = Append(toServer, p)
  /\ phase' = then
  /\ UNCHANGED <<real, ideal, cur, held, toBouncer, gone, untracked, lost>>

SendBatched(p) == phase \in {"active", "batch"} /\ Send(p, "batch")

SendSync == phase = "batch" /\ Send(Sync, "reading")

SendSimple(p) == phase = "active" /\ Send(p, "reading")

\* The client has vanished in a batch or a transaction: the bouncer ends it.
Vanish ==
  /\ phase \in {"batch", "active"}
  /\ gone' = gone \cup {cur}
  /\ LET p == IF phase = "batch" THEN Sync ELSE Abort
     IN  /\ toServer' = Append(toServer, p)
         /\ server' = C2S(server, p)
  /\ phase' = "reading"
  /\ client' = [client EXCEPT ![cur] = EmptyMirror]
  /\ UNCHANGED <<real, ideal, cur, held, toBouncer, untracked, lost, sent>>

\* The next answer passes the mirror of the server and, if a client is there
\* to get it, that of the client.  The server is free when it is idle.
Read ==
  /\ phase \in {"pairing", "reading"}
  /\ toBouncer # <<>>
  /\ LET a == Head(toBouncer)
         free == phase = "reading" /\ a = "I"
     IN  /\ server' = S2C(server, a)
         /\ client' = IF phase = "pairing" \/ cur \in gone THEN client
                      ELSE [client EXCEPT ![cur] = S2C(@, a)]
         /\ lost' = (lost \/ (phase = "pairing" /\ a = "Error"))
         /\ phase' = CASE free -> "free"
                       [] a \in Status /\ ~free -> IF phase = "pairing" THEN "held" ELSE "active"
                       [] OTHER -> phase
         /\ cur' = IF free THEN Nil ELSE cur
  /\ toBouncer' = Tail(toBouncer)
  /\ UNCHANGED <<real, ideal, held, toServer, gone, untracked, sent>>

-----------------------------------------------------------------------------
(* The server.  It gets to see what has been written when the bouncer      *)
(* reads from it, which flushes the connection (Conn.ReadPacket).          *)

Flushed == phase \in {"pairing", "reading"} /\ toServer # <<>>

\* The statements after a packet that succeeds.
Effect(st, p) ==
  CASE p.type = "Parse" -> [st EXCEPT ![p.name] = p.query]
    [] p.type = "CloseS" -> [st EXCEPT ![p.name] = Nil]
    [] p.type \in {"DiscardAll", "Deallocate"} -> NoStatements
    [] p.type \in {"Begin", "Commit"} -> [st EXCEPT ![Unnamed] = Nil]
    [] OTHER -> st

\* Packets that the server cannot refuse, and packets that it must refuse.
Certain(p) == p.type \in {"Bind", "CloseS", "CloseP", "Begin", "Commit", "DiscardAll",
                          "Deallocate"}
Impossible(p) ==
  \/ real.tx = "E" /\ p.type \notin {"CloseS", "CloseP", "Commit"}
  \/ p.type = "Parse" /\ p.name # Unnamed /\ real.statements[p.name] # Nil
  \/ p.type = "Bind" /\ real.statements[p.name] = Nil
  \/ p.type = "DiscardAll" /\ real.tx # "I"

TxAfter(p) ==
  CASE p.type = "Begin" -> "T" [] p.type = "Commit" -> "I" [] OTHER -> real.tx

PortalAfter(p, t) ==
  IF p \in Simple \/ p.type = "CloseP" \/ (p = Sync /\ t = "I") THEN Nil
  ELSE IF p.type = "Bind" THEN p.name ELSE real.portal

Answer(p) ==
  CASE p.type = "Parse" -> <<"ParseComplete">>
    [] p.type = "Bind" -> <<"BindComplete">>
    [] p.type \in {"CloseS", "CloseP"} -> <<"CloseComplete">>
    [] p.type = "Sync" -> <<real.tx>>
    [] p.type = "DiscardAll" -> <<"DiscardAll", "I">>
    [] OTHER -> <<"Complete", TxAfter(p)>>

ServerSkips ==
  /\ Flushed
  /\ real.skip /\ Head(toServer) # Sync
  /\ toServer' = Tail(toServer)
  /\ UNCHANGED <<client, server, real, ideal, cur, held, phase, toBouncer, gone,
                 untracked, lost, sent>>

ServerAccepts ==
  /\ Flushed
  /\ LET p == Head(toServer)
     IN  /\ p = Sync \/ (~real.skip /\ ~Impossible(p))
         /\ real' = [statements |-> Effect(real.statements, p),
                     portal |-> PortalAfter(p, TxAfter(p)),
                     tx |-> TxAfter(p), skip |-> FALSE]
         /\ ideal' = IF phase = "pairing" THEN ideal
                     ELSE [ideal EXCEPT ![cur] = Effect(@, p)]
         /\ toBouncer' = toBouncer \o Answer(p)
         /\ untracked' = (untracked \/ p.type = "Deallocate")
  /\ toServer' = Tail(toServer)
  /\ UNCHANGED <<client, server, cur, held, phase, gone, lost, sent>>

\* A refused Parse or simple query has destroyed the unnamed statement all the
\* same; a refused packet of a batch skips the rest of it.
ServerRefuses ==
  /\ Flushed
  /\ LET p == Head(toServer)
         failed == IF real.tx = "I" THEN "I" ELSE "E"
         drops == p.name = Unnamed /\ (p.type = "Parse" \/ p \in Simple)
         Drop(st) == IF drops THEN [st EXCEPT ![Unnamed] = Nil] ELSE st
     IN  /\ p # Sync /\ ~real.skip
         /\ Impossible(p) \/ ~Certain(p)
         /\ real' = [statements |-> Drop(real.statements),
                     portal |-> IF p \in Simple THEN Nil ELSE real.portal,
                     tx |-> failed, skip |-> p \notin Simple]
         /\ ideal' = IF phase = "pairing" THEN ideal
                     ELSE [ideal EXCEPT ![cur] = Drop(@)]
         /\ toBouncer' = toBouncer \o IF p \in Simple THEN <<"Error", failed>>
                                      ELSE <<"Error">>
         /\ untracked' = (untracked \/ (drops /\ p.type = "Parse"))
  /\ toServer' = Tail(toServer)
  /\ UNCHANGED <<client, server, cur, held, phase, gone, lost, sent>>

Next ==
  \/ \E c \in Clients, p \in Batched \cup Simple : SyncMiddleware(c, p)
  \/ Bounce
  \/ \E p \in Batched : SendBatched(p)
  \/ \E p \in Simple : SendSimple(p)
  \/ SendSync \/ Vanish \/ Read
  \/ ServerSkips \/ ServerAccepts \/ ServerRefuses

Spec == Init /\ [][Next]_vars

-----------------------------------------------------------------------------
Quiet == phase \in {"free", "held", "active"}

\* Followed: the mirror of the server connection is what the server holds, and
\* nothing is pending in it, whenever nothing is on its way.  The next pairing
\* decides by the mirror what to send.
Followed ==
  Quiet => /\ server.statements = real.statements
           /\ server = NoPending(server)
           /\ server.portal = real.portal

\* Followed, as long as every statement is dropped by a packet that says so.
MirrorTrue == ~untracked => Followed

\* Pooling is transparent: a client finds on the server exactly the statements
\* it would have on a connection of its own, and none of another client.  When
\* the server refuses to prepare a statement again, it skips the statements
\* behind it: named ones may be missing, and the unnamed one may still be that
\* of another client, which SyncMiddleware left to be overwritten.  A simple
\* query that cur was paired for has dropped its unnamed statement already.
Transparent ==
  phase \in {"held", "active"} /\ ~untracked /\ cur \notin gone =>
    \A n \in AllNames :
      \/ held \in Simple /\ n = Unnamed
      \/ real.statements[n] = ideal[cur][n]
      \/ lost /\ (real.statements[n] = Nil \/ n = Unnamed)

\* SyncMiddleware closes portals and binds them again, but "there won't be any
\* for the normal case": no portal survives the transaction in either mirror,
\* so none is bound on a server on which it was not made.
NoPortalMoves ==
  phase = "free" => server.portal = Nil /\ \A c \in Clients \ gone : client[c].portal = Nil

\* What a client finds on the server it is given: its own statements, and no portal.
OwnStatements == TypeOK /\ Transparent /\ NoPortalMoves

==============================================================================
