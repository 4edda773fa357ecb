-------------------------------- MODULE Codec --------------------------------
(***************************************************************************)
(* The packet framing of lib/fed: a Decoder reading one connection and the *)
(* Encoder of another one that its packets are relayed to                  *)
(* (decoder.go, encoder.go, packet.go, netconncodec/codec.go).             *)
(*                                                                         *)
(* The bytes of a connection arrive in chunks of any size up to the        *)
(* buffer's and the connection may end in the middle of a packet.  After   *)
(* each ReadPacket the caller reads some fields, relays the packet, writes *)
(* a packet of its own, or leaves the packet unread.                       *)
(*                                                                         *)
(* A byte is <<p, i>>: byte i of packet p, the type, four bytes of length  *)
(* and then the payload.  The first packet of a connection may have no     *)
(* type, as a startup message, or be a single byte, as the answer to a     *)
(* request for TLS; the caller knows what it reads next.  A payload ends   *)
(* with the terminator of a string, as a query does.  The buffer is the    *)
(* slice buffer[bufferRead:bufferWrite]: both indices return to zero       *)
(* together, so the buffer is refilled only when that slice is empty.      *)
(***************************************************************************)
EXTENDS Integers, Sequences, SequencesExt

CONSTANTS BufSize,      \* defaultBufferSize
          Sizes,        \* payload lengths
          MaxPackets    \* bound on the packets a peer sends

Header == 5
Own == 0                \* the packets the caller writes itself
OwnFields == {<<>>, <<1, 4, 2>>}    \* as field widths

VARIABLES sizes,   \* the kind and the payload length of each packet of the stream
          stream,  \* the bytes still to arrive before the connection ends
          at,      \* where the caller is: "idle" or inside a method, "dead" after an error
          dec,     \* the Decoder: buf, cur, len, pos and the method's got and n
          enc,     \* the Encoder: buf, len, pos
          out,     \* the bytes the encoder wrote to its connection
          log      \* history: the packets whose writing began

vars == <<sizes, stream, at, dec, enc, out, log>>

Typed(n) == [kind |-> "typed", n |-> n]
Untyped(n) == [kind |-> "untyped", n |-> n]
Single == [kind |-> "byte", n |-> 0]

\* The bytes in front of the payload, and all the bytes.
Width(kind) == CASE kind = "typed" -> Header [] kind = "untyped" -> Header - 1 [] kind = "byte" -> 1
Bytes(p, x) ==
  [i \in 1..Width(x.kind) + x.n |-> <<p, IF x.kind = "untyped" THEN i + 1 ELSE i>>]
Stream(s) == FlattenSeq([p \in DOMAIN s |-> Bytes(p, s[p])])

IsZero(b) == IF b[2] <= Header THEN b[2] \in 2..4 ELSE b[2] = Header + sizes[b[1]].n

Lesser(a, b) == IF a < b THEN a ELSE b
Take(s, n) == SubSeq(s, 1, n)
Drop(s, n) == SubSeq(s, n + 1, Len(s))

Init ==
  /\ \E s \in UNION {[1..n -> Sizes] : n \in 1..MaxPackets} :
     \E first \in {Typed(s[1]), Untyped(s[1]), Single} :
       sizes = [p \in DOMAIN s |-> IF p = 1 THEN first ELSE Typed(s[p])]
  /\ \E n \in 0..Len(Stream(sizes)) : stream = Take(Stream(sizes), n)
  /\ at = "idle"
  /\ dec = [buf |-> <<>>, cur |-> 0, len |-> 0, pos |-> 0, got |-> <<>>, n |-> 0]
  /\ enc = [buf |-> <<>>, len |-> 0, pos |-> 0]
  /\ out = <<>>
  /\ log = <<>>

-----------------------------------------------------------------------------
(* Decoder.                                                                *)

Reading == at \in {"discard", "header", "uint", "string", "relay"}

\* refill, called with an empty buffer: Read returns some of the bytes.
Refill ==
  /\ Reading /\ dec.buf = <<>> /\ stream # <<>>
  /\ ~ (at = "relay" /\ dec.pos = dec.len)
  /\ \E n \in 1..Lesser(BufSize, Len(stream)) :
       /\ dec' = [dec EXCEPT !.buf = Take(stream, n)]
       /\ stream' = Drop(stream, n)
  /\ UNCHANGED <<sizes, at, enc, out, log>>

\* refill meets the end of the connection; what a field method returns with an
\* error is not used.
RefillEOF ==
  /\ Reading /\ at # "relay" /\ dec.buf = <<>> /\ stream = <<>>
  /\ at' = "dead"
  /\ UNCHANGED <<sizes, stream, dec, enc, out, log>>

\* Mutant: reading past the end of a packet goes unnoticed.
Unbounded(d) == FALSE

Overran(d) == d.pos > d.len

\* What the caller reads next: Next(true), Next(false) or ReadByte.
Wanted == IF dec.cur + 1 \in DOMAIN sizes THEN sizes[dec.cur + 1].kind ELSE "typed"

\* Next and ReadByte: first the rest of the packet is discarded.
NextPacket ==
  /\ at = "idle"
  /\ IF Overran(dec)
     THEN at' = "dead" /\ UNCHANGED dec
     ELSE IF dec.len > dec.pos
     THEN at' = "discard" /\ dec' = [dec EXCEPT !.n = dec.len - dec.pos]
     ELSE at' = "header" /\ dec' = [dec EXCEPT !.got = <<>>]
  /\ UNCHANGED <<sizes, stream, enc, out, log>>

\* An iteration of discard.  When it empties the buffer it refills once more,
\* even with nothing left to discard.
Discard ==
  /\ at = "discard" /\ dec.buf # <<>>
  /\ LET count == Lesser(dec.n, Len(dec.buf))
         rest == Drop(dec.buf, count)
     IN  /\ dec' = [dec EXCEPT !.buf = rest, !.n = @ - count, !.got = <<>>]
         /\ at' = IF rest = <<>> THEN "discard" ELSE "header"
  /\ UNCHANGED <<sizes, stream, enc, out, log>>

\* readFull of n bytes: what the buffer holds of them.
Fill(d, n) ==
  LET count == Lesser(n - Len(d.got), Len(d.buf))
  IN  [d EXCEPT !.got = @ \o Take(d.buf, count), !.buf = Drop(@, count)]

\* The packet that some bytes are the header of, if they are one.
HeaderOf(b) ==
  IF b = Bytes(b[1][1], [kind |-> Wanted, n |-> 0]) THEN b[1][1] ELSE -1

\* The rest of Next and of ReadByte, after which there is no packet.
ReadHeader ==
  /\ at = "header" /\ dec.buf # <<>>
  /\ LET d == Fill(dec, Width(Wanted))
         p == HeaderOf(d.got)
     IN  IF Len(d.got) < Width(Wanted) THEN dec' = d /\ UNCHANGED at
         ELSE /\ dec' = [d EXCEPT !.cur = p, !.pos = 0, !.got = <<>>,
                                  !.len = IF p = -1 THEN 0 ELSE sizes[p].n]
              /\ at' = "idle"
  /\ UNCHANGED <<sizes, stream, enc, out, log>>

\* Uint8, Uint16, Uint32: no check against the packet's length.
Uint(width) ==
  /\ at = "idle" /\ dec.cur > 0
  /\ dec.pos < dec.len
  /\ at' = "uint"
  /\ dec' = [dec EXCEPT !.n = width, !.got = <<>>]
  /\ UNCHANGED <<sizes, stream, enc, out, log>>

ReadUint ==
  /\ at = "uint" /\ dec.buf # <<>>
  /\ LET d == Fill(dec, dec.n)
     IN  IF Len(d.got) < dec.n THEN dec' = d /\ UNCHANGED at
         ELSE /\ dec' = [d EXCEPT !.pos = @ + dec.n, !.got = <<>>]
              /\ at' = "idle"
  /\ UNCHANGED <<sizes, stream, enc, out, log>>

String ==
  /\ at = "idle" /\ dec.cur > 0
  /\ dec.pos < dec.len
  /\ at' = "string"
  /\ dec' = [dec EXCEPT !.got = <<>>]
  /\ UNCHANGED <<sizes, stream, enc, out, log>>

\* The buffer is searched for the terminator; without one all of it moves to the
\* builder.
ReadString ==
  /\ at = "string" /\ dec.buf # <<>>
  /\ LET zeros == {i \in DOMAIN dec.buf : IsZero(dec.buf[i])}
         end == CHOOSE i \in zeros : \A j \in zeros : i <= j
     IN  IF zeros = {}
         THEN /\ dec' = [dec EXCEPT !.got = @ \o dec.buf, !.buf = <<>>]
              /\ UNCHANGED at
         ELSE /\ dec' = [dec EXCEPT !.pos = @ + Len(dec.got) + end, !.got = <<>>,
                                    !.buf = Drop(@, end)]
              /\ at' = "idle"
  /\ UNCHANGED <<sizes, stream, enc, out, log>>

-----------------------------------------------------------------------------
(* Encoder.  e is [buf, len, pos, out], so that the methods compose.       *)

Enc == [buf |-> enc.buf, len |-> enc.len, pos |-> enc.pos, out |-> out]

Flushed(e) == [e EXCEPT !.out = @ \o e.buf, !.buf = <<>>]

\* Room for n bytes: the buffer is flushed when they do not fit.
Room(e, n) == IF Len(e.buf) + n > BufSize THEN Flushed(e) ELSE e

\* Uint8, Uint16, Uint32 and, with n = 1, writeByte.
Put(e, bytes) == [Room(e, Len(bytes)) EXCEPT !.buf = @ \o bytes, !.pos = @ + Len(bytes)]

\* Next's header: the type, if there is one, then the length in one piece; and
\* WriteByte.
PutHeader(e, p, x) ==
  LET h == Take(Bytes(p, x), Width(x.kind))
  IN  [IF x.kind = "typed" THEN Put(Put(e, Take(h, 1)), Drop(h, 1)) ELSE Put(e, h)
         EXCEPT !.len = x.n, !.pos = 0]

\* Mutant: a packet begins although the one before is incomplete.
Always(e) == TRUE

Complete(e) == e.pos = e.len

Encoded(e) ==
  /\ enc' = [buf |-> e.buf, len |-> e.len, pos |-> e.pos]
  /\ out' = e.out

Flush ==
  /\ at \in {"idle", "dead"} /\ enc.buf # <<>>
  /\ Encoded(Flushed(Enc))
  /\ UNCHANGED <<sizes, stream, at, dec, log>>

\* WritePacket of a packet of the caller's own, field by field; also after the
\* decoder failed, as when a failed copy is ended for the server's sake.
WriteOwn(fields) ==
  /\ at \in {"idle", "dead"} /\ Len(log) < MaxPackets
  /\ Complete(Enc)
  /\ LET n == FoldSeq(+, 0, fields)
         field(i) == SubSeq(Bytes(Own, Typed(n)), Header + 1 + FoldSeq(+, 0, Take(fields, i - 1)),
                            Header + FoldSeq(+, 0, Take(fields, i)))
     IN  /\ Encoded(FoldLeft(LAMBDA e, i : Put(e, field(i)), PutHeader(Enc, Own, Typed(n)),
                             [i \in DOMAIN fields |-> i]))
         /\ log' = Append(log, Bytes(Own, Typed(n)))
  /\ UNCHANGED <<sizes, stream, at, dec>>

\* WriteByte.
WriteByte ==
  /\ at = "idle" /\ Len(log) < MaxPackets
  /\ Complete(Enc)
  /\ Encoded(PutHeader(Enc, Own, Single))
  /\ log' = Append(log, Bytes(Own, Single))
  /\ UNCHANGED <<sizes, stream, at, dec>>

\* WritePacket of the packet just read (PendingPacket).
Relay ==
  /\ at = "idle" /\ dec.cur > 0 /\ dec.pos = 0
  /\ sizes[dec.cur] # Single
  /\ Len(log) < MaxPackets
  /\ IF Complete(Enc)
     THEN /\ Encoded(PutHeader(Enc, dec.cur, sizes[dec.cur]))
          /\ at' = IF dec.len > 0 THEN "relay" ELSE "idle"
          /\ dec' = [dec EXCEPT !.n = 0]
          /\ log' = Append(log, Bytes(dec.cur, sizes[dec.cur]))
     ELSE at' = "dead" /\ UNCHANGED <<dec, enc, out, log>>
  /\ UNCHANGED <<sizes, stream>>

\* An iteration of Encoder.ReadFrom: flush a full buffer, then Decoder.Read what
\* the packet, the decoder's buffer and the encoder's buffer allow.
ReadFrom ==
  /\ at = "relay" /\ dec.buf # <<>> /\ dec.pos < dec.len
  /\ LET e == IF Len(enc.buf) >= BufSize THEN Flushed(Enc) ELSE Enc
         count == Lesser(Lesser(dec.len - dec.pos, Len(dec.buf)), BufSize - Len(e.buf))
     IN  /\ Encoded([e EXCEPT !.buf = @ \o Take(dec.buf, count)])
         /\ dec' = [dec EXCEPT !.buf = Drop(@, count), !.pos = @ + count, !.n = @ + count]
  /\ UNCHANGED <<sizes, stream, at, log>>

\* Mutant: an empty read is not an error, the loop of WriteTo goes on.
Patient(n) == "relay"

\* ReadFrom answers ErrUnexpectedEOF when it read nothing at all.
AfterEOF(n) == IF n = 0 THEN "dead" ELSE "relay"

\* Decoder.Read is at the end of the packet, or of the connection: ReadFrom
\* returns, and WriteTo calls it again unless the packet is complete.
ReadFromEOF ==
  /\ at = "relay"
  /\ dec.pos = dec.len \/ (dec.buf = <<>> /\ stream = <<>>)
  /\ Encoded([Enc EXCEPT !.pos = @ + dec.n])
  /\ at' = IF dec.pos = dec.len THEN "idle" ELSE AfterEOF(dec.n)
  /\ dec' = [dec EXCEPT !.n = 0]
  /\ UNCHANGED <<sizes, stream, log>>

-----------------------------------------------------------------------------

Method ==
  \/ Refill \/ RefillEOF \/ Discard \/ ReadHeader \/ ReadUint \/ ReadString
  \/ ReadFrom \/ ReadFromEOF

Next ==
  \/ Method
  \/ NextPacket
  \/ \E width \in {1, 4} : Uint(width)
  \/ String
  \/ Flush
  \/ \E f \in OwnFields : WriteOwn(f)
  \/ WriteByte
  \/ Relay

\* A method that has bytes to work on, or the end of the connection, proceeds: the
\* code is sequential.
Spec == Init /\ [][Next]_vars /\ WF_vars(Method)

-----------------------------------------------------------------------------

\* ReadPacket delivers the packets of the stream one after the other: after fields
\* were read, a packet was relayed or left unread, whatever the chunks, Next finds
\* the header of the packet that follows; it never takes payload for a header.
InSync == [][dec'.cur # dec.cur => dec'.cur = dec.cur + 1]_dec

\* What reaches the other connection, with what is still buffered, is the packets
\* that were written, byte for byte and in order; only the last one may be torn,
\* and only when the source ended inside it.
Relayed ==
  LET all == FlattenSeq(log)
      done == out \o enc.buf
  IN  /\ IsPrefix(done, all)
      /\ done # all => at \in {"relay", "dead"}

\* A packet being relayed gets through or its failure is reported: the loop over
\* ReadFrom neither spins at the end of the connection nor waits for bytes behind
\* the packet.
RelayEnds == at = "relay" ~> at # "relay"
=============================================================================
