------------------------------- MODULE Packets -------------------------------
(***************************************************************************)
(* The PostgreSQL messages of lib/fed/packets/v3.0/packets.go: what every   *)
(* message's Length, WriteTo and ReadFrom do.                               *)
(*                                                                         *)
(* All methods of the file have one of a dozen shapes, so a message is     *)
(* described by its layout (one definition per message, in the order of    *)
(* the file) and Length, WriteTo and ReadFrom are defined once, by         *)
(* recursion over the layout.  A message decoded by ReadFrom is decoded    *)
(* INTO an object that may hold an earlier message: slices are resized     *)
(* and their old elements overwritten in place.                            *)
(*                                                                         *)
(* A string or a byte slice is a sequence of bytes, a nil slice is <<>>    *)
(* and a present one <<bytes>>, an interface value is [tag, body].         *)
(***************************************************************************)
EXTENDS Integers, Sequences, FiniteSets, SequencesExt

VARIABLES message,   \* the name of the message's type
          sent,      \* the message WriteTo was given
          wire,      \* its payload, as bytes
          object,    \* what ReadFrom decodes into
          result     \* ReadFrom's error, once it was called, and the decoder's position

vars == <<message, sent, wire, object, result>>

-----------------------------------------------------------------------------
(* The shapes of a layout.                                                 *)

Number(width, signed) == [shape |-> "int", width |-> width, signed |-> signed]
Uint8 == Number(1, FALSE)
Uint16 == Number(2, FALSE)
Uint32 == Number(4, FALSE)
Int8 == Number(1, TRUE)
Int16 == Number(2, TRUE)
Int32 == Number(4, TRUE)
String == [shape |-> "string"]
Array(n, of) == [shape |-> "array", n |-> n, of |-> of]
Remaining(of) == [shape |-> "remaining", of |-> of]
LengthPrefixed(prefix, of) == [shape |-> "slice", prefix |-> prefix, of |-> of]
Nullable(of) == [shape |-> "nullable", of |-> of]
Struct(fields) == [shape |-> "struct", fields |-> fields]
ZeroTerminated(fields) == [shape |-> "terminated", of |-> Struct(fields)]
\* An interface: items maps the number written first to the layout that follows.
Map(prefix, items) == [shape |-> "map", prefix |-> prefix, items |-> items]
Empty == Struct(<<>>)

Row(number, of) == [n \in {number} |-> of]

-----------------------------------------------------------------------------
(* The messages.                                                           *)

AuthenticationCleartextPassword == Row(3, Empty)
AuthenticationGSS == Row(7, Empty)
AuthenticationGSSContinue == Row(8, Remaining(Uint8))
AuthenticationKerberosV5 == Row(2, Empty)
AuthenticationMD5Password == Row(5, Array(4, Uint8))
AuthenticationOk == Row(0, Empty)
AuthenticationSASL == Row(10, ZeroTerminated(<< <<"Method", String>> >>))
AuthenticationSASLContinue == Row(11, Remaining(Uint8))
AuthenticationSASLFinal == Row(12, Remaining(Uint8))
AuthenticationSSPI == Row(9, Empty)

Merge(rows) ==
  [n \in UNION {DOMAIN r : r \in rows} |-> (CHOOSE r \in rows : n \in DOMAIN r)[n]]

Authentication ==
  Map(Int32, Merge({AuthenticationCleartextPassword, AuthenticationGSS,
                    AuthenticationGSSContinue, AuthenticationKerberosV5,
                    AuthenticationMD5Password, AuthenticationOk,
                    AuthenticationSASL, AuthenticationSASLContinue,
                    AuthenticationSASLFinal, AuthenticationSSPI}))

BackendKeyData == Struct(<< <<"ProcessID", Int32>>, <<"SecretKey", Int32>> >>)

Bind ==
  Struct(<< <<"Destination", String>>,
            <<"Source", String>>,
            <<"FormatCodes", LengthPrefixed(Uint16, Int16)>>,
            <<"Parameters", LengthPrefixed(Uint16, Nullable(Uint8))>>,
            <<"ResultFormatCodes", LengthPrefixed(Uint16, Int16)>> >>)

BindComplete == Empty
Close == Struct(<< <<"Which", Uint8>>, <<"Name", String>> >>)
CloseComplete == Empty
CommandComplete == String
CopyBothResponse ==
  Struct(<< <<"Mode", Int8>>, <<"ColumnFormatCodes", LengthPrefixed(Uint16, Int16)>> >>)
CopyData == Remaining(Uint8)
CopyDone == Empty
CopyFail == String
CopyInResponse ==
  Struct(<< <<"Mode", Int8>>, <<"ColumnFormatCodes", LengthPrefixed(Uint16, Int16)>> >>)
CopyOutResponse ==
  Struct(<< <<"Mode", Int8>>, <<"ColumnFormatCodes", LengthPrefixed(Uint16, Int16)>> >>)
DataRow == LengthPrefixed(Uint16, Nullable(Uint8))
Describe == Struct(<< <<"Which", Uint8>>, <<"Name", String>> >>)
EmptyQueryResponse == Empty
Execute == Struct(<< <<"Target", String>>, <<"MaxRows", Uint32>> >>)
Flush == Empty

FunctionCall ==
  Struct(<< <<"ObjectID", Int32>>,
            <<"ArgumentFormatCodes", LengthPrefixed(Uint16, Int16)>>,
            <<"Arguments", LengthPrefixed(Uint16, Nullable(Uint8))>>,
            <<"ResultFormatCode", Int16>> >>)

FunctionCallResponse == Nullable(Uint8)
GSSResponse == Remaining(Uint8)
MarkiplierResponse == ZeroTerminated(<< <<"Code", Uint8>>, <<"Value", String>> >>)

NegotiateProtocolVersion ==
  Struct(<< <<"MinorProtocolVersion", Int32>>,
            <<"UnrecognizedProtocolOptions", LengthPrefixed(Uint32, String)>> >>)

NoData == Empty
NoticeResponse == ZeroTerminated(<< <<"Code", Uint8>>, <<"Value", String>> >>)

NotificationResponse ==
  Struct(<< <<"ProcessID", Int32>>, <<"Channel", String>>, <<"Payload", String>> >>)

ParameterDescription == LengthPrefixed(Uint16, Int32)
ParameterStatus == Struct(<< <<"Key", String>>, <<"Value", String>> >>)

Parse ==
  Struct(<< <<"Destination", String>>,
            <<"Query", String>>,
            <<"ParameterDataTypes", LengthPrefixed(Uint16, Int32)>> >>)

ParseComplete == Empty
PasswordMessage == String
PortalSuspended == Empty
Query == String
ReadyForQuery == Uint8

RowDescription ==
  LengthPrefixed(Uint16,
    Struct(<< <<"Name", String>>,
              <<"TableID", Int32>>,
              <<"ColumnAttributeNumber", Int16>>,
              <<"FieldDataType", Int32>>,
              <<"DataTypeSize", Int16>>,
              <<"TypeModifier", Int32>>,
              <<"FormatCode", Int16>> >>))

SASLInitialResponse ==
  Struct(<< <<"Mechanism", String>>, <<"InitialClientResponse", Nullable(Uint8)>> >>)

SASLResponse == Remaining(Uint8)

StartupControlCancel ==
  Row(5678, Struct(<< <<"ProcessID", Int32>>, <<"SecretKey", Int32>> >>))
StartupControlGSSAPI == Row(5680, Empty)
StartupControlSSL == Row(5679, Empty)

StartupControl ==
  Row(1234, Map(Int16, Merge({StartupControlCancel, StartupControlGSSAPI,
                              StartupControlSSL})))

StartupVersion3 ==
  Row(3, Struct(<< <<"MinorVersion", Int16>>,
                   <<"Parameters", ZeroTerminated(<< <<"Key", String>>,
                                                     <<"Value", String>> >>)>> >>))

Startup == Map(Int16, Merge({StartupControl, StartupVersion3}))

Sync == Empty
Terminate == Empty

\* Every message that is a fed.Packet, with its Type() and its layout.
P(type, layout) == [type |-> type, layout |-> layout]

Packet ==
  [Authentication |-> P("R", Authentication), BackendKeyData |-> P("K", BackendKeyData),
   Bind |-> P("B", Bind), BindComplete |-> P("2", BindComplete),
   Close |-> P("C", Close), CloseComplete |-> P("3", CloseComplete),
   CommandComplete |-> P("C", CommandComplete),
   CopyBothResponse |-> P("W", CopyBothResponse), CopyData |-> P("d", CopyData),
   CopyDone |-> P("c", CopyDone), CopyFail |-> P("f", CopyFail),
   CopyInResponse |-> P("G", CopyInResponse), CopyOutResponse |-> P("H", CopyOutResponse),
   DataRow |-> P("D", DataRow), Describe |-> P("D", Describe),
   EmptyQueryResponse |-> P("I", EmptyQueryResponse), Execute |-> P("E", Execute),
   Flush |-> P("H", Flush), FunctionCall |-> P("F", FunctionCall),
   FunctionCallResponse |-> P("V", FunctionCallResponse),
   GSSResponse |-> P("p", GSSResponse), MarkiplierResponse |-> P("E", MarkiplierResponse),
   NegotiateProtocolVersion |-> P("v", NegotiateProtocolVersion),
   NoData |-> P("n", NoData), NoticeResponse |-> P("N", NoticeResponse),
   NotificationResponse |-> P("A", NotificationResponse),
   ParameterDescription |-> P("t", ParameterDescription),
   ParameterStatus |-> P("S", ParameterStatus), Parse |-> P("P", Parse),
   ParseComplete |-> P("1", ParseComplete), PasswordMessage |-> P("p", PasswordMessage),
   PortalSuspended |-> P("s", PortalSuspended), Query |-> P("Q", Query),
   ReadyForQuery |-> P("Z", ReadyForQuery), RowDescription |-> P("T", RowDescription),
   SASLInitialResponse |-> P("p", SASLInitialResponse),
   SASLResponse |-> P("p", SASLResponse), Startup |-> P("", Startup),
   Sync |-> P("S", Sync), Terminate |-> P("X", Terminate)]

Messages == DOMAIN Packet

-----------------------------------------------------------------------------
(* Length.                                                                 *)

Total(s) == FoldSeq(+, 0, s)

\* The size of the zero value that ends a zero terminated slice.
TerminatorLength(l) ==
  IF l.of.fields[1][2].shape = "string" THEN 1 ELSE l.of.fields[1][2].width

RECURSIVE Length(_, _)
Length(l, v) ==
  LET all(of, s) == Total([i \in DOMAIN s |-> Length(of, s[i])])
  IN  CASE l.shape = "int" -> l.width
        [] l.shape = "string" -> Len(v) + 1
        [] l.shape \in {"array", "remaining"} -> all(l.of, v)
        [] l.shape = "slice" -> l.prefix.width + all(l.of, v)
        [] l.shape = "nullable" -> 4 + (IF v = <<>> THEN 0 ELSE all(l.of, v[1]))
        [] l.shape = "struct" ->
             Total([i \in DOMAIN l.fields |-> Length(l.fields[i][2], v[l.fields[i][1]])])
        [] l.shape = "terminated" -> all(l.of, v) + TerminatorLength(l)
        [] l.shape = "map" -> l.prefix.width + Length(l.items[v.tag], v.body)

-----------------------------------------------------------------------------
(* WriteTo.  PutInt is Encoder.Uint8, Uint16 and Uint32 and the signed     *)
(* conversions in front of them: big endian, two's complement.             *)

Shift == <<1, 256, 65536, 16777216>>

PutInt(l, v) == [i \in 1..l.width |-> (v \div Shift[l.width - i + 1]) % 256]

PutString(v) == v \o <<0>>

NullableLength(v) == IF v = <<>> THEN -1 ELSE Len(v[1])

\* The zero value of an element's first field.
Terminator(l) ==
  LET first == l.of.fields[1][2]
  IN  IF first.shape = "string" THEN PutString(<<>>) ELSE PutInt(first, 0)

RECURSIVE WriteTo(_, _)
WriteTo(l, v) ==
  LET all(of, s) == FlattenSeq([i \in DOMAIN s |-> WriteTo(of, s[i])])
  IN  CASE l.shape = "int" -> PutInt(l, v)
        [] l.shape = "string" -> PutString(v)
        [] l.shape \in {"array", "remaining"} -> all(l.of, v)
        [] l.shape = "slice" -> PutInt(l.prefix, Len(v)) \o all(l.of, v)
        [] l.shape = "nullable" ->
             PutInt(Int32, NullableLength(v)) \o (IF v = <<>> THEN v ELSE all(l.of, v[1]))
        [] l.shape = "struct" ->
             FlattenSeq([i \in DOMAIN l.fields |->
                           WriteTo(l.fields[i][2], v[l.fields[i][1]])])
        [] l.shape = "terminated" -> all(l.of, v) \o Terminator(l)
        [] l.shape = "map" -> PutInt(l.prefix, v.tag) \o WriteTo(l.items[v.tag], v.body)

-----------------------------------------------------------------------------
(* ReadFrom.  A reader is at position pos of the packet (the bytes read so  *)
(* far) and has decoded val; err is empty while all went well.             *)

At(val, pos) == [val |-> val, pos |-> pos, err |-> ""]
Failed(val, pos, err) == [val |-> val, pos |-> pos, err |-> err]

\* Decoder.Uint8, Uint16, Uint32 and the signed conversions behind them.
GetInt(l, in, pos) ==
  LET byte(i) == IF i = 1 /\ l.signed /\ in[pos + 1] >= 128
                 THEN in[pos + 1] - 256 ELSE in[pos + i]
  IN  IF pos + l.width > Len(in) THEN Failed(0, pos + l.width, "EOF")
      ELSE At(Total([i \in 1..l.width |-> byte(i) * Shift[l.width - i + 1]]), pos + l.width)

\* Decoder.String: up to the next zero byte.
GetString(in, pos) ==
  LET ends == {i \in pos + 1..Len(in) : in[i] = 0}
      end == CHOOSE i \in ends : \A j \in ends : i <= j
  IN  IF ends = {} THEN Failed(SubSeq(in, pos + 1, Len(in)), Len(in), "EOF")
      ELSE At(SubSeq(in, pos + 1, end - 1), end)

RECURSIVE ZeroValue(_)
ZeroValue(l) ==
  CASE l.shape = "int" -> 0
    [] l.shape = "array" -> [i \in 1..l.n |-> ZeroValue(l.of)]
    [] l.shape = "struct" ->
         [f \in {l.fields[i][1] : i \in DOMAIN l.fields} |->
            ZeroValue((CHOOSE p \in ToSet(l.fields) : p[1] = f)[2])]
    [] l.shape = "map" -> [tag |-> -1, body |-> <<>>]
    [] OTHER -> <<>>

\* slices.Resize: what the slice held stays, new elements are zero.
Resize(of, s, n) == [i \in 1..n |-> IF i <= Len(s) THEN s[i] ELSE ZeroValue(of)]

\* Mutant: decodes behind what the slice held before.
NotTruncated(s) == s

\* (*T)[:0]
Truncated(s) == <<>>

RECURSIVE Decode(_, _, _, _, _)
RECURSIVE DecodeItems(_, _, _, _, _, _)
RECURSIVE DecodeRemaining(_, _, _, _, _)
RECURSIVE DecodeTerminated(_, _, _, _, _)

\* for i := 0; i < n; i++: element i of s is decoded in place.
DecodeItems(l, in, len, pos, s, i) ==
  IF i > Len(s) THEN At(s, pos)
  ELSE LET r == Decode(l.of, in, len, pos, s[i])
           t == [s EXCEPT ![i] = r.val]
       IN  IF r.err # "" THEN Failed(t, r.pos, r.err)
           ELSE DecodeItems(l, in, len, r.pos, t, i + 1)

\* Until the position reaches the packet's length.
DecodeRemaining(l, in, len, pos, s) ==
  IF pos >= len THEN At(s, pos)
  ELSE LET r == Decode(l.of, in, len, pos, ZeroValue(l.of))
       IN  IF r.err # "" THEN Failed(Append(s, r.val), r.pos, r.err)
           ELSE DecodeRemaining(l, in, len, r.pos, Append(s, r.val))

\* Until an element's first field is zero; that element is dropped again.
DecodeTerminated(l, in, len, pos, s) ==
  LET first == l.of.fields[1]
      r == Decode(first[2], in, len, pos, ZeroValue(first[2]))
      e == Decode(l.of, in, len, pos, ZeroValue(l.of))
  IN  IF r.err # "" THEN Failed(s, r.pos, r.err)
      ELSE IF r.val = ZeroValue(first[2]) THEN At(s, r.pos)
      ELSE IF e.err # "" THEN Failed(Append(s, e.val), e.pos, e.err)
      ELSE DecodeTerminated(l, in, len, e.pos, Append(s, e.val))

DecodeStruct(l, in, len, pos, old) ==
  FoldLeft(LAMBDA r, f :
             IF r.err # "" THEN r
             ELSE LET d == Decode(f[2], in, len, r.pos, r.val[f[1]])
                  IN  [d EXCEPT !.val = [r.val EXCEPT ![f[1]] = d.val]],
           At(old, pos), l.fields)

DecodeSlice(l, in, len, pos, old) ==
  LET n == GetInt(l.prefix, in, pos)
  IN  IF n.err # "" THEN Failed(old, n.pos, n.err)
      ELSE DecodeItems(l, in, len, n.pos, Resize(l.of, old, n.val), 1)

DecodeNullable(l, in, len, pos, old) ==
  LET n == GetInt(Int32, in, pos)
      bytes == IF old = <<>> THEN <<>> ELSE old[1]
      r == DecodeItems(l, in, len, n.pos, Resize(l.of, bytes, n.val), 1)
  IN  IF n.err # "" THEN Failed(old, n.pos, n.err)
      ELSE IF n.val = -1 THEN At(<<>>, n.pos)
      ELSE [r EXCEPT !.val = <<r.val>>]

DecodeMap(l, in, len, pos, old) ==
  LET n == GetInt(l.prefix, in, pos)
      r == Decode(l.items[n.val], in, len, n.pos, ZeroValue(l.items[n.val]))
  IN  IF n.err # "" THEN Failed(old, n.pos, n.err)
      ELSE IF n.val \notin DOMAIN l.items THEN Failed(old, n.pos, "ErrInvalidFormat")
      ELSE [r EXCEPT !.val = [tag |-> n.val, body |-> r.val]]

Decode(l, in, len, pos, old) ==
  CASE l.shape = "int" -> GetInt(l, in, pos)
    [] l.shape = "string" -> GetString(in, pos)
    [] l.shape = "array" -> DecodeItems(l, in, len, pos, old, 1)
    [] l.shape = "remaining" -> DecodeRemaining(l, in, len, pos, Truncated(old))
    [] l.shape = "slice" -> DecodeSlice(l, in, len, pos, old)
    [] l.shape = "nullable" -> DecodeNullable(l, in, len, pos, old)
    [] l.shape = "struct" -> DecodeStruct(l, in, len, pos, old)
    [] l.shape = "terminated" -> DecodeTerminated(l, in, len, pos, Truncated(old))
    [] l.shape = "map" -> DecodeMap(l, in, len, pos, old)

\* ReadFrom of message m; the packet at hand has type typ and length len, and
\* in is the packet followed by whatever the connection holds behind it.
ReadFrom(m, typ, in, len, old) ==
  IF typ # Packet[m].type THEN Failed(old, 0, "ErrUnexpectedPacket")
  ELSE Decode(Packet[m].layout, in, len, 0, old)

-----------------------------------------------------------------------------
(* The messages sent: every combination of boundary values.  Integers are  *)
(* an end of their range and one with distinct bytes, strings empty or     *)
(* not, slices of up to two elements, one of them always the same; the     *)
(* first field of an element of a zero terminated slice is never zero      *)
(* (that is what ends the slice).                                          *)

IntValues(l) ==
  CASE l.width = 1 -> IF l.signed THEN {-128, 1} ELSE {0, 255}
    [] l.width = 2 -> {-32768, 258}
    [] l.width = 4 -> IF l.signed THEN {-2147483647 - 1, 16909060} ELSE {0, 16909060}

Pairs(S) ==
  LET any == CHOOSE x \in S : TRUE
  IN  {<<>>} \cup {<<x>> : x \in S} \cup {<<x, any>> : x \in S} \cup {<<any, x>> : x \in S}

RECURSIVE Values(_)
Values(l) ==
  CASE l.shape = "int" -> IntValues(l)
    [] l.shape = "string" -> {<<>>, <<97, 255>>}
    [] l.shape = "array" -> [1..l.n -> Values(l.of)]
    [] l.shape \in {"remaining", "slice"} -> Pairs(Values(l.of))
    [] l.shape = "nullable" -> {<<>>, << <<>> >>, << <<0>> >>, << <<255, 0>> >>}
    [] l.shape = "terminated" ->
         Pairs({v \in Values(l.of) :
                  v[l.of.fields[1][1]] # ZeroValue(l.of.fields[1][2])})
    [] l.shape = "struct" ->
         FoldLeft(LAMBDA S, f : {v @@ (f[1] :> x) : v \in S, x \in Values(f[2])},
                  {<<>>}, l.fields)
    [] l.shape = "map" ->
         UNION {{[tag |-> n, body |-> b] : b \in Values(l.items[n])} : n \in DOMAIN l.items}

\* An object that held a longer message before.
RECURSIVE Used(_)
Used(l) ==
  CASE l.shape = "int" -> 7
    [] l.shape = "string" -> <<120, 120, 120>>
    [] l.shape = "array" -> [i \in 1..l.n |-> Used(l.of)]
    [] l.shape \in {"remaining", "slice", "terminated"} -> [i \in 1..3 |-> Used(l.of)]
    [] l.shape = "nullable" -> <<[i \in 1..3 |-> Used(l.of)]>>
    [] l.shape = "struct" ->
         [f \in {l.fields[i][1] : i \in DOMAIN l.fields} |->
            Used((CHOOSE p \in ToSet(l.fields) : p[1] = f)[2])]
    [] l.shape = "map" ->
         LET n == CHOOSE n \in DOMAIN l.items : TRUE
         IN  [tag |-> n, body |-> Used(l.items[n])]

-----------------------------------------------------------------------------

Layout == Packet[message].layout

Init ==
  /\ message \in Messages
  /\ sent \in Values(Layout)
  /\ wire = <<>>
  /\ object \in {ZeroValue(Layout), Used(Layout)}
  /\ result = [err |-> "unwritten", pos |-> 0]

\* Conn.WritePacket: the encoder writes the payload.
Write ==
  /\ result.err = "unwritten"
  /\ wire' = WriteTo(Layout, sent)
  /\ result' = [result EXCEPT !.err = "unread"]
  /\ UNCHANGED <<message, sent, object>>

\* fed.ToConcrete of the packet as message m, with more bytes behind it.
Read(m, behind) ==
  /\ result.err = "unread"
  /\ LET r == ReadFrom(m, Packet[message].type, wire \o behind, Len(wire), object)
     IN  /\ object' = r.val
         /\ result' = [err |-> r.err, pos |-> r.pos]
  /\ UNCHANGED <<message, sent, wire>>

Behind == {<<>>, <<0, 9>>}

Next ==
  \/ Write
  \/ \E b \in Behind : Read(message, b)
  \/ \E m \in {"DataRow", "Sync"} :
       Packet[m].type # Packet[message].type /\ Read(m, <<>>)

Spec == Init /\ [][Next]_vars

Decoded == result.err \notin {"unwritten", "unread", "ErrUnexpectedPacket"}

-----------------------------------------------------------------------------

\* Encoder.Next writes Length into the packet's header before WriteTo writes the
\* payload, and refuses the next packet when the two differ: for every message,
\* Length is the number of bytes WriteTo writes.
LengthIsWritten == result.err = "unread" => Length(Layout, sent) = Len(wire)

\* A message decoded as what it is equals the message sent, whatever the object
\* held before and whatever follows on the connection, and the decoder stops
\* exactly at the end of the packet.
RoundTrip ==
  Decoded => /\ result.err = ""
             /\ object = sent
             /\ result.pos = Len(wire)

\* Together: every message is as long as it says, and is read back as it was sent.
Faithful == LengthIsWritten /\ RoundTrip
=============================================================================
