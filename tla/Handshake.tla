----------------------------- MODULE Handshake -----------------------------
(***************************************************************************)
(* The beginning of a connection: pggat as a client, which dials a server  *)
(* (pool.Dialer and backends.Accept: the dialer D below), and pggat as a   *)
(* server, which accepts a client (frontends.Accept, then Authenticate in  *)
(* the handler of a route, then the start of the pool: the acceptor A).    *)
(* The two meet over a pair of byte streams; each may also meet somebody   *)
(* else: "peers" is D against A, "client" is some other client X against   *)
(* A, "server" is D against some other server Y, "cancel" is the cancel    *)
(* request of D (Dialer.Cancel) against A.                                 *)
(*                                                                         *)
(* A message is its type, its payload and whether it went out encrypted.   *)
(* What a side writes waits in its encoder until that side reads, enables  *)
(* TLS or closes; since every step ends in one of these, it is sent in     *)
(* the step, except by a dialer that gives up.  SCRAM and MD5 are what     *)
(* they prove: that the sender knows the password.  The empty string is    *)
(* written "empty".                                                        *)
(***************************************************************************)
EXTENDS Naturals, Sequences

CONSTANTS MaxSends   \* messages of the other client or the other server

VARIABLES setup,     \* the configuration of the two sides
          up, down,  \* the streams to the acceptor and to the dialer
          gone,      \* the sides that have closed the connection
          D, A,      \* the state of the two sides
          sends      \* messages sent by X or Y

vars == <<setup, up, down, gone, D, A, sends>>

Modes == {"empty", "disable", "prefer", "require"}

\* SSLMode.ShouldAttempt.
ShouldAttempt(mode) == mode # "disable"

\* SSLMode.IsRequired ("allow" is as "prefer", "verify-ca" as "require").
IsRequired(mode) == mode \notin {"disable", "prefer", "empty"}

\* The kinds of credentials FromString makes, and the interfaces they
\* implement.  A Scram that has not seen a login cannot encode.
CredentialKinds == {"nil", "cleartext", "md5", "scram", "scram_fresh"}
SASLServer(kind) == kind \in {"cleartext", "scram", "scram_fresh"}
CleartextClient(kind) == kind = "cleartext"
MD5Client(kind) == kind \in {"cleartext", "md5"}
SASLClient(kind) == kind \in {"cleartext", "scram"}

Setups ==
  [who : {"peers", "client", "server", "cancel"},
   mode : Modes,              \* Dialer.SSLMode
   database : {"empty", "db"},     \* Dialer.Database
   creds : CredentialKinds,   \* Dialer.Credentials
   tls : BOOLEAN,             \* the listener has an ssl provider
   accepts : CredentialKinds, \* the credentials the acceptor checks
   knows : BOOLEAN]           \* the dialer's password is the acceptor's

\* What a setup does not use is fixed.
Relevant(x) ==
  /\ x.who = "client" => x.mode = "empty"
  /\ x.who \in {"client", "cancel"} => x.creds = "nil" /\ x.database = "empty"
  /\ x.who = "server" => ~x.tls
  /\ x.who \in {"server", "cancel"} => x.accepts = "nil"
  /\ x.who # "peers" => x.knows
  /\ x.accepts # "scram_fresh"

Init ==
  /\ setup \in {x \in Setups : Relevant(x)}
  /\ up = <<>>
  /\ down = <<>>
  /\ gone = {}
  /\ D = [pc |-> IF setup.who = "client" THEN "other" ELSE "start",
          tls |-> FALSE, key |-> "none", proofs |-> 0]
  /\ A = [pc |-> IF setup.who = "server" THEN "other" ELSE "startup",
          tls |-> FALSE, user |-> "empty", database |-> "empty", auth |-> FALSE,
          proved |-> FALSE, key |-> "none"]
  /\ sends = 0

-----------------------------------------------------------------------------

Message(type, payload, secure) == [type |-> type, payload |-> payload, tls |-> secure]

\* The dialer sends the messages ms and goes on as next says; or it fails.
DSends(ms, next) ==
  /\ up' = up \o ms
  /\ D' = next
  /\ UNCHANGED <<setup, gone, A, sends>>

\* backends.Accept returns an error, and so does Dial: what is in the encoder
\* is dropped, and the connection is not closed.
DFails == D' = [D EXCEPT !.pc = "failed"] /\ UNCHANGED <<setup, up, gone, A, sends>>

Startup(secure) ==
  Message("Startup", [user |-> "u", minor |-> 0, unsupported |-> FALSE,
                      database |-> IF setup.database = "empty" THEN "u" ELSE setup.database],
          secure)

\* accept: the request for TLS comes first, when it is to be tried.
DStart ==
  /\ D.pc = "start"
  /\ setup.who # "cancel"
  /\ UNCHANGED down
  /\ IF ShouldAttempt(setup.mode)
     THEN DSends(<<Message("SSLRequest", "empty", FALSE)>>, [D EXCEPT !.pc = "ssl"])
     ELSE DSends(<<Startup(FALSE)>>, [D EXCEPT !.pc = "auth"])

\* enableSSL: anything but 'S' is a no.
DByte ==
  /\ D.pc = "ssl"
  /\ down # <<>>
  /\ down' = Tail(down)
  /\ IF Head(down).type = "S"
     THEN IF Tail(down) = <<>> THEN DSends(<<>>, [D EXCEPT !.pc = "tls"]) ELSE DFails
     ELSE IF IsRequired(setup.mode) THEN DFails
          ELSE DSends(<<Startup(FALSE)>>, [D EXCEPT !.pc = "auth"])

\* authentication: what each kind of credentials can answer.
DAnswers(mode) ==
  CASE mode = "Ok" -> DSends(<<>>, [D EXCEPT !.pc = "ready"])
    [] mode = "Cleartext" /\ CleartextClient(setup.creds) ->
         DSends(<<Message("Password", setup.knows, D.tls)>>, D)
    [] mode = "MD5" /\ MD5Client(setup.creds) ->
         DSends(<<Message("MD5", setup.knows, D.tls)>>, D)
    [] mode = "SASL" /\ SASLClient(setup.creds) ->
         DSends(<<Message("SASLInitial", TRUE, D.tls)>>, [D EXCEPT !.pc = "sasl", !.proofs = 0])
    [] OTHER -> DFails

\* startup0, one packet.
DStartup0 ==
  /\ D.pc = "auth"
  /\ down # <<>>
  /\ down' = Tail(down)
  /\ IF Head(down).type = "Authentication" THEN DAnswers(Head(down).payload)
     ELSE DFails

\* authenticationSASLChallenge, one packet: the proof once, then the server's.
DChallenge ==
  /\ D.pc = "sasl"
  /\ down # <<>>
  /\ down' = Tail(down)
  /\ CASE Head(down).type = "SASLContinue" /\ D.proofs = 0 ->
            DSends(<<Message("SASLResponse", setup.knows, D.tls)>>, [D EXCEPT !.proofs = 1])
       [] Head(down).type = "SASLFinal" /\ D.proofs = 1 /\ Head(down).payload ->
            DSends(<<>>, [D EXCEPT !.pc = "auth"])
       [] OTHER -> DFails

\* Mutant: the key of the server is not kept.
KeyDropped(p) == D

\* startup1: BackendKeyData is kept.
KeepKey(p) == [D EXCEPT !.key = p]

\* startup1, one packet.
DStartup1 ==
  /\ D.pc = "ready"
  /\ down # <<>>
  /\ down' = Tail(down)
  /\ CASE Head(down).type = "BackendKeyData" -> DSends(<<>>, KeepKey(Head(down).payload))
       [] Head(down).type \in {"ParameterStatus", "Notice"} -> DSends(<<>>, D)
       [] Head(down).type = "ReadyForQuery" -> DSends(<<>>, [D EXCEPT !.pc = "done"])
       [] OTHER -> DFails

\* A read fails because the other side has closed.
DEOF ==
  /\ D.pc \in {"ssl", "tls", "auth", "sasl", "ready"}
  /\ down = <<>>
  /\ gone # {}
  /\ DFails
  /\ UNCHANGED down

\* Dialer.Cancel: the request, then a read until the server closes.  It asks for no TLS,
\* whatever the ssl_mode of the dialer is.
DCancel ==
  /\ D.pc = "start"
  /\ setup.who = "cancel"
  /\ DSends(<<Message("Cancel", "k", FALSE)>>, [D EXCEPT !.pc = "cancel"])
  /\ UNCHANGED down

DCancelled ==
  /\ D.pc = "cancel"
  /\ down = <<>>
  /\ gone # {}
  /\ D' = [D EXCEPT !.pc = "done"]
  /\ gone' = gone \cup {"D"}
  /\ UNCHANGED <<setup, up, down, A, sends>>

-----------------------------------------------------------------------------

\* The acceptor sends the messages ms and goes on as next says.
ASends(ms, next) ==
  /\ down' = down \o ms
  /\ A' = next
  /\ UNCHANGED <<setup, gone, D, sends>>

\* After the messages ms, an error is written to the client and the connection
\* closed, which flushes it (accept, Serve, the deferred Close of
\* Server.accept).
AFails(ms) ==
  /\ down' = down \o ms \o <<Message("Error", "empty", A.tls)>>
  /\ A' = [A EXCEPT !.pc = "ended"]
  /\ gone' = gone \cup {"A"}
  /\ UNCHANGED <<setup, D, sends>>

\* authenticate: which challenge the credentials ask for.
Challenge(next) ==
  CASE SASLServer(setup.accepts) ->
         ASends(<<Message("Authentication", "SASL", A.tls)>>, [next EXCEPT !.pc = "sasl"])
    [] setup.accepts = "md5" ->
         ASends(<<Message("Authentication", "MD5", A.tls)>>, [next EXCEPT !.pc = "md5"])
    [] setup.accepts = "nil" ->
         ASends(<<>>, [next EXCEPT !.pc = "welcome"])

\* Mutant: the answer to a request for encryption stays in the encoder.
Unsent(b) == <<>>

\* WriteByte; the next read flushes it.
Byte(b) == <<Message(b, "empty", A.tls)>>

\* startup0, one packet: requests for encryption are answered, a cancel request
\* ends the handshake, a startup message begins the session.  OTHER is all that it
\* refuses: what is no startup packet, another code or version, the replication mode,
\* a flag in the options that it does not know or a "-c" without a "=".  (An options
\* parameter that ends with "-c" makes it index past the fields and panic; no client of
\* the model sends that.)
AStartup ==
  /\ A.pc = "startup"
  /\ up # <<>>
  /\ up' = Tail(up)
  /\ LET m == Head(up) IN
     CASE m.type = "Cancel" ->
            /\ A' = [A EXCEPT !.pc = "cancel", !.key = m.payload]
            /\ UNCHANGED <<setup, down, gone, D, sends>>
       [] m.type = "SSLRequest" ->
            IF ~setup.tls THEN ASends(Byte("N"), A)
            ELSE IF A.tls THEN AFails(Byte("S"))
            ELSE ASends(Byte("S"), [A EXCEPT !.pc = "tls"])
       [] m.type = "GSSRequest" -> ASends(Byte("N"), A)
       [] m.type = "Startup" /\ m.payload.user # "empty" ->
            LET next == [A EXCEPT !.user = m.payload.user,
                           !.database = IF m.payload.database = "empty" THEN m.payload.user
                                        ELSE m.payload.database] IN
            IF m.payload.minor # 0 \/ m.payload.unsupported
            THEN ASends(<<Message("Negotiate", "empty", A.tls)>>, [next EXCEPT !.pc = "routed"])
            ELSE Challenge(next)
       [] m.type = "Startup" /\ m.payload.user = "empty" ->
            AFails(IF m.payload.minor # 0 \/ m.payload.unsupported
                   THEN <<Message("Negotiate", "empty", A.tls)>> ELSE <<>>)
       [] OTHER -> AFails(<<>>)

\* The handler asks for the password, after the offer to negotiate.
ARouted ==
  /\ A.pc = "routed"
  /\ Challenge(A)
  /\ UNCHANGED up

\* Both sides are in the TLS handshake; it fails when the certificate does not
\* please the dialer.
Secure ==
  /\ A.pc = "tls" /\ D.pc = "tls"
  /\ down = <<>> /\ up = <<>>
  /\ \/ /\ A' = [A EXCEPT !.pc = "startup", !.tls = TRUE]
        /\ D' = [D EXCEPT !.pc = "auth", !.tls = TRUE]
        /\ up' = <<Startup(TRUE)>>
        /\ UNCHANGED <<down, gone>>
     \/ /\ A' = [A EXCEPT !.pc = "ended"]
        /\ D' = [D EXCEPT !.pc = "failed"]
        /\ gone' = gone \cup {"A"}
        /\ UNCHANGED <<up, down>>
  /\ UNCHANGED <<setup, sends>>

\* VerifySASL and VerifyMD5.
Verified(m) == m.payload

\* authenticationSASL and authenticationMD5, one packet.
AProof ==
  /\ A.pc \in {"sasl", "proof", "md5"}
  /\ up # <<>>
  /\ up' = Tail(up)
  /\ LET m == Head(up) IN
     CASE A.pc = "sasl" /\ m.type = "SASLInitial" /\ m.payload ->
            ASends(<<Message("SASLContinue", "empty", A.tls)>>, [A EXCEPT !.pc = "proof"])
       [] A.pc = "proof" /\ m.type = "SASLResponse" /\ Verified(m) ->
            ASends(<<Message("SASLFinal", TRUE, A.tls)>>,
                   [A EXCEPT !.pc = "welcome", !.proved = m.payload])
       [] A.pc = "md5" /\ m.type = "MD5" /\ Verified(m) ->
            ASends(<<>>, [A EXCEPT !.pc = "welcome", !.proved = m.payload])
       [] OTHER -> AFails(<<>>)

\* The rest of authenticate and the start of the pool: the key, the parameters
\* and ReadyForQuery, or the error of a pool that has no server.
AWelcome ==
  /\ A.pc = "welcome"
  /\ LET ms == <<Message("Authentication", "Ok", A.tls), Message("BackendKeyData", "k", A.tls)>>
         next == [A EXCEPT !.auth = TRUE, !.key = "k"] IN
     \/ ASends(ms \o <<Message("ParameterStatus", "empty", A.tls),
                       Message("ReadyForQuery", "empty", A.tls)>>,
               [next EXCEPT !.pc = "serving"])
     \/ /\ down' = down \o ms \o <<Message("Error", "empty", A.tls)>>
        /\ A' = [next EXCEPT !.pc = "ended"]
        /\ gone' = gone \cup {"A"}
        /\ UNCHANGED <<setup, D, sends>>
  /\ UNCHANGED up

\* The cancel request is passed to the pools and the connection closed.
ACancels ==
  /\ A.pc = "cancel"
  /\ A' = [A EXCEPT !.pc = "ended"]
  /\ gone' = gone \cup {"A"}
  /\ UNCHANGED <<setup, up, down, D, sends>>

\* A read fails because the client has left.
AEOF ==
  /\ A.pc \in {"startup", "tls", "sasl", "proof", "md5"}
  /\ up = <<>>
  /\ "D" \in gone
  /\ A' = [A EXCEPT !.pc = "ended"]
  /\ gone' = gone \cup {"A"}
  /\ UNCHANGED <<setup, up, down, D, sends>>

-----------------------------------------------------------------------------
\* The others.

\* What another client may send, answer by answer.
Any(types, payloads) == [type : types, payload : payloads, tls : {D.tls}]

XMessages ==
  Any({"SSLRequest", "GSSRequest", "Unknown"}, {"empty"})
    \cup Any({"Cancel"}, {"k"})
    \cup Any({"Startup"}, [user : {"empty", "u"}, minor : {0, 2}, unsupported : {FALSE},
                           database : {"empty", "db"}])
    \cup Any({"SASLInitial", "SASLResponse", "MD5"}, BOOLEAN)

XSends ==
  /\ D.pc = "other"
  /\ sends < MaxSends /\ up = <<>> /\ down = <<>>
  /\ gone = {}
  /\ \E m \in XMessages : up' = <<m>>
  /\ sends' = sends + 1
  /\ UNCHANGED <<setup, down, gone, D, A>>

XReads ==
  /\ D.pc = "other"
  /\ down # <<>>
  /\ down' = Tail(down)
  /\ D' = IF Head(down).type = "S" THEN [D EXCEPT !.pc = "secure"] ELSE D
  /\ UNCHANGED <<setup, up, gone, A, sends>>

XSecures ==
  /\ D.pc = "secure" /\ A.pc = "tls"
  /\ D' = [D EXCEPT !.pc = "other", !.tls = TRUE]
  /\ A' = [A EXCEPT !.pc = "startup", !.tls = TRUE]
  /\ UNCHANGED <<setup, up, down, gone, sends>>

XLeaves ==
  /\ D.pc \in {"other", "secure"}
  /\ gone' = gone \cup {"D"}
  /\ D' = [D EXCEPT !.pc = "failed"]
  /\ UNCHANGED <<setup, up, down, A, sends>>

\* What another server may answer.
YMessages ==
  IF D.pc = "ssl" THEN {Message(b, "empty", FALSE) : b \in {"S", "N", "E"}}
  ELSE {Message("Authentication", mode, D.tls) :
          mode \in {"Ok", "Cleartext", "MD5", "SASL", "GSS"}}
       \cup {Message("SASLFinal", right, D.tls) : right \in BOOLEAN}
       \cup {Message(t, "k", D.tls) : t \in {"SASLContinue", "BackendKeyData", "ParameterStatus",
                                            "Notice", "ReadyForQuery", "Error", "Negotiate"}}

\* It answers what it has read.
YSends ==
  /\ A.pc = "other"
  /\ sends < MaxSends /\ down = <<>>
  /\ D.pc \in {"ssl", "auth", "sasl", "ready"}
  /\ gone = {}
  /\ \E m \in YMessages : down' = <<m>>
  /\ up' = <<>>
  /\ sends' = sends + 1
  /\ UNCHANGED <<setup, gone, D, A>>

YSecures ==
  /\ A.pc = "other" /\ D.pc = "tls"
  /\ D' = [D EXCEPT !.pc = "auth", !.tls = TRUE]
  /\ up' = <<Startup(TRUE)>>
  /\ UNCHANGED <<setup, down, gone, A, sends>>

YLeaves ==
  /\ A.pc = "other"
  /\ gone' = gone \cup {"A"}
  /\ A' = [A EXCEPT !.pc = "ended"]
  /\ UNCHANGED <<setup, up, down, D, sends>>

-----------------------------------------------------------------------------

Dialer ==
  \/ DStart \/ DByte \/ DStartup0 \/ DChallenge \/ DStartup1 \/ DEOF
  \/ DCancel \/ DCancelled

Acceptor ==
  \/ AStartup \/ ARouted \/ AProof \/ AWelcome \/ ACancels \/ AEOF

Others ==
  XSends \/ XReads \/ XSecures \/ XLeaves \/ YSends \/ YSecures \/ YLeaves

Next == Dialer \/ Acceptor \/ Secure \/ Others

\* Both goroutines run; another server answers or closes, another client does
\* as it likes.
Spec ==
  /\ Init /\ [][Next]_vars
  /\ WF_vars(Dialer) /\ WF_vars(Acceptor) /\ WF_vars(Secure)
  /\ WF_vars(YLeaves)

-----------------------------------------------------------------------------

\* When the dialer has its connection, the two sides agree on it: the acceptor
\* serves the user and the database that were dialled, each side holds the same
\* key (a later cancel request carries it), and either both encrypt or neither.
Agreed ==
  D.pc = "done" =>
    CASE setup.who = "peers" ->
           /\ A.pc = "serving" /\ A.auth
           /\ A.user = "u"
           /\ A.database = IF setup.database = "empty" THEN "u" ELSE setup.database
           /\ D.key = A.key
           /\ D.tls = A.tls
      [] setup.who = "cancel" -> A.key = "k" /\ A.pc = "ended"
      [] OTHER -> TRUE

\* What the dialer never encrypts.
Plain == IF setup.who = "cancel" THEN {"Cancel"} ELSE {"SSLRequest"}

\* With ssl_mode require nothing but the request for TLS leaves in the clear when a
\* connection is dialled, whatever the server answers and however the handshake goes on.
\* The cancel request is not covered by ssl_mode: Dialer.Cancel never asks for TLS, so the
\* request, which carries the key of the session, leaves in the clear; it is all that does.
NothingInClear ==
  setup.mode = "require" => \A i \in DOMAIN up : up[i].tls \/ up[i].type \in Plain

\* The acceptor takes a client for authenticated only if no password is asked
\* for, or if the client has proved that it knows the password, in the
\* conversation the credentials call for.
ProvedFirst == A.auth => setup.accepts = "nil" \/ A.proved

\* Together: what the two sides have set up when the handshake is over can be relied on,
\* except that a cancel request is sent in the clear.
Trusted == Agreed /\ NothingInClear /\ ProvedFirst

\* Dial returns, with a connection or an error, however the two configurations
\* differ: the two sides never wait for each other, and the acceptor waits for
\* a dialer only if that has given up without closing the connection.
BothReturn ==
  /\ <>(D.pc \in {"done", "failed", "other", "secure"})
  /\ setup.who \in {"peers", "cancel"} =>
       <>(A.pc \in {"serving", "ended"} \/ D.pc = "failed")
=============================================================================
