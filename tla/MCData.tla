------------------------------- MODULE MCData -------------------------------
(***************************************************************************)
(* The data structures and the wire format, for TLC: the components do not *)
(* touch each other, so a behaviour runs one of them, which, and leaves    *)
(* the variables of the others where they are.                             *)
(***************************************************************************)
EXTENDS Integers

CONSTANTS Keys, BufSize, Sizes, MaxPackets

VARIABLES which, root, message, sent, wire, object, result,
          sizes, stream, at, dec, enc, out, log

packetVars == <<message, sent, wire, object, result>>
codecVars == <<sizes, stream, at, dec, enc, out, log>>
vars == <<which, root, packetVars, codecVars>>

T == INSTANCE RbTree WITH Values <- {0, 1}
P == INSTANCE Packets
C == INSTANCE Codec

NoPacket ==
  /\ message = "none" /\ sent = <<>> /\ wire = <<>> /\ object = <<>>
  /\ result = [err |-> "none", pos |-> 0]

NoStream ==
  /\ sizes = <<>> /\ stream = <<>> /\ at = "idle" /\ out = <<>> /\ log = <<>>
  /\ dec = [buf |-> <<>>, cur |-> 0, len |-> 0, pos |-> 0, got |-> <<>>, n |-> 0]
  /\ enc = [buf |-> <<>>, len |-> 0, pos |-> 0]

Init ==
  /\ T!Init
  /\ \/ which = "tree" /\ NoPacket /\ NoStream
     \/ which = "packet" /\ P!Init /\ NoStream
     \/ which = "codec" /\ NoPacket /\ C!Init

Next ==
  /\ UNCHANGED which
  /\ \/ which = "tree" /\ T!Next /\ UNCHANGED <<packetVars, codecVars>>
     \/ which = "packet" /\ P!Next /\ UNCHANGED <<root, codecVars>>
     \/ which = "codec" /\ C!Next /\ UNCHANGED <<root, packetVars>>

Method == which = "codec" /\ C!Method /\ UNCHANGED <<which, root, packetVars>>

Spec == Init /\ [][Next]_vars /\ WF_vars(Method)

-----------------------------------------------------------------------------

\* The tree of util/rbtree implements a map: Set and Delete change one key.
IsDictionary == T!IsDictionary

\* No operation of the tree dereferences nil, Get, Min and Next find what the keys
\* in order say, and the tree stays a left-leaning red-black tree.
TreeSound == which = "tree" => T!TreeSound

\* Every message has the length that it announces, and is read back as it was
\* written, into any object.
Faithful == which = "packet" => P!Faithful

\* The decoder finds the header of each packet after the one before it.
InSync == C!InSync

\* What is relayed is the packets that were written, byte for byte.
Relayed == which = "codec" => C!Relayed

\* A packet being relayed gets through, or its failure is reported.
RelayEnds == C!RelayEnds
=============================================================================
