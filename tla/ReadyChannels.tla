--------------------------- MODULE ReadyChannels ---------------------------
(***************************************************************************)
(* The channels on which both poolers deliver a server to a blocked        *)
(* Acquire: Go channels with room for one value, recycled through a        *)
(* pools.Locked stack (lib/util/pools).                                    *)
(*                                                                         *)
(* Sends, closes and the receive after a lost race happen under the        *)
(* pooler's mutex.  Where such an operation would block for ever or panic, *)
(* wedged records it: the mutex is never unlocked again.                   *)
(***************************************************************************)
EXTENDS Integers, Sequences

CONSTANTS
  Chans,   \* channels that can be alive at once
  Nil      \* uuid.Nil, a nil pointer, a nil channel

VARIABLES
  cc,      \* the stack of idle channels
  buf,     \* contents of a channel, Nil when it is empty
  shut,    \* closed channels
  wedged   \* why the mutex will never be unlocked, "no" while it will

Wedges == {"no", "recv_empty", "send_full", "send_closed", "close_closed"}

ChannelsType(Values) ==
  /\ cc \in Seq(Chans)
  /\ buf \in [Chans -> Values \cup {Nil}]
  /\ shut \in SUBSET Chans
  /\ wedged \in Wedges

ChannelsInit ==
  /\ cc = <<>>
  /\ buf = [c \in Chans |-> Nil]
  /\ shut = {}
  /\ wedged = "no"

\* The mutex can be taken.
Unlocked == wedged = "no"

\* Get of the pool: the channel put back last, or else a new one, which is a
\* channel that nothing refers to (inUse are the ones something does).
GetChan(c, inUse) ==
  \/ /\ cc # <<>>
     /\ c = cc[Len(cc)]
     /\ cc' = SubSeq(cc, 1, Len(cc) - 1)
     /\ UNCHANGED <<buf, shut>>
  \/ /\ cc = <<>>
     /\ c \in Chans \ inUse
     /\ buf' = [buf EXCEPT ![c] = Nil]
     /\ shut' = shut \ {c}
     /\ UNCHANGED cc

PutChan(c) == cc' = Append(cc, c)

\* c <- v under the mutex, b being the contents of the channels by then.  It
\* panics on a closed channel, and blocks for ever on a full one.
Send(c, v, b) ==
  /\ buf' = IF c \in shut \/ b[c] # Nil THEN b ELSE [b EXCEPT ![c] = v]
  /\ wedged' = IF c \in shut THEN "send_closed"
               ELSE IF b[c] # Nil THEN "send_full" ELSE wedged

\* v, ok = <-c where the receive does not block; the channel goes back to the
\* pool when ok.  A closed channel yields what it still holds, then Nil.
RecvAndPut(c) ==
  \/ /\ buf[c] # Nil
     /\ buf' = [buf EXCEPT ![c] = Nil]
     /\ PutChan(c)
  \/ /\ buf[c] = Nil /\ c \in shut
     /\ UNCHANGED <<buf, cc>>

\* The same receive under the mutex.  With nothing to receive it never returns:
\* nobody can send or close without the mutex.
RecvLocked(c) ==
  /\ buf' = [buf EXCEPT ![c] = Nil]
  /\ cc' = IF buf[c] # Nil THEN Append(cc, c) ELSE cc
  /\ wedged' = IF buf[c] = Nil /\ c \notin shut THEN "recv_empty" ELSE wedged

\* close(c) for every c of cs, one of them twice if repeated.  Closing a closed
\* channel panics.
CloseAll(cs, repeated) ==
  /\ shut' = shut \cup cs
  /\ wedged' = IF repeated \/ cs \cap shut # {} THEN "close_closed" ELSE wedged

=============================================================================
