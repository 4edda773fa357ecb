-------------------------------- MODULE Ring --------------------------------
(***************************************************************************)
(* lib/util/ring: a queue with two ends in an array that wraps around and  *)
(* doubles when it is full.  The program starts every ring from its zero   *)
(* value.  A slot is Zero when it holds the zero value of its type.        *)
(***************************************************************************)
EXTENDS Integers, Sequences

CONSTANTS
  Values,
  Zero,        \* the zero value of the items
  MaxLength    \* bound: items in the ring

VARIABLES
  ring,     \* the fields of Ring
  popped    \* what the last PopFront or PopBack returned

ringVars == <<ring, popped>>

Capacity(r) == Len(r.buf)

\* buf is indexed from 1 in TLA+ and from 0 in the program.
At(r, i) == r.buf[i + 1]

Init ==
  /\ ring = [buf |-> <<>>, head |-> 0, tail |-> 0, length |-> 0]
  /\ popped = Zero

\* Mutant: the part before the head is left where it is.
GrowInPlace(r) ==
  LET size == IF Capacity(r) = 0 THEN 2 ELSE 2 * Capacity(r)
  IN  [r EXCEPT !.buf = [i \in 1..size |-> IF i <= Capacity(r) THEN r.buf[i] ELSE Zero],
                !.head = 0, !.tail = r.length]

Grow(r) ==
  LET size == IF Capacity(r) = 0 THEN 2 ELSE 2 * Capacity(r)
      old == SubSeq(r.buf, r.head + 1, Capacity(r)) \o SubSeq(r.buf, 1, r.head)
  IN  [r EXCEPT !.buf = [i \in 1..size |-> IF i <= Len(old) THEN old[i] ELSE Zero],
                !.head = 0,
                !.tail = r.length]

Room(r) == IF r.length = Capacity(r) THEN Grow(r) ELSE r

IncHead(r) ==
  [r EXCEPT !.length = @ - 1,
            !.head = IF r.head + 1 = Capacity(r) THEN 0 ELSE @ + 1]

DecHead(r) ==
  LET g == Room(r)
  IN  [g EXCEPT !.length = @ + 1,
                !.head = IF g.head = 0 THEN Capacity(g) - 1 ELSE @ - 1]

IncTail(r) ==
  LET g == Room(r)
  IN  [g EXCEPT !.length = @ + 1,
                !.tail = IF g.tail + 1 = Capacity(g) THEN 0 ELSE @ + 1]

DecTail(r) ==
  [r EXCEPT !.length = @ - 1,
            !.tail = IF r.tail = 0 THEN Capacity(r) - 1 ELSE @ - 1]

TailSub1(r) == IF r.tail = 0 THEN Capacity(r) - 1 ELSE r.tail - 1

PopFront ==
  /\ ring.length # 0
  /\ popped' = At(ring, ring.head)
  /\ ring' = IncHead([ring EXCEPT !.buf[ring.head + 1] = Zero])

PopBack ==
  /\ ring.length # 0
  /\ LET r == DecTail(ring)
     IN  /\ popped' = At(r, r.tail)
         /\ ring' = [r EXCEPT !.buf[r.tail + 1] = Zero]

PushFront(v) ==
  /\ ring.length < MaxLength
  /\ LET r == DecHead(ring) IN ring' = [r EXCEPT !.buf[r.head + 1] = v]
  /\ UNCHANGED popped

PushBack(v) ==
  /\ ring.length < MaxLength
  /\ LET r == IncTail(ring) IN ring' = [r EXCEPT !.buf[TailSub1(r) + 1] = v]
  /\ UNCHANGED popped

\* The items stay in the array; only the fields are reset.
Clear ==
  /\ ring' = [ring EXCEPT !.head = 0, !.tail = 0, !.length = 0]
  /\ UNCHANGED popped

Get(r, n) ==
  LET ptr == r.head + n
  IN  At(r, IF ptr >= Capacity(r) THEN ptr - Capacity(r) ELSE ptr)

Next ==
  \/ \E v \in Values : PushFront(v) \/ PushBack(v)
  \/ PopFront \/ PopBack \/ Clear

-----------------------------------------------------------------------------
Items(r) == [i \in 1..r.length |-> Get(r, i - 1)]

Abstract == INSTANCE Deque WITH items <- Items(ring)

\* Whatever the wrap-around and the growth, the ring is a queue: what Get
\* returns for its positions changes as the items of a deque do, and a pop
\* returns the item at its end.
IsDeque == Abstract!Spec
=============================================================================
