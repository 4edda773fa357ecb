------------------------------- MODULE Deque -------------------------------
(***************************************************************************)
(* What a double-ended queue promises: the sequence of its items, changed  *)
(* at either end.  Ring implements it.                                     *)
(***************************************************************************)
EXTENDS Integers, Sequences

CONSTANTS Values, Zero

VARIABLES
  items,
  popped    \* what the last pop returned

Front(s) == SubSeq(s, 1, Len(s) - 1)

Init == items = <<>> /\ popped = Zero

PushFront(v) == items' = <<v>> \o items /\ UNCHANGED popped

PushBack(v) == items' = Append(items, v) /\ UNCHANGED popped

PopFront ==
  /\ items # <<>>
  /\ popped' = Head(items)
  /\ items' = Tail(items)

PopBack ==
  /\ items # <<>>
  /\ popped' = items[Len(items)]
  /\ items' = Front(items)

Clear == items' = <<>> /\ UNCHANGED popped

Next ==
  \/ \E v \in Values : PushFront(v) \/ PushBack(v)
  \/ PopFront \/ PopBack \/ Clear

Spec == Init /\ [][Next]_<<items, popped>>
=============================================================================
