------------------------------- MODULE RbTree -------------------------------
(***************************************************************************)
(* lib/util/rbtree: the left-leaning red-black tree in which the scheduler *)
(* keeps its jobs by stride.  A subtree is a value: the program never has  *)
(* two pointers to a node, and the nodes that it recycles are zeroed first *)
(* and left out here.  Crash stands for what a nil pointer or a failed     *)
(* assertion leaves: it spreads to every tree built from it.               *)
(***************************************************************************)
EXTENDS Integers

CONSTANTS Keys, Values

VARIABLE root

Nil == [nil |-> TRUE]
Crash == [crash |-> TRUE]
IsNode(n) == n # Nil /\ n # Crash

\* Selectors, as the program dereferences: nothing can be read from nil.
Left(n) == IF IsNode(n) THEN n.left ELSE Crash
Right(n) == IF IsNode(n) THEN n.right ELSE Crash
IsRed(n) == IsNode(n) /\ n.red

Make(k, v, l, r, red) ==
  IF Crash \in {l, r} THEN Crash
  ELSE [key |-> k, value |-> v, left |-> l, right |-> r, red |-> red]

SetLeft(n, l) == Make(n.key, n.value, l, n.right, n.red)
SetRight(n, r) == Make(n.key, n.value, n.left, r, n.red)
SetRed(n, red) == IF IsNode(n) THEN [n EXCEPT !.red = red] ELSE Crash

RECURSIVE Contents(_)
Contents(n) ==
  IF IsNode(n) THEN Contents(n.left) \cup {<<n.key, n.value>>} \cup Contents(n.right)
  ELSE {}

RotateRight(n) ==
  IF ~IsNode(n) \/ ~IsRed(n.left) THEN Crash
  ELSE LET x == n.left
       IN  Make(x.key, x.value, x.left,
                Make(n.key, n.value, x.right, n.right, TRUE), n.red)

RotateLeft(n) ==
  IF ~IsNode(n) \/ ~IsRed(n.right) THEN Crash
  ELSE LET x == n.right
       IN  Make(x.key, x.value,
                Make(n.key, n.value, n.left, x.left, TRUE), x.right, n.red)

FlipColors(n) ==
  IF ~IsNode(n) \/ ~IsNode(n.left) \/ ~IsNode(n.right) THEN Crash
  ELSE Make(n.key, n.value, SetRed(n.left, ~n.left.red),
            SetRed(n.right, ~n.right.red), ~n.red)

MoveRedLeft(n) ==
  LET f == FlipColors(n)
  IN  IF f = Crash \/ ~IsRed(Left(f.right)) THEN f
      ELSE FlipColors(RotateLeft(SetRight(f, RotateRight(f.right))))

MoveRedRight(n) ==
  LET f == FlipColors(n)
  IN  IF f = Crash \/ ~IsRed(Left(f.left)) THEN f
      ELSE FlipColors(RotateRight(f))

\* Mutant: two red children are left as they are.
BalanceWithoutFlip(n) ==
  IF n = Crash THEN Crash
  ELSE LET a == IF IsRed(n.right) /\ ~IsRed(n.left) THEN RotateLeft(n) ELSE n
       IN  IF IsRed(Left(a)) /\ IsRed(Left(Left(a))) THEN RotateRight(a) ELSE a

Balance(n) ==
  IF n = Crash THEN Crash
  ELSE LET a == IF IsRed(n.right) /\ ~IsRed(n.left) THEN RotateLeft(n) ELSE n
           b == IF IsRed(Left(a)) /\ IsRed(Left(Left(a))) THEN RotateRight(a) ELSE a
       IN  IF IsRed(Left(b)) /\ IsRed(Right(b)) THEN FlipColors(b) ELSE b

\* The child of n and its own left child are both black: the test of delete
\* reads the left child of a child that must not be nil.
BothBlack(child) == ~IsRed(child) /\ ~IsRed(Left(child))

RECURSIVE Put(_, _, _)
Put(n, k, v) ==
  IF n = Nil THEN Make(k, v, Nil, Nil, TRUE)
  ELSE Balance(CASE k > n.key -> SetRight(n, Put(n.right, k, v))
                 [] k < n.key -> SetLeft(n, Put(n.left, k, v))
                 [] OTHER -> [n EXCEPT !.value = v])

RECURSIVE MinNode(_)
MinNode(n) == IF n = Nil \/ n.left = Nil THEN n ELSE MinNode(n.left)

RECURSIVE MaxNode(_)
MaxNode(n) == IF n = Nil \/ n.right = Nil THEN n ELSE MaxNode(n.right)

RECURSIVE DeleteMin(_)
DeleteMin(n) ==
  CASE n = Crash -> Crash
    [] n # Crash /\ Left(n) = Nil -> Nil
    [] OTHER ->
       LET m == IF BothBlack(Left(n)) THEN MoveRedLeft(n) ELSE n
       IN  IF m = Crash THEN Crash ELSE Balance(SetLeft(m, DeleteMin(m.left)))

RECURSIVE DeleteNode(_, _)

\* Mutant: a red link to the left is not rotated away first.
DeleteRightLeaning(n, k) ==
  IF k = n.key /\ n.right = Nil THEN Nil
  ELSE IF n.right = Nil THEN Crash
  ELSE LET b == IF BothBlack(n.right) THEN MoveRedRight(n) ELSE n
       IN  CASE b = Crash -> Crash
             [] b # Crash /\ k = b.key ->
                  LET x == MinNode(b.right)
                  IN  IF ~IsNode(x) THEN Crash
                      ELSE Balance(Make(x.key, x.value, b.left, DeleteMin(b.right), b.red))
             [] OTHER -> Balance(SetRight(b, DeleteNode(b.right, k)))

\* The branch of delete for a key that is not to the left of n.
DeleteRight(n, k) ==
  LET a == IF IsRed(n.left) THEN RotateRight(n) ELSE n
  IN  IF k = a.key /\ a.right = Nil THEN Nil
      ELSE IF a.right = Nil THEN Crash
      ELSE LET b == IF BothBlack(a.right) THEN MoveRedRight(a) ELSE a
           IN  CASE b = Crash -> Crash
                 [] b # Crash /\ k = b.key ->
                      LET x == MinNode(b.right)
                      IN  IF ~IsNode(x) THEN Crash
                          ELSE Balance(Make(x.key, x.value, b.left,
                                            DeleteMin(b.right), b.red))
                 [] OTHER -> Balance(SetRight(b, DeleteNode(b.right, k)))

DeleteNode(n, k) ==
  CASE ~IsNode(n) -> Crash
    [] IsNode(n) /\ k < n.key /\ n.left = Nil -> Crash
    [] IsNode(n) /\ k < n.key /\ n.left # Nil ->
         LET m == IF BothBlack(n.left) THEN MoveRedLeft(n) ELSE n
         IN  IF m = Crash THEN Crash ELSE Balance(SetLeft(m, DeleteNode(m.left, k)))
    [] OTHER -> DeleteRight(n, k)

-----------------------------------------------------------------------------
RECURSIVE GetNode(_, _)
GetNode(n, k) ==
  CASE n = Nil -> Nil
    [] n # Nil /\ k > n.key -> GetNode(n.right, k)
    [] n # Nil /\ k < n.key -> GetNode(n.left, k)
    [] OTHER -> n

RECURSIVE NextNode(_, _)
NextNode(n, k) ==
  CASE n = Nil -> Nil
    [] n # Nil /\ n.key = k -> MinNode(n.right)
    [] n # Nil /\ n.key < k -> NextNode(n.right, k)
    [] OTHER -> LET m == NextNode(n.left, k) IN IF m = Nil THEN n ELSE m

RECURSIVE PrevNode(_, _)
PrevNode(n, k) ==
  CASE n = Nil -> Nil
    [] n # Nil /\ n.key = k -> MaxNode(n.left)
    [] n # Nil /\ n.key > k -> PrevNode(n.left, k)
    [] OTHER -> LET m == PrevNode(n.right, k) IN IF m = Nil THEN n ELSE m

Has(k) == GetNode(root, k) # Nil

Init == root = Nil

Set(k, v) ==
  /\ root # Crash
  /\ root' = SetRed(Put(root, k, v), FALSE)

Delete(k) ==
  /\ root # Crash
  /\ Has(k)
  /\ LET top == IF IsRed(root.left) \/ IsRed(root.right) THEN root ELSE SetRed(root, TRUE)
         t == DeleteNode(top, k)
     IN  root' = IF IsNode(t) THEN SetRed(t, FALSE) ELSE t

Next == \E k \in Keys : Delete(k) \/ \E v \in Values : Set(k, v)

-----------------------------------------------------------------------------
Abstract == INSTANCE Dictionary WITH
  dict <- [k \in {c[1] : c \in Contents(root)} |->
             (CHOOSE c \in Contents(root) : c[1] = k)[2]]

\* Set and Delete change the contents of the tree as those of a dictionary,
\* however the tree has been rebalanced.
IsDictionary == Abstract!Spec

\* Any sequence of Set and Delete runs without a nil dereference and without
\* the "assertion failed" of a rotation.
NeverCrashes == root # Crash

KeysOf(n) == {c[1] : c \in Contents(n)}

\* What Get, Min, Max, Next and Prev find by descending the tree is what they
\* promise: the key asked for, or its neighbour in the order of the keys.
Searches ==
  LET keys == KeysOf(root)
      below(k) == {j \in keys : j < k}
      above(k) == {j \in keys : j > k}
      is(n, S, least) ==
        IF S = {} THEN n = Nil
        ELSE n # Nil /\ n.key \in S
             /\ \A j \in S : IF least THEN n.key <= j ELSE n.key >= j
  IN  root # Crash =>
        /\ is(MinNode(root), keys, TRUE)
        /\ is(MaxNode(root), keys, FALSE)
        /\ \A k \in Keys :
             /\ Has(k) <=> k \in keys
             /\ is(NextNode(root, k), above(k), TRUE)
             /\ is(PrevNode(root, k), below(k), FALSE)

RECURSIVE BlackHeight(_)
BlackHeight(n) ==
  IF n = Nil THEN 0
  ELSE LET l == BlackHeight(n.left)
           r == BlackHeight(n.right)
       IN  IF l = -1 \/ l # r THEN -1 ELSE IF n.red THEN l ELSE l + 1

RECURSIVE LeansLeft(_)
LeansLeft(n) ==
  IsNode(n) =>
    /\ ~IsRed(n.right)
    /\ ~(n.red /\ IsRed(n.left))
    /\ LeansLeft(n.left) /\ LeansLeft(n.right)

\* "RBTree is a left-leaning red-black BST": red links lean left and never
\* follow one another, and every path has as many black nodes.  This bounds
\* the depth that every search pays.
Balanced == root # Crash => LeansLeft(root) /\ BlackHeight(root) # -1

\* Together: the tree is one in which every operation goes well and every search is
\* right and short.
TreeSound == NeverCrashes /\ Searches /\ Balanced
=============================================================================
