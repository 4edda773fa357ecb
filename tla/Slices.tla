------------------------------- MODULE Slices -------------------------------
(***************************************************************************)
(* lib/util/slices/remove.go on sequences.                                 *)
(***************************************************************************)
EXTENDS Integers, Sequences

Elements(s) == {s[i] : i \in DOMAIN s}

\* No element occurs twice.
Distinct(s) == \A i, j \in DOMAIN s : s[i] = s[j] => i = j

RemoveIndex(s, i) == [k \in 1..(Len(s) - 1) |-> IF k < i THEN s[k] ELSE s[k + 1]]

\* i is the first position of x.
IsIndex(s, x, i) == i \in DOMAIN s /\ s[i] = x /\ \A k \in 1..(i - 1) : s[k] # x

\* Remove and Delete: s without the first x.
Remove(s, x) ==
  IF \E i \in DOMAIN s : IsIndex(s, x, i)
  THEN RemoveIndex(s, CHOOSE i \in DOMAIN s : IsIndex(s, x, i))
  ELSE s

=============================================================================
