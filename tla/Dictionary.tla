----------------------------- MODULE Dictionary -----------------------------
(***************************************************************************)
(* What a map from keys to values promises.  RbTree implements it.         *)
(***************************************************************************)
CONSTANTS Keys, Values

VARIABLE dict

Init == dict = [k \in {} |-> TRUE]

Set(k, v) == dict' = [j \in DOMAIN dict \cup {k} |-> IF j = k THEN v ELSE dict[j]]

Delete(k) ==
  /\ k \in DOMAIN dict
  /\ dict' = [j \in DOMAIN dict \ {k} |-> dict[j]]

Next == \E k \in Keys : Delete(k) \/ \E v \in Values : Set(k, v)

Spec == Init /\ [][Next]_dict
=============================================================================
