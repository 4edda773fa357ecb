------------------------------ MODULE MCKitchen ------------------------------
(***************************************************************************)
(* Kitchen for TLC.                                                        *)
(***************************************************************************)
EXTENDS Kitchen, TLC

Flat == [r \in Recipes |-> 0]

Symmetry == Permutations(Names) \cup Permutations(Recipes) \cup Permutations(Conns)

=============================================================================
