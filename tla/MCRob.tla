------------------------------- MODULE MCRob -------------------------------
(* Instances of RobScheduler for TLC. *)
EXTENDS RobScheduler, TLC

\* The scheduler never compares ids, so all of them may be permuted.
Symmetry == Permutations(Users) \cup Permutations(Workers) \cup Permutations(Chans)

=============================================================================
