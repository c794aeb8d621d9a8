---------------------------- MODULE MCTravellers ----------------------------
(***************************************************************************)
(* Travellers for TLC: two sessions of one user, and profiles of two.      *)
(***************************************************************************)
EXTENDS Travellers, TLC

MCOwner(s) == "user"

Symmetry == Permutations(Sessions) \cup Permutations(Ids)
            \cup Permutations(Columns) \cup Permutations(Values)
=============================================================================
