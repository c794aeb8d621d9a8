--------------------------- MODULE MCSourceHealth ---------------------------
(***************************************************************************)
(* SourceHealth for TLC: job slots are interchangeable.                    *)
(***************************************************************************)
EXTENDS SourceHealth, TLC

Symmetry == Permutations(Jobs)
=============================================================================
