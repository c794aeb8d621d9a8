-------------------------- MODULE MCSearchPipeline --------------------------
(***************************************************************************)
(* SearchPipeline for TLC: searches are interchangeable.                   *)
(***************************************************************************)
EXTENDS SearchPipeline, TLC

Symmetry == Permutations(Jobs)
=============================================================================
