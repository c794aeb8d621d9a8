----------------------- MODULE MCScheduledCollection -----------------------
(***************************************************************************)
(* ScheduledCollection for TLC: searches are interchangeable, and routes.  *)
(***************************************************************************)
EXTENDS ScheduledCollection, TLC

Symmetry == Permutations(Jobs) \cup Permutations(Routes)
=============================================================================
