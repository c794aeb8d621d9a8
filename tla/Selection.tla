----------------------------- MODULE Selection -----------------------------
(***************************************************************************)
(* What a list comprehension with a condition leaves: the chosen elements  *)
(* in their order, each placed by how many chosen ones precede it.         *)
(***************************************************************************)
EXTENDS Integers, FiniteSets

\* The elements of xs at the positions S, in their order.
Picked(xs, S) ==
    [p \in 1..Cardinality(S) |-> xs[CHOOSE i \in S : Cardinality({k \in S : k <= i}) = p]]
=============================================================================
