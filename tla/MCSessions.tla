----------------------------- MODULE MCSessions -----------------------------
(* A small instance of Sessions. *)
EXTENDS Sessions, TLC

\* The requests are interchangeable, and the properties are invariants.
Symmetry == Permutations(Requests)
=============================================================================
