-------------------------- MODULE MCRequestClaims ---------------------------
(* Small instances of RequestClaims. *)
EXTENDS RequestClaims, TLC

AnyAddressee == Dealers \cup {NoDealer}
Symmetry == Permutations(Dealers) \cup Permutations(DealIds)
=============================================================================
