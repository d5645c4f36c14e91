------------------------------ MODULE MCSignIn ------------------------------
(* A small instance of SignIn. *)
EXTENDS SignIn, TLC

Symmetry == Permutations(Requests)
=============================================================================
