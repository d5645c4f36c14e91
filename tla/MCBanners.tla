----------------------------- MODULE MCBanners ------------------------------
(* Small instances of Banners. *)
EXTENDS Banners, TLC

Symmetry == Permutations(Workers)
=============================================================================
