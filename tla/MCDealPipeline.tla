--------------------------- MODULE MCDealPipeline ---------------------------
(* Small instances of DealPipeline. *)
EXTENDS DealPipeline, TLC

MCRubRate == [c \in Currencies |-> IF c = "rub" THEN 1 ELSE 2]

(* The form of a manager who has everything: the call to the client, the   *)
(* price, the payment and the customs papers.                              *)
OneForm ==
    {[NoForm EXCEPT !.amount = 1, !.paid = 1, !.sbkts = "set", !.contacted = TRUE]}

OneDoc == {"d1"}
EarlyAndLate == {3, 6}
Symmetry == Permutations(Managers)
=============================================================================
