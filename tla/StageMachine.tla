---------------------------- MODULE StageMachine ----------------------------
(***************************************************************************)
(* What the pipeline promises about one deal, whoever works on it and      *)
(* however their requests interleave: the comment over stageRollbackFloor  *)
(* in domain/pipeline.go, as a specification.  A deal goes forward one     *)
(* stage at a time, back freely, but from shipping or later only down to   *)
(* payment, is won only from handover, lost from anywhere, and a closed    *)
(* deal never moves again.                                                 *)
(***************************************************************************)
EXTENDS StageRules

VARIABLES stage, outcome

Init ==
    /\ stage \in Stages
    /\ outcome = "open"

Advance ==
    /\ outcome = "open"
    /\ stage < StageHandover
    /\ stage' = stage + 1
    /\ UNCHANGED outcome

RollBack ==
    /\ outcome = "open"
    /\ \E to \in Stages :
          /\ to < stage
          /\ stage >= StageShipping => to >= StagePayment
          /\ stage' = to
    /\ UNCHANGED outcome

Win ==
    /\ outcome = "open"
    /\ stage = StageHandover
    /\ outcome' = "won"
    /\ UNCHANGED stage

Lose ==
    /\ outcome = "open"
    /\ outcome' = "lost"
    /\ UNCHANGED stage

Next == Advance \/ RollBack \/ Win \/ Lose

Spec == Init /\ [][Next]_<<stage, outcome>>
=============================================================================
