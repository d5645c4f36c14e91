----------------------------- MODULE StageRules -----------------------------
(***************************************************************************)
(* The rules of the seven-stage sales pipeline of internal/domain, as pure *)
(* operators.  A stage is its position in domain.StageOrder: lead is 1,    *)
(* handover is 7, and 0 stands for "no stage" (the NULL from_stage of the  *)
(* first history row).                                                     *)
(***************************************************************************)
EXTENDS Naturals

StageLead     == 1
StageContract == 3
StagePayment  == 4
StageShipping == 5
StageHandover == 7
Stages        == StageLead .. StageHandover
NoStage       == 0

Outcomes == {"open", "won", "lost"}

DocumentKinds == {"payment", "customs", "other"}  \* invoice and payment_order are "payment"

NoAmount == 0  \* a NULL amount_minor or amount_rub_minor

-----------------------------------------------------------------------------
(* Mutant: the floor table lost its row for the handover stage.            *)
RollbackFloorNoHandover(from) ==
    IF from \in {StageShipping, StageShipping + 1} THEN StagePayment ELSE StageLead

(* The lowest stage a deal may be moved back to.                           *)
RollbackFloor(from) ==
    IF from >= StageShipping THEN StagePayment ELSE StageLead

(* Mutant: stages may be skipped on the way forward.                       *)
ValidTransitionSkipping(from, to, outcome) ==
    /\ outcome = "open"
    /\ to # from
    /\ to < from => to >= RollbackFloor(from)

(* One step forward, or back to any earlier stage above the floor, and     *)
(* only while the deal is open.                                            *)
ValidTransition(from, to, outcome) ==
    /\ outcome = "open"
    /\ \/ to = from + 1
       \/ to < from /\ to >= RollbackFloor(from)

AllowedNextStages(from, outcome) ==
    {to \in Stages : ValidTransition(from, to, outcome)}

CanCloseAsWon(stage) == stage = StageHandover

-----------------------------------------------------------------------------
(* What a forward step needs of the deal and of its documents.             *)
ContractAmount(deal) == IF deal.rub # NoAmount THEN deal.rub ELSE deal.amount

AdvanceAllowed(deal, to, kinds) ==
    to > deal.stage =>
        /\ to = StagePayment  => ContractAmount(deal) > 0
        /\ to = StageShipping => deal.paid > 0 \/ "payment" \in kinds
        /\ to = StageHandover => deal.sbkts \/ "customs" \in kinds
=============================================================================
