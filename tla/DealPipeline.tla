---------------------------- MODULE DealPipeline ----------------------------
(***************************************************************************)
(* One deal of the pipeline and the managers (dealer accounts and admins,  *)
(* or several tabs of one of them) that work on it at once.  The deal row, *)
(* its documents and its stage history are database state; a request that  *)
(* is being served keeps what it has read so far.                          *)
(*                                                                         *)
(* service.ChangeStage reads the deal, then its documents, and only then   *)
(* opens the transaction of store.ChangeStage, which locks the row and     *)
(* validates the transition again.  Between those three points other       *)
(* requests run.  The rows of the history are kept in the order they were  *)
(* committed; their created_at is left out.                                *)
(*                                                                         *)
(* Left to other modules: the chat and the notifications that announce a   *)
(* stage, tasks, reviews, and the request claim that a lost deal releases  *)
(* and through which a client gives up the dealer (RequestClaims).         *)
(***************************************************************************)
EXTENDS StageRules, Integers, Sequences

CONSTANTS
    Managers,      \* concurrent requests that may change the deal
    Docs,          \* identifiers of the documents attached to the deal
    Currencies,    \* domain.Currency
    RubRate,       \* kopecks per minor unit of each currency
    Amounts,       \* contract amounts a form may carry
    Payments,      \* values of paid_rub_minor a form may carry
    CreateStages,  \* stages at which the deal may be created
    UpdateForms,   \* forms of UpdateDeal
    MaxHistory     \* bound: rows of deal_stage_history

Keep == "keep"     \* a form field that is absent (nil): COALESCE keeps the column

(* The fields of UpdateDealForm that the rules of the pipeline look at.    *)
UpdateForm == [amount    : Amounts \cup {NoAmount},
               currency  : Currencies \cup {Keep},
               paid      : Payments \cup {-1},
               sbkts     : {Keep, "set", "clear"},
               contacted : BOOLEAN]

NoForm == [amount |-> NoAmount, currency |-> Keep, paid |-> -1,
           sbkts |-> Keep, contacted |-> FALSE]

ASSUME PipelineAssumption ==
    /\ Amounts \subseteq Nat \ {0}
    /\ Payments \subseteq Nat
    /\ Currencies # {}
    /\ CreateStages \subseteq Stages
    /\ RubRate \in [Currencies -> Nat \ {0}]
    /\ UpdateForms \subseteq UpdateForm
    /\ Keep \notin Currencies
    /\ MaxHistory \in Nat \ {0}

VARIABLES
    deal,     \* the row of deals
    docs,     \* the kind of each document, "none" when it is not there
    history,  \* rows of deal_stage_history in commit order
    pc,       \* where each manager's request is
    target,   \* the stage a ChangeStage asks for
    snap,     \* the deal as the request read it
    form      \* the UpdateDeal form and the rouble amount computed for it

vars == <<deal, docs, history, pc, target, snap, form>>
requests == <<pc, target, snap, form>>

-----------------------------------------------------------------------------
(* Mutant: the amount is taken for what is still to be paid.               *)
ToRubMinorOwed(amount, currency) == 0 - amount * RubRate[currency]

(* money.Converter.ToRubMinor; rounding is left out.                       *)
ToRubMinor(amount, currency) == amount * RubRate[currency]

(* The row store.Create inserts.  marks holds the stages whose date column *)
(* is set: first_contacted_at for lead, contract_signed_at for contract,   *)
(* and so on; Create sets none of them, whatever stage the deal starts at. *)
NewDeal(stage, amount, currency) ==
    [stage |-> stage, outcome |-> "open", amount |-> amount, currency |-> currency,
     rub |-> IF amount = NoAmount THEN NoAmount ELSE ToRubMinor(amount, currency),
     paid |-> 0, sbkts |-> FALSE, marks |-> {}]

(* Mutant: the row forgets where the deal came from.                       *)
HistoryRowNoFrom(from, to, outcome) ==
    [from |-> NoStage, to |-> to, outcome |-> outcome]

HistoryRow(from, to, outcome) ==
    [from |-> from, to |-> to, outcome |-> outcome]

NoDeal == NewDeal(StageLead, NoAmount, CHOOSE c \in Currencies : TRUE)
NoUpdate == [fields |-> NoForm, rub |-> NoAmount]

(* store.Create in one transaction: the deal and its first history row.    *)
Init ==
    /\ \E s \in CreateStages, a \in Amounts \cup {NoAmount}, c \in Currencies :
          /\ deal = NewDeal(s, a, c)
          /\ history = <<HistoryRow(NoStage, s, "open")>>
    /\ docs = [d \in Docs |-> "none"]
    /\ pc = [m \in Managers |-> "idle"]
    /\ target = [m \in Managers |-> StageLead]
    /\ snap = [m \in Managers |-> NoDeal]
    /\ form = [m \in Managers |-> NoUpdate]

(* The request is answered and forgets what it read.                       *)
Answer(m) ==
    /\ pc' = [pc EXCEPT ![m] = "idle"]
    /\ target' = [target EXCEPT ![m] = StageLead]
    /\ snap' = [snap EXCEPT ![m] = NoDeal]
    /\ form' = [form EXCEPT ![m] = NoUpdate]

DocKinds == {docs[d] : d \in Docs} \ {"none"}
-----------------------------------------------------------------------------
(* ChangeStage, first read: requireManage loads the deal without a lock.   *)
LoadDeal(m, to) ==
    /\ pc[m] = "idle"
    /\ pc' = [pc EXCEPT ![m] = "loaded"]
    /\ target' = [target EXCEPT ![m] = to]
    /\ snap' = [snap EXCEPT ![m] = deal]
    /\ UNCHANGED <<deal, docs, history, form>>

(* ChangeStage, second read: the documents, when the step goes forward.    *)
(* The requirements are judged on the deal read before; if they hold, the  *)
(* transaction begins.                                                     *)
CheckAdvance(m) ==
    /\ pc[m] = "loaded"
    /\ IF AdvanceAllowed(snap[m], target[m], DocKinds)
       THEN /\ pc' = [pc EXCEPT ![m] = "moving"]
            /\ snap' = [snap EXCEPT ![m] = NoDeal]
            /\ UNCHANGED <<target, form>>
       ELSE Answer(m)
    /\ UNCHANGED <<deal, docs, history>>

(* The date columns a move sets, each only the first time.                 *)
MarksOfMove(from, to) ==
    (IF from = StageLead THEN {StageLead} ELSE {})
        \cup (IF to >= StageContract THEN {to} ELSE {})

(* Mutant: a move clears the dates of the stages before it.                *)
MovedForgetting(to) ==
    [deal EXCEPT !.stage = to, !.marks = MarksOfMove(deal.stage, to)]

(* The deal moved to another stage.                                        *)
Moved(to) ==
    [deal EXCEPT !.stage = to, !.marks = @ \cup MarksOfMove(deal.stage, to)]

(* store.ChangeStage: the row is locked, the transition validated against  *)
(* the row as it is now, the row and one history row written.              *)
CommitStage(m) ==
    /\ pc[m] = "moving"
    /\ IF ValidTransition(deal.stage, target[m], deal.outcome)
       THEN /\ Len(history) < MaxHistory
            /\ deal' = Moved(target[m])
            /\ history' = Append(history,
                  HistoryRow(deal.stage, target[m], deal.outcome))
       ELSE UNCHANGED <<deal, history>>
    /\ Answer(m)
    /\ UNCHANGED docs

-----------------------------------------------------------------------------
(* CloseDeal: the transaction of store.Close begins.  A lost deal without  *)
(* a reason is refused, so every request here carries one.                 *)
BeginClose(m, outcome) ==
    /\ pc[m] = "idle"
    /\ pc' = [pc EXCEPT ![m] = outcome]
    /\ UNCHANGED <<deal, docs, history, target, snap, form>>

CloseAllowed(outcome) ==
    /\ deal.outcome = "open"
    /\ outcome = "won" => CanCloseAsWon(deal.stage)

(* store.Close: the row is locked, the outcome written and the closing row *)
(* added to the history.                                                   *)
CommitClose(m) ==
    /\ pc[m] \in {"won", "lost"}
    /\ IF CloseAllowed(pc[m])
       THEN /\ Len(history) < MaxHistory
            /\ deal' = [deal EXCEPT !.outcome = pc[m]]
            /\ history' = Append(history,
                  HistoryRow(deal.stage, deal.stage, pc[m]))
       ELSE UNCHANGED <<deal, history>>
    /\ Answer(m)
    /\ UNCHANGED docs

(* Requests.RefuseClaimByClient: the client gives up the dealer whose      *)
(* claim carries the deal; an open deal is lost, and no history row says   *)
(* so.                                                                     *)
ClientRefuses ==
    /\ deal.outcome = "open"
    /\ deal' = [deal EXCEPT !.outcome = "lost"]
    /\ UNCHANGED <<docs, history, requests>>

-----------------------------------------------------------------------------
(* UpdateDeal: the deal is loaded and, when the form names an amount, its  *)
(* rouble equivalent is computed, in the deal's own currency when the form *)
(* names none.                                                             *)
LoadUpdate(m, f) ==
    /\ pc[m] = "idle"
    /\ pc' = [pc EXCEPT ![m] = "updating"]
    /\ form' = [form EXCEPT ![m] =
          [fields |-> f,
           rub    |-> IF f.amount = NoAmount THEN NoAmount
                      ELSE ToRubMinor(f.amount,
                             IF f.currency = Keep THEN deal.currency ELSE f.currency)]]
    /\ UNCHANGED <<deal, docs, history, target, snap>>

(* store.Update: one UPDATE, every absent field keeping its column.  There *)
(* is no condition on the outcome: a closed deal can be edited too.        *)
ApplyUpdate(m) ==
    LET f   == form[m].fields
        rub == form[m].rub
    IN  /\ pc[m] = "updating"
        /\ deal' = [deal EXCEPT
              !.amount   = IF f.amount = NoAmount THEN @ ELSE f.amount,
              !.currency = IF f.currency = Keep THEN @ ELSE f.currency,
              !.rub      = IF rub = NoAmount THEN @ ELSE rub,
              !.paid     = IF f.paid = -1 THEN @ ELSE f.paid,
              !.sbkts    = IF f.sbkts = Keep THEN @ ELSE f.sbkts = "set",
              !.marks    = IF f.contacted THEN @ \cup {StageLead} ELSE @]
        /\ Answer(m)
        /\ UNCHANGED <<docs, history>>

AddDocument(d, kind) ==
    /\ docs[d] = "none"
    /\ docs' = [docs EXCEPT ![d] = kind]
    /\ UNCHANGED <<deal, history, requests>>

DeleteDocument(d) ==
    /\ docs[d] # "none"
    /\ docs' = [docs EXCEPT ![d] = "none"]
    /\ UNCHANGED <<deal, history, requests>>

-----------------------------------------------------------------------------
Request(m) ==
    \/ \E to \in Stages : LoadDeal(m, to)
    \/ CheckAdvance(m)
    \/ CommitStage(m)
    \/ \E o \in {"won", "lost"} : BeginClose(m, o)
    \/ CommitClose(m)
    \/ \E f \in UpdateForms : LoadUpdate(m, f)
    \/ ApplyUpdate(m)

Next ==
    \/ \E m \in Managers : Request(m)
    \/ ClientRefuses
    \/ \E d \in Docs, k \in DocumentKinds : AddDocument(d, k)
    \/ \E d \in Docs : DeleteDocument(d)

Spec == Init /\ [][Next]_vars

-----------------------------------------------------------------------------
Rows == DOMAIN history

Deal == [stage : Stages, outcome : Outcomes, amount : Amounts \cup {NoAmount},
         currency : Currencies, rub : Nat, paid : Payments \cup {0},
         sbkts : BOOLEAN, marks : SUBSET Stages]

Row == [from : Stages \cup {NoStage}, to : Stages, outcome : Outcomes]

(* Every variable keeps its type; deal satisfies the CHECK constraints of  *)
(* the table (an amount is absent or positive, paid is not negative).      *)
TypeOK ==
    /\ deal \in Deal
    /\ docs \in [Docs -> DocumentKinds \cup {"none"}]
    /\ history \in Seq(Row)
    /\ Len(history) \in 1 .. MaxHistory
    /\ pc \in [Managers -> {"idle", "loaded", "moving", "won", "lost", "updating"}]
    /\ target \in [Managers -> Stages]
    /\ snap \in [Managers -> Deal]
    /\ form \in [Managers -> [fields : UpdateForm, rub : Nat]]

(* What the row lock of store.ChangeStage and store.Close is for: however  *)
(* the requests interleave, the history of a deal has no two transitions   *)
(* out of the same state.  Each row leaves from where the one before it    *)
(* arrived, and the last one arrives where the deal is.                    *)
HistoryChains ==
    /\ history[1].from = NoStage
    /\ \A i \in Rows \ {1} : history[i].from = history[i - 1].to
    /\ history[Len(history)].to = deal.stage

(* Managers close a deal at most once: only the last row of the history    *)
(* may carry an outcome, and it carries the outcome of the deal.           *)
ClosedOnce ==
    \A i \in Rows : history[i].outcome # "open" =>
        i = Len(history) /\ history[i].outcome = deal.outcome

(* The deal has been at every stage between the one it was created at and  *)
(* the one it is at: no roll back, race or retry lets it skip one.         *)
NoStageSkipped ==
    \A s \in history[1].to .. deal.stage : \E i \in Rows : history[i].to = s

(* A deal counted as won was handed over, and got there stage by stage     *)
(* from where it was created (CanCloseAsWon: otherwise the statistics of   *)
(* the dealers would mean nothing).                                        *)
WonWasHandedOver == deal.outcome = "won" =>
    \A s \in history[1].to .. StageHandover : \E i \in Rows : history[i].to = s

(* The date columns of contract, payment, shipping, customs and handover   *)
(* tell which of these stages the deal was ever moved to: a roll back      *)
(* keeps them, a repeated step does not add any.                           *)
MilestonesMatchHistory ==
    \A s \in StageContract .. StageHandover :
        s \in deal.marks <=>
            \E i \in Rows \ {1} : history[i].to = s /\ history[i].from # s

(* The deal row implements the promise of StageMachine.                    *)
SM == INSTANCE StageMachine WITH stage <- deal.stage, outcome <- deal.outcome
StagePromise == SM!Spec

=============================================================================
