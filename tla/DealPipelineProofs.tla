------------------------- MODULE DealPipelineProofs -------------------------
(***************************************************************************)
(* What DealPipeline guarantees for any number of managers and documents,  *)
(* any currencies and amounts, and histories of any length.                *)
(***************************************************************************)
EXTENDS DealPipeline, SequenceTheorems, TLAPS

LEMMA MovedType ==
    ASSUME TypeOK, NEW to \in Stages
    PROVE  Moved(to) \in Deal
BY DEF Moved, MarksOfMove, TypeOK, Deal, Stages, StageLead, StageHandover, StageContract

LEMMA RowType ==
    ASSUME NEW from \in Stages \cup {NoStage}, NEW to \in Stages,
           NEW outcome \in Outcomes
    PROVE  HistoryRow(from, to, outcome) \in Row
BY DEF HistoryRow, Row

(* A new deal is well typed, the placeholder of an idle request included.  *)
LEMMA NewDealType ==
    ASSUME NEW s \in Stages, NEW a \in Amounts \cup {NoAmount}, NEW c \in Currencies
    PROVE  NewDeal(s, a, c) \in Deal
<1>1. RubRate[c] \in Nat /\ a \in Nat
  BY PipelineAssumption DEF PipelineAssumption, NoAmount
<1>2. a * RubRate[c] \in Nat
  BY <1>1
<1> QED
  BY <1>2, PipelineAssumption
     DEF NewDeal, Deal, ToRubMinor, NoAmount, Outcomes, PipelineAssumption

(* Answering a request keeps the types of what requests hold.              *)
LEMMA AnswerType ==
    ASSUME TypeOK, NEW m \in Managers, Answer(m), NoDeal \in Deal, NoUpdate \in [fields : UpdateForm, rub : Nat]
    PROVE  /\ pc' \in [Managers -> {"idle", "loaded", "moving", "won", "lost", "updating"}]
           /\ target' \in [Managers -> Stages]
           /\ snap' \in [Managers -> Deal]
           /\ form' \in [Managers -> [fields : UpdateForm, rub : Nat]]
BY DEF TypeOK, Answer, Stages, StageLead, StageHandover

(* One row more: the history keeps its type and its earlier rows.          *)
LEMMA AppendRow ==
    ASSUME TypeOK, NEW r \in Row, Len(history) < MaxHistory, history' = Append(history, r)
    PROVE  /\ history' \in Seq(Row)
           /\ Len(history') = Len(history) + 1
           /\ Len(history') \in 1 .. MaxHistory
           /\ \A i \in 1 .. Len(history) : history'[i] = history[i]
           /\ history'[Len(history) + 1] = r
BY AppendProperties, PipelineAssumption DEF TypeOK, PipelineAssumption

LEMMA PlaceholderType == NoDeal \in Deal /\ NoUpdate \in [fields : UpdateForm, rub : Nat]
<1>1. (CHOOSE c \in Currencies : TRUE) \in Currencies
  BY PipelineAssumption DEF PipelineAssumption
<1>2. NoDeal \in Deal
  BY <1>1, NewDealType DEF NoDeal, Stages, StageLead, StageHandover, NoAmount
<1>3. NoForm \in UpdateForm
  BY DEF NoForm, UpdateForm, NoAmount
<1> QED
  BY <1>2, <1>3 DEF NoUpdate, NoAmount

-----------------------------------------------------------------------------
(* Every variable of a reachable state has its type, the CHECK constraints *)
(* of the deals table included.                                            *)
THEOREM Typing == Spec => []TypeOK
<1>1. Init => TypeOK
  <2> SUFFICES ASSUME Init
               PROVE  TypeOK
    OBVIOUS
  <2>1. PICK s \in CreateStages, a \in Amounts \cup {NoAmount}, c \in Currencies :
          /\ deal = NewDeal(s, a, c)
          /\ history = <<HistoryRow(NoStage, s, "open")>>
    BY DEF Init
  <2>2. s \in Stages
    BY PipelineAssumption DEF PipelineAssumption
  <2>3. deal \in Deal
    BY <2>1, <2>2, NewDealType
  <2>4. HistoryRow(NoStage, s, "open") \in Row
    BY <2>2 DEF HistoryRow, Row, Outcomes
  <2>5. history \in Seq(Row) /\ Len(history) \in 1 .. MaxHistory
    BY <2>1, <2>4, PipelineAssumption DEF PipelineAssumption
  <2> QED
    BY <2>3, <2>5, PlaceholderType DEF Init, TypeOK, Stages, StageLead, StageHandover
<1>2. TypeOK /\ [Next]_vars => TypeOK'
  <2> SUFFICES ASSUME TypeOK, [Next]_vars
               PROVE  TypeOK'
    OBVIOUS
  <2>1. ASSUME NEW m \in Managers, NEW to \in Stages, LoadDeal(m, to)
        PROVE  TypeOK'
    BY <2>1 DEF LoadDeal, TypeOK
  <2>2. ASSUME NEW m \in Managers, CheckAdvance(m)
        PROVE  TypeOK'
    <3>1. Len(history) \in Nat
      BY DEF TypeOK
    <3>2. CASE Answer(m)
      BY <2>2, <3>2, AnswerType, PlaceholderType DEF CheckAdvance, TypeOK
    <3>3. CASE ~ Answer(m)
      BY <2>2, <3>1, <3>3, PlaceholderType DEF CheckAdvance, TypeOK
    <3> QED
      BY <3>2, <3>3
  <2>3. ASSUME NEW m \in Managers, CommitStage(m)
        PROVE  TypeOK'
    <3>1. deal' \in Deal /\ history' \in Seq(Row) /\ Len(history') \in 1 .. MaxHistory
      <4>1. CASE ValidTransition(deal.stage, target[m], deal.outcome)
        <5>1. HistoryRow(deal.stage, target[m], deal.outcome) \in Row
          BY RowType DEF TypeOK, Deal
        <5>2. deal' \in Deal
          BY <2>3, <4>1, MovedType DEF CommitStage, TypeOK
        <5> QED
          BY <2>3, <4>1, <5>1, <5>2, AppendRow DEF CommitStage
      <4>2. CASE ~ ValidTransition(deal.stage, target[m], deal.outcome)
        BY <2>3, <4>2 DEF CommitStage, TypeOK
      <4> QED
        BY <4>1, <4>2
    <3> QED
      BY <2>3, <3>1, AnswerType, PlaceholderType DEF CommitStage, TypeOK
  <2>4. ASSUME NEW m \in Managers, NEW o \in {"won", "lost"}, BeginClose(m, o)
        PROVE  TypeOK'
    BY <2>4 DEF BeginClose, TypeOK
  <2>5. ASSUME NEW m \in Managers, CommitClose(m)
        PROVE  TypeOK'
    <3>1. deal' \in Deal /\ history' \in Seq(Row) /\ Len(history') \in 1 .. MaxHistory
      <4>1. CASE CloseAllowed(pc[m])
        <5>1. pc[m] \in Outcomes
          BY <2>5 DEF CommitClose, Outcomes
        <5>2. HistoryRow(deal.stage, deal.stage, pc[m]) \in Row
          BY <5>1, RowType DEF TypeOK, Deal
        <5>3. deal' \in Deal
          BY <2>5, <4>1, <5>1 DEF CommitClose, TypeOK, Deal
        <5> QED
          BY <2>5, <4>1, <5>2, <5>3, AppendRow DEF CommitClose
      <4>2. CASE ~ CloseAllowed(pc[m])
        BY <2>5, <4>2 DEF CommitClose, TypeOK
      <4> QED
        BY <4>1, <4>2
    <3> QED
      BY <2>5, <3>1, AnswerType, PlaceholderType DEF CommitClose, TypeOK
  <2>6. ASSUME NEW m \in Managers, NEW f \in UpdateForms, LoadUpdate(m, f)
        PROVE  TypeOK'
    <3>1. f \in UpdateForm
      BY PipelineAssumption DEF PipelineAssumption
    <3>2. (IF f.currency = Keep THEN deal.currency ELSE f.currency) \in Currencies
      BY <3>1 DEF UpdateForm, TypeOK, Deal
    <3>3. ASSUME f.amount # NoAmount, NEW c \in Currencies
          PROVE  ToRubMinor(f.amount, c) \in Nat
      <4>1. f.amount \in Nat /\ RubRate[c] \in Nat
        BY <3>1, <3>3, PipelineAssumption DEF PipelineAssumption, UpdateForm, NoAmount
      <4> QED
        BY <4>1 DEF ToRubMinor
    <3>4. form' \in [Managers -> [fields : UpdateForm, rub : Nat]]
      BY <2>6, <3>1, <3>2, <3>3 DEF LoadUpdate, TypeOK, NoAmount
    <3> QED
      BY <2>6, <3>4 DEF LoadUpdate, TypeOK
  <2>7. ASSUME NEW m \in Managers, ApplyUpdate(m)
        PROVE  TypeOK'
    <3>1. form[m].fields \in UpdateForm /\ form[m].rub \in Nat
      BY DEF TypeOK
    <3> DEFINE f == form[m].fields
               A == IF f.amount = NoAmount THEN deal.amount ELSE f.amount
               C == IF f.currency = Keep THEN deal.currency ELSE f.currency
               R == IF form[m].rub = NoAmount THEN deal.rub ELSE form[m].rub
               P == IF f.paid = -1 THEN deal.paid ELSE f.paid
               K == IF f.sbkts = Keep THEN deal.sbkts ELSE f.sbkts = "set"
               M == IF f.contacted THEN deal.marks \cup {StageLead} ELSE deal.marks
    <3>2. deal \in Deal
      BY DEF TypeOK
    <3>3. A \in Amounts \cup {NoAmount} /\ C \in Currencies /\ R \in Nat /\ P \in Payments \cup {0}
      BY <3>1, <3>2 DEF Deal, UpdateForm
    <3>4. K \in BOOLEAN
      <4>1. deal.sbkts \in BOOLEAN /\ (f.sbkts = "set") \in BOOLEAN
        BY <3>2 DEF Deal
      <4> HIDE DEF f
      <4> QED
        BY <4>1, Zenon
    <3>5. M \in SUBSET Stages
      BY <3>2 DEF Deal, Stages, StageLead, StageHandover
    <3>6. deal' = [deal EXCEPT !.amount = A, !.currency = C, !.rub = R, !.paid = P,
                               !.sbkts = K, !.marks = M]
      BY <2>7, Zenon DEF ApplyUpdate
    <3> HIDE DEF A, C, R, P, K, M
    <3>7. deal' \in Deal
      BY <3>2, <3>3, <3>4, <3>5, <3>6 DEF Deal
    <3> QED
      BY <2>7, <3>7, AnswerType, PlaceholderType DEF ApplyUpdate, TypeOK
  <2>8. CASE ClientRefuses
    BY <2>8 DEF ClientRefuses, TypeOK, requests, Deal, Outcomes
  <2>9. ASSUME NEW d \in Docs, NEW k \in DocumentKinds, AddDocument(d, k)
        PROVE  TypeOK'
    BY <2>9 DEF AddDocument, TypeOK, requests
  <2>10. ASSUME NEW d \in Docs, DeleteDocument(d)
         PROVE  TypeOK'
    BY <2>10 DEF DeleteDocument, TypeOK, requests
  <2>11. CASE UNCHANGED vars
    BY <2>11 DEF vars, TypeOK
  <2> QED
    BY <2>1, <2>2, <2>3, <2>4, <2>5, <2>6, <2>7, <2>8, <2>9, <2>10, <2>11
       DEF Next, Request
<1> QED
  BY <1>1, <1>2, PTL DEF Spec

-----------------------------------------------------------------------------
(* The history of a deal, and why it chains: a transaction writes its row  *)
(* under the lock of the deal, with the stage it reads there as the start, *)
(* and moves the deal to where the row ends.                               *)
PipelineInv ==
    /\ HistoryChains
    /\ NoStageSkipped
    /\ ClosedOnce
    /\ deal.outcome = "won" => deal.stage = StageHandover

LEMMA HistoryInit == Init => PipelineInv
<1> SUFFICES ASSUME Init
             PROVE  PipelineInv
  OBVIOUS
<1>1. PICK s \in CreateStages, a \in Amounts \cup {NoAmount}, c \in Currencies :
        /\ deal = NewDeal(s, a, c)
        /\ history = <<HistoryRow(NoStage, s, "open")>>
  BY DEF Init
<1>2. deal.stage = s /\ deal.outcome = "open" /\ s \in Stages
  BY <1>1, PipelineAssumption DEF NewDeal, PipelineAssumption
<1>3. Len(history) = 1 /\ Rows = {1} /\ history[1] = HistoryRow(NoStage, s, "open")
  BY <1>1 DEF Rows
<1> QED
  BY <1>2, <1>3
     DEF PipelineInv, HistoryChains, NoStageSkipped, ClosedOnce, HistoryRow, Stages,
         StageLead, StageHandover

(* A row that starts at the deal's stage and ends one stage further, or    *)
(* further back, keeps the history a chain without gaps; its outcome is    *)
(* the one the deal has after the step.                                    *)
LEMMA RowKeepsHistory ==
    ASSUME TypeOK, TypeOK', PipelineInv, deal.outcome = "open", Len(history) < MaxHistory,
           NEW r \in Row, history' = Append(history, r),
           r.from = deal.stage, r.to = deal'.stage, r.outcome = deal'.outcome,
           r.to <= deal.stage + 1,
           deal'.outcome = "won" => deal'.stage = StageHandover
    PROVE  PipelineInv'
<1> DEFINE n == Len(history)
<1>1. /\ n \in Nat \ {0}
      /\ Rows = 1 .. n
      /\ deal.stage \in Nat
      /\ deal'.stage \in Nat
  BY LenProperties DEF TypeOK, Rows, Deal, Stages, StageLead, StageHandover
<1>2. /\ Len(history') = n + 1
      /\ \A i \in 1 .. n : history'[i] = history[i]
      /\ history'[n + 1] = r
  BY AppendRow
<1>3. Rows' = 1 .. n + 1
  BY <1>2, LenProperties DEF TypeOK, Rows
<1> HIDE DEF n
<1>4. HistoryChains'
  <2>1. history[n].to = deal.stage
    BY DEF PipelineInv, HistoryChains, n
  <2>2. ASSUME NEW i \in (1 .. n + 1) \ {1}
        PROVE  history'[i].from = history'[i - 1].to
    <3>1. CASE i = n + 1
      BY <1>1, <1>2, <2>1, <3>1
    <3>2. CASE i # n + 1
      <4>1. i \in (1 .. n) \ {1} /\ i - 1 \in 1 .. n
        BY <1>1, <3>2
      <4> QED
        BY <1>1, <1>2, <4>1 DEF PipelineInv, HistoryChains
    <3> QED
      BY <3>1, <3>2
  <2>3. 1 \in 1 .. n
    BY <1>1
  <2> QED
    BY <1>2, <1>3, <2>2, <2>3 DEF PipelineInv, HistoryChains
<1>5. NoStageSkipped'
  <2>1. history'[1] = history[1]
    BY <1>1, <1>2
  <2>2. ASSUME NEW s \in history'[1].to .. deal'.stage
        PROVE  \E i \in Rows' : history'[i].to = s
    <3>1. CASE s = deal'.stage
      BY <1>1, <1>2, <1>3, <3>1
    <3>2. CASE s # deal'.stage
      <4>1. history[1] \in Row
        BY <1>1, ElementOfSeq DEF TypeOK, n
      <4>2. s \in history[1].to .. deal.stage
        BY <1>1, <2>1, <3>2, <4>1 DEF Row, Stages, StageLead, StageHandover
      <4>3. PICK i \in 1 .. n : history[i].to = s
        BY <1>1, <4>2 DEF PipelineInv, NoStageSkipped
      <4> QED
        BY <1>1, <1>2, <1>3, <4>3
    <3> QED
      BY <3>1, <3>2
  <2> QED
    BY <2>2 DEF NoStageSkipped
<1>6. ClosedOnce'
  BY <1>1, <1>2, <1>3 DEF PipelineInv, ClosedOnce
<1> QED
  BY <1>4, <1>5, <1>6 DEF PipelineInv

(* A step that leaves stage and history alone keeps the history right, if  *)
(* it leaves the outcome alone or loses an open deal.                      *)
LEMMA QuietStep ==
    ASSUME TypeOK, PipelineInv, history' = history, deal'.stage = deal.stage,
           \/ deal'.outcome = deal.outcome
           \/ deal.outcome = "open" /\ deal'.outcome = "lost"
    PROVE  PipelineInv'
<1>1. Rows' = Rows
  BY DEF Rows
<1> QED
  BY <1>1 DEF PipelineInv, HistoryChains, NoStageSkipped, ClosedOnce

LEMMA HistoryStep == TypeOK /\ TypeOK' /\ PipelineInv /\ [Next]_vars => PipelineInv'
<1> SUFFICES ASSUME TypeOK, TypeOK', PipelineInv, [Next]_vars
             PROVE  PipelineInv'
  OBVIOUS
<1>1. ASSUME NEW m \in Managers, NEW to \in Stages, LoadDeal(m, to)
      PROVE  PipelineInv'
  BY <1>1, QuietStep DEF LoadDeal
<1>2. ASSUME NEW m \in Managers, CheckAdvance(m)
      PROVE  PipelineInv'
  BY <1>2, QuietStep DEF CheckAdvance
<1>3. ASSUME NEW m \in Managers, CommitStage(m)
      PROVE  PipelineInv'
  <2>1. CASE ValidTransition(deal.stage, target[m], deal.outcome)
    <3> DEFINE r == HistoryRow(deal.stage, target[m], deal.outcome)
    <3>1. r \in Row
      BY RowType DEF TypeOK, Deal
    <3>2. deal'.stage = target[m] /\ deal'.outcome = deal.outcome
      BY <1>3, <2>1 DEF CommitStage, Moved, TypeOK, Deal
    <3>3. deal.outcome = "open" /\ target[m] <= deal.stage + 1
      <4>1. deal.stage \in Stages /\ target[m] \in Stages
        BY DEF TypeOK, Deal
      <4>2. deal.outcome = "open" /\ (target[m] = deal.stage + 1 \/ target[m] < deal.stage)
        BY <2>1 DEF ValidTransition
      <4> QED
        BY <4>1, <4>2 DEF Stages, StageLead, StageHandover
    <3> QED
      BY <1>3, <2>1, <3>1, <3>2, <3>3, RowKeepsHistory DEF CommitStage, HistoryRow
  <2>2. CASE ~ ValidTransition(deal.stage, target[m], deal.outcome)
    BY <1>3, <2>2, QuietStep DEF CommitStage
  <2> QED
    BY <2>1, <2>2
<1>4. ASSUME NEW m \in Managers, NEW o \in {"won", "lost"}, BeginClose(m, o)
      PROVE  PipelineInv'
  BY <1>4, QuietStep DEF BeginClose
<1>5. ASSUME NEW m \in Managers, CommitClose(m)
      PROVE  PipelineInv'
  <2>1. CASE CloseAllowed(pc[m])
    <3> DEFINE r == HistoryRow(deal.stage, deal.stage, pc[m])
    <3>1. r \in Row
      BY <1>5, RowType DEF CommitClose, TypeOK, Deal, Outcomes
    <3>2. deal'.stage = deal.stage /\ deal'.outcome = pc[m]
      BY <1>5, <2>1 DEF CommitClose, TypeOK, Deal
    <3>3. deal.outcome = "open" /\ (pc[m] = "won" => deal.stage = StageHandover)
      BY <2>1 DEF CloseAllowed, CanCloseAsWon
    <3>4. deal.stage <= deal.stage + 1
      BY DEF TypeOK, Deal, Stages, StageLead, StageHandover
    <3> QED
      BY <1>5, <2>1, <3>1, <3>2, <3>3, <3>4, RowKeepsHistory DEF CommitClose, HistoryRow
  <2>2. CASE ~ CloseAllowed(pc[m])
    BY <1>5, <2>2, QuietStep DEF CommitClose
  <2> QED
    BY <2>1, <2>2
<1>6. ASSUME NEW m \in Managers, NEW f \in UpdateForms, LoadUpdate(m, f)
      PROVE  PipelineInv'
  BY <1>6, QuietStep DEF LoadUpdate
<1>7. ASSUME NEW m \in Managers, ApplyUpdate(m)
      PROVE  PipelineInv'
  BY <1>7, QuietStep DEF ApplyUpdate, TypeOK, Deal
<1>8. CASE ClientRefuses
  BY <1>8, QuietStep DEF ClientRefuses, TypeOK, Deal
<1>9. ASSUME NEW d \in Docs, NEW k \in DocumentKinds, AddDocument(d, k)
      PROVE  PipelineInv'
  BY <1>9, QuietStep DEF AddDocument
<1>10. ASSUME NEW d \in Docs, DeleteDocument(d)
       PROVE  PipelineInv'
  BY <1>10, QuietStep DEF DeleteDocument
<1>11. CASE UNCHANGED vars
  BY <1>11, QuietStep DEF vars
<1> QED
  BY <1>1, <1>2, <1>3, <1>4, <1>5, <1>6, <1>7, <1>8, <1>9, <1>10, <1>11 DEF Next, Request

LEMMA HistoryAlways == Spec => []PipelineInv
BY HistoryInit, HistoryStep, Typing, PTL DEF Spec

(* No two transitions of a deal leave the same state, for any number of    *)
(* managers: the history is one chain that ends where the deal is.         *)
THEOREM HistoryIsAChain == Spec => []HistoryChains
<1>1. PipelineInv => HistoryChains
  BY DEF PipelineInv
<1> QED
  BY <1>1, HistoryAlways, PTL

(* A deal has been at every stage between its first and its present one.   *)
THEOREM StagesAreWalked == Spec => []NoStageSkipped
<1>1. PipelineInv => NoStageSkipped
  BY DEF PipelineInv
<1> QED
  BY <1>1, HistoryAlways, PTL

(* A won deal has been at every stage from its first to handover.          *)
THEOREM WonDealsAreHandedOver == Spec => []WonWasHandedOver
<1>1. PipelineInv => WonWasHandedOver
  BY DEF PipelineInv, NoStageSkipped, WonWasHandedOver
<1> QED
  BY <1>1, HistoryAlways, PTL

(* Managers close a deal at most once, and nothing follows the closing.    *)
THEOREM DealsCloseOnce == Spec => []ClosedOnce
<1>1. PipelineInv => ClosedOnce
  BY DEF PipelineInv
<1> QED
  BY <1>1, HistoryAlways, PTL

-----------------------------------------------------------------------------
(* A step that adds no row and marks no milestone.                         *)
LEMMA QuietMarks ==
    ASSUME MilestonesMatchHistory, history' = history,
           deal'.marks = deal.marks \/ deal'.marks = deal.marks \cup {StageLead}
    PROVE  MilestonesMatchHistory'
BY DEF MilestonesMatchHistory, Rows, StageLead, StageContract, StageHandover

(* A row that is added together with the mark of its stage, if it leads to *)
(* another stage, and with no mark otherwise.                              *)
LEMMA RowKeepsMarks ==
    ASSUME TypeOK, MilestonesMatchHistory, Len(history) < MaxHistory,
           NEW r \in Row, history' = Append(history, r),
           \A s \in StageContract .. StageHandover :
               s \in deal'.marks <=> s \in deal.marks \/ (r.to = s /\ r.from # s)
    PROVE  MilestonesMatchHistory'
<1> DEFINE n == Len(history)
<1>1. n \in Nat \ {0} /\ Rows = 1 .. n
  BY LenProperties DEF TypeOK, Rows
<1>2. /\ Len(history') = n + 1
      /\ history' \in Seq(Row)
      /\ \A i \in 1 .. n : history'[i] = history[i]
      /\ history'[n + 1] = r
  BY AppendRow
<1>3. Rows' = 1 .. n + 1
  BY <1>2, LenProperties DEF Rows
<1> HIDE DEF n
<1>4. ASSUME NEW s \in StageContract .. StageHandover
      PROVE  (\E i \in Rows' \ {1} : history'[i].to = s /\ history'[i].from # s)
             <=> \/ \E i \in Rows \ {1} : history[i].to = s /\ history[i].from # s
                 \/ r.to = s /\ r.from # s
  <2>1. Rows' \ {1} = (Rows \ {1}) \cup {n + 1}
    BY <1>1, <1>3
  <2>2. \A i \in Rows \ {1} : history'[i] = history[i]
    BY <1>1, <1>2
  <2> QED
    BY <1>2, <2>1, <2>2
<1> QED
  BY <1>4 DEF MilestonesMatchHistory

LEMMA MarksStep ==
    TypeOK /\ MilestonesMatchHistory /\ [Next]_vars => MilestonesMatchHistory'
<1> SUFFICES ASSUME TypeOK, MilestonesMatchHistory, [Next]_vars
             PROVE  MilestonesMatchHistory'
  OBVIOUS
<1>1. ASSUME NEW m \in Managers, CommitStage(m)
      PROVE  MilestonesMatchHistory'
  <2>1. CASE ValidTransition(deal.stage, target[m], deal.outcome)
    <3> DEFINE r == HistoryRow(deal.stage, target[m], deal.outcome)
    <3>1. r \in Row
      BY RowType DEF TypeOK, Deal
    <3>2. deal.stage \in Stages /\ target[m] \in Stages
      BY DEF TypeOK, Deal
    <3>3. target[m] = deal.stage + 1 \/ target[m] < deal.stage
      BY <2>1 DEF ValidTransition
    <3>4. target[m] # deal.stage
      BY <3>2, <3>3 DEF Stages, StageLead, StageHandover
    <3>5. deal'.marks = deal.marks \cup MarksOfMove(deal.stage, target[m])
      BY <1>1, <2>1 DEF CommitStage, Moved, TypeOK, Deal
    <3>6. \A s \in StageContract .. StageHandover :
              s \in deal'.marks <=> s \in deal.marks \/ (r.to = s /\ r.from # s)
      BY <3>2, <3>4, <3>5
         DEF MarksOfMove, HistoryRow, Stages, StageLead, StageContract, StageHandover
    <3> QED
      BY <1>1, <2>1, <3>1, <3>6, RowKeepsMarks DEF CommitStage
  <2>2. CASE ~ ValidTransition(deal.stage, target[m], deal.outcome)
    BY <1>1, <2>2, QuietMarks DEF CommitStage
  <2> QED
    BY <2>1, <2>2
<1>2. ASSUME NEW m \in Managers, CommitClose(m)
      PROVE  MilestonesMatchHistory'
  <2>1. CASE CloseAllowed(pc[m])
    <3> DEFINE r == HistoryRow(deal.stage, deal.stage, pc[m])
    <3>1. r \in Row
      BY <1>2, RowType DEF CommitClose, TypeOK, Deal, Outcomes
    <3>2. deal'.marks = deal.marks
      BY <1>2, <2>1 DEF CommitClose, TypeOK, Deal
    <3>3. r.from = r.to
      BY DEF HistoryRow
    <3> QED
      BY <1>2, <2>1, <3>1, <3>2, <3>3, RowKeepsMarks DEF CommitClose
  <2>2. CASE ~ CloseAllowed(pc[m])
    BY <1>2, <2>2, QuietMarks DEF CommitClose
  <2> QED
    BY <2>1, <2>2
<1>3. ASSUME NEW m \in Managers, ApplyUpdate(m)
      PROVE  MilestonesMatchHistory'
  <2>1. deal'.marks = deal.marks \/ deal'.marks = deal.marks \cup {StageLead}
    BY <1>3 DEF ApplyUpdate, TypeOK, Deal
  <2> QED
    BY <1>3, <2>1, QuietMarks DEF ApplyUpdate
<1>4. CASE ClientRefuses
  BY <1>4, QuietMarks DEF ClientRefuses, TypeOK, Deal
<1>5. ASSUME UNCHANGED <<deal, history>>
      PROVE  MilestonesMatchHistory'
  BY <1>5, QuietMarks
<1> QED
  BY <1>1, <1>2, <1>3, <1>4, <1>5
     DEF Next, Request, LoadDeal, CheckAdvance, BeginClose, LoadUpdate, AddDocument,
         DeleteDocument, vars

(* The dates of the milestones and the history tell the same: a date is    *)
(* set exactly for the stages the deal was moved to, for any number of     *)
(* managers and histories of any length.                                   *)
THEOREM DatesTellTheHistory == Spec => []MilestonesMatchHistory
<1>1. Init => MilestonesMatchHistory
  <2> SUFFICES ASSUME Init
               PROVE  MilestonesMatchHistory
    OBVIOUS
  <2>1. PICK s \in CreateStages, a \in Amounts \cup {NoAmount}, c \in Currencies :
          /\ deal = NewDeal(s, a, c)
          /\ history = <<HistoryRow(NoStage, s, "open")>>
    BY DEF Init
  <2>2. deal.marks = {} /\ Rows = {1}
    BY <2>1 DEF NewDeal, Rows
  <2> QED
    BY <2>2 DEF MilestonesMatchHistory
<1> QED
  BY <1>1, MarksStep, Typing, PTL DEF Spec

-----------------------------------------------------------------------------
(* One step of the deal row, whatever request makes it: the deal stays as  *)
(* it is for the pipeline, makes a valid transition, or is closed.         *)
LEMMA DealStep ==
    ASSUME TypeOK, [Next]_vars
    PROVE  \/ UNCHANGED <<deal.stage, deal.outcome>>
           \/ /\ deal'.stage \in Stages
              /\ ValidTransition(deal.stage, deal'.stage, deal.outcome)
              /\ deal'.outcome = deal.outcome
           \/ /\ deal.outcome = "open"
              /\ deal'.stage = deal.stage
              /\ deal'.outcome \in {"won", "lost"}
              /\ deal'.outcome = "won" => CanCloseAsWon(deal.stage)
<1>1. ASSUME NEW m \in Managers, CommitStage(m)
      PROVE  \/ UNCHANGED <<deal.stage, deal.outcome>>
             \/ /\ deal'.stage \in Stages
                /\ ValidTransition(deal.stage, deal'.stage, deal.outcome)
                /\ deal'.outcome = deal.outcome
  <2>1. CASE ValidTransition(deal.stage, target[m], deal.outcome)
    <3>1. deal' = Moved(target[m])
      BY <1>1, <2>1 DEF CommitStage
    <3>2. deal'.stage = target[m] /\ deal'.outcome = deal.outcome
      BY <3>1 DEF Moved, TypeOK, Deal
    <3> QED
      BY <2>1, <3>2 DEF TypeOK
  <2>2. CASE ~ ValidTransition(deal.stage, target[m], deal.outcome)
    BY <1>1, <2>2 DEF CommitStage
  <2> QED
    BY <2>1, <2>2
<1>2. ASSUME NEW m \in Managers, CommitClose(m)
      PROVE  \/ UNCHANGED <<deal.stage, deal.outcome>>
             \/ /\ deal.outcome = "open"
                /\ deal'.stage = deal.stage
                /\ deal'.outcome \in {"won", "lost"}
                /\ deal'.outcome = "won" => CanCloseAsWon(deal.stage)
  <2>1. CASE CloseAllowed(pc[m])
    BY <1>2, <2>1 DEF CommitClose, CloseAllowed, TypeOK, Deal
  <2>2. CASE ~ CloseAllowed(pc[m])
    BY <1>2, <2>2 DEF CommitClose
  <2> QED
    BY <2>1, <2>2
<1>3. ASSUME NEW m \in Managers,
             \/ \E to \in Stages : LoadDeal(m, to)
             \/ CheckAdvance(m)
             \/ \E o \in {"won", "lost"} : BeginClose(m, o)
             \/ \E f \in UpdateForms : LoadUpdate(m, f)
      PROVE  UNCHANGED <<deal.stage, deal.outcome>>
  BY <1>3 DEF LoadDeal, CheckAdvance, BeginClose, LoadUpdate
<1>4. ASSUME NEW m \in Managers, ApplyUpdate(m)
      PROVE  UNCHANGED <<deal.stage, deal.outcome>>
  BY <1>4 DEF ApplyUpdate, TypeOK, Deal
<1>5. ASSUME ClientRefuses
      PROVE  deal.outcome = "open" /\ deal'.stage = deal.stage /\ deal'.outcome = "lost"
  BY <1>5 DEF ClientRefuses, TypeOK, Deal
<1>6. ASSUME \/ \E d \in Docs, k \in DocumentKinds : AddDocument(d, k)
             \/ \E d \in Docs : DeleteDocument(d)
             \/ UNCHANGED vars
      PROVE  UNCHANGED <<deal.stage, deal.outcome>>
  BY <1>6 DEF AddDocument, DeleteDocument, vars
<1> QED
  BY <1>1, <1>2, <1>3, <1>4, <1>5, <1>6 DEF Next, Request

(* The deal row keeps the promise of StageMachine, for any number of       *)
(* managers whose requests interleave.                                     *)
THEOREM PipelineKeepsPromise == Spec => StagePromise
<1>1. Init => SM!Init
  BY PipelineAssumption DEF Init, NewDeal, SM!Init, PipelineAssumption, SM!Stages,
     Stages, SM!StageLead, SM!StageHandover, StageLead, StageHandover
<1>2. TypeOK /\ [Next]_vars => [SM!Next]_<<deal.stage, deal.outcome>>
  <2> SUFFICES ASSUME TypeOK, [Next]_vars
               PROVE  [SM!Next]_<<deal.stage, deal.outcome>>
    OBVIOUS
  <2>1. deal.stage \in 1 .. 7
    BY DEF TypeOK, Deal, Stages, StageLead, StageHandover
  <2>2. CASE /\ deal'.stage \in Stages
             /\ ValidTransition(deal.stage, deal'.stage, deal.outcome)
             /\ deal'.outcome = deal.outcome
    <3>1. deal.outcome = "open" /\ deal'.stage \in 1 .. 7
      BY <2>2 DEF ValidTransition, Stages, StageLead, StageHandover
    <3>2. CASE deal'.stage = deal.stage + 1
      BY <2>1, <2>2, <3>1, <3>2 DEF SM!Next, SM!Advance, SM!StageHandover
    <3>3. CASE deal'.stage < deal.stage /\ deal'.stage >= RollbackFloor(deal.stage)
      BY <2>1, <2>2, <3>1, <3>3
         DEF SM!Next, SM!RollBack, SM!Stages, SM!StageLead, SM!StageHandover,
             SM!StageShipping, SM!StagePayment, RollbackFloor, StageShipping, StagePayment,
             StageLead
    <3> QED
      BY <2>2, <3>2, <3>3 DEF ValidTransition
  <2>3. CASE /\ deal.outcome = "open"
             /\ deal'.stage = deal.stage
             /\ deal'.outcome \in {"won", "lost"}
             /\ deal'.outcome = "won" => CanCloseAsWon(deal.stage)
    BY <2>3 DEF SM!Next, SM!Win, SM!Lose, SM!StageHandover, CanCloseAsWon, StageHandover
  <2> QED
    BY <2>2, <2>3, DealStep
<1> QED
  BY <1>1, <1>2, Typing, PTL DEF Spec, StagePromise, SM!Spec
=============================================================================
