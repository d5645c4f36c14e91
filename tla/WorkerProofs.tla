---------------------------- MODULE WorkerProofs ----------------------------
(* Theorems about the two components that the loops of the background worker *)
(* drive beside the outbox: Banners, for any number of workers and           *)
(* impressions, and Reminders, for any number of tasks, processes, crashes   *)
(* and failed writes, and any length of a day that is no longer than Keep.   *)
EXTENDS Banners, Reminders, FiniteSetTheorems, TLAPS

-----------------------------------------------------------------------------
(* Banners. *)

(* Every variable keeps its type.                                          *)
THEOREM BannersTyping == BannersSpec => []BannersTypeOK
<1>1. BannersInit => BannersTypeOK
  <2>1. BannersInit => over \in BOOLEAN /\ approved \in BOOLEAN
    BY DEF BannersInit
  <2>2. BannersInit => list \in [read : BOOLEAN, count : Nat]
    BY DEF BannersInit
  <2> QED
    BY <2>1, <2>2, BannersAssumption DEF BannersAssumption, BannersInit, BannersTypeOK, Statuses
<1>2. BannersTypeOK /\ [BannersNext]_bannersVars => BannersTypeOK'
  <2> SUFFICES ASSUME BannersTypeOK, [BannersNext]_bannersVars
               PROVE  BannersTypeOK'
    OBVIOUS
  <2> USE BannersAssumption DEF BannersTypeOK, Statuses, moderation, counting, BannersAssumption
  <2>1. CASE Update \/ SubmitForModeration \/ Pause \/ Resume \/ Delete
    <3>1. status' \in Statuses \cup {"deleted"} /\ writtenIn' \in Statuses
      BY <2>1
         DEF Update, NewPeriod, UpdatedStatus, SubmitForModeration, Pause, Resume, Delete, Exists
    <3>2. over' \in BOOLEAN /\ approved' \in BOOLEAN /\ UNCHANGED counting
      BY <2>1 DEF Update, NewPeriod, SubmitForModeration, Pause, Resume, Delete
    <3> QED
      BY <3>1, <3>2
  <2>2. CASE Approve \/ RejectBanner \/ PeriodEnds
    BY <2>2 DEF Approve, RejectBanner, PeriodEnds
  <2>3. CASE Serve \/ RecordImpression
    BY <2>3 DEF Serve, RecordImpression
  <2>4. CASE ReadTotal \/ Merge
    <3>1. list.count + pending \in Nat
      OBVIOUS
    <3>2. \E b \in BOOLEAN, n \in Nat : list' = [read |-> b, count |-> n]
      <4>1. CASE ReadTotal
        BY <4>1, Zenon DEF ReadTotal
      <4>2. CASE Merge
        BY <3>1, <4>2, Zenon DEF Merge
      <4> QED
        BY <2>4, <4>1, <4>2
    <3>3. list' \in [read : BOOLEAN, count : Nat]
      <4>1. PICK b \in BOOLEAN, n \in Nat : list' = [read |-> b, count |-> n]
        BY <3>2
      <4>2. [read |-> b, count |-> n] \in [read : BOOLEAN, count : Nat]
        BY <4>1
      <4> QED
        BY <4>1, <4>2, Zenon
    <3> QED
      BY <2>4, <3>3 DEF ReadTotal, Merge
  <2>5. ASSUME NEW w \in Workers, Drain(w) \/ DrainFails(w)
        PROVE  BannersTypeOK'
    BY <2>5 DEF Drain, DrainedCounter, DrainFails
  <2>6. ASSUME NEW w \in Workers, WriteCounters(w)
        PROVE  BannersTypeOK'
    BY <2>6 DEF WriteCounters, WrittenTotal
  <2>7. ASSUME NEW w \in Workers, WriteFails(w) \/ Interrupted(w)
        PROVE  BannersTypeOK'
    BY <2>7 DEF WriteFails, Interrupted, LoseDrained
  <2>8. ASSUME NEW w \in Workers, ExpireOutdated(w)
        PROVE  BannersTypeOK'
    BY <2>8 DEF ExpireOutdated
  <2>9. CASE UNCHANGED bannersVars
    BY <2>9 DEF bannersVars
  <2> QED
    BY <2>1, <2>2, <2>3, <2>4, <2>5, <2>6, <2>7, <2>8, <2>9
       DEF BannersNext, People, OwnActs, Guests, FlushBanners
<1> QED
  BY <1>1, <1>2, PTL DEF BannersSpec

-----------------------------------------------------------------------------
(* A paused banner was shown before it was paused: what holds of a shown   *)
(* banner must hold of a paused one, which may be resumed.                 *)
ModeratedInv ==
    status \in {"active", "paused"} /\ writtenIn # "paused" => approved

(* Content written while the banner was not paused is shown only after an  *)
(* admin approved it, in any order of edits, pauses, decisions and expiry. *)
THEOREM EditsAreModerated == BannersSpec => []EditedContentIsModerated
<1>1. BannersInit => ModeratedInv
  BY DEF BannersInit, ModeratedInv
<1>2. BannersTypeOK /\ ModeratedInv /\ [BannersNext]_bannersVars => ModeratedInv'
  <2> SUFFICES ASSUME BannersTypeOK, ModeratedInv, [BannersNext]_bannersVars
               PROVE  ModeratedInv'
    OBVIOUS
  <2> USE DEF ModeratedInv
  <2>1. CASE Update
    BY <2>1 DEF Update, UpdatedStatus
  <2>2. CASE SubmitForModeration \/ Approve \/ RejectBanner
    BY <2>2 DEF SubmitForModeration, Approve, RejectBanner
  <2>3. CASE Pause \/ Resume \/ Delete
    BY <2>3 DEF Pause, Resume, Delete
  <2>4. CASE PeriodEnds
    BY <2>4 DEF PeriodEnds
  <2>5. ASSUME NEW w \in Workers, ExpireOutdated(w)
        PROVE  ModeratedInv'
    BY <2>5 DEF ExpireOutdated
  <2>6. CASE UNCHANGED moderation
    BY <2>6 DEF moderation
  <2> QED
    BY <2>1, <2>2, <2>3, <2>4, <2>5, <2>6
       DEF BannersNext, People, OwnActs, Guests, FlushBanners, Serve, RecordImpression, ReadTotal,
              Merge, Drain, DrainFails,
           WriteCounters, WriteFails, Interrupted, LoseDrained, moderation, bannersVars
<1>3. ModeratedInv => EditedContentIsModerated
  BY DEF ModeratedInv, EditedContentIsModerated
<1> QED
  BY <1>1, <1>2, <1>3, BannersTyping, PTL DEF BannersSpec

-----------------------------------------------------------------------------
(* What the workers have in hand is what one of them has and what the      *)
(* others have.                                                            *)
LEMMA HandsAreCounted ==
    ASSUME NEW hands \in [Workers -> Nat], NEW w \in Workers
    PROVE  LET rest == Cardinality(Held(hands, Workers \ {w}))
           IN rest \in Nat /\ Cardinality(Held(hands, Workers)) = rest + hands[w]
<1> DEFINE Rest == Held(hands, Workers \ {w})
           Mine == {w} \X (1 .. hands[w])
<1>1. \A x \in Workers : IsFiniteSet({x} \X (1 .. hands[x]))
      /\ Cardinality({x} \X (1 .. hands[x])) = hands[x]
  <2> SUFFICES ASSUME NEW x \in Workers
               PROVE  IsFiniteSet({x} \X (1 .. hands[x]))
                      /\ Cardinality({x} \X (1 .. hands[x])) = hands[x]
    OBVIOUS
  <2>1. hands[x] \in Nat
    OBVIOUS
  <2> DEFINE me == {x}
             held == 1 .. hands[x]
  <2>2. IsFiniteSet(me) /\ Cardinality(me) = 1
    BY FS_Singleton
  <2>3. IsFiniteSet(held) /\ Cardinality(held) = hands[x]
    BY <2>1, FS_Interval
  <2> HIDE DEF me, held
  <2>4. IsFiniteSet(me \X held) /\ Cardinality(me \X held) = 1 * hands[x]
    BY <2>2, <2>3, FS_Product
  <2> QED
    BY <2>1, <2>4 DEF me, held
<1>2. IsFiniteSet(Rest)
  <2> DEFINE Parts == {{x} \X (1 .. hands[x]) : x \in Workers \ {w}}
  <2>1. IsFiniteSet(Workers \ {w})
    BY BannersAssumption, FS_Subset DEF BannersAssumption
  <2>2. IsFiniteSet(Parts)
    <3> DEFINE f == [x \in Workers \ {w} |-> {x} \X (1 .. hands[x])]
    <3>1. f \in Surjection(Workers \ {w}, Parts)
      BY DEF Surjection
    <3> QED
      BY <2>1, <3>1, FS_Surjection
  <2>3. \A p \in Parts : IsFiniteSet(p)
    BY <1>1
  <2> HIDE DEF Parts
  <2>4. IsFiniteSet(UNION Parts)
    BY <2>2, <2>3, FS_UNION
  <2> QED
    BY <2>4 DEF Parts, Held
<1>3. Held(hands, Workers) = Rest \cup Mine /\ Rest \cap Mine = {}
  BY DEF Held
<1>4. Cardinality(Rest \cap Mine) = 0 /\ Cardinality(Rest) \in Nat
  BY <1>2, <1>3, FS_EmptySet, FS_CardinalityType
<1>5. IsFiniteSet(Mine) /\ Cardinality(Mine) = hands[w]
  BY <1>1
<1> HIDE DEF Rest, Mine
<1>6. Cardinality(Rest \cup Mine) = Cardinality(Rest) + Cardinality(Mine) - Cardinality(Rest \cap Mine)
  BY <1>2, <1>5, FS_Union
<1>7. Cardinality(Held(hands, Workers)) = Cardinality(Rest) + hands[w]
  BY <1>3, <1>4, <1>5, <1>6
<1> QED
  BY <1>4, <1>7 DEF Rest

(* A worker takes n impressions in hand, in place of those it had.         *)
LEMMA HandChanges ==
    ASSUME drained \in [Workers -> Nat], NEW w \in Workers, NEW n \in Nat,
           drained' = [drained EXCEPT ![w] = n]
    PROVE  InHand \in Nat /\ InHand' \in Nat /\ InHand' + drained[w] = InHand + n
<1> DEFINE rest == Cardinality(Held(drained, Workers \ {w}))
<1>1. rest \in Nat /\ InHand = rest + drained[w]
  BY HandsAreCounted DEF InHand
<1>2. drained' \in [Workers -> Nat] /\ drained'[w] = n
  OBVIOUS
<1>3. Held(drained', Workers \ {w}) = Held(drained, Workers \ {w})
  BY DEF Held
<1>4. Cardinality(Held(drained', Workers)) = rest + n
  BY <1>2, <1>3, HandsAreCounted
<1>5. InHand' = rest + n /\ drained[w] \in Nat
  BY <1>4 DEF InHand
<1> HIDE DEF rest
<1> QED
  BY <1>1, <1>5

LEMMA HandsStay ==
    ASSUME drained' = drained
    PROVE  InHand' = InHand
  BY DEF InHand, Held

(* Without workers nothing is in hand; with workers the sum is a number.   *)
LEMMA InHandIsNumber ==
    ASSUME drained \in [Workers -> Nat]
    PROVE  InHand \in Nat /\ ((\A w \in Workers : drained[w] = 0) => InHand = 0)
<1>1. CASE Workers = {}
  <2>1. Held(drained, Workers) = {}
    BY <1>1 DEF Held
  <2> QED
    BY <2>1, FS_EmptySet DEF InHand
<1>2. ASSUME NEW w \in Workers PROVE InHand \in Nat
  <2> DEFINE rest == Cardinality(Held(drained, Workers \ {w}))
  <2>1. rest \in Nat /\ InHand = rest + drained[w]
    BY HandsAreCounted DEF InHand
  <2>2. drained[w] \in Nat
    OBVIOUS
  <2> HIDE DEF rest
  <2> QED
    BY <2>1, <2>2
<1>3. ASSUME \A w \in Workers : drained[w] = 0 PROVE InHand = 0
  <2>1. Held(drained, Workers) = {}
    BY <1>3 DEF Held
  <2> QED
    BY <2>1, FS_EmptySet DEF InHand
<1> QED
  BY <1>1, <1>2, <1>3

(* Every impression is in one place, and a worker that is not about to     *)
(* write has none; the dealer's list counts at most what was in the row    *)
(* and what has not left Redis since.                                      *)
CountersInv ==
    /\ \A w \in Workers : step[w] # "write" => drained[w] = 0
    /\ CountsConserved
    /\ list.count <= shown
    /\ list.read => list.count + pending <= shown

LEMMA CountersStep == BannersTypeOK /\ CountersInv /\ [BannersNext]_bannersVars => CountersInv'
<1> SUFFICES ASSUME BannersTypeOK, CountersInv, [BannersNext]_bannersVars
             PROVE  CountersInv'
  OBVIOUS
<1>1. /\ total \in Nat /\ serving \in Nat /\ pending \in Nat /\ shown \in Nat /\ lost \in Nat
      /\ drained \in [Workers -> Nat] /\ step \in [Workers -> {"idle", "write", "expire"}]
      /\ list \in [read : BOOLEAN, count : Nat]
  BY DEF BannersTypeOK
<1>2. list.count \in Nat /\ InHand \in Nat
  BY <1>1, InHandIsNumber
<1>3. status = "deleted" => status' = "deleted"
  BY DEF BannersNext, People, OwnActs, Guests, FlushBanners, Update, UpdatedStatus, Exists,
         SubmitForModeration, Approve, RejectBanner, Pause, Resume, Delete, PeriodEnds, Serve,
         RecordImpression, Drain, DrainFails, WriteCounters, WriteFails, Interrupted,
         LoseDrained, ExpireOutdated, ReadTotal, Merge, moderation, bannersVars
<1>4. ASSUME UNCHANGED <<total, pending, drained, shown, lost, list>>,
             \A w \in Workers : step'[w] = "write" <=> step[w] = "write"
      PROVE  CountersInv'
  <2>1. InHand' = InHand
    BY <1>4, HandsStay
  <2> QED
    BY <1>3, <1>4, <2>1 DEF CountersInv, CountsConserved, Exists
<1>5. CASE RecordImpression
  <2>1. InHand' = InHand
    BY <1>5, HandsStay DEF RecordImpression
  <2>2. UNCHANGED <<status, total, drained, step, lost, list>>
    BY <1>5 DEF RecordImpression, moderation
  <2>3. (pending' = pending + 1 /\ shown' = shown + 1) \/ UNCHANGED <<pending, shown>>
    BY <1>5 DEF RecordImpression
  <2> QED
    BY <1>1, <1>2, <2>1, <2>2, <2>3 DEF CountersInv, CountsConserved, Exists
<1>6. ASSUME NEW w \in Workers, Drain(w)
      PROVE  CountersInv'
  <2>1. drained[w] = 0
    BY <1>6 DEF Drain, CountersInv
  <2>2. InHand' = InHand + pending /\ InHand' \in Nat
    <3>1. drained' = [drained EXCEPT ![w] = pending]
      BY <1>6 DEF Drain
    <3>2. InHand' \in Nat /\ InHand' + drained[w] = InHand + pending
      BY <1>1, <3>1, HandChanges
    <3> QED
      BY <2>1, <3>2
  <2>3. /\ pending' = 0 /\ UNCHANGED <<status, total, shown, lost, list>>
        /\ drained' = [drained EXCEPT ![w] = pending] /\ step' = [step EXCEPT ![w] = "write"]
    BY <1>6 DEF Drain, DrainedCounter, moderation
  <2> QED
    BY <1>1, <1>2, <2>2, <2>3 DEF CountersInv, CountsConserved, Exists
<1>7. ASSUME NEW w \in Workers, DrainFails(w)
      PROVE  CountersInv'
  <2>1. InHand' = InHand
    BY <1>7, HandsStay DEF DrainFails
  <2>2. /\ UNCHANGED <<status, total, drained, shown, list>>
        /\ step[w] # "write" /\ step' = [step EXCEPT ![w] = "expire"]
    BY <1>7 DEF DrainFails, moderation
  <2>3. UNCHANGED <<pending, lost>> \/ (pending' = 0 /\ lost' = lost + pending)
    BY <1>7 DEF DrainFails
  <2> QED
    BY <1>1, <1>2, <2>1, <2>2, <2>3 DEF CountersInv, CountsConserved, Exists
<1>8. ASSUME NEW w \in Workers, WriteCounters(w)
      PROVE  CountersInv'
  <2>1. InHand' + drained[w] = InHand /\ InHand' \in Nat
    <3>1. drained' = [drained EXCEPT ![w] = 0]
      BY <1>8 DEF WriteCounters
    <3>2. InHand' \in Nat /\ InHand' + drained[w] = InHand + 0
      BY <1>1, <3>1, HandChanges
    <3> QED
      BY <1>2, <3>2
  <2>2. /\ UNCHANGED <<status, pending, shown, lost, list>>
        /\ total' = IF status # "deleted" THEN total + drained[w] ELSE total
        /\ drained' = [drained EXCEPT ![w] = 0] /\ step' = [step EXCEPT ![w] = "expire"]
    BY <1>8 DEF WriteCounters, WrittenTotal, Exists, moderation
  <2>3. drained[w] \in Nat
    BY <1>1
  <2>4. \A x \in Workers : step'[x] # "write" => drained'[x] = 0
    BY <1>1, <2>2 DEF CountersInv
  <2>5. CountsConserved'
    <3>1. CASE status = "deleted"
      BY <2>2, <3>1 DEF CountsConserved, Exists
    <3>2. CASE status # "deleted"
      <4>1. total + pending + InHand + lost = shown
        BY <3>2 DEF CountersInv, CountsConserved, Exists
      <4>2. total' + pending' + InHand' + lost' = shown'
        BY <1>1, <1>2, <2>1, <2>2, <2>3, <3>2, <4>1
      <4> QED
        BY <4>2 DEF CountsConserved
    <3> QED
      BY <3>1, <3>2
  <2> QED
    BY <2>2, <2>4, <2>5 DEF CountersInv
<1>9. ASSUME NEW w \in Workers, NEW then \in {"idle", "expire"}, LoseDrained(w, then)
      PROVE  CountersInv'
  <2>1. InHand' + drained[w] = InHand /\ InHand' \in Nat
    <3>1. drained' = [drained EXCEPT ![w] = 0]
      BY <1>9 DEF LoseDrained
    <3>2. InHand' \in Nat /\ InHand' + drained[w] = InHand + 0
      BY <1>1, <3>1, HandChanges
    <3> QED
      BY <1>2, <3>2
  <2>2. /\ UNCHANGED <<status, total, pending, shown, list>>
        /\ lost' = lost + drained[w]
        /\ drained' = [drained EXCEPT ![w] = 0] /\ step' = [step EXCEPT ![w] = then]
    BY <1>9 DEF LoseDrained, moderation
  <2>3. drained[w] \in Nat
    BY <1>1
  <2> QED
    BY <1>1, <1>2, <2>1, <2>2, <2>3 DEF CountersInv, CountsConserved, Exists
<1>10. CASE ReadTotal
  <2>1. InHand' = InHand /\ Exists
    BY <1>10, HandsStay DEF ReadTotal
  <2>2. UNCHANGED <<status, total, pending, drained, step, shown, lost>>
        /\ list'.read /\ list'.count = total
    BY <1>10 DEF ReadTotal, moderation
  <2> QED
    BY <1>1, <1>2, <2>1, <2>2 DEF CountersInv, CountsConserved, Exists
<1>11. CASE Merge
  <2>1. InHand' = InHand /\ list.read
    BY <1>11, HandsStay DEF Merge
  <2>2. UNCHANGED <<status, total, pending, drained, step, shown, lost>>
        /\ ~ list'.read /\ list'.count = list.count + pending
    BY <1>11 DEF Merge, moderation
  <2> QED
    BY <1>1, <1>2, <2>1, <2>2 DEF CountersInv, CountsConserved, Exists
<1>12. ASSUME NEW w \in Workers, ExpireOutdated(w)
       PROVE  CountersInv'
  BY <1>1, <1>4, <1>12 DEF ExpireOutdated
<1>13. CASE Update \/ OwnActs \/ Approve \/ RejectBanner \/ PeriodEnds \/ UNCHANGED bannersVars
  BY <1>4, <1>13 DEF Update, OwnActs, SubmitForModeration, Approve, RejectBanner, Pause, Resume,
                     Delete, PeriodEnds, counting, bannersVars
<1>14. CASE Serve
  BY <1>4, <1>14 DEF Serve
<1> QED
  BY <1>5, <1>6, <1>7, <1>8, <1>9, <1>10, <1>11, <1>12, <1>13, <1>14
     DEF BannersNext, People, Guests, FlushBanners, WriteFails, Interrupted

LEMMA CountersAlways == BannersSpec => []CountersInv
<1>1. BannersInit => CountersInv
  <2> SUFFICES ASSUME BannersInit
               PROVE  CountersInv
    OBVIOUS
  <2>1. drained \in [Workers -> Nat] /\ \A w \in Workers : drained[w] = 0
    BY DEF BannersInit
  <2>2. InHand = 0
    BY <2>1, InHandIsNumber
  <2> QED
    BY <2>1, <2>2 DEF BannersInit, CountersInv, CountsConserved
<1> QED
  BY <1>1, CountersStep, BannersTyping, PTL DEF BannersSpec

(* No impression is lost or counted twice on its way to the database but   *)
(* what failed workers had in hand, for any number of workers.             *)
THEOREM ImpressionsAreConserved == BannersSpec => []CountsConserved
<1>1. CountersInv => CountsConserved
  BY DEF CountersInv
<1> QED
  BY <1>1, CountersAlways, PTL

(* The dealer's list never shows more impressions than were made.          *)
THEOREM ReportsNeverExceed == BannersSpec => []ReportNeverExceeds
<1>1. CountersInv => ReportNeverExceeds
  BY DEF CountersInv, ReportNeverExceeds
<1> QED
  BY <1>1, CountersAlways, PTL

-----------------------------------------------------------------------------
(* Reminders. *)

-----------------------------------------------------------------------------
(* Types, in the parts that different steps disturb.                          *)

MarksOK == reminded \in [Processes -> [Tasks -> Age]]
WrittenOK == written \in [Processes -> [Tasks -> Never .. Day - 1]]

LoopOK(l) ==
    /\ l = [at |-> l.at, tasks |-> l.tasks]
    /\ l.at \in {"idle", "marking", "writing"}
    /\ l.tasks \subseteq Tasks /\ Cardinality(l.tasks) <= Limit

LoopsOK ==
    /\ DOMAIN remind = Processes /\ remind = [p \in Processes |-> remind[p]]
    /\ \A p \in Processes : LoopOK(remind[p])

CleanOK == clean \in [Processes -> {"idle", "forgetting", "cleaned"}]
TasksOK == tasks \in [Tasks -> Task \cup {NoTask}]
FaultsOK == faults \in 0 .. MaxFaults

Types == MarksOK /\ WrittenOK /\ LoopsOK /\ CleanOK /\ TasksOK /\ FaultsOK

LEMMA Numbers ==
    /\ Day \in Nat \ {0} /\ Keep \in Nat /\ Day <= Keep /\ Never = -1
    /\ Limit \in Nat \ {0} /\ Horizon \in Nat /\ MaxFaults \in Nat
    /\ Age = -1 .. Keep + 1 /\ Term = -1 .. Horizon
  BY RemindersAssumption DEF RemindersAssumption, Never, Age, Term, NoTerm

LEMMA IdleIsOK == LoopOK(Idle) /\ Idle.at = "idle"
<1>1. Cardinality({}) = 0
  BY FS_EmptySet
<1> QED
  BY <1>1, Numbers DEF LoopOK, Idle

LEMMA Ageing ==
    ASSUME NEW a \in Age
    PROVE  Older(a) \in Age
  BY Numbers DEF Older

LEMMA Subsets ==
    ASSUME NEW S \in SUBSET Tasks, NEW R \in SUBSET S, Cardinality(S) <= Limit
    PROVE  Cardinality(R) <= Limit
<1>1. IsFiniteSet(S)
  BY RemindersAssumption, FS_Subset DEF RemindersAssumption
<1>2. Cardinality(S) \in Nat /\ Cardinality(R) \in Nat /\ Cardinality(R) <= Cardinality(S)
  BY <1>1, FS_Subset, FS_CardinalityType
<1> QED
  BY <1>2, Numbers

LEMMA ListIsShort ==
    ASSUME NEW rows \in DueTasks
    PROVE  rows \in SUBSET Tasks /\ Cardinality(rows) <= Limit
<1> DEFINE due == {t \in Tasks : Due(t)}
<1>1. rows \in SUBSET due /\ Cardinality(rows) = IF Cardinality(due) < Limit THEN Cardinality(due) ELSE Limit
  BY DEF DueTasks
<1>2. IsFiniteSet(due) /\ Cardinality(due) \in Nat
  BY RemindersAssumption, FS_Subset, FS_CardinalityType DEF RemindersAssumption
<1>3. due \subseteq Tasks
  OBVIOUS
<1> HIDE DEF due
<1> QED
  BY <1>1, <1>2, <1>3, Numbers

LEMMA LoopGoesOn ==
    ASSUME LoopsOK, NEW p \in Processes, NEW l, LoopOK(l), remind' = [remind EXCEPT ![p] = l]
    PROVE  LoopsOK' /\ \A x \in Processes : remind'[x] = IF x = p THEN l ELSE remind[x]
  BY DEF LoopsOK, LoopOK

-----------------------------------------------------------------------------
LEMMA InitTypes == Init => Types
<1> SUFFICES ASSUME Init PROVE Types
  OBVIOUS
<1>1. MarksOK /\ WrittenOK
  BY Numbers DEF Init, Forgotten, MarksOK, WrittenOK
<1>2. LoopsOK
  BY IdleIsOK DEF Init, LoopsOK
<1>3. CleanOK /\ TasksOK /\ FaultsOK
  BY Numbers DEF Init, CleanOK, TasksOK, FaultsOK
<1> QED
  BY <1>1, <1>2, <1>3 DEF Types

LEMMA FaultTypes ==
    ASSUME FaultsOK, Fault
    PROVE  FaultsOK'
  BY Numbers DEF Fault, FaultsOK

LEMMA DealerTypes ==
    ASSUME TasksOK, Dealer
    PROVE  TasksOK' /\ UNCHANGED loops
<1> USE DEF TasksOK
<1>1. NoTask' = NoTask /\ Task' = Task
  BY DEF NoTask, Task, Term
<1>2. ASSUME NEW t \in Tasks, NEW due \in Term, CreateTask(t, due) PROVE TasksOK' /\ UNCHANGED loops
  BY <1>1, <1>2 DEF CreateTask, NewTask, Task
<1>3. ASSUME NEW t \in Tasks, NEW done \in BOOLEAN, ToggleTask(t, done) PROVE TasksOK' /\ UNCHANGED loops
  <2> DEFINE s == IF done THEN "done" ELSE "open"
             row == [tasks[t] EXCEPT !.status = s]
  <2>1. tasks[t] \in Task
    BY <1>3 DEF ToggleTask
  <2>2. row \in Task
    BY <2>1 DEF Task
  <2>3. tasks' = [tasks EXCEPT ![t] = row] /\ UNCHANGED loops
    BY <1>3 DEF ToggleTask
  <2> HIDE DEF row
  <2> QED
    BY <1>1, <2>2, <2>3
<1>4. ASSUME NEW t \in Tasks, DeleteTask(t) PROVE TasksOK' /\ UNCHANGED loops
  BY <1>1, <1>4 DEF DeleteTask
<1> QED
  BY <1>2, <1>3, <1>4 DEF Dealer, OwnTasks

LEMMA RestartTypes ==
    ASSUME Types, NEW p \in Processes, Restart(p)
    PROVE  MarksOK' /\ WrittenOK' /\ LoopsOK' /\ CleanOK' /\ TasksOK'
<1>1. Forgotten \in [Tasks -> Age] /\ Forgotten \in [Tasks -> Never .. Day - 1]
  BY Numbers DEF Forgotten
<1>2. MarksOK' /\ WrittenOK'
  BY <1>1 DEF Restart, Types, MarksOK, WrittenOK, Age
<1>3. LoopsOK'
  BY IdleIsOK, LoopGoesOn DEF Restart, Types
<1>4. CleanOK' /\ TasksOK'
  BY DEF Restart, Types, CleanOK, TasksOK, NoTask, Task, Term
<1> QED
  BY <1>2, <1>3, <1>4

LEMMA RemindTypes ==
    ASSUME Types, NEW p \in Processes, Remind(p)
    PROVE  Types'
<1>1. TasksOK' /\ CleanOK'
  BY DEF Remind, ReadDue, Mark, Write, Types, TasksOK, CleanOK, NoTask, Task, Term
<1>2. CASE ReadDue(p)
  <2>1. PICK rows \in DueTasks : remind' = [remind EXCEPT ![p] = [at |-> "marking", tasks |-> rows]]
    BY <1>2 DEF ReadDue
  <2>2. LoopOK([at |-> "marking", tasks |-> rows])
    BY <2>1, ListIsShort DEF LoopOK
  <2>3. LoopsOK'
    BY <2>1, <2>2, LoopGoesOn DEF Types
  <2> QED
    BY <1>1, <1>2, <2>3 DEF ReadDue, Types, MarksOK, WrittenOK, FaultsOK, Age
<1>3. CASE Mark(p)
  <2> DEFINE items == {t \in remind[p].tasks : ~Fresh(p, t)}
             l == IF items = {} THEN Idle ELSE [at |-> "writing", tasks |-> items]
  <2>1. MarkTasks(p, items) /\ remind' = [remind EXCEPT ![p] = l]
    BY <1>3 DEF Mark
  <2>2. LoopOK([at |-> "writing", tasks |-> items])
    <3>1. remind[p].tasks \in SUBSET Tasks /\ Cardinality(remind[p].tasks) <= Limit
      BY DEF Types, LoopsOK, LoopOK
    <3>2. items \in SUBSET remind[p].tasks
      OBVIOUS
    <3> HIDE DEF items
    <3>3. Cardinality(items) <= Limit
      BY <3>1, <3>2, Subsets
    <3> QED
      BY <3>1, <3>2, <3>3 DEF LoopOK
  <2>3. LoopOK(l)
    BY <2>2, IdleIsOK
  <2> HIDE DEF items, l
  <2>4. LoopsOK'
    BY <2>1, <2>3, LoopGoesOn DEF Types
  <2>5. MarksOK'
    BY <2>1, Numbers DEF MarkTasks, Types, MarksOK
  <2> QED
    BY <1>1, <1>3, <2>4, <2>5 DEF Mark, Types, WrittenOK, FaultsOK
<1>4. CASE Write(p)
  <2>1. LoopsOK'
    BY <1>4, IdleIsOK, LoopGoesOn DEF Write, Types
  <2>2. WrittenOK'
    <3>1. CASE CreateMany(p)
      BY <3>1, Numbers DEF CreateMany, Types, WrittenOK
    <3> QED
      BY <1>4, <3>1 DEF Write, Types, WrittenOK
  <2>3. FaultsOK'
    BY <1>4, FaultTypes DEF Write, Types, FaultsOK
  <2> QED
    BY <1>1, <1>4, <2>1, <2>2, <2>3 DEF Write, Types, MarksOK, Age
<1> QED
  BY <1>2, <1>3, <1>4 DEF Remind

LEMMA CleanupTypes ==
    ASSUME Types, NEW p \in Processes, Cleanup(p)
    PROVE  Types'
<1>1. UNCHANGED <<tasks, remind, written, faults>>
  BY DEF Cleanup, StartCleanup, ForgetOldReminders
<1>2. LoopsOK' /\ WrittenOK' /\ TasksOK' /\ FaultsOK'
  BY <1>1 DEF Types, LoopsOK, LoopOK, WrittenOK, TasksOK, FaultsOK, NoTask, Task, Term
<1>3. CleanOK'
  BY DEF Cleanup, StartCleanup, ForgetOldReminders, Types, CleanOK
<1>4. MarksOK'
  <2>1. CASE StartCleanup(p)
    BY <2>1 DEF StartCleanup, Types, MarksOK, Age
  <2>2. CASE ForgetOldReminders(p)
    BY <2>2, Numbers DEF ForgetOldReminders, Types, MarksOK
  <2> QED
    BY <2>1, <2>2 DEF Cleanup
<1> QED
  BY <1>2, <1>3, <1>4 DEF Types

LEMMA TickTypes ==
    ASSUME Types, Tick
    PROVE  Types'
<1>1. LoopsOK' /\ FaultsOK'
  BY DEF Tick, Types, LoopsOK, LoopOK, FaultsOK
<1>2. CleanOK'
  BY DEF Tick, CleanOK
<1>3. MarksOK'
  BY Ageing DEF Tick, Types, MarksOK
<1>4. WrittenOK'
  <2>1. ASSUME NEW a \in Never .. Day - 1
        PROVE  (IF a = Day - 1 THEN Never ELSE Older(a)) \in Never .. Day - 1
    BY Numbers DEF Older
  <2> QED
    BY <2>1 DEF Tick, Types, WrittenOK
<1>5. TasksOK'
  <2>1. ASSUME NEW row \in Task \cup {NoTask}
        PROVE  [row EXCEPT !.due = IF @ > 0 THEN @ - 1 ELSE @] \in Task \cup {NoTask}
    <3>1. CASE row = NoTask
      BY <3>1 DEF NoTask, NoTerm
    <3>2. CASE row \in Task
      <4>1. row.due \in -1 .. Horizon
        BY <3>2, Numbers DEF Task
      <4>2. (IF row.due > 0 THEN row.due - 1 ELSE row.due) \in Term
        BY <4>1, Numbers
      <4> QED
        BY <3>2, <4>2 DEF Task
    <3> QED
      BY <3>1, <3>2
  <2>2. tasks' = [t \in Tasks |-> [tasks[t] EXCEPT !.due = IF @ > 0 THEN @ - 1 ELSE @]]
    BY DEF Tick
  <2>3. \A t \in Tasks : tasks'[t] \in Task \cup {NoTask}
    BY <2>1, <2>2 DEF Types, TasksOK
  <2> QED
    BY <2>2, <2>3 DEF TasksOK, NoTask, Task, Term
<1> QED
  BY <1>1, <1>2, <1>3, <1>4, <1>5 DEF Types

LEMMA Typed == Spec => []Types
<1>1. Types /\ [Next]_vars => Types'
  <2> SUFFICES ASSUME Types, [Next]_vars PROVE Types'
    OBVIOUS
  <2>1. CASE Dealer
    <3>1. TasksOK' /\ UNCHANGED loops
      BY <2>1, DealerTypes DEF Types
    <3> QED
      BY <3>1 DEF loops, Types, MarksOK, WrittenOK, LoopsOK, LoopOK, CleanOK, FaultsOK, Age
  <2>2. ASSUME NEW p \in Processes, Crash(p) \/ ConcurrentMap(p) PROVE Types'
    <3>1. Fault /\ Restart(p)
      BY <2>2 DEF Crash, ConcurrentMap
    <3> QED
      BY <3>1, RestartTypes, FaultTypes DEF Types
  <2>3. CASE UNCHANGED vars
    BY <2>3 DEF vars, Types, MarksOK, WrittenOK, LoopsOK, LoopOK, CleanOK, TasksOK, FaultsOK,
                Age, NoTask, Task, Term
  <2> QED
    BY <2>1, <2>2, <2>3, TickTypes, RemindTypes, CleanupTypes DEF Next
<1> QED
  BY <1>1, InitTypes, PTL DEF Spec

\* Every variable keeps its type; no run takes more tasks than the query returns.
THEOREM RemindersTyping == Spec => []TypeOK
<1>1. Types => TypeOK
  BY DEF Types, TypeOK, MarksOK, WrittenOK, LoopsOK, LoopOK, CleanOK, TasksOK, FaultsOK
<1> QED
  BY <1>1, Typed, PTL

-----------------------------------------------------------------------------
(* A reminder that was written in the last day has a mark of the same age,    *)
(* and what is about to be written has been marked in this unit of time.      *)
Marked ==
    \A p \in Processes, t \in Tasks :
       /\ written[p][t] # Never => reminded[p][t] = written[p][t]
       /\ remind[p].at = "writing" /\ t \in remind[p].tasks =>
             reminded[p][t] = 0 /\ written[p][t] = Never

LEMMA MarkedStays ==
    ASSUME Types, Marked, [Next]_vars
    PROVE  Marked'
<1> USE DEF Marked
<1>1. CASE UNCHANGED loops
  BY <1>1 DEF loops
<1>2. CASE Dealer
  BY <1>1, <1>2, DealerTypes DEF Types
<1>3. CASE Tick
  <2> SUFFICES ASSUME NEW p \in Processes, NEW t \in Tasks
               PROVE  /\ written'[p][t] # Never => reminded'[p][t] = written'[p][t]
                      /\ ~(remind'[p].at = "writing")
    OBVIOUS
  <2>1. remind'[p].at # "writing"
    BY <1>3 DEF Tick, Idle
  <2>2. /\ written'[p][t] = IF written[p][t] = Day - 1 THEN Never ELSE Older(written[p][t])
        /\ reminded'[p][t] = Older(reminded[p][t])
    BY <1>3 DEF Tick
  <2>3. written[p][t] = Never => written'[p][t] = Never
    BY <2>2 DEF Older
  <2> QED
    BY <2>1, <2>2, <2>3
<1>4. ASSUME NEW q \in Processes, Remind(q) PROVE Marked'
  <2> SUFFICES ASSUME NEW p \in Processes, NEW t \in Tasks
               PROVE  /\ written'[p][t] # Never => reminded'[p][t] = written'[p][t]
                      /\ remind'[p].at = "writing" /\ t \in remind'[p].tasks =>
                             reminded'[p][t] = 0 /\ written'[p][t] = Never
    OBVIOUS
  <2>1. CASE ReadDue(q)
    <3>1. PICK rows : remind' = [remind EXCEPT ![q] = [at |-> "marking", tasks |-> rows]]
      BY <2>1 DEF ReadDue
    <3> QED
      BY <2>1, <3>1 DEF ReadDue, Types, LoopsOK
  <2>2. CASE Mark(q)
    <3> DEFINE items == {x \in remind[q].tasks : ~Fresh(q, x)}
               l == IF items = {} THEN Idle ELSE [at |-> "writing", tasks |-> items]
    <3>1. MarkTasks(q, items) /\ remind' = [remind EXCEPT ![q] = l] /\ UNCHANGED written
      BY <2>2 DEF Mark
    <3>2. t \in items /\ p = q => written[p][t] = Never
      BY Numbers DEF Fresh, Types, WrittenOK
    <3>3. remind'[p] = IF p = q THEN l ELSE remind[p]
      BY <3>1 DEF Types, LoopsOK
    <3>4. reminded'[p][t] = IF p = q /\ t \in items THEN 0 ELSE reminded[p][t]
      BY <3>1 DEF MarkTasks, Types, MarksOK
    <3>5. l.at = "writing" => l.tasks = items
      BY IdleIsOK
    <3> HIDE DEF items, l
    <3> QED
      BY <3>1, <3>2, <3>3, <3>4, <3>5
  <2>3. CASE Write(q)
    <3>1. remind' = [remind EXCEPT ![q] = Idle] /\ UNCHANGED reminded
      BY <2>3 DEF Write
    <3>2. remind'[p] = IF p = q THEN Idle ELSE remind[p]
      BY <3>1 DEF Types, LoopsOK
    <3>3. CASE CreateMany(q)
      <4>1. written'[p][t] = IF p = q /\ t \in remind[q].tasks THEN 0 ELSE written[p][t]
        BY <3>3 DEF CreateMany, Types, WrittenOK
      <4>2. remind[q].at = "writing"
        BY <2>3 DEF Write
      <4> QED
        BY <3>1, <3>2, <4>1, <4>2, IdleIsOK
    <3>4. CASE UNCHANGED written
      BY <3>1, <3>2, <3>4, IdleIsOK
    <3> QED
      BY <2>3, <3>3, <3>4 DEF Write
  <2> QED
    BY <1>4, <2>1, <2>2, <2>3 DEF Remind
<1>5. ASSUME NEW q \in Processes, Cleanup(q) PROVE Marked'
  <2>1. CASE StartCleanup(q)
    BY <2>1 DEF StartCleanup
  <2>2. CASE ForgetOldReminders(q)
    <3> SUFFICES ASSUME NEW p \in Processes, NEW t \in Tasks
                 PROVE  reminded[p][t] \in 0 .. Day - 1 => reminded'[p][t] = reminded[p][t]
      BY <2>2, Numbers DEF ForgetOldReminders, Types, WrittenOK
    <3>1. reminded'[p][t] =
            IF p = q /\ TooOld(reminded[p][t]) THEN Never ELSE reminded[p][t]
      BY <2>2 DEF ForgetOldReminders, Types, MarksOK
    <3> QED
      BY <3>1, Numbers DEF TooOld
  <2> QED
    BY <1>5, <2>1, <2>2 DEF Cleanup
<1>6. ASSUME NEW q \in Processes, Crash(q) \/ ConcurrentMap(q) PROVE Marked'
  <2>1. Restart(q)
    BY <1>6 DEF Crash, ConcurrentMap
  <2> SUFFICES ASSUME NEW p \in Processes, NEW t \in Tasks
               PROVE  /\ written'[p][t] # Never => reminded'[p][t] = written'[p][t]
                      /\ remind'[p].at = "writing" /\ t \in remind'[p].tasks =>
                             reminded'[p][t] = 0 /\ written'[p][t] = Never
    OBVIOUS
  <2>2. /\ written'[p] = IF p = q THEN Forgotten ELSE written[p]
        /\ reminded'[p] = IF p = q THEN Forgotten ELSE reminded[p]
        /\ remind'[p] = IF p = q THEN Idle ELSE remind[p]
    BY <2>1 DEF Restart, Types, WrittenOK, MarksOK, LoopsOK
  <2> QED
    BY <2>2, IdleIsOK DEF Forgotten
<1>7. CASE UNCHANGED vars
  BY <1>1, <1>7 DEF vars, loops
<1> QED
  BY <1>2, <1>3, <1>4, <1>5, <1>6, <1>7 DEF Next

\* One life of a process writes no second reminder of a task within a day,
\* whatever order the two loops, the failed writes and the dealer come in
\* (remindTasks and forgetOldReminders of service/worker.go).
THEOREM NoReminderIsEarly == Spec => []NeverEarly
<1>1. Init => Marked
  BY DEF Init, Marked, Forgotten, Idle
<1>2. Marked /\ Types /\ [Next]_vars => Marked'
  BY MarkedStays
<1>3. Types /\ Marked => NeverEarly
  BY DEF Types, LoopsOK, LoopOK, Marked, NeverEarly
<1> QED
  BY <1>1, <1>2, <1>3, Typed, PTL DEF Spec
=============================================================================
