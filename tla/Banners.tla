------------------------------ MODULE Banners -------------------------------
(***************************************************************************)
(* One advertising banner: its way through moderation, and its counter of  *)
(* impressions, which is kept in Redis and carried to the database by the  *)
(* workers (docker-compose runs two).                                      *)
(*                                                                         *)
(* A request of the dealer or of an admin is one UPDATE with a condition   *)
(* on the status.  A worker drains the counter in one Redis transaction,   *)
(* adds what it got in the database, and closes the banner if its period   *)
(* is over: three steps, and it may be cut off after each.  The dealer's   *)
(* list reads the database first and Redis second.                         *)
(*                                                                         *)
(* Left out: the limit of banners of a dealer, the clicks (they go the way *)
(* of the impressions), the start of the period, placement and weight, the *)
(* fields of the form.  A request for a page reads the banners and counts  *)
(* them after that, so an impression may reach the counter of a banner     *)
(* that was paused, edited or deleted in between.                          *)
(***************************************************************************)
EXTENDS Naturals, FiniteSets

CONSTANTS
    Workers,   \* processes that run the loop of flushBanners
    MaxShown,  \* bound: impressions
    MaxLost    \* bound: runs of a worker that lose what they have drained

ASSUME BannersAssumption ==
    /\ IsFiniteSet(Workers)
    /\ MaxShown \in Nat
    /\ MaxLost \in Nat

VARIABLES
    status,     \* banners.status, "deleted" when the row is gone
    over,       \* has the period of the banner ended
    writtenIn,  \* the status the banner had when its content was last written
    approved,   \* has an admin approved the banner since
    total,      \* banners.impressions
    serving,    \* requests that have read the banner and not counted it yet
    pending,    \* the counter in Redis
    drained,    \* what each worker has taken from it
    step,       \* where each worker is
    shown,      \* how often the counter was incremented
    lost,       \* how much was drained and never written
    losses,     \* how often that happened
    list        \* the dealer's list: what it has read, or what it shows

moderation == <<status, over, writtenIn, approved>>
counting   == <<total, serving, pending, drained, step, shown, lost, losses, list>>
bannersVars == <<moderation, counting>>

BannersInit ==
    /\ status = "draft"
    /\ over = FALSE
    /\ writtenIn = "draft"
    /\ approved = FALSE
    /\ total = 0
    /\ serving = 0
    /\ pending = 0
    /\ drained = [w \in Workers |-> 0]
    /\ step = [w \in Workers |-> "idle"]
    /\ shown = 0
    /\ lost = 0
    /\ losses = 0
    /\ list = [read |-> FALSE, count |-> 0]

Exists == status # "deleted"

-----------------------------------------------------------------------------
(* Mutant: a status that banner_status does not have.                      *)
UpdatedStatusUnknown == IF status \in {"active", "rejected"} THEN "review" ELSE status

(* Mutant: an edit leaves the banner where it is.                          *)
UpdatedStatusKept == status

UpdatedStatus == IF status \in {"active", "rejected"} THEN "moderation" ELSE status

(* A period that has ended is refused with the form.                       *)
NewPeriod == over' = FALSE

(* Update, by the dealer or an admin: new content and a new period.        *)
Update ==
    /\ Exists
    /\ status' = UpdatedStatus
    /\ NewPeriod
    /\ writtenIn' = status
    /\ approved' = FALSE
    /\ UNCHANGED counting

SubmitForModeration ==
    /\ status \in {"draft", "rejected", "paused"}
    /\ status' = "moderation"
    /\ UNCHANGED <<over, writtenIn, approved, counting>>

Approve ==
    /\ status = "moderation"
    /\ status' = "active"
    /\ approved' = TRUE
    /\ UNCHANGED <<over, writtenIn, counting>>

RejectBanner ==
    /\ status = "moderation"
    /\ status' = "rejected"
    /\ UNCHANGED <<over, writtenIn, approved, counting>>

Pause ==
    /\ status = "active"
    /\ status' = "paused"
    /\ UNCHANGED <<over, writtenIn, approved, counting>>

Resume ==
    /\ status = "paused"
    /\ status' = "active"
    /\ UNCHANGED <<over, writtenIn, approved, counting>>

Delete ==
    /\ Exists
    /\ status' = "deleted"
    /\ UNCHANGED <<over, writtenIn, approved, counting>>

PeriodEnds ==
    /\ over' = TRUE
    /\ UNCHANGED <<status, writtenIn, approved, counting>>

-----------------------------------------------------------------------------
(* What Active selects.                                                    *)
Showable == status = "active" /\ ~over

(* Active: a request reads the banners of a place.                         *)
Serve ==
    /\ Showable
    /\ shown + serving < MaxShown
    /\ serving' = serving + 1
    /\ UNCHANGED <<moderation, total, pending, drained, step, shown, lost, losses, list>>

(* RecordImpressions: HINCRBY, whatever the banner has become, or nothing  *)
(* when Redis does not answer in time.                                     *)
RecordImpression ==
    /\ serving > 0
    /\ serving' = serving - 1
    /\ \/ pending' = pending + 1 /\ shown' = shown + 1
       \/ UNCHANGED <<pending, shown>>
    /\ UNCHANGED <<moderation, total, drained, step, lost, losses, list>>

(* Mutant: HGETALL alone, with DEL in a later call.                        *)
DrainedKeeping(w) == UNCHANGED pending

DrainedCounter(w) == pending' = 0

(* Drain: HGETALL and DEL in one transaction.                              *)
Drain(w) ==
    /\ step[w] = "idle"
    /\ drained' = [drained EXCEPT ![w] = pending]
    /\ DrainedCounter(w)
    /\ step' = [step EXCEPT ![w] = "write"]
    /\ UNCHANGED <<moderation, serving, total, shown, lost, losses, list>>

(* Redis does not answer: nothing was drained, or the answer is lost.  The *)
(* worker goes on to the closing of banners.                               *)
DrainFails(w) ==
    /\ step[w] = "idle"
    /\ \/ UNCHANGED <<pending, lost, losses>>
       \/ /\ losses < MaxLost
          /\ pending' = 0
          /\ lost' = lost + pending
          /\ losses' = losses + 1
    /\ step' = [step EXCEPT ![w] = "expire"]
    /\ UNCHANGED <<moderation, serving, total, drained, shown, list>>

WrittenTotal(w) == IF Exists THEN total + drained[w] ELSE total

(* store.FlushCounters: UPDATE ... SET impressions = impressions + n.      *)
WriteCounters(w) ==
    /\ step[w] = "write"
    /\ total' = WrittenTotal(w)
    /\ drained' = [drained EXCEPT ![w] = 0]
    /\ step' = [step EXCEPT ![w] = "expire"]
    /\ UNCHANGED <<moderation, serving, pending, shown, lost, losses, list>>

(* The batch fails, or the worker is cut off: what was drained is lost.    *)
LoseDrained(w, then) ==
    /\ losses < MaxLost
    /\ lost' = lost + drained[w]
    /\ losses' = losses + 1
    /\ drained' = [drained EXCEPT ![w] = 0]
    /\ step' = [step EXCEPT ![w] = then]
    /\ UNCHANGED <<moderation, serving, total, pending, shown, list>>

WriteFails(w)  == step[w] = "write" /\ LoseDrained(w, "expire")
Interrupted(w) == step[w] # "idle" /\ LoseDrained(w, "idle")

(* ExpireOutdated.                                                         *)
ExpireOutdated(w) ==
    /\ step[w] = "expire"
    /\ status' = IF over /\ status \in {"active", "paused"} THEN "expired" ELSE status
    /\ step' = [step EXCEPT ![w] = "idle"]
    /\ UNCHANGED <<over, writtenIn, approved, total, serving, pending, drained, shown, lost,
                   losses, list>>

-----------------------------------------------------------------------------
(* ListForDealer reads the row.                                            *)
ReadTotal ==
    /\ Exists
    /\ ~list.read
    /\ list' = [read |-> TRUE, count |-> total]
    /\ UNCHANGED <<moderation, serving, total, pending, drained, step, shown, lost, losses>>

(* Mutant: the counter is added once more.                                 *)
MergeAgain ==
    /\ list.read
    /\ list' = [list EXCEPT !.count = @ + pending]
    /\ UNCHANGED <<moderation, total, serving, pending, drained, step, shown, lost, losses>>

(* Merge adds what is still in Redis.                                      *)
Merge ==
    /\ list.read
    /\ list' = [read |-> FALSE, count |-> list.count + pending]
    /\ UNCHANGED <<moderation, serving, total, pending, drained, step, shown, lost, losses>>

-----------------------------------------------------------------------------
(* What the dealer does with the banner, after Update.                     *)
OwnActs == SubmitForModeration \/ Pause \/ Resume \/ Delete

(* The visitors' requests.                                                 *)
Guests == Serve \/ RecordImpression

People ==
    \/ Update \/ OwnActs
    \/ Approve \/ RejectBanner
    \/ Guests \/ ReadTotal \/ Merge

FlushBanners(w) ==
    \/ Drain(w) \/ DrainFails(w)
    \/ WriteCounters(w) \/ WriteFails(w)
    \/ ExpireOutdated(w) \/ Interrupted(w)

BannersNext ==
    \/ People
    \/ PeriodEnds
    \/ \E w \in Workers : FlushBanners(w)

BannersSpec == BannersInit /\ [][BannersNext]_bannersVars

-----------------------------------------------------------------------------
Statuses == {"draft", "moderation", "active", "paused", "rejected", "expired"}

(* Every variable keeps its type.                                          *)
BannersTypeOK ==
    /\ status \in Statuses \cup {"deleted"}
    /\ over \in BOOLEAN
    /\ writtenIn \in Statuses
    /\ approved \in BOOLEAN
    /\ total \in Nat
    /\ serving \in Nat
    /\ pending \in Nat
    /\ drained \in [Workers -> Nat]
    /\ step \in [Workers -> {"idle", "write", "expire"}]
    /\ shown \in Nat /\ shown + serving <= MaxShown
    /\ lost \in Nat
    /\ losses \in 0 .. MaxLost
    /\ list \in [read : BOOLEAN, count : Nat]

(* The impressions some workers have in hand, one by one.                  *)
Held(hands, some) == UNION {{w} \X (1 .. hands[w]) : w \in some}
InHand == Cardinality(Held(drained, Workers))

(* No impression is counted twice and none disappears on the way to the    *)
(* database, whoever drains and writes at the same time, except what a     *)
(* worker had in hand when it failed: Drain reads and clears in one        *)
(* transaction, lest impressions made in between be lost.                  *)
CountsConserved == Exists => total + pending + InHand + lost = shown

(* The dealer never sees more impressions than were made: the row is read  *)
(* before the counter, so what moves between the reads is missed, never    *)
(* counted twice.                                                          *)
ReportNeverExceeds == list.count <= shown

(* Content written before approval, under moderation, after a rejection or *)
(* while the banner is shown is not shown until an admin decides: an edit  *)
(* sends the banner back ("otherwise the picture and the link can be       *)
(* replaced after the approval", Update).                                  *)
EditedContentIsModerated ==
    status = "active" /\ writtenIn # "paused" => approved
=============================================================================
