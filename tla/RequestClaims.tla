--------------------------- MODULE RequestClaims ----------------------------
(***************************************************************************)
(* One client request, the dealers that take it up, and the deals that     *)
(* come of it.  Up to MaxActive dealers may work on a request at once;     *)
(* each has at most one row in request_claims.                             *)
(*                                                                         *)
(* store.Claim locks the row of the request, counts the active claims and  *)
(* writes its own; between the count and the write other transactions run, *)
(* except those that need the locked row.  service.CreateDeal reads the    *)
(* request without a lock and then opens the transaction of store.Create,  *)
(* whose INSERT takes a share lock on the request through the foreign key. *)
(* Every other operation is one transaction.                               *)
(*                                                                         *)
(* Left out: rejected_reason and dealer_reply (texts no rule looks at), the *)
(* notifications, and the stage of a deal (DealPipeline): an open deal may *)
(* be won at any time.  The statuses converted and rejected are only found *)
(* in rows older than migration 11; nothing sets them any more.            *)
(***************************************************************************)
EXTENDS Naturals, FiniteSets

CONSTANTS
    Dealers,    \* dealer accounts
    NoDealer,   \* a NULL dealer_id
    DealIds,    \* identifiers for the deals
    NoDeal,     \* a NULL deal_id
    MaxActive,  \* MaxActiveClaimsPerRequest, 5 in the code
    Addressees  \* dealer_id a request may be created with

ASSUME ClaimsAssumption ==
    /\ IsFiniteSet(Dealers)
    /\ NoDealer \notin Dealers
    /\ NoDeal \notin DealIds
    /\ MaxActive \in Nat \ {0}
    /\ Addressees \subseteq Dealers \cup {NoDealer}

VARIABLES
    status,  \* requests.status
    owner,   \* requests.dealer_id
    claims,  \* the row of request_claims of each dealer
    deals,   \* the deals of the request
    lock,    \* the dealer whose Claim holds the FOR UPDATE lock
    pc,      \* where each dealer's request is
    seen     \* the active claims a Claim has counted

vars == <<status, owner, claims, deals, lock, pc, seen>>

Final  == {"converted", "rejected", "closed"}
NoRow  == [status |-> "none", deal |-> NoDeal]
Absent == [dealer |-> NoDealer, outcome |-> "none"]

Active   == {d \in Dealers : claims[d].status = "active"}
Unlocked == lock = NoDealer

(* A request addressed to a dealer has an owner from the start, but no     *)
(* claim; a request about a car or for everyone has none.                  *)
Init ==
    /\ status = "new"
    /\ owner \in Addressees
    /\ claims = [d \in Dealers |-> NoRow]
    /\ deals = [i \in DealIds |-> Absent]
    /\ lock = NoDealer
    /\ pc = [d \in Dealers |-> "idle"]
    /\ seen = [d \in Dealers |-> 0]

-----------------------------------------------------------------------------
(* Mutant: the request is read without FOR UPDATE.                         *)
LockAndCountUnlocked(d) ==
    /\ pc[d] = "idle"
    /\ status \notin Final
    /\ d \notin Active
    /\ Cardinality(Active) < MaxActive
    /\ pc' = [pc EXCEPT ![d] = "claiming"]
    /\ seen' = [seen EXCEPT ![d] = Cardinality(Active)]
    /\ UNCHANGED <<status, owner, claims, deals, lock>>

(* store.Claim up to its count: a final request, a dealer with an active   *)
(* claim and a full pool are turned away.                                  *)
LockAndCount(d) ==
    /\ pc[d] = "idle"
    /\ Unlocked
    /\ status \notin Final
    /\ d \notin Active
    /\ Cardinality(Active) < MaxActive
    /\ lock' = d
    /\ pc' = [pc EXCEPT ![d] = "claiming"]
    /\ seen' = [seen EXCEPT ![d] = Cardinality(Active)]
    /\ UNCHANGED <<status, owner, claims, deals>>

EndClaim(d) ==
    /\ lock' = NoDealer
    /\ pc' = [pc EXCEPT ![d] = "idle"]
    /\ seen' = [seen EXCEPT ![d] = 0]

(* The row is inserted, or the one of an earlier attempt reactivated.      *)
ActiveRow(d) == [status |-> "active", deal |-> NoDeal]

(* COALESCE(dealer_id, d): the first dealer to take the request owns it.   *)
OwnerAfter(d) == IF owner = NoDealer THEN d ELSE owner

(* store.Claim from the write to the commit.                               *)
WriteClaim(d) ==
    /\ pc[d] = "claiming"
    /\ claims' = [claims EXCEPT ![d] = ActiveRow(d)]
    /\ status' = IF status = "new" THEN "in_progress" ELSE status
    /\ owner' = OwnerAfter(d)
    /\ EndClaim(d)
    /\ UNCHANGED deals

(* The connection of a Claim is lost: the transaction is rolled back.      *)
AbortClaim(d) ==
    /\ pc[d] = "claiming"
    /\ EndClaim(d)
    /\ UNCHANGED <<status, owner, claims, deals>>

(* store.Reject: the dealer gives its slot back; the request stays.        *)
Reject(d) ==
    /\ d \in Active
    /\ claims' = [claims EXCEPT ![d].status = "lost"]
    /\ UNCHANGED <<status, owner, deals, lock, pc, seen>>

(* Mutant: the status is given a name of its own.                          *)
StatusAfterReplyUnknown == "replied"

(* An answer moves the request on, unless it is closed already.            *)
StatusAfterReply == IF status \in {"new", "in_progress"} THEN "answered" ELSE status

(* store.Reply: one UPDATE, for a dealer with an active or converted claim.*)
Reply(d) ==
    /\ Unlocked
    /\ status # "converted"
    /\ claims[d].status \in {"active", "converted"}
    /\ status' = StatusAfterReply
    /\ UNCHANGED <<owner, claims, deals, lock, pc, seen>>

(* store.Close: the client closes the request; claims and deals stay.      *)
CloseRequest ==
    /\ Unlocked
    /\ status # "converted"
    /\ status' = "closed"
    /\ UNCHANGED <<owner, claims, deals, lock, pc, seen>>

-----------------------------------------------------------------------------
MayConvert(d) == owner = d /\ status \notin {"rejected", "closed"}

(* CreateDeal, the read: only the dealer of the request may open a deal,   *)
(* and only while the request is not closed.                               *)
CheckCreate(d) ==
    /\ pc[d] = "idle"
    /\ MayConvert(d)
    /\ pc' = [pc EXCEPT ![d] = "creating"]
    /\ UNCHANGED <<status, owner, claims, deals, lock, seen>>

(* UPDATE request_claims ... WHERE request_id and dealer_id: whatever the  *)
(* status of the claim was, and nothing when the dealer has none.          *)
ConvertedClaims(d, i) ==
    [claims EXCEPT ![d] = IF @ = NoRow THEN NoRow
                          ELSE [status |-> "converted", deal |-> i]]

(* store.Create in one transaction: the deal, the claim, the owner.        *)
CommitCreate(d) ==
    /\ pc[d] = "creating"
    /\ Unlocked
    /\ \E i \in DealIds :
          /\ deals[i] = Absent
          /\ deals' = [deals EXCEPT ![i] = [dealer |-> d, outcome |-> "open"]]
          /\ claims' = ConvertedClaims(d, i)
    /\ owner' = IF status \in {"rejected", "closed"} THEN owner ELSE OwnerAfter(d)
    /\ pc' = [pc EXCEPT ![d] = "idle"]
    /\ UNCHANGED <<status, lock, seen>>

(* Mutant: the slot of a lost deal is released only while it is active.    *)
ReleasedClaimsOfActive(i) ==
    [d \in Dealers |-> IF claims[d].deal = i /\ claims[d].status = "active"
                       THEN [claims[d] EXCEPT !.status = "lost"] ELSE claims[d]]

ReleasedClaims(i) ==
    [d \in Dealers |-> IF claims[d].deal = i /\ claims[d].status \in {"active", "converted"}
                       THEN [claims[d] EXCEPT !.status = "lost"] ELSE claims[d]]

(* Deals.Close: an open deal is won or lost; a lost one releases its claim.*)
CloseDeal(i, outcome) ==
    /\ deals[i].outcome = "open"
    /\ deals' = [deals EXCEPT ![i].outcome = outcome]
    /\ claims' = IF outcome = "lost" THEN ReleasedClaims(i) ELSE claims
    /\ UNCHANGED <<status, owner, lock, pc, seen>>

(* RefuseClaimByClient: the client gives up the dealer.  The claim is      *)
(* refused, and the deal it points to is lost if it is open.               *)
Refuse(d) ==
    /\ Unlocked
    /\ claims[d].status \in {"active", "converted"}
    /\ claims' = [claims EXCEPT ![d].status = "refused_by_client"]
    /\ deals' = [i \in DealIds |->
          IF i = claims[d].deal /\ deals[i].outcome = "open"
          THEN [deals[i] EXCEPT !.outcome = "lost"] ELSE deals[i]]
    /\ UNCHANGED <<status, owner, lock, pc, seen>>

-----------------------------------------------------------------------------
Taking(d) == LockAndCount(d) \/ WriteClaim(d) \/ AbortClaim(d)

Answering(d) == Reject(d) \/ Reply(d)

Dealer(d) == Taking(d) \/ Answering(d) \/ CheckCreate(d) \/ CommitCreate(d)

Refusing == \E d \in Dealers : Refuse(d)

(* The client follows the claims of a request, refuses dealers, closes it. *)
Client == CloseRequest \/ Refusing

Next ==
    \/ \E d \in Dealers : Dealer(d)
    \/ \E i \in DealIds, o \in {"won", "lost"} : CloseDeal(i, o)
    \/ Client

Spec == Init /\ [][Next]_vars

-----------------------------------------------------------------------------
(* Every variable keeps its type.                                          *)
TypeOK ==
    /\ status \in {"new", "in_progress", "answered"} \cup Final
    /\ owner \in Dealers \cup {NoDealer}
    /\ claims \in [Dealers ->
          [status : {"none", "active", "lost", "refused_by_client", "converted"},
           deal   : DealIds \cup {NoDeal}]]
    /\ deals \in [DealIds -> [dealer : Dealers \cup {NoDealer},
                              outcome : {"none", "open", "won", "lost"}]]
    /\ lock \in Dealers \cup {NoDealer}
    /\ pc \in [Dealers -> {"idle", "claiming", "creating"}]
    /\ seen \in [Dealers -> Nat]

(* No more than MaxActive dealers work on a request at once, however their *)
(* requests to take it race: the count is made and the claim written under *)
(* the lock of the request, and whatever runs without that lock only       *)
(* releases claims.                                                        *)
ActiveBound == Cardinality(Active) <= MaxActive

(* A claim and the deal it points to agree: the deal is the dealer's own,  *)
(* an active claim has no deal yet, a converted one has a deal that is not *)
(* lost, and a lost one has no deal that goes on.                          *)
ClaimMatchesDeal ==
    \A d \in Dealers :
        LET c == claims[d] IN
        /\ c.deal # NoDeal => deals[c.deal].dealer = d
        /\ c.status \in {"none", "active"} => c.deal = NoDeal
        /\ c.status = "converted" => c.deal # NoDeal /\ deals[c.deal].outcome \in {"open", "won"}
        /\ c.status = "lost" /\ c.deal # NoDeal => deals[c.deal].outcome = "lost"
        /\ c.status = "refused_by_client" /\ c.deal # NoDeal => deals[c.deal].outcome # "open"

(* A deal is opened only by the dealer the request belongs to, although    *)
(* CreateDeal checks that on a copy read before its transaction: an owner  *)
(* once set is never replaced.                                             *)
DealsBelongToOwner ==
    /\ \A i \in DealIds : deals[i].dealer \in {NoDealer, owner}
    /\ \A d \in Dealers : pc[d] = "creating" => owner = d
=============================================================================
