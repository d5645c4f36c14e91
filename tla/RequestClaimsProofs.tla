------------------------ MODULE RequestClaimsProofs -------------------------
(***************************************************************************)
(* What RequestClaims guarantees for any set of dealers, any number of     *)
(* deals and any number of slots.                                          *)
(***************************************************************************)
EXTENDS RequestClaims, FiniteSetTheorems, TLAPS

(* The dealers with an active claim are finitely many, and releasing some  *)
(* of them never raises their number.                                      *)
LEMMA ActiveFinite ==
    /\ IsFiniteSet(Active)
    /\ Cardinality(Active) \in Nat
<1>1. Active \subseteq Dealers
  BY DEF Active
<1>2. IsFiniteSet(Active)
  BY <1>1, FS_Subset, ClaimsAssumption DEF ClaimsAssumption
<1> QED
  BY <1>2, FS_CardinalityType

(* Every variable of a reachable state has its type.                       *)
THEOREM Typing == Spec => []TypeOK
<1>1. Init => TypeOK
  BY ClaimsAssumption DEF ClaimsAssumption, Init, TypeOK, NoRow, Absent, Final
<1>2. TypeOK /\ [Next]_vars => TypeOK'
  <2> SUFFICES ASSUME TypeOK, [Next]_vars
               PROVE  TypeOK'
    OBVIOUS
  <2> USE DEF TypeOK
  <2>1. ASSUME NEW d \in Dealers, LockAndCount(d)
        PROVE  TypeOK'
    BY <2>1, ActiveFinite DEF LockAndCount
  <2>2. ASSUME NEW d \in Dealers, WriteClaim(d)
        PROVE  TypeOK'
    BY <2>2 DEF WriteClaim, EndClaim, ActiveRow, OwnerAfter
  <2>3. ASSUME NEW d \in Dealers, AbortClaim(d)
        PROVE  TypeOK'
    BY <2>3 DEF AbortClaim, EndClaim
  <2>4. ASSUME NEW d \in Dealers, Reject(d)
        PROVE  TypeOK'
    BY <2>4 DEF Reject
  <2>5. ASSUME NEW d \in Dealers, Reply(d)
        PROVE  TypeOK'
    BY <2>5 DEF Reply, StatusAfterReply
  <2>6. ASSUME NEW d \in Dealers, CheckCreate(d)
        PROVE  TypeOK'
    BY <2>6 DEF CheckCreate
  <2>7. ASSUME NEW d \in Dealers, CommitCreate(d)
        PROVE  TypeOK'
    <3>1. PICK i \in DealIds :
             /\ deals' = [deals EXCEPT ![i] = [dealer |-> d, outcome |-> "open"]]
             /\ claims' = ConvertedClaims(d, i)
      BY <2>7 DEF CommitCreate
    <3> QED
      BY <2>7, <3>1 DEF CommitCreate, ConvertedClaims, NoRow, OwnerAfter
  <2>8. ASSUME NEW i \in DealIds, NEW o \in {"won", "lost"}, CloseDeal(i, o)
        PROVE  TypeOK'
    BY <2>8 DEF CloseDeal, ReleasedClaims
  <2>9. CASE CloseRequest
    BY <2>9 DEF CloseRequest, Final
  <2>10. ASSUME NEW d \in Dealers, Refuse(d)
         PROVE  TypeOK'
    BY <2>10 DEF Refuse
  <2>11. CASE UNCHANGED vars
    BY <2>11 DEF vars
  <2> QED
    BY <2>1, <2>2, <2>3, <2>4, <2>5, <2>6, <2>7, <2>8, <2>9, <2>10, <2>11
       DEF Next, Dealer, Client, Taking, Answering, Refusing
<1> QED
  BY <1>1, <1>2, PTL DEF Spec

-----------------------------------------------------------------------------
(* Why the count is still good when the claim is written: a dealer between *)
(* the two holds the lock, so there is one such dealer at a time, and the  *)
(* others have only released claims since it counted.                      *)
CountHolds ==
    \A d \in Dealers : pc[d] = "claiming" =>
        /\ lock = d
        /\ Cardinality(Active) <= seen[d]
        /\ seen[d] < MaxActive

(* A step that activates no claim keeps the bound and the count, if it     *)
(* leaves the lock and the requests in flight as far as they claim.        *)
LEMMA OnlyReleases ==
    ASSUME TypeOK, CountHolds, ActiveBound, TypeOK',
           Active' \subseteq Active,
           \A d \in Dealers : pc'[d] = "claiming" =>
               pc[d] = "claiming" /\ lock' = lock /\ seen'[d] = seen[d]
    PROVE  CountHolds' /\ ActiveBound'
<1>1. Cardinality(Active') <= Cardinality(Active)
  BY ActiveFinite, FS_Subset
<1>2. Cardinality(Active') \in Nat
  BY ActiveFinite, FS_Subset, FS_CardinalityType
<1>3. Active \subseteq Dealers
  BY DEF Active
<1> QED
  BY <1>1, <1>2, ActiveFinite, ClaimsAssumption
     DEF CountHolds, ActiveBound, TypeOK, ClaimsAssumption

(* The slots of a request are never oversubscribed, for every number of    *)
(* dealers that race for them: the row lock makes count and claim one.     *)
THEOREM SlotsNeverOversubscribed == Spec => []ActiveBound
<1>1. Init => CountHolds /\ ActiveBound
  <2> SUFFICES ASSUME Init
               PROVE  CountHolds /\ ActiveBound
    OBVIOUS
  <2>1. Active = {}
    BY DEF Init, Active, NoRow
  <2> QED
    BY <2>1, FS_EmptySet, ClaimsAssumption
       DEF Init, CountHolds, ActiveBound, ClaimsAssumption
<1>2. TypeOK /\ CountHolds /\ ActiveBound /\ TypeOK' /\ [Next]_vars
          => CountHolds' /\ ActiveBound'
  <2> SUFFICES ASSUME TypeOK, CountHolds, ActiveBound, TypeOK', [Next]_vars
               PROVE  CountHolds' /\ ActiveBound'
    OBVIOUS
  <2>1. ASSUME NEW d \in Dealers, LockAndCount(d)
        PROVE  CountHolds' /\ ActiveBound'
    <3>1. Active' = Active
      BY <2>1 DEF LockAndCount, Active
    <3>2. \A e \in Dealers : pc[e] # "claiming"
      BY <2>1, ClaimsAssumption DEF LockAndCount, CountHolds, Unlocked, ClaimsAssumption
    <3> QED
      BY <2>1, <3>1, <3>2, ActiveFinite DEF LockAndCount, CountHolds, ActiveBound, TypeOK
  <2>2. ASSUME NEW d \in Dealers, WriteClaim(d)
        PROVE  CountHolds' /\ ActiveBound'
    <3>1. Active' \subseteq Active \cup {d}
      BY <2>2 DEF WriteClaim, ActiveRow, Active, TypeOK
    <3>2. Cardinality(Active \cup {d}) <= Cardinality(Active) + 1
      BY ActiveFinite, FS_AddElement
    <3>3. IsFiniteSet(Active \cup {d})
      BY ActiveFinite, FS_AddElement
    <3>4. Cardinality(Active') <= Cardinality(Active \cup {d})
      BY <3>1, <3>3, FS_Subset
    <3>5. Cardinality(Active') \in Nat /\ Cardinality(Active \cup {d}) \in Nat
      BY <3>1, <3>3, FS_Subset, FS_CardinalityType
    <3>6. Cardinality(Active) < MaxActive
      BY <2>2, ActiveFinite, ClaimsAssumption
         DEF WriteClaim, CountHolds, TypeOK, ClaimsAssumption
    <3>7. ActiveBound'
      BY <3>2, <3>4, <3>5, <3>6, ActiveFinite, ClaimsAssumption
         DEF ActiveBound, ClaimsAssumption
    <3>8. CountHolds'
      BY <2>2 DEF WriteClaim, EndClaim, CountHolds, TypeOK
    <3> QED
      BY <3>7, <3>8
  <2>3. ASSUME NEW d \in Dealers, AbortClaim(d)
        PROVE  CountHolds' /\ ActiveBound'
    <3>1. \A e \in Dealers : pc'[e] # "claiming"
      BY <2>3 DEF AbortClaim, EndClaim, CountHolds, TypeOK
    <3> QED
      BY <2>3, <3>1, OnlyReleases DEF AbortClaim, Active
  <2>4. ASSUME NEW d \in Dealers, Reject(d)
        PROVE  CountHolds' /\ ActiveBound'
    <3>1. Active' \subseteq Active
      BY <2>4 DEF Reject, Active, TypeOK
    <3> QED
      BY <2>4, <3>1, OnlyReleases DEF Reject
  <2>5. ASSUME NEW d \in Dealers, Reply(d)
        PROVE  CountHolds' /\ ActiveBound'
    BY <2>5, OnlyReleases DEF Reply, Active
  <2>6. ASSUME NEW d \in Dealers, CheckCreate(d)
        PROVE  CountHolds' /\ ActiveBound'
    BY <2>6, OnlyReleases DEF CheckCreate, Active, TypeOK
  <2>7. ASSUME NEW d \in Dealers, CommitCreate(d)
        PROVE  CountHolds' /\ ActiveBound'
    <3>1. PICK i \in DealIds : claims' = ConvertedClaims(d, i)
      BY <2>7 DEF CommitCreate
    <3>2. Active' \subseteq Active
      BY <3>1 DEF ConvertedClaims, NoRow, Active, TypeOK
    <3> QED
      BY <2>7, <3>2, OnlyReleases DEF CommitCreate, TypeOK
  <2>8. ASSUME NEW i \in DealIds, NEW o \in {"won", "lost"}, CloseDeal(i, o)
        PROVE  CountHolds' /\ ActiveBound'
    <3>1. Active' \subseteq Active
      BY <2>8 DEF CloseDeal, ReleasedClaims, Active, TypeOK
    <3> QED
      BY <2>8, <3>1, OnlyReleases DEF CloseDeal
  <2>9. CASE CloseRequest
    BY <2>9, OnlyReleases DEF CloseRequest, Active
  <2>10. ASSUME NEW d \in Dealers, Refuse(d)
         PROVE  CountHolds' /\ ActiveBound'
    <3>1. Active' \subseteq Active
      BY <2>10 DEF Refuse, Active, TypeOK
    <3> QED
      BY <2>10, <3>1, OnlyReleases DEF Refuse
  <2>11. CASE UNCHANGED vars
    BY <2>11, OnlyReleases DEF vars, Active
  <2> QED
    BY <2>1, <2>2, <2>3, <2>4, <2>5, <2>6, <2>7, <2>8, <2>9, <2>10, <2>11
       DEF Next, Dealer, Client, Taking, Answering, Refusing
<1> QED
  BY <1>1, <1>2, Typing, PTL DEF Spec
-----------------------------------------------------------------------------
(* Deals are opened only by the owner of the request.  The check is made   *)
(* on a copy, but an owner is only ever written over NULL.                 *)
THEOREM OnlyOwnerOpensDeals == Spec => []DealsBelongToOwner
<1>1. Init => DealsBelongToOwner
  BY DEF Init, DealsBelongToOwner, Absent
<1>2. TypeOK /\ DealsBelongToOwner /\ [Next]_vars => DealsBelongToOwner'
  <2> SUFFICES ASSUME TypeOK, DealsBelongToOwner, [Next]_vars
               PROVE  DealsBelongToOwner'
    OBVIOUS
  <2> USE DEF TypeOK, DealsBelongToOwner
  <2>1. ASSUME NEW d \in Dealers, LockAndCount(d)
        PROVE  DealsBelongToOwner'
    BY <2>1 DEF LockAndCount
  <2>2. ASSUME NEW d \in Dealers, WriteClaim(d)
        PROVE  DealsBelongToOwner'
    BY <2>2, ClaimsAssumption DEF WriteClaim, EndClaim, OwnerAfter, ClaimsAssumption
  <2>3. ASSUME NEW d \in Dealers, AbortClaim(d)
        PROVE  DealsBelongToOwner'
    BY <2>3 DEF AbortClaim, EndClaim
  <2>4. ASSUME NEW d \in Dealers, Reject(d) \/ Reply(d)
        PROVE  DealsBelongToOwner'
    BY <2>4 DEF Reject, Reply
  <2>5. ASSUME NEW d \in Dealers, CheckCreate(d)
        PROVE  DealsBelongToOwner'
    BY <2>5 DEF CheckCreate, MayConvert
  <2>6. ASSUME NEW d \in Dealers, CommitCreate(d)
        PROVE  DealsBelongToOwner'
    <3>1. owner = d /\ owner' = owner
      BY <2>6, ClaimsAssumption DEF CommitCreate, OwnerAfter, ClaimsAssumption
    <3>2. PICK i \in DealIds :
             deals' = [deals EXCEPT ![i] = [dealer |-> d, outcome |-> "open"]]
      BY <2>6 DEF CommitCreate
    <3> QED
      BY <2>6, <3>1, <3>2 DEF CommitCreate
  <2>7. ASSUME NEW i \in DealIds, NEW o \in {"won", "lost"}, CloseDeal(i, o)
        PROVE  DealsBelongToOwner'
    BY <2>7 DEF CloseDeal
  <2>8. CASE CloseRequest
    BY <2>8 DEF CloseRequest
  <2>9. ASSUME NEW d \in Dealers, Refuse(d)
        PROVE  DealsBelongToOwner'
    BY <2>9 DEF Refuse
  <2>10. CASE UNCHANGED vars
    BY <2>10 DEF vars
  <2> QED
    BY <2>1, <2>2, <2>3, <2>4, <2>5, <2>6, <2>7, <2>8, <2>9, <2>10
       DEF Next, Dealer, Client, Taking, Answering, Refusing
<1> QED
  BY <1>1, <1>2, Typing, PTL DEF Spec

(* A claim and the deal it points to always agree, although the claim is   *)
(* written by five operations and the deal by three.                       *)
THEOREM ClaimsAgreeWithDeals == Spec => []ClaimMatchesDeal
<1>1. Init => ClaimMatchesDeal
  BY DEF Init, ClaimMatchesDeal, NoRow
<1>2. TypeOK /\ ClaimMatchesDeal /\ [Next]_vars => ClaimMatchesDeal'
  <2> SUFFICES ASSUME TypeOK, ClaimMatchesDeal, [Next]_vars
               PROVE  ClaimMatchesDeal'
    OBVIOUS
  <2> USE DEF TypeOK, ClaimMatchesDeal
  <2>1. ASSUME NEW d \in Dealers, LockAndCount(d) \/ AbortClaim(d) \/ Reply(d) \/ CheckCreate(d)
        PROVE  ClaimMatchesDeal'
    BY <2>1 DEF LockAndCount, AbortClaim, EndClaim, Reply, CheckCreate
  <2>2. ASSUME NEW d \in Dealers, WriteClaim(d)
        PROVE  ClaimMatchesDeal'
    BY <2>2 DEF WriteClaim, ActiveRow
  <2>3. ASSUME NEW d \in Dealers, Reject(d)
        PROVE  ClaimMatchesDeal'
    BY <2>3 DEF Reject, Active
  <2>4. ASSUME NEW d \in Dealers, CommitCreate(d)
        PROVE  ClaimMatchesDeal'
    <3>1. PICK i \in DealIds :
             /\ deals[i] = Absent
             /\ deals' = [deals EXCEPT ![i] = [dealer |-> d, outcome |-> "open"]]
             /\ claims' = ConvertedClaims(d, i)
      BY <2>4 DEF CommitCreate
    <3>2. \A e \in Dealers : claims[e].deal # i
      BY <3>1, ClaimsAssumption DEF Absent, ClaimsAssumption
    <3> QED
      BY <3>1, <3>2, ClaimsAssumption DEF ConvertedClaims, NoRow, ClaimsAssumption
  <2>5. ASSUME NEW i \in DealIds, NEW o \in {"won", "lost"}, CloseDeal(i, o)
        PROVE  ClaimMatchesDeal'
    BY <2>5, ClaimsAssumption DEF CloseDeal, ReleasedClaims, ClaimsAssumption
  <2>6. CASE CloseRequest
    BY <2>6 DEF CloseRequest
  <2>7. ASSUME NEW d \in Dealers, Refuse(d)
        PROVE  ClaimMatchesDeal'
    BY <2>7, ClaimsAssumption DEF Refuse, ClaimsAssumption
  <2>8. CASE UNCHANGED vars
    BY <2>8 DEF vars
  <2> QED
    BY <2>1, <2>2, <2>3, <2>4, <2>5, <2>6, <2>7, <2>8
       DEF Next, Dealer, Client, Taking, Answering, Refusing
<1> QED
  BY <1>1, <1>2, Typing, PTL DEF Spec
=============================================================================
