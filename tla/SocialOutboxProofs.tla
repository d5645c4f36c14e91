------------------------- MODULE SocialOutboxProofs -------------------------
(***************************************************************************)
(* Theorems about SocialOutbox, for any number of workers, cars and        *)
(* attempts.                                                               *)
(***************************************************************************)
EXTENDS SocialOutbox, FiniteSetTheorems, TLAPS

(* A worker has a car exactly while it works on a row it has claimed.      *)
CarInHand ==
    \A w \in Workers :
        /\ step[w] \in {"idle", "next"} => car[w] = NoCar
        /\ step[w] \notin {"idle", "next"} => car[w] \in Cars /\ hand[w][car[w]] # 0

(* Types and CarInHand need each other: a result is written to the row of  *)
(* the worker's car.                                                       *)
LEMMA TypingStep == TypeOK /\ CarInHand /\ [Next]_vars => TypeOK' /\ CarInHand'
<1> SUFFICES ASSUME TypeOK, CarInHand, [Next]_vars
             PROVE  TypeOK' /\ CarInHand'
  OBVIOUS
<1>0. UNCHANGED <<asked, posts, mishaps>> => HistoryOK'
  BY DEF TypeOK, HistoryOK
<1> USE OutboxAssumption
   DEF OutboxAssumption, TypeOK, RowsOK, WorkOK, Statuses, Steps, CarInHand, work
<1>1. ASSUME NEW c \in Cars, Enqueue(c)
      PROVE  TypeOK' /\ CarInHand'
  <2>1. HistoryOK'
    BY <1>1 DEF Postable, Enqueue, HistoryOK
  <2> QED
    BY <1>1, <2>1 DEF Postable, Enqueue
<1>2. CASE FinishOAuth \/ Disconnect
  <2>1. /\ TRUE \in BOOLEAN /\ FALSE \in BOOLEAN
        /\ "connected" \in Statuses /\ "disconnected" \in Statuses
    OBVIOUS
  <2>2. \E s \in Statuses, b \in BOOLEAN : channel' = [status |-> s, key |-> b]
    BY ONLY <1>2, <2>1, Zenon DEF FinishOAuth, Disconnect
  <2>3. channel' \in [status : Statuses, key : BOOLEAN]
    <3>1. PICK s \in Statuses, b \in BOOLEAN : channel' = [status |-> s, key |-> b]
      BY ONLY <2>2
    <3>2. [status |-> s, key |-> b] \in [status : Statuses, key : BOOLEAN]
      BY ONLY s \in Statuses, b \in BOOLEAN
    <3> QED
      BY ONLY <3>1, <3>2
  <2> QED
    BY <1>2, <2>3, <1>0 DEF FinishOAuth, Disconnect
<1>3. ASSUME NEW op \in {"save", "test"}, ReadChannel(op)
      PROVE  TypeOK' /\ CarInHand'
  BY <1>3, <1>0 DEF ReadChannel
<1>4. CASE SaveChannel
  BY <1>4, <1>0 DEF Upsert, SaveChannel, NoRequest
<1>5. CASE TestConnection
  BY <1>5, <1>0 DEF SetStatus, TestAnswers, TestConnection, NoRequest
<1>6. ASSUME NEW w \in Workers, ClaimPending(w)
      PROVE  TypeOK' /\ CarInHand'
  BY <1>6, <1>0 DEF ClaimPending, Claimed, Claimable
<1>7. ASSUME NEW w \in Workers, NEW c \in Cars, ReadKey(w, c)
      PROVE  TypeOK' /\ CarInHand'
  BY <1>7, <1>0 DEF ReadKey
<1>8. ASSUME NEW w \in Workers, NEW c \in Cars, SkipUnread(w, c)
      PROVE  TypeOK' /\ CarInHand'
  <2>1. outbox' \in [Cars -> [status   : {"none", "pending", "sent", "failed", "skipped"},
                             attempts : 0 .. MaxAttempts]]
    BY <1>8 DEF SkipUnread, Finish
  <2>2. RowsOK' /\ HistoryOK'
    BY <1>8, <1>0, <2>1 DEF SkipUnread
  <2>3. WorkOK' /\ CarInHand'
    BY <1>8 DEF SkipUnread, Drop
  <2> QED
    BY <2>2, <2>3
<1>9. ASSUME NEW w \in Workers, NEW answer \in Answers, Publish(w, answer)
      PROVE  TypeOK' /\ CarInHand'
  <2>1. car[w] \in Cars
    BY <1>9 DEF Publish
  <2>2. posts' \in [Cars -> Nat] /\ mishaps' \in [Cars -> 0 .. MaxMishaps]
    BY <1>9, <2>1 DEF Publish, MayFail, HistoryOK
  <2>3. HistoryOK'
    BY <1>9, <2>2 DEF Publish, HistoryOK
  <2>4. step' \in [Workers -> Steps] /\ step'[w] \notin {"idle", "next"}
    BY <1>9 DEF Publish, AllAnswers, CallAnswers
  <2> QED
    BY <1>9, <2>1, <2>3, <2>4 DEF Publish
<1>10. ASSUME NEW w \in Workers, WriteSent(w)
       PROVE  TypeOK' /\ CarInHand'
  BY <1>10, <1>0 DEF WriteSent, Finish
<1>11. ASSUME NEW w \in Workers, SetConnected(w)
       PROVE  TypeOK' /\ CarInHand'
  BY <1>11, <1>0 DEF SetStatus, SetConnected, Drop
<1>12. ASSUME NEW w \in Workers, SetNeedsReauth(w)
       PROVE  TypeOK' /\ CarInHand'
  BY <1>12, <1>0 DEF SetStatus, SetNeedsReauth
<1>13. ASSUME NEW w \in Workers, WriteFailed(w) \/ WriteSkipped(w) \/ RetryOrFail(w)
       PROVE  TypeOK' /\ CarInHand'
  <2>1. CASE WriteFailed(w)
    <3>1. outbox' \in [Cars -> [status   : {"none", "pending", "sent", "failed", "skipped"},
                               attempts : 0 .. MaxAttempts]]
      BY <2>1 DEF WriteFailed, Finish
    <3>2. RowsOK' /\ HistoryOK'
      BY <2>1, <1>0, <3>1 DEF WriteFailed
    <3>3. WorkOK' /\ CarInHand'
      BY <2>1 DEF WriteFailed, Drop
    <3> QED
      BY <3>2, <3>3
  <2>2. CASE WriteSkipped(w)
    <3>1. outbox' \in [Cars -> [status   : {"none", "pending", "sent", "failed", "skipped"},
                               attempts : 0 .. MaxAttempts]]
      BY <2>2 DEF WriteSkipped, Finish
    <3>2. RowsOK' /\ HistoryOK'
      BY <2>2, <1>0, <3>1 DEF WriteSkipped
    <3>3. WorkOK' /\ CarInHand'
      BY <2>2 DEF WriteSkipped, Drop
    <3> QED
      BY <3>2, <3>3
  <2>3. CASE RetryOrFail(w)
    <3>1. car[w] \in Cars
      BY <2>3 DEF RetryOrFail
    <3>2. AfterError(hand[w][car[w]]) \in {"pending", "failed"}
      BY DEF AfterError
    <3>3. PICK result \in {"pending", "failed"} : outbox' = [outbox EXCEPT ![car[w]].status = result]
      BY ONLY <2>3, <3>2 DEF RetryOrFail, Finish
    <3>4. outbox' \in [Cars -> [status   : {"none", "pending", "sent", "failed", "skipped"},
                               attempts : 0 .. MaxAttempts]]
      BY <3>1, <3>3
    <3> QED
      BY <2>3, <3>1, <3>4, <1>0 DEF RetryOrFail, Drop
  <2> QED
    BY ONLY <1>13, <2>1, <2>2, <2>3
<1>14. ASSUME NEW w \in Workers, Interrupted(w)
       PROVE  TypeOK' /\ CarInHand'
  <2>1. mishaps' \in [Cars -> 0 .. MaxMishaps]
    BY <1>14 DEF Interrupted, MayFail, HistoryOK
  <2>2. HistoryOK'
    BY <1>14, <2>1 DEF Interrupted, HistoryOK
  <2> QED
    BY <1>14, <2>2 DEF Interrupted, NoHand
<1>15. CASE UNCHANGED vars
  BY <1>15, <1>0 DEF vars
<1> QED
  BY <1>1, <1>2, <1>3, <1>4, <1>5, <1>6, <1>7, <1>8, <1>9, <1>10, <1>11, <1>12, <1>13, <1>14, <1>15
     DEF Next, Dealer, ProcessOutbox

LEMMA TypingInit == Init => TypeOK /\ CarInHand
<1> SUFFICES ASSUME Init
             PROVE  TypeOK /\ CarInHand
  OBVIOUS
<1> USE OutboxAssumption DEF OutboxAssumption, Init, NoRow, NoHand, NoRequest, Statuses, Steps
<1>1. channel \in [status : Statuses, key : BOOLEAN]
  OBVIOUS
<1>2. request \in [op : {"none", "save", "test"}, status : Statuses, key : BOOLEAN]
  OBVIOUS
<1>3. key \in [Workers -> BOOLEAN]
  OBVIOUS
<1> QED
  BY <1>1, <1>2, <1>3 DEF TypeOK, RowsOK, WorkOK, HistoryOK, CarInHand

LEMMA TypingAlways == Spec => [](TypeOK /\ CarInHand)
BY TypingInit, TypingStep, PTL DEF Spec

(* Every variable keeps its type; no row is attempted more than            *)
(* MaxAttempts times between two requests to post.                         *)
THEOREM Typing == Spec => []TypeOK
BY TypingAlways, PTL

-----------------------------------------------------------------------------
(* The workers that may still post c from the row they have claimed.       *)
Unposted(c) == {w \in Workers : hand[w][c] # 0 /\ (car[w] = c => step[w] = "publish")}

(* A post uses up an attempt that some worker has claimed: the posts made, *)
(* the posts that may still be made and the attempts that are left of the  *)
(* last request add up to no more than MaxAttempts for every request.      *)
CountHolds(c) ==
    /\ asked[c] = 0 => /\ posts[c] = 0
                       /\ outbox[c].status = "none"
                       /\ \A w \in Workers : hand[w][c] = 0
    /\ asked[c] > 0 => posts[c] + Cardinality(Unposted(c)) + MaxAttempts
                           <= MaxAttempts * asked[c] + outbox[c].attempts

(* Linear facts about the product the bound is made of.                    *)
LEMMA Products ==
    \A m, a \in Nat : m * a \in Nat /\ m * (a + 1) = m * a + m /\ m * 0 = 0
OBVIOUS

(* There are finitely many workers, hence finitely many that may post.     *)
LEMMA UnpostedFinite ==
    ASSUME NEW c \in Cars
    PROVE  IsFiniteSet(Unposted(c)) /\ Cardinality(Unposted(c)) \in Nat
BY OutboxAssumption, FS_Subset, FS_CardinalityType DEF OutboxAssumption, Unposted

(* A step that posts nothing, asks for nothing, claims no attempt of c and *)
(* lets no new worker post it keeps the count.                             *)
LEMMA Quiet ==
    ASSUME TypeOK, TypeOK', NEW c \in Cars, CountHolds(c),
           posts'[c] = posts[c],
           asked'[c] = asked[c],
           outbox'[c].attempts = outbox[c].attempts,
           Unposted(c)' \subseteq Unposted(c),
           asked[c] = 0 => outbox'[c].status = "none" /\ \A w \in Workers : hand'[w][c] = 0
    PROVE  CountHolds(c)'
<1>1. Cardinality(Unposted(c)') <= Cardinality(Unposted(c)) /\ Cardinality(Unposted(c)') \in Nat
  BY UnpostedFinite, FS_Subset, FS_CardinalityType
<1>2. posts[c] \in Nat /\ asked[c] \in Nat /\ outbox[c].attempts \in Nat /\ MaxAttempts \in Nat
  BY OutboxAssumption DEF OutboxAssumption, TypeOK, RowsOK, WorkOK, HistoryOK
<1>3. MaxAttempts * asked[c] \in Nat /\ Cardinality(Unposted(c)) \in Nat
  BY <1>2, Products, UnpostedFinite
<1>4. ASSUME asked[c] > 0
      PROVE  posts'[c] + Cardinality(Unposted(c)') + MaxAttempts
                <= MaxAttempts * asked'[c] + outbox'[c].attempts
  <2>1. posts[c] + Cardinality(Unposted(c)) + MaxAttempts
           <= MaxAttempts * asked[c] + outbox[c].attempts
    BY <1>4 DEF CountHolds
  <2> QED
    BY <2>1, <1>1, <1>2, <1>3
<1> QED
  BY <1>4 DEF CountHolds

(* A step that leaves the rows, the hands and the places of the workers    *)
(* alone, and asks for nothing, changes nothing that is counted.           *)
LEMMA Idle ==
    ASSUME TypeOK, TypeOK', NEW c \in Cars, CountHolds(c),
           UNCHANGED <<outbox, hand, step, car, asked, posts>>
    PROVE  CountHolds(c)'
BY DEF CountHolds, Unposted

LEMMA CountEnqueue ==
    ASSUME TypeOK, TypeOK', NEW c \in Cars, CountHolds(c), NEW d \in Cars, Enqueue(d)
    PROVE  CountHolds(c)'
<1>1. Unposted(c)' = Unposted(c)
  BY DEF Postable, Enqueue, Unposted, work
<1>2. CASE d # c
  <2>1. /\ posts'[c] = posts[c] /\ asked'[c] = asked[c] /\ outbox'[c] = outbox[c]
        /\ hand' = hand
    BY <1>2 DEF Postable, Enqueue, work, TypeOK, RowsOK, WorkOK, HistoryOK
  <2> QED
    BY <2>1, <1>1, Quiet DEF CountHolds
<1>3. CASE d = c
  <2> DEFINE U == Cardinality(Unposted(c))
  <2>1. /\ posts'[c] = posts[c] /\ asked'[c] = asked[c] + 1 /\ outbox'[c].attempts = 0
    BY <1>3 DEF Postable, Enqueue, TypeOK, RowsOK, WorkOK, HistoryOK
  <2>2. /\ posts[c] \in Nat /\ asked[c] \in Nat /\ MaxAttempts \in Nat /\ U \in Nat
        /\ outbox[c].attempts \in Nat /\ outbox[c].attempts <= MaxAttempts
    BY OutboxAssumption, UnpostedFinite DEF OutboxAssumption, TypeOK, RowsOK, WorkOK, HistoryOK
  <2>3. /\ MaxAttempts * asked[c] \in Nat
        /\ MaxAttempts * asked'[c] = MaxAttempts * asked[c] + MaxAttempts
        /\ MaxAttempts * 0 = 0
    BY <2>1, <2>2, Products
  <2>4. posts[c] + U <= MaxAttempts * asked[c]
    <3>1. CASE asked[c] = 0
      <4>1. posts[c] = 0 /\ Unposted(c) = {}
        BY <3>1 DEF CountHolds, Unposted
      <4>2. U = 0
        BY <4>1, FS_EmptySet
      <4> QED
        BY <3>1, <4>1, <4>2, <2>3
    <3>2. CASE asked[c] > 0
      <4>1. posts[c] + U + MaxAttempts <= MaxAttempts * asked[c] + outbox[c].attempts
        BY <3>2 DEF CountHolds
      <4> HIDE DEF U
      <4> QED
        BY <4>1, <2>2, <2>3
    <3> QED
      BY <3>1, <3>2, <2>2
  <2>5. posts'[c] + Cardinality(Unposted(c)') + MaxAttempts
           <= MaxAttempts * asked'[c] + outbox'[c].attempts
    <3>1. Cardinality(Unposted(c)') = U
      BY <1>1
    <3> HIDE DEF U
    <3> QED
      BY <3>1, <2>1, <2>2, <2>3, <2>4
  <2>6. asked'[c] # 0
    BY <2>1, <2>2
  <2> QED
    BY <2>5, <2>6 DEF CountHolds
<1> QED
  BY <1>2, <1>3

LEMMA CountClaim ==
    ASSUME TypeOK, TypeOK', CarInHand, NEW c \in Cars, CountHolds(c),
           NEW w \in Workers, ClaimPending(w)
    PROVE  CountHolds(c)'
<1>1. posts'[c] = posts[c] /\ asked'[c] = asked[c] /\ car' = car /\ car[w] = NoCar /\ NoCar # c
  BY OutboxAssumption DEF OutboxAssumption, ClaimPending, CarInHand
<1>2. CASE c \notin Claimable
  <2>1. outbox'[c] = outbox[c] /\ hand'[w][c] = 0
    BY <1>2 DEF ClaimPending, Claimed, TypeOK, RowsOK, WorkOK, HistoryOK
  <2>2. \A v \in Workers \ {w} : hand'[v] = hand[v] /\ step'[v] = step[v]
    BY DEF ClaimPending, TypeOK, RowsOK, WorkOK, HistoryOK
  <2>3. Unposted(c)' \subseteq Unposted(c)
    BY <2>1, <2>2, <1>1 DEF Unposted
  <2> QED
    BY <1>1, <2>1, <2>2, <2>3, Quiet DEF CountHolds
<1>3. CASE c \in Claimable
  <2> DEFINE U == Cardinality(Unposted(c))
             V == Cardinality(Unposted(c)')
  <2>1. outbox'[c].attempts = outbox[c].attempts + 1 /\ asked[c] # 0
    BY <1>3 DEF ClaimPending, Claimed, Claimable, TypeOK, RowsOK, WorkOK, HistoryOK, CountHolds
  <2>2. \A v \in Workers \ {w} : hand'[v] = hand[v] /\ step'[v] = step[v]
    BY DEF ClaimPending, TypeOK, RowsOK, WorkOK, HistoryOK
  <2>3. Unposted(c)' \subseteq Unposted(c) \cup {w}
    BY <2>2, <1>1 DEF Unposted
  <2>4. U \in Nat /\ V \in Nat /\ V <= U + 1
    <3>1. IsFiniteSet(Unposted(c)) /\ U \in Nat
      BY UnpostedFinite
    <3>2. /\ IsFiniteSet(Unposted(c) \cup {w})
          /\ Cardinality(Unposted(c) \cup {w}) \in {U, U + 1}
      BY <3>1, FS_AddElement
    <3>3. V <= Cardinality(Unposted(c) \cup {w}) /\ V \in Nat
      BY <2>3, <3>2, FS_Subset, FS_CardinalityType
    <3> HIDE DEF U, V
    <3> QED
      BY <3>1, <3>2, <3>3
  <2>5. /\ posts[c] \in Nat /\ asked[c] \in Nat /\ MaxAttempts \in Nat
        /\ outbox[c].attempts \in Nat /\ MaxAttempts * asked[c] \in Nat
    BY OutboxAssumption, Products DEF OutboxAssumption, TypeOK, RowsOK, WorkOK, HistoryOK
  <2>6. posts[c] + U + MaxAttempts <= MaxAttempts * asked[c] + outbox[c].attempts
    BY <2>1, <2>5 DEF CountHolds
  <2>7. posts'[c] + V + MaxAttempts <= MaxAttempts * asked'[c] + outbox'[c].attempts
    <3> HIDE DEF U, V
    <3> QED
      BY <2>1, <2>4, <2>5, <2>6, <1>1
  <2> QED
    BY <2>1, <2>7, <1>1 DEF CountHolds
<1> QED
  BY <1>2, <1>3

LEMMA CountPublish ==
    ASSUME TypeOK, TypeOK', CarInHand, NEW c \in Cars, CountHolds(c),
           NEW w \in Workers, NEW answer \in Answers, Publish(w, answer)
    PROVE  CountHolds(c)'
<1>1. asked' = asked /\ outbox' = outbox /\ hand' = hand /\ car' = car
  BY DEF Publish
<1>2. \A v \in Workers \ {w} : step'[v] = step[v]
  BY DEF Publish, TypeOK, RowsOK, WorkOK, HistoryOK
<1>3. step[w] = "publish" /\ step'[w] # "publish"
  BY OutboxAssumption
     DEF Publish, TypeOK, RowsOK, WorkOK, HistoryOK, OutboxAssumption, AllAnswers, CallAnswers
<1>4. car[w] \in Cars /\ hand[w][car[w]] # 0
  BY <1>3 DEF CarInHand
<1>5. Unposted(c)' \subseteq Unposted(c)
  BY <1>1, <1>2, <1>3 DEF Unposted
<1>6. CASE posts'[c] = posts[c]
  BY <1>1, <1>5, <1>6, Quiet DEF CountHolds
<1>7. CASE posts'[c] # posts[c]
  <2> DEFINE U == Cardinality(Unposted(c))
             V == Cardinality(Unposted(c)')
  <2>1. car[w] = c /\ posts'[c] = posts[c] + 1
    BY <1>7, <1>4 DEF Publish, TypeOK, RowsOK, WorkOK, HistoryOK
  <2>2. w \in Unposted(c) /\ w \notin Unposted(c)'
    BY <2>1, <1>1, <1>3, <1>4 DEF Unposted
  <2>3. Unposted(c)' \subseteq Unposted(c) \ {w}
    BY <2>2, <1>5
  <2>4. U \in Nat /\ V \in Nat /\ V <= U - 1
    BY <2>2, <2>3, UnpostedFinite, FS_RemoveElement, FS_Subset, FS_CardinalityType
  <2>5. /\ posts[c] \in Nat /\ asked[c] \in Nat /\ MaxAttempts \in Nat
        /\ outbox[c].attempts \in Nat /\ MaxAttempts * asked[c] \in Nat
    BY OutboxAssumption, Products DEF OutboxAssumption, TypeOK, RowsOK, WorkOK, HistoryOK
  <2>6. asked[c] # 0
    BY <2>1, <1>4 DEF CountHolds
  <2>7. posts[c] + U + MaxAttempts <= MaxAttempts * asked[c] + outbox[c].attempts
    BY <2>6, <2>5 DEF CountHolds
  <2>8. posts'[c] + V + MaxAttempts <= MaxAttempts * asked'[c] + outbox'[c].attempts
    <3> HIDE DEF U, V
    <3> QED
      BY <2>1, <2>4, <2>5, <2>7, <1>1
  <2> QED
    BY <2>6, <2>8, <1>1 DEF CountHolds
<1> QED
  BY <1>6, <1>7

(* Writing a status touches neither the attempts nor another row.          *)
LEMMA FinishKeepsAttempts ==
    ASSUME TypeOK, NEW d \in Cars, NEW s, Finish(d, s), NEW c \in Cars
    PROVE  outbox'[c].attempts = outbox[c].attempts /\ (c # d => outbox'[c] = outbox[c])
<1>1. outbox' = [outbox EXCEPT ![d] = [outbox[d] EXCEPT !.status = s]]
  BY DEF Finish
<1>2. CASE c # d
  BY <1>1, <1>2 DEF TypeOK, RowsOK, WorkOK, HistoryOK
<1>3. CASE c = d
  <2>1. outbox'[c] = [outbox[c] EXCEPT !.status = s]
    BY <1>1, <1>3 DEF TypeOK, RowsOK, WorkOK, HistoryOK
  <2>2. outbox[c] \in [status   : {"none", "pending", "sent", "failed", "skipped"},
                       attempts : 0 .. MaxAttempts]
    BY DEF TypeOK, RowsOK, WorkOK, HistoryOK
  <2> QED
    BY <2>1, <2>2, <1>3
<1> QED
  BY <1>2, <1>3

(* A worker that is done with a row writes its status, if anything, and    *)
(* keeps the number of attempts.                                           *)
LEMMA CountDrop ==
    ASSUME TypeOK, TypeOK', CarInHand, NEW c \in Cars, CountHolds(c),
           NEW w \in Workers, NEW d \in Cars, Drop(w, d),
           hand[w][d] # 0, car[w] \in {NoCar, d},
           outbox' = outbox \/ \E s : Finish(d, s),
           posts' = posts, asked' = asked
    PROVE  CountHolds(c)'
<1>1. /\ hand' = [hand EXCEPT ![w][d] = 0]
      /\ step'[w] \in {"next", "idle"}
      /\ car'[w] = NoCar /\ NoCar \notin Cars
  BY OutboxAssumption DEF OutboxAssumption, Drop, TypeOK, RowsOK, WorkOK, HistoryOK
<1>2. \A v \in Workers \ {w} : step'[v] = step[v] /\ car'[v] = car[v]
  BY DEF Drop, TypeOK, RowsOK, WorkOK, HistoryOK
<1>3. \A v \in Workers : hand'[v][c] = hand[v][c] \/ hand'[v][c] = 0
  BY <1>1 DEF TypeOK, RowsOK, WorkOK, HistoryOK
<1>4. hand'[w][d] = 0
  BY <1>1 DEF TypeOK, RowsOK, WorkOK, HistoryOK
<1>5. Unposted(c)' \subseteq Unposted(c)
  BY <1>1, <1>2, <1>3, <1>4 DEF Unposted
<1>6. outbox'[c].attempts = outbox[c].attempts
  <2>1. ASSUME NEW s, Finish(d, s)
        PROVE  outbox'[c].attempts = outbox[c].attempts
    BY <2>1, FinishKeepsAttempts
  <2> QED
    BY <2>1
<1>7. ASSUME asked[c] = 0
      PROVE  outbox'[c].status = "none" /\ \A v \in Workers : hand'[v][c] = 0
  <2>1. c # d /\ outbox[c].status = "none" /\ \A v \in Workers : hand[v][c] = 0
    BY <1>7 DEF CountHolds
  <2>2. outbox'[c] = outbox[c]
    BY <2>1, FinishKeepsAttempts
  <2> QED
    BY <2>1, <2>2, <1>3
<1> QED
  BY <1>5, <1>6, <1>7, Quiet

LEMMA CountInterrupted ==
    ASSUME TypeOK, TypeOK', NEW c \in Cars, CountHolds(c), NEW w \in Workers, Interrupted(w)
    PROVE  CountHolds(c)'
<1>1. posts' = posts /\ asked' = asked /\ outbox' = outbox /\ hand'[w][c] = 0
  BY DEF Interrupted, NoHand, TypeOK, RowsOK, WorkOK, HistoryOK
<1>2. \A v \in Workers \ {w} : hand'[v] = hand[v] /\ step'[v] = step[v] /\ car'[v] = car[v]
  BY DEF Interrupted, TypeOK, RowsOK, WorkOK, HistoryOK
<1>3. Unposted(c)' \subseteq Unposted(c)
  BY <1>1, <1>2 DEF Unposted
<1> QED
  BY <1>1, <1>2, <1>3, Quiet DEF CountHolds

LEMMA CountReadKey ==
    ASSUME TypeOK, TypeOK', CarInHand, NEW c \in Cars, CountHolds(c),
           NEW w \in Workers, NEW d \in Cars, ReadKey(w, d)
    PROVE  CountHolds(c)'
<1>1. posts' = posts /\ asked' = asked /\ outbox' = outbox /\ hand' = hand
  BY DEF ReadKey
<1>2. \A v \in Workers \ {w} : step'[v] = step[v] /\ car'[v] = car[v]
  BY DEF ReadKey, TypeOK, RowsOK, WorkOK, HistoryOK
<1>3. car[w] = NoCar /\ NoCar # c
  BY OutboxAssumption DEF OutboxAssumption, ReadKey, CarInHand
<1>4. Unposted(c)' \subseteq Unposted(c)
  BY <1>1, <1>2, <1>3 DEF Unposted
<1> QED
  BY <1>1, <1>4, Quiet DEF CountHolds

(* A result that is written before the worker is done with the row: sent,  *)
(* or the failure that comes after the status of the channel.              *)
LEMMA CountWritten ==
    ASSUME TypeOK, TypeOK', CarInHand, NEW c \in Cars, CountHolds(c),
           NEW w \in Workers, WriteSent(w) \/ SetNeedsReauth(w)
    PROVE  CountHolds(c)'
<1>1. posts' = posts /\ asked' = asked /\ hand' = hand /\ car' = car
  BY DEF SetStatus, WriteSent, SetNeedsReauth
<1>2. car[w] \in Cars /\ hand[w][car[w]] # 0 /\ step'[w] # "publish"
  BY DEF SetStatus, WriteSent, SetNeedsReauth, CarInHand, TypeOK, RowsOK, WorkOK, HistoryOK
<1>3. \A v \in Workers \ {w} : step'[v] = step[v]
  BY DEF SetStatus, WriteSent, SetNeedsReauth, TypeOK, RowsOK, WorkOK, HistoryOK
<1>4. Unposted(c)' \subseteq Unposted(c)
  BY <1>1, <1>2, <1>3 DEF Unposted
<1>5. outbox'[c].attempts = outbox[c].attempts /\ (c # car[w] => outbox'[c] = outbox[c])
  BY <1>2, FinishKeepsAttempts DEF SetStatus, WriteSent, SetNeedsReauth
<1>6. asked[c] = 0 => outbox'[c].status = "none" /\ \A v \in Workers : hand'[v][c] = 0
  BY <1>1, <1>2, <1>5 DEF CountHolds
<1> QED
  BY <1>1, <1>4, <1>5, <1>6, Quiet

LEMMA CountStep ==
    ASSUME TypeOK, TypeOK', CarInHand, [Next]_vars, NEW c \in Cars, CountHolds(c)
    PROVE  CountHolds(c)'
<1>1. ASSUME NEW d \in Cars, Enqueue(d)
      PROVE  CountHolds(c)'
  BY <1>1, CountEnqueue
<1>2. CASE FinishOAuth \/ Disconnect \/ SaveChannel \/ TestConnection
           \/ \E op \in {"save", "test"} : ReadChannel(op)
  BY <1>2, Idle
     DEF Upsert, SetStatus, TestAnswers, FinishOAuth, Disconnect, SaveChannel, TestConnection,
         ReadChannel, work
<1>3. ASSUME NEW w \in Workers, ClaimPending(w)
      PROVE  CountHolds(c)'
  BY <1>3, CountClaim
<1>4. ASSUME NEW w \in Workers, NEW d \in Cars, ReadKey(w, d)
      PROVE  CountHolds(c)'
  BY <1>4, CountReadKey
<1>5. ASSUME NEW w \in Workers, NEW d \in Cars, SkipUnread(w, d)
      PROVE  CountHolds(c)'
  <2>1. car[w] = NoCar
    BY <1>5 DEF SkipUnread, CarInHand
  <2> QED
    BY <1>5, <2>1, CountDrop DEF SkipUnread
<1>6. ASSUME NEW w \in Workers, NEW answer \in Answers, Publish(w, answer)
      PROVE  CountHolds(c)'
  BY <1>6, CountPublish
<1>7. ASSUME NEW w \in Workers, WriteSent(w) \/ SetNeedsReauth(w)
      PROVE  CountHolds(c)'
  BY <1>7, CountWritten
<1>8. ASSUME NEW w \in Workers,
             SetConnected(w) \/ WriteFailed(w) \/ WriteSkipped(w) \/ RetryOrFail(w)
      PROVE  CountHolds(c)'
  <2>1. car[w] \in Cars /\ hand[w][car[w]] # 0
    BY <1>8 DEF SetStatus, SetConnected, WriteFailed, WriteSkipped, RetryOrFail, CarInHand
  <2>2. /\ Drop(w, car[w])
        /\ posts' = posts /\ asked' = asked
        /\ outbox' = outbox \/ \E s : Finish(car[w], s)
    BY <1>8 DEF SetStatus, SetConnected, WriteFailed, WriteSkipped, RetryOrFail
  <2> QED
    BY <2>1, <2>2, CountDrop
<1>9. ASSUME NEW w \in Workers, Interrupted(w)
      PROVE  CountHolds(c)'
  BY <1>9, CountInterrupted
<1>10. CASE UNCHANGED vars
  BY <1>10, Idle DEF vars
<1> QED
  BY <1>1, <1>2, <1>3, <1>4, <1>5, <1>6, <1>7, <1>8, <1>9, <1>10
     DEF Next, Dealer, ProcessOutbox

LEMMA CountBounds ==
    ASSUME TypeOK, NEW c \in Cars, CountHolds(c)
    PROVE  posts[c] <= MaxAttempts * asked[c]
<1>1. /\ posts[c] \in Nat /\ asked[c] \in Nat /\ MaxAttempts \in Nat
      /\ outbox[c].attempts \in Nat /\ outbox[c].attempts <= MaxAttempts
  BY OutboxAssumption DEF OutboxAssumption, TypeOK, RowsOK, WorkOK, HistoryOK
<1>2. /\ MaxAttempts * asked[c] \in Nat /\ MaxAttempts * 0 = 0
      /\ Cardinality(Unposted(c)) \in Nat
  BY <1>1, Products, UnpostedFinite
<1>3. CASE asked[c] = 0
  BY <1>1, <1>2, <1>3 DEF CountHolds
<1>4. CASE asked[c] # 0
  <2>1. posts[c] + Cardinality(Unposted(c)) + MaxAttempts
           <= MaxAttempts * asked[c] + outbox[c].attempts
    BY <1>1, <1>4 DEF CountHolds
  <2> QED
    BY <1>1, <1>2, <2>1
<1> QED
  BY <1>3, <1>4

(* For any number of workers, however they are cut off and whatever        *)
(* answers are lost, a request to post a car (store.Enqueue) brings at     *)
(* most MaxAttempts posts: every post uses up an attempt that ClaimPending *)
(* counted in the row before it was made.                                  *)
THEOREM PostsStayBounded == Spec => []PostsBounded
<1> DEFINE Counts == \A c \in Cars : CountHolds(c)
<1>1. Init => Counts
  BY DEF Init, CountHolds, NoRow, NoHand
<1>2. TypeOK /\ TypeOK' /\ CarInHand /\ Counts /\ [Next]_vars => Counts'
  BY CountStep
<1>3. TypeOK /\ Counts => PostsBounded
  BY CountBounds DEF PostsBounded
<1> QED
  BY <1>1, <1>2, <1>3, TypingAlways, PTL DEF Spec

-----------------------------------------------------------------------------
(* With one worker: may c be posted once more without a new request or     *)
(* another mishap?                                                         *)
MayPost(c) ==
    \/ outbox[c].status = "pending" /\ \A w \in Workers : ~(car[w] = c /\ step[w] = "posted")
    \/ \E w \in Workers : hand[w][c] # 0 /\ (car[w] = c => step[w] = "publish")

Permit(c) == IF MayPost(c) THEN 1 ELSE 0

LEMMA PermitBounds ==
    \A c \in Cars : Permit(c) \in {0, 1} /\ Permit(c)' \in {0, 1}
BY DEF Permit

(* The row a worker has in hand stays pending until it has been sent.      *)
PendingInHand ==
    \A w \in Workers, c \in Cars :
        hand[w][c] # 0 => outbox[c].status = "pending" \/ (car[w] = c /\ step[w] = "sent")

OnceHolds == \A c \in Cars : posts[c] + Permit(c) <= asked[c] + mishaps[c]

LEMMA PendingInHandStep ==
    ASSUME TypeOK, CarInHand, NEW w, Workers = {w}, PendingInHand, [Next]_vars
    PROVE  PendingInHand'
<1> USE OutboxAssumption DEF OutboxAssumption, TypeOK, RowsOK, WorkOK, CarInHand, PendingInHand
<1>1. CASE Dealer
  BY <1>1
     DEF Upsert, SetStatus, TestAnswers, Postable, Dealer, Enqueue, ReadChannel, SaveChannel,
         FinishOAuth, TestConnection, Disconnect, work
<1>2. CASE ClaimPending(w)
  BY <1>2 DEF ClaimPending, Claimed, Claimable
<1>3. ASSUME NEW c \in Cars, ReadKey(w, c)
      PROVE  PendingInHand'
  BY <1>3 DEF ReadKey
<1>4. ASSUME NEW c \in Cars, SkipUnread(w, c)
      PROVE  PendingInHand'
  BY <1>4 DEF SkipUnread, Finish, Drop
<1>5. ASSUME NEW answer \in Answers, Publish(w, answer)
      PROVE  PendingInHand'
  BY <1>5 DEF Publish
<1>6. CASE WriteSent(w)
  BY <1>6 DEF WriteSent, Finish
<1>7. CASE SetConnected(w)
  BY <1>7 DEF SetStatus, SetConnected, Drop
<1>8. CASE SetNeedsReauth(w)
  BY <1>8 DEF SetStatus, SetNeedsReauth
<1>9. ASSUME NEW d \in Cars, NEW s, Finish(d, s), Drop(w, d), car[w] = d
      PROVE  PendingInHand'
  <2>1. \A c \in Cars \ {d} : outbox'[c] = outbox[c] /\ hand'[w][c] = hand[w][c]
    BY <1>9 DEF Finish, Drop
  <2>2. hand'[w][d] = 0
    BY <1>9 DEF Drop
  <2>3. \A c \in Cars \ {d} : hand[w][c] # 0 => outbox[c].status = "pending"
    BY <1>9
  <2> QED
    BY <2>1, <2>2, <2>3
<1>10. CASE WriteFailed(w) \/ WriteSkipped(w) \/ RetryOrFail(w)
  BY <1>9, <1>10 DEF WriteFailed, WriteSkipped, RetryOrFail
<1>11. CASE Interrupted(w)
  BY <1>11 DEF Interrupted, NoHand
<1>12. CASE UNCHANGED vars
  BY <1>12 DEF vars
<1> QED
  BY <1>1, <1>2, <1>3, <1>4, <1>5, <1>6, <1>7, <1>8, <1>10, <1>11, <1>12 DEF Next, ProcessOutbox

(* The worker is done with the row of d, which it may have to post again   *)
(* if it did not post it.                                                  *)
LEMMA OnceDropped ==
    ASSUME TypeOK, TypeOK', CarInHand, PendingInHand, NEW w, Workers = {w}, OnceHolds,
           NEW d \in Cars, NEW s, Finish(d, s), Drop(w, d),
           car[w] = NoCar \/ (car[w] = d /\ step[w] \notin {"posted", "sent"}),
           hand[w][d] # 0, step[w] # "publish",
           UNCHANGED <<asked, posts, mishaps>>
    PROVE  OnceHolds'
<1> USE OutboxAssumption DEF OutboxAssumption, TypeOK, RowsOK, WorkOK, HistoryOK
<1>1. SUFFICES ASSUME NEW c \in Cars
               PROVE  MayPost(c)' => MayPost(c)
  <2>1. \A c \in Cars : Permit(c)' <= Permit(c) /\ Permit(c) \in Nat /\ Permit(c)' \in Nat
    BY <1>1 DEF Permit
  <2> QED
    BY <2>1 DEF OnceHolds
<1>2. CASE c = d
  <2>1. outbox[d].status = "pending"
    BY DEF PendingInHand
  <2> QED
    BY <1>2, <2>1 DEF MayPost
<1>3. CASE c # d
  <2>1. outbox'[c] = outbox[c] /\ hand'[w][c] = hand[w][c] /\ car[w] # c
    BY <1>3 DEF Finish, Drop
  <2> QED
    BY <2>1, <1>3 DEF MayPost
<1> QED
  BY <1>2, <1>3

(* A step that posts nothing, asks for nothing and opens no way to post.   *)
LEMMA OnceQuiet ==
    ASSUME TypeOK, OnceHolds, UNCHANGED <<asked, posts, mishaps>>,
           \A c \in Cars : MayPost(c)' => MayPost(c)
    PROVE  OnceHolds'
<1>1. \A c \in Cars : Permit(c)' <= Permit(c) /\ Permit(c) \in Nat /\ Permit(c)' \in Nat
  BY DEF Permit
<1> QED
  BY <1>1 DEF OnceHolds, TypeOK, HistoryOK

LEMMA OncePublish ==
    ASSUME TypeOK, TypeOK', CarInHand, NEW w, Workers = {w}, OnceHolds,
           NEW answer \in Answers, Publish(w, answer)
    PROVE  OnceHolds'
<1> USE OutboxAssumption DEF OutboxAssumption, TypeOK, RowsOK, WorkOK, HistoryOK
<1>1. /\ car[w] \in Cars /\ hand[w][car[w]] # 0 /\ step[w] = "publish"
      /\ outbox' = outbox /\ hand' = hand /\ car' = car /\ asked' = asked
      /\ step'[w] # "publish"
  BY DEF Publish, CarInHand, AllAnswers, CallAnswers
<1>2. ASSUME NEW c \in Cars, c # car[w]
      PROVE  posts'[c] = posts[c] /\ mishaps'[c] = mishaps[c] /\ (MayPost(c)' => MayPost(c))
  BY <1>1, <1>2 DEF Publish, MayPost
<1>3. MayPost(car[w])
  BY <1>1 DEF MayPost
<1>4. CASE answer = "posted"
  <2>1. posts'[car[w]] = posts[car[w]] + 1 /\ mishaps' = mishaps
    BY <1>1, <1>4 DEF Publish
  <2>2. ~MayPost(car[w])'
    BY <1>1, <1>4 DEF Publish, MayPost
  <2> QED
    BY <1>1, <1>2, <1>3, <2>1, <2>2 DEF OnceHolds, Permit
<1>5. CASE answer = "lost"
  <2>1. posts'[car[w]] = posts[car[w]] + 1 /\ mishaps'[car[w]] = mishaps[car[w]] + 1
    BY <1>1, <1>5 DEF Publish
  <2> QED
    BY <1>1, <1>2, <1>3, <2>1 DEF OnceHolds, Permit
<1>6. CASE answer \notin {"posted", "lost"}
  <2>1. posts' = posts /\ mishaps' = mishaps
    BY <1>6 DEF Publish
  <2>2. \A c \in Cars : MayPost(c)' => MayPost(c)
    BY <1>2, <1>3
  <2> QED
    BY <1>1, <2>1, <2>2, OnceQuiet
<1> QED
  BY <1>4, <1>5, <1>6

LEMMA OnceInterrupted ==
    ASSUME TypeOK, TypeOK', PendingInHand, CarInHand, NEW w, Workers = {w}, OnceHolds, Interrupted(w)
    PROVE  OnceHolds'
<1> USE OutboxAssumption DEF OutboxAssumption, TypeOK, RowsOK, WorkOK, HistoryOK
<1>1. posts' = posts /\ asked' = asked /\ outbox' = outbox
  BY DEF Interrupted
<1>2. ASSUME NEW c \in Cars, hand[w][c] # 0
      PROVE  posts'[c] + Permit(c)' <= asked'[c] + mishaps'[c]
  <2>1. mishaps'[c] = mishaps[c] + 1
    BY <1>2 DEF Interrupted, InHand
  <2>2. posts[c] \in Nat /\ asked[c] \in Nat /\ mishaps[c] \in Nat
    OBVIOUS
  <2>3. /\ posts[c] + Permit(c) <= asked[c] + mishaps[c]
        /\ Permit(c) \in {0, 1} /\ Permit(c)' \in {0, 1}
    BY PermitBounds DEF OnceHolds
  <2>4. posts'[c] = posts[c] /\ asked'[c] = asked[c]
    BY <1>1
  <2> QED
    BY ONLY <2>1, <2>2, <2>3, <2>4
<1>3. ASSUME NEW c \in Cars, hand[w][c] = 0
      PROVE  posts'[c] + Permit(c)' <= asked'[c] + mishaps'[c]
  <2>1. mishaps'[c] = mishaps[c] /\ hand'[w][c] = 0 /\ car[w] # c
    BY <1>3 DEF Interrupted, InHand, NoHand, CarInHand
  <2>2. MayPost(c)' => MayPost(c)
    BY <1>1, <2>1 DEF MayPost
  <2> QED
    BY <1>1, <2>1, <2>2 DEF OnceHolds, Permit
<1> QED
  BY <1>2, <1>3 DEF OnceHolds

LEMMA OnceStep ==
    ASSUME TypeOK, TypeOK', CarInHand, PendingInHand, NEW w, Workers = {w}, OnceHolds, [Next]_vars
    PROVE  OnceHolds'
<1> USE OutboxAssumption DEF OutboxAssumption, TypeOK, RowsOK, WorkOK, HistoryOK
<1>1. ASSUME NEW d \in Cars, Enqueue(d)
      PROVE  OnceHolds'
  <2>1. posts' = posts /\ mishaps' = mishaps /\ asked'[d] = asked[d] + 1
    BY <1>1 DEF Postable, Enqueue
  <2>3. posts'[d] + Permit(d)' <= asked'[d] + mishaps'[d]
    <3>1. posts[d] \in Nat /\ asked[d] \in Nat /\ mishaps[d] \in Nat
      OBVIOUS
    <3>2. /\ posts[d] + Permit(d) <= asked[d] + mishaps[d]
          /\ Permit(d) \in {0, 1} /\ Permit(d)' \in {0, 1}
      BY PermitBounds DEF OnceHolds
    <3> QED
      BY ONLY <2>1, <3>1, <3>2
  <2>2. ASSUME NEW c \in Cars, c # d
        PROVE  asked'[c] = asked[c] /\ (MayPost(c)' => MayPost(c))
    BY <1>1, <2>2 DEF Postable, Enqueue, MayPost, work
  <2> QED
    <3>1. ASSUME NEW c \in Cars, c # d
          PROVE  posts'[c] + Permit(c)' <= asked'[c] + mishaps'[c]
      BY <2>1, <2>2, <3>1 DEF OnceHolds, Permit
    <3> QED
      BY <2>3, <3>1 DEF OnceHolds
<1>2. CASE \/ FinishOAuth \/ Disconnect \/ SaveChannel \/ TestConnection
           \/ \E op \in {"save", "test"} : ReadChannel(op)
           \/ UNCHANGED vars
  <2>1. UNCHANGED <<outbox, hand, step, car, asked, posts, mishaps>>
    BY <1>2
       DEF Upsert, SetStatus, TestAnswers, FinishOAuth, Disconnect, SaveChannel, TestConnection,
           ReadChannel, work, vars
  <2> QED
    BY <2>1, OnceQuiet DEF MayPost
<1>3. CASE ClaimPending(w)
  <2>1. UNCHANGED <<asked, posts, mishaps, car>> /\ step[w] = "idle" /\ step'[w] = "next"
    BY <1>3 DEF ClaimPending
  <2>2. \A c \in Cars : MayPost(c)' => outbox[c].status = "pending"
    BY <1>3 DEF ClaimPending, Claimed, Claimable, MayPost
  <2>3. \A c \in Cars : MayPost(c)' => MayPost(c)
    BY <2>1, <2>2 DEF MayPost
  <2> QED
    BY <2>1, <2>3, OnceQuiet
<1>4. ASSUME NEW d \in Cars, ReadKey(w, d)
      PROVE  OnceHolds'
  <2>1. \A c \in Cars : MayPost(c)' => MayPost(c)
    BY <1>4 DEF ReadKey, MayPost, CarInHand
  <2> QED
    BY <1>4, <2>1, OnceQuiet DEF ReadKey
<1>5. ASSUME NEW d \in Cars, SkipUnread(w, d)
      PROVE  OnceHolds'
  BY <1>5, OnceDropped DEF SkipUnread, CarInHand
<1>6. ASSUME NEW answer \in Answers, Publish(w, answer)
      PROVE  OnceHolds'
  BY <1>6, OncePublish
<1>7. CASE WriteSent(w) \/ SetNeedsReauth(w)
  <2>1. \A c \in Cars : MayPost(c)' => MayPost(c)
    BY <1>7 DEF SetStatus, WriteSent, SetNeedsReauth, Finish, MayPost, CarInHand
  <2> QED
    BY <1>7, <2>1, OnceQuiet DEF SetStatus, WriteSent, SetNeedsReauth
<1>8. CASE SetConnected(w)
  <2>1. \A c \in Cars : MayPost(c)' => MayPost(c)
    BY <1>8 DEF SetStatus, SetConnected, Drop, MayPost, CarInHand
  <2> QED
    BY <1>8, <2>1, OnceQuiet DEF SetStatus, SetConnected
<1>9. CASE WriteFailed(w) \/ WriteSkipped(w) \/ RetryOrFail(w)
  <2>1. car[w] \in Cars /\ hand[w][car[w]] # 0
    BY <1>9 DEF WriteFailed, WriteSkipped, RetryOrFail, CarInHand
  <2>2. /\ step[w] \notin {"posted", "sent", "publish"} /\ Drop(w, car[w])
        /\ \E s : Finish(car[w], s)
        /\ UNCHANGED <<asked, posts, mishaps>>
    BY <1>9 DEF WriteFailed, WriteSkipped, RetryOrFail
  <2> QED
    BY <2>1, <2>2, OnceDropped
<1>10. CASE Interrupted(w)
  BY <1>10, OnceInterrupted
<1> QED
  BY <1>1, <1>2, <1>3, <1>4, <1>5, <1>6, <1>7, <1>8, <1>9, <1>10
     DEF Next, Dealer, ProcessOutbox

(* With a single worker a request to post a car (store.Enqueue) brings at  *)
(* most one post, and one more for each answer that was lost and each run  *)
(* that was cut off: a row is pending, or in hand and not yet posted, at   *)
(* most once for each of them.                                             *)
THEOREM OnePostPerAsk ==
    ASSUME NEW w, Workers = {w}
    PROVE  Spec => []PostedOncePerAsk
<1>1. Init => PendingInHand /\ OnceHolds
  <2>1. ASSUME Init, NEW c \in Cars
        PROVE  ~MayPost(c) /\ posts[c] = 0 /\ asked[c] = 0 /\ mishaps[c] = 0
    BY <2>1 DEF Init, NoRow, NoHand, MayPost
  <2> QED
    BY <2>1 DEF Init, NoHand, PendingInHand, OnceHolds, Permit
<1>2. TypeOK /\ TypeOK' /\ CarInHand /\ PendingInHand /\ OnceHolds /\ [Next]_vars
          => PendingInHand' /\ OnceHolds'
  BY PendingInHandStep, OnceStep
<1>3. TypeOK /\ OnceHolds => PostedOncePerAsk
  BY DEF OnceHolds, Permit, PostedOncePerAsk, TypeOK, HistoryOK
<1> QED
  BY <1>1, <1>2, <1>3, TypingAlways, PTL DEF Spec
=============================================================================
