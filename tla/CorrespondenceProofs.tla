------------------------ MODULE CorrespondenceProofs -------------------------
(* Theorems about Correspondence, for any number of users, documents and      *)
(* requests, and any daily limit.                                             *)
EXTENDS Correspondence, FiniteSetTheorems, WellFoundedInduction, TLAPS

(* The requests in flight that are at a step.                                 *)
At(step) == {r \in Requests : request[r].at = step}

Authors == Participants \cup {Admin}
Message == [author : Authors, note : 0 .. Handover, late : BOOLEAN, read : BOOLEAN]
Row == [form : Form, answer : {"none", "created", "error"}]

(* What the steps rely on: a request in flight knows what it is to write, and *)
(* the tables are sequences of rows.                                          *)
RequestsOK ==
    /\ DOMAIN request = Requests
    /\ \A r \in At("say") : request[r].by \in Authors
    /\ \A r \in At("announce") : request[r].by \in Authors /\ request[r].stage \in 0 .. Handover
    /\ \A r \in At("create") : request[r].form \in Form

TablesOK ==
    /\ stage \in Machine!Stages
    /\ messages \in Seq(Message)
    /\ rows \in Seq(Row)

-----------------------------------------------------------------------------
(* Counting the requests at a step.                                           *)

LEMMA AtIsFinite ==
    ASSUME NEW step
    PROVE  /\ IsFiniteSet(At(step))
           /\ Cardinality(At(step)) \in Nat
           /\ Cardinality(At(step)) <= Cardinality(Requests)
           /\ Cardinality(Requests) \in Nat
  BY InboxAssumption, FS_Subset, FS_CardinalityType DEF InboxAssumption, At

(* Whatever a request does, it is the only one that changes its place.        *)
LEMMA OneMoves ==
    ASSUME DOMAIN request = Requests, NEW r \in Requests, NEW q, Proceed(r, q), NEW step
    PROVE  /\ DOMAIN request' = Requests
           /\ q.at # step => At(step)' = At(step) \ {r}
           /\ q.at = step => At(step)' = At(step) \cup {r}
  BY DEF Proceed, At

LEMMA Leaving ==
    ASSUME NEW step, NEW r \in At(step)
    PROVE  Cardinality(At(step) \ {r}) = Cardinality(At(step)) - 1
  BY AtIsFinite, FS_RemoveElement

LEMMA StayingAway ==
    ASSUME NEW step, At(step)' \subseteq At(step)
    PROVE  Cardinality(At(step)') <= Cardinality(At(step))
  BY AtIsFinite, FS_Subset

-----------------------------------------------------------------------------
(* A request that goes on with q keeps RequestsOK when q does.                *)
LEMMA Proceeding ==
    ASSUME RequestsOK, NEW r \in Requests, NEW q, Proceed(r, q),
           q.at = "say" => q.by \in Authors,
           q.at = "announce" => q.by \in Authors /\ q.stage \in 0 .. Handover,
           q.at = "create" => q.form \in Form
    PROVE  RequestsOK'
<1>1. DOMAIN request' = Requests /\ \A x \in Requests : request'[x] = IF x = r THEN q ELSE request[x]
  BY DEF RequestsOK, Proceed
<1>2. Authors' = Authors /\ Handover' = Handover /\ Form' = Form
  BY DEF Authors, Participants, Handover, Machine!StageHandover, Form
<1>3. ASSUME NEW x \in At("say")' PROVE request'[x].by \in Authors
  BY <1>1, <1>3 DEF RequestsOK, At
<1>4. ASSUME NEW x \in At("announce")'
      PROVE  request'[x].by \in Authors /\ request'[x].stage \in 0 .. Handover
  BY <1>1, <1>4 DEF RequestsOK, At
<1>5. ASSUME NEW x \in At("create")' PROVE request'[x].form \in Form
  BY <1>1, <1>5 DEF RequestsOK, At
<1> QED
  BY <1>1, <1>2, <1>3, <1>4, <1>5 DEF RequestsOK

LEMMA Saying ==
    ASSUME TablesOK, NEW u \in Authors, NEW note \in 0 .. Handover, NEW late \in BOOLEAN,
           Say(u, note, late)
    PROVE  messages' \in Seq(Message)
<1>1. [author |-> u, note |-> note, late |-> late, read |-> FALSE] \in Message
  BY DEF Message
<1> QED
  BY <1>1 DEF Say, TablesOK

LEMMA Numbers == Handover = 7 /\ Machine!Stages = 1 .. 7
  BY DEF Handover, Machine!StageHandover, Machine!Stages, Machine!StageLead

-----------------------------------------------------------------------------
(* Every step keeps RequestsOK and TablesOK.                                  *)

LEMMA MoveKeeps ==
    ASSUME RequestsOK, TablesOK, NEW r \in Requests, Moves(r), UNCHANGED rows
    PROVE  RequestsOK' /\ TablesOK'
<1> USE Numbers DEF TablesOK
<1>1. ASSUME NEW u \in DealManagers, ChangeStage(r, u)
      PROVE  RequestsOK' /\ TablesOK'
  <2>1. stage' \in Machine!Stages
    BY <1>1 DEF ChangeStage, Machine!Advance, Machine!RollBack, Machine!StageHandover
  <2>2. Proceed(r, [at |-> "announce", by |-> u, stage |-> stage']) /\ UNCHANGED messages
    BY <1>1 DEF ChangeStage
  <2>3. u \in Authors
    BY DEF DealManagers, Authors, Participants
  <2>4. RequestsOK'
    BY <2>1, <2>2, <2>3, Proceeding
  <2> QED
    BY <2>1, <2>2, <2>4
<1>2. CASE AnnounceInChat(r)
  <2>1. r \in At("announce")
    BY <1>2 DEF AnnounceInChat, At
  <2>2. request[r].by \in Authors /\ request[r].stage \in 0 .. Handover
    BY <2>1 DEF RequestsOK
  <2>3. messages' \in Seq(Message)
    <3>1. CASE Say(request[r].by, request[r].stage, FALSE)
      BY <2>2, <3>1, Saying
    <3>2. CASE UNCHANGED messages
      BY <3>2
    <3> QED
      BY <1>2, <3>1, <3>2 DEF AnnounceInChat
  <2>4. RequestsOK'
    <3>1. Proceed(r, [at |-> "tell", to |-> Client, kind |-> "stage", about |-> request[r].stage])
      BY <1>2 DEF AnnounceInChat
    <3> QED
      BY <3>1, Proceeding
  <2> QED
    BY <1>2, <2>3, <2>4 DEF AnnounceInChat
<1>3. CASE CloseDeal(r)
  <2>1. Proceed(r, [at |-> "tell", to |-> Client, kind |-> "closed", about |-> outcome'])
    BY <1>3 DEF CloseDeal
  <2>2. RequestsOK'
    BY <2>1, Proceeding
  <2> QED
    BY <1>3, <2>2 DEF CloseDeal, Machine!Win, Machine!Lose
<1>4. CASE ClientRefuses(r)
  <2>1. Proceed(r, [at |-> "tell", to |-> DealerOfDeal, kind |-> "refused", about |-> 0])
    BY <1>4 DEF ClientRefuses
  <2>2. RequestsOK'
    BY <2>1, Proceeding
  <2> QED
    BY <1>4, <2>2 DEF ClientRefuses, Machine!Lose
<1> QED
  BY <1>1, <1>2, <1>3, <1>4 DEF Moves

LEMMA ChatKeeps ==
    ASSUME RequestsOK, TablesOK, NEW r \in Requests, Chat(r), UNCHANGED rows
    PROVE  RequestsOK' /\ TablesOK'
<1> USE Numbers DEF TablesOK
<1>1. ASSUME NEW u, CheckMessage(r, u)
      PROVE  RequestsOK' /\ TablesOK'
  <2>1. Proceed(r, [at |-> "say", by |-> u]) /\ u \in Authors /\ UNCHANGED room
    BY <1>1 DEF CheckMessage, Authors
  <2>2. RequestsOK'
    BY <2>1, Proceeding
  <2> QED
    BY <2>1, <2>2 DEF room
<1>2. ASSUME NEW u, Messages(r, u)
      PROVE  RequestsOK' /\ TablesOK'
  <2>1. Proceed(r, [at |-> "mark", by |-> u]) /\ UNCHANGED room
    BY <1>2 DEF Messages
  <2>2. RequestsOK'
    BY <2>1, Proceeding
  <2> QED
    BY <2>1, <2>2 DEF room
<1>3. CASE AddMessage(r)
  <2>1. request[r].by \in Authors
    BY <1>3 DEF AddMessage, RequestsOK, At
  <2>2. Say(request[r].by, 0, outcome # "open")
    BY <1>3 DEF AddMessage
  <2>3. messages' \in Seq(Message)
    <3>1. (outcome # "open") \in BOOLEAN /\ 0 \in 0 .. Handover
      OBVIOUS
    <3> QED
      BY <2>1, <2>2, <3>1, Saying
  <2>4. Proceed(r, [at |-> "tell", to |-> Recipient(request[r].by), kind |-> "message", about |-> 0])
    BY <1>3 DEF AddMessage
  <2>5. RequestsOK'
    BY <2>4, Proceeding
  <2> QED
    BY <1>3, <2>3, <2>5 DEF AddMessage
<1>4. CASE MarkMessagesRead(r)
  <2>1. RequestsOK'
    <3>1. Proceed(r, [at |-> "idle"])
      BY <1>4 DEF MarkMessagesRead, Done, Idle
    <3> QED
      BY <3>1, Proceeding
  <2>2. ASSUME NEW i \in DOMAIN messages
        PROVE  [messages[i] EXCEPT !.read = @ \/ messages[i].author # request[r].by] \in Message
    <3> DEFINE m == messages[i]
               b == m.read \/ m.author # request[r].by
    <3>1. m \in Message /\ b \in BOOLEAN
      BY <2>2
    <3>2. [m EXCEPT !.read = b] = [author |-> m.author, note |-> m.note, late |-> m.late, read |-> b]
      BY <3>1 DEF Message
    <3> HIDE DEF m, b
    <3>3. [author |-> m.author, note |-> m.note, late |-> m.late, read |-> b] \in Message
      BY <3>1 DEF Message
    <3>4. [m EXCEPT !.read = b] \in Message
      BY <3>2, <3>3
    <3> QED
      BY <3>4 DEF m, b
  <2>3. messages' \in Seq(Message)
    <3>1. messages' = [i \in 1 .. Len(messages) |->
             [messages[i] EXCEPT !.read = @ \/ messages[i].author # request[r].by]]
      BY <1>4 DEF MarkMessagesRead
    <3>2. \A i \in 1 .. Len(messages) : messages'[i] \in Message
      BY <2>2, <3>1
    <3> QED
      BY <3>1, <3>2
  <2> QED
    BY <1>4, <2>1, <2>3 DEF MarkMessagesRead
<1> QED
  BY <1>1, <1>2, <1>3, <1>4 DEF Chat

(* What a request of a deal, of a document or of a review does not touch.     *)
Untouched == UNCHANGED <<stage, outcome, messages, rows>>

LEMMA PapersAndReviews ==
    ASSUME NEW r \in Requests, Papers(r) \/ Printing(r) \/ Reviews(r) \/ Tell(r), UNCHANGED rows
    PROVE  /\ Untouched
           /\ \/ UNCHANGED request
              \/ \E q : Proceed(r, q) /\ q.at \notin {"say", "announce", "create"}
<1> USE DEF Untouched
<1>1. ASSUME NEW x, NEW visible, AddDocument(r, x, visible)
      PROVE  Untouched /\ \E q : Proceed(r, q) /\ q.at \notin {"say", "announce", "create"}
  <2>1. AfterDocument(x, visible).at \notin {"say", "announce", "create"}
    BY DEF AfterDocument, Idle
  <2>2. Untouched /\ Proceed(r, AfterDocument(x, visible))
    BY <1>1 DEF AddDocument
  <2> QED
    BY <2>1, <2>2, Zenon
<1>2. ASSUME NEW x, DeleteDocument(r, x)
      PROVE  Untouched /\ UNCHANGED request
  BY <1>2 DEF DeleteDocument
<1>3. ASSUME NEW n, NEW visible, GenerateDocuments(r, n, visible)
      PROVE  Untouched /\ \E q : Proceed(r, q) /\ q.at \notin {"say", "announce", "create"}
  <2> DEFINE q == [at |-> "print", left |-> n, visible |-> visible, made |-> {}]
  <2>1. q.at \notin {"say", "announce", "create"} /\ Proceed(r, q) /\ UNCHANGED room
    BY <1>3 DEF GenerateDocuments
  <2> QED
    BY <2>1 DEF room
<1>4. CASE PrintOne(r)
  <2>1. PICK x \in Docs :
           Proceed(r, [at |-> "print", left |-> request[r].left - 1, visible |-> request[r].visible,
                       made |-> request[r].made \cup {x}])
    BY <1>4 DEF PrintOne
  <2> QED
    BY <1>4, <2>1 DEF PrintOne
<1>5. CASE AfterPrinting(r)
  <2> DEFINE q == IF request[r].visible
                  THEN [at |-> "tell", to |-> Client, kind |-> "forms", about |-> request[r].made]
                  ELSE Idle
  <2>1. q.at \notin {"say", "announce", "create"}
    BY DEF Idle
  <2>2. Proceed(r, q) /\ UNCHANGED room /\ UNCHANGED rows
    BY <1>5 DEF AfterPrinting
  <2> QED
    BY <2>1, <2>2 DEF room
<1>6. ASSUME NEW stars, LeaveReview(r, stars)
      PROVE  Untouched /\ \E q : Proceed(r, q) /\ q.at \notin {"say", "announce", "create"}
  <2>1. Proceed(r, [at |-> "review", stars |-> stars]) /\ UNCHANGED room
    BY <1>6 DEF LeaveReview
  <2> QED
    BY <2>1 DEF room
<1>7. ASSUME InsertReview(r) \/ CountRating(r) \/ Tell(r)
      PROVE  Untouched /\ \E q : Proceed(r, q) /\ q.at \notin {"say", "announce", "create"}
  <2>1. Idle.at \notin {"say", "announce", "create"}
    BY DEF Idle
  <2>2. [at |-> "rate", stars |-> request[r].stars].at \notin {"say", "announce", "create"}
    OBVIOUS
  <2>3. Proceed(r, Idle) \/ Proceed(r, [at |-> "rate", stars |-> request[r].stars])
    BY <1>7 DEF InsertReview, CountRating, Tell, Done
  <2>4. UNCHANGED <<stage, outcome, messages>>
    BY <1>7 DEF InsertReview, CountRating, Tell, room
  <2> QED
    BY <2>1, <2>2, <2>3, <2>4, Zenon
<1> QED
  BY <1>1, <1>2, <1>3, <1>4, <1>5, <1>6, <1>7 DEF Papers, Printing, Reviews

LEMMA Elsewhere ==
    ASSUME NEW S, NEW s \in Seq(S), NEW k, k \notin 1 .. Len(s), NEW e
    PROVE  [s EXCEPT ![k] = e] \in Seq(S)
<1> DEFINE t == [s EXCEPT ![k] = e]
<1>1. t = [i \in 1 .. Len(s) |-> t[i]]
  OBVIOUS
<1>2. \A i \in 1 .. Len(s) : t[i] = s[i] /\ s[i] \in S
  OBVIOUS
<1>3. \A i \in 1 .. Len(s) : t[i] \in S
  BY <1>2
<1>4. Len(s) \in Nat
  OBVIOUS
<1> HIDE DEF t
<1>5. [i \in 1 .. Len(s) |-> t[i]] \in Seq(S)
  BY <1>3, <1>4
<1> QED
  BY <1>1, <1>5 DEF t

LEMMA IntakeKeeps ==
    ASSUME RequestsOK, TablesOK, IntakeNext, UNCHANGED room
    PROVE  RequestsOK' /\ TablesOK'
<1> USE DEF TablesOK
<1>1. PICK r \in Requests :
         (\E form \in Form : CheckRequest(r, form)) \/ CreateRequest(r) \/ NotifyRequestCreated(r)
  BY DEF IntakeNext
<1>2. stage' \in Machine!Stages /\ messages' \in Seq(Message)
  BY DEF room
<1>3. ASSUME NEW form \in Form, CheckRequest(r, form)
      PROVE  RequestsOK' /\ TablesOK'
  <2>1. Proceed(r, [at |-> "create", form |-> form]) /\ UNCHANGED rows
    BY <1>3 DEF CheckRequest
  <2>2. RequestsOK'
    BY <2>1, Proceeding
  <2> QED
    BY <1>2, <2>1, <2>2
<1>4. CASE CreateRequest(r)
  <2>1. request[r].form \in Form
    BY <1>4 DEF CreateRequest, RequestsOK, At
  <2>2. [form |-> request[r].form, answer |-> "none"] \in Row
    BY <2>1 DEF Row
  <2>3. rows' \in Seq(Row)
    BY <1>4, <2>2 DEF CreateRequest
  <2>4. Proceed(r, [at |-> "created", row |-> Len(rows')])
    BY <1>4 DEF CreateRequest
  <2>5. RequestsOK'
    BY <2>4, Proceeding
  <2> QED
    BY <1>2, <2>3, <2>5
<1>5. CASE NotifyRequestCreated(r)
  <2>1. PICK a \in {"created", "error"} : rows' = [rows EXCEPT ![request[r].row].answer = a]
    BY <1>5, Zenon DEF NotifyRequestCreated
  <2>2. ASSUME NEW row \in Row PROVE [row EXCEPT !.answer = a] \in Row
    BY <2>1 DEF Row
  <2>3. rows' \in Seq(Row)
    <3> DEFINE k == request[r].row
    <3>1. CASE k \in 1 .. Len(rows)
      <4> DEFINE row == [rows[k] EXCEPT !.answer = a]
      <4>1. row \in Row /\ rows' = [rows EXCEPT ![k] = row]
        BY <2>1, <2>2, <3>1
      <4> HIDE DEF row, k
      <4> QED
        BY <3>1, <4>1
    <3>2. CASE k \notin 1 .. Len(rows)
      <4> DEFINE row == [rows[k] EXCEPT !.answer = a]
      <4>1. rows' = [rows EXCEPT ![k] = row]
        BY <2>1
      <4> HIDE DEF row, k
      <4> QED
        BY <3>2, <4>1, Elsewhere
    <3> QED
      BY <3>1, <3>2
  <2>4. Proceed(r, Idle)
    BY <1>5 DEF NotifyRequestCreated, Done
  <2>5. RequestsOK'
    <3>1. Idle.at \notin {"say", "announce", "create"}
      BY DEF Idle
    <3> QED
      BY <2>4, <3>1, Proceeding
  <2> QED
    BY <1>2, <2>3, <2>5
<1> QED
  BY <1>1, <1>3, <1>4, <1>5

LEMMA Shape == Spec => [](RequestsOK /\ TablesOK)
<1>1. Init => RequestsOK /\ TablesOK
  <2> SUFFICES ASSUME Init PROVE RequestsOK /\ TablesOK
    OBVIOUS
  <2>1. \A step : step # "idle" => At(step) = {}
    BY DEF Init, InboxInit, Idle, At
  <2>2. RequestsOK
    BY <2>1 DEF RequestsOK, Init, InboxInit
  <2>3. TablesOK
    BY RoomAssumption DEF TablesOK, RoomAssumption, Init, RoomInit, IntakeInit
  <2> QED
    BY <2>2, <2>3
<1>2. (RequestsOK /\ TablesOK) /\ [Next]_vars => (RequestsOK /\ TablesOK)'
  <2> SUFFICES ASSUME RequestsOK, TablesOK, [Next]_vars PROVE (RequestsOK /\ TablesOK)'
    OBVIOUS
  <2>1. ASSUME UNCHANGED <<request, stage, messages, rows>>
        PROVE  (RequestsOK /\ TablesOK)'
    BY <2>1 DEF RequestsOK, TablesOK, At, Authors, Participants, Form, Handover,
                Machine!StageHandover, Machine!Stages
  <2>2. ASSUME RoomNext, UNCHANGED rows PROVE (RequestsOK /\ TablesOK)'
    <3>1. ASSUME NEW r \in Requests, Room(r) PROVE (RequestsOK /\ TablesOK)'
      <4>1. CASE Chat(r)
        BY <2>2, <4>1, ChatKeeps
      <4>2. CASE Moves(r)
        BY <2>2, <4>2, MoveKeeps
      <4>3. CASE Papers(r) \/ Printing(r) \/ Reviews(r) \/ Tell(r)
        <5>1. Untouched
          BY <2>2, <4>3, PapersAndReviews
        <5>2. CASE UNCHANGED request
          BY <2>1, <5>1, <5>2 DEF Untouched
        <5>3. ASSUME NEW q, Proceed(r, q), q.at \notin {"say", "announce", "create"}
              PROVE  (RequestsOK /\ TablesOK)'
          <6>1. RequestsOK'
            BY <5>3, Proceeding
          <6> QED
            BY <5>1, <6>1 DEF Untouched, TablesOK
        <5> QED
          BY <2>2, <4>3, <5>2, <5>3, PapersAndReviews
      <4> QED
        BY <3>1, <4>1, <4>2, <4>3 DEF Room
    <3> QED
      BY <2>2, <3>1 DEF RoomNext
  <2>3. ASSUME IntakeNext, UNCHANGED room PROVE (RequestsOK /\ TablesOK)'
    BY <2>3, IntakeKeeps
  <2>4. ASSUME Reading, UNCHANGED <<room, rows>> PROVE (RequestsOK /\ TablesOK)'
    BY <2>1, <2>4 DEF Reading, room
  <2>5. ASSUME NEW r \in Requests, Abandon(r), UNCHANGED <<room, rows>>
        PROVE  (RequestsOK /\ TablesOK)'
    <3>1. Proceed(r, Idle) /\ Idle.at \notin {"say", "announce", "create"}
      BY <2>5 DEF Abandon, Done, Idle
    <3>2. RequestsOK'
      BY <3>1, Proceeding
    <3> QED
      BY <2>5, <3>2 DEF room, TablesOK
  <2>6. CASE UNCHANGED vars
    BY <2>1, <2>6 DEF vars, room
  <2> QED
    BY <2>2, <2>3, <2>4, <2>5, <2>6 DEF Next
<1> QED
  BY <1>1, <1>2, PTL DEF Spec

-----------------------------------------------------------------------------
(* What is counted, and the steps that do not count.                          *)

Late == {i \in DOMAIN messages : messages[i].late}

\* A step that leaves no late message and counts nothing; a request that closes
\* the deal in it is at no message.
Quiet ==
    /\ \/ UNCHANGED outcome
       \/ outcome = "open" /\ outcome' # "open" /\ \E r \in Requests : r \notin At("say")'
    /\ Late' = Late
    /\ Len(rows') = Len(rows)
    /\ At("say")' \subseteq At("say")
    /\ At("create")' \subseteq At("create")

Counted ==
    \E r \in Requests :
       \/ UNCHANGED rows /\ ((\E u : CheckMessage(r, u)) \/ AddMessage(r))
       \/ UNCHANGED room /\ ((\E form \in Form : CheckRequest(r, form)) \/ CreateRequest(r))

LEMMA Aside ==
    ASSUME RequestsOK, NEW r \in Requests, NEW q, Proceed(r, q), q.at \notin {"say", "create"}
    PROVE  /\ At("say")' \subseteq At("say") /\ At("create")' \subseteq At("create")
           /\ r \notin At("say")'
  BY OneMoves DEF RequestsOK

LEMMA NobodyMoves ==
    ASSUME UNCHANGED request
    PROVE  At("say")' = At("say") /\ At("create")' = At("create")
  BY DEF At

LEMMA SaidInTime ==
    ASSUME TablesOK, NEW u \in Authors, NEW note \in 0 .. Handover, NEW late \in BOOLEAN,
           Say(u, note, late)
    PROVE  /\ ~late => Late' = Late
           /\ late => Late' = Late \cup {Len(messages) + 1}
<1> DEFINE m == [author |-> u, note |-> note, late |-> late, read |-> FALSE]
<1>1. messages' = Append(messages, m) /\ m.late = late
  BY DEF Say
<1>2. m \in Message /\ messages \in Seq(Message)
  BY DEF Message, TablesOK
<1> HIDE DEF m
<1>3. /\ DOMAIN messages' = DOMAIN messages \cup {Len(messages) + 1}
      /\ \A i \in DOMAIN messages : messages'[i] = messages[i]
      /\ messages'[Len(messages) + 1] = m
      /\ Len(messages) + 1 \notin DOMAIN messages
  BY <1>1, <1>2
<1> QED
  BY <1>1, <1>3 DEF Late

LEMMA Steps ==
    ASSUME RequestsOK, TablesOK, [Next]_vars
    PROVE  Counted \/ Quiet
<1>1. ASSUME UNCHANGED <<request, outcome, messages>>, Len(rows') = Len(rows)
      PROVE  Quiet
  BY <1>1, NobodyMoves DEF Quiet, Late
<1>2. ASSUME NEW r \in Requests, NEW q, Proceed(r, q), q.at \notin {"say", "create"},
             UNCHANGED <<outcome, messages>>, Len(rows') = Len(rows)
      PROVE  Quiet
  BY <1>2, Aside DEF Quiet, Late
<1>3. ASSUME NEW r \in Requests, Chat(r), UNCHANGED rows PROVE Counted \/ Quiet
  <2>1. ASSUME NEW u, Messages(r, u) PROVE Quiet
    <3>1. Proceed(r, [at |-> "mark", by |-> u]) /\ UNCHANGED room
      BY <2>1 DEF Messages
    <3> QED
      BY <1>2, <1>3, <3>1 DEF room
  <2>2. CASE MarkMessagesRead(r)
    <3>1. Proceed(r, Idle) /\ Idle.at \notin {"say", "create"} /\ UNCHANGED outcome
      BY <2>2 DEF MarkMessagesRead, Done, Idle
    <3>2. Late' = Late
      <4>1. messages' = [i \in DOMAIN messages |->
               [messages[i] EXCEPT !.read = @ \/ messages[i].author # request[r].by]]
        BY <2>2 DEF MarkMessagesRead
      <4>2. ASSUME NEW i \in DOMAIN messages PROVE messages'[i].late = messages[i].late
        <5>1. messages[i] \in Message
          BY DEF TablesOK
        <5> DEFINE b == messages[i].read \/ messages[i].author # request[r].by
        <5>2. messages'[i] = [messages[i] EXCEPT !.read = b]
          BY <4>1
        <5> HIDE DEF b
        <5> QED
          BY <5>1, <5>2 DEF Message
      <4>3. DOMAIN messages' = DOMAIN messages
        BY <4>1
      <4> QED
        BY <4>2, <4>3 DEF Late
    <3> QED
      BY <1>3, <3>1, <3>2, Aside DEF Quiet
  <2> QED
    BY <1>3, <2>1, <2>2 DEF Chat, Counted
<1>4. ASSUME NEW r \in Requests, Moves(r), UNCHANGED rows PROVE Quiet
  <2>1. ASSUME NEW u, ChangeStage(r, u) PROVE Quiet
    <3>1. Proceed(r, [at |-> "announce", by |-> u, stage |-> stage']) /\ UNCHANGED messages
      BY <2>1 DEF ChangeStage
    <3>2. UNCHANGED outcome
      BY <2>1 DEF ChangeStage, Machine!Advance, Machine!RollBack
    <3> QED
      BY <1>2, <1>4, <3>1, <3>2
  <2>2. CASE AnnounceInChat(r)
    <3> DEFINE q == [at |-> "tell", to |-> Client, kind |-> "stage", about |-> request[r].stage]
    <3>1. Proceed(r, q) /\ q.at \notin {"say", "create"} /\ UNCHANGED outcome
      BY <2>2 DEF AnnounceInChat
    <3>2. request[r].by \in Authors /\ request[r].stage \in 0 .. Handover
      BY <2>2 DEF AnnounceInChat, RequestsOK, At
    <3>3. Say(request[r].by, request[r].stage, FALSE) \/ UNCHANGED messages
      BY <2>2 DEF AnnounceInChat
    <3>4. Late' = Late
      <4>1. CASE UNCHANGED messages
        BY <4>1 DEF Late
      <4>2. CASE Say(request[r].by, request[r].stage, FALSE)
        BY <3>2, <4>2, SaidInTime
      <4> QED
        BY <3>3, <4>1, <4>2
    <3> HIDE DEF q
    <3> QED
      BY <1>4, <3>1, <3>4, Aside DEF Quiet
  <2>3. CASE CloseDeal(r)
    <3> DEFINE q == [at |-> "tell", to |-> Client, kind |-> "closed", about |-> outcome']
    <3>1. Proceed(r, q) /\ q.at \notin {"say", "create"} /\ UNCHANGED messages
      BY <2>3 DEF CloseDeal
    <3>2. outcome = "open" /\ outcome' # "open"
      BY <2>3 DEF CloseDeal, Machine!Win, Machine!Lose
    <3> HIDE DEF q
    <3> QED
      BY <1>4, <3>1, <3>2, Aside DEF Quiet, Late
  <2>4. CASE ClientRefuses(r)
    <3> DEFINE q == [at |-> "tell", to |-> DealerOfDeal, kind |-> "refused", about |-> 0]
    <3>1. Proceed(r, q) /\ q.at \notin {"say", "create"} /\ UNCHANGED messages
      BY <2>4 DEF ClientRefuses
    <3>2. UNCHANGED outcome \/ (outcome = "open" /\ outcome' # "open")
      BY <2>4 DEF ClientRefuses, Machine!Lose
    <3> HIDE DEF q
    <3> QED
      BY <1>4, <3>1, <3>2, Aside DEF Quiet, Late
  <2> QED
    BY <1>4, <2>1, <2>2, <2>3, <2>4 DEF Moves
<1>5. ASSUME NEW r \in Requests, Papers(r) \/ Printing(r) \/ Reviews(r) \/ Tell(r), UNCHANGED rows
      PROVE  Quiet
  <2>1. Untouched
    BY <1>5, PapersAndReviews
  <2>2. CASE UNCHANGED request
    BY <1>1, <2>1, <2>2 DEF Untouched
  <2>3. ASSUME NEW q, Proceed(r, q), q.at \notin {"say", "announce", "create"} PROVE Quiet
    BY <1>2, <2>1, <2>3 DEF Untouched
  <2> QED
    BY <1>5, <2>2, <2>3, PapersAndReviews
<1>6. CASE RoomNext /\ UNCHANGED rows
  BY <1>3, <1>4, <1>5, <1>6 DEF RoomNext, Room
<1>7. CASE IntakeNext /\ UNCHANGED room
  <2>1. PICK r \in Requests :
           (\E form \in Form : CheckRequest(r, form)) \/ CreateRequest(r) \/ NotifyRequestCreated(r)
    BY <1>7 DEF IntakeNext
  <2>2. CASE NotifyRequestCreated(r)
    <3>1. Proceed(r, Idle) /\ Idle.at \notin {"say", "create"} /\ UNCHANGED <<outcome, messages>>
      BY <1>7, <2>2 DEF NotifyRequestCreated, Done, Idle, room
    <3>2. PICK a \in {"created", "error"} : rows' = [rows EXCEPT ![request[r].row].answer = a]
      BY <2>2, Zenon DEF NotifyRequestCreated
    <3>3. Len(rows') = Len(rows)
      <4> DEFINE k == request[r].row
                 row == [rows[k] EXCEPT !.answer = a]
      <4>1. rows' = [rows EXCEPT ![k] = row]
        BY <3>2
      <4> HIDE DEF k, row
      <4> QED
        BY <4>1 DEF TablesOK
    <3> QED
      BY <1>2, <3>1, <3>3
  <2> QED
    BY <1>7, <2>1, <2>2 DEF Counted
<1>8. CASE Reading /\ UNCHANGED <<room, rows>>
  BY <1>1, <1>8 DEF Reading, room
<1>9. ASSUME NEW r \in Requests, Abandon(r), UNCHANGED <<room, rows>> PROVE Quiet
  <2>1. Proceed(r, Idle) /\ Idle.at \notin {"say", "create"}
    BY <1>9 DEF Abandon, Done, Idle
  <2> QED
    BY <1>2, <1>9, <2>1 DEF room
<1>10. CASE UNCHANGED vars
  BY <1>1, <1>10 DEF vars, room
<1> QED
  BY <1>6, <1>7, <1>8, <1>9, <1>10 DEF Next

-----------------------------------------------------------------------------
(* Every request that has been counted and is not yet written is in flight:   *)
(* what the limit lets through are the rows and the requests at "create".     *)
DayInv == Len(rows) + Cardinality(At("create")) < DayLimit + Cardinality(Requests)

\* A client leaves no more requests in a day than the limit and the requests
\* that were counted at the same time (the SELECT count and the INSERT of
\* service/requests.go are two statements), for any limit and any number of them.
THEOREM DayLimitIsNearlyKept == Spec => []DayLimitBound
<1>1. Init => DayInv
  <2> SUFFICES ASSUME Init PROVE DayInv
    OBVIOUS
  <2>1. At("create") = {} /\ Len(rows) = 0
    BY DEF Init, InboxInit, IntakeInit, Idle, At
  <2>2. Cardinality(At("create")) = 0 /\ Cardinality(Requests) \in Nat
    BY <2>1, AtIsFinite, FS_EmptySet
  <2> QED
    BY <2>1, <2>2, IntakeAssumption DEF DayInv, IntakeAssumption
<1>2. DayInv /\ RequestsOK /\ TablesOK /\ [Next]_vars => DayInv'
  <2> SUFFICES ASSUME DayInv, RequestsOK, TablesOK, [Next]_vars PROVE DayInv'
    OBVIOUS
  <2> DEFINE c == Cardinality(At("create"))
             n == Cardinality(Requests)
  <2>1. /\ Len(rows) \in Nat /\ DayLimit \in Nat /\ c \in Nat /\ n \in Nat
        /\ Len(rows) + c < DayLimit + n
        /\ c' \in Nat /\ c' <= n
    <3>1. c \in Nat /\ n \in Nat
      BY AtIsFinite
    <3>2. At("create")' \subseteq Requests
      BY DEF At
    <3>3. c' \in Nat /\ c' <= n
      BY <3>2, InboxAssumption, FS_Subset, FS_CardinalityType DEF InboxAssumption
    <3> QED
      BY <3>1, <3>3, IntakeAssumption DEF IntakeAssumption, DayInv, TablesOK
  <2>2. DayInv' <=> Len(rows') + c' < DayLimit + n
    BY DEF DayInv
  <2> HIDE DEF c, n
  <2>3. CASE Quiet
    <3>1. c' <= c
      BY <2>3, StayingAway DEF Quiet, c
    <3>2. Len(rows') = Len(rows)
      BY <2>3 DEF Quiet
    <3> QED
      BY <2>1, <2>2, <3>1, <3>2
  <2>4. ASSUME NEW r \in Requests, UNCHANGED rows, (\E u : CheckMessage(r, u)) \/ AddMessage(r)
        PROVE  DayInv'
    <3>1. PICK q : Proceed(r, q) /\ q.at # "create"
      <4>1. ASSUME NEW u, CheckMessage(r, u) PROVE \E q : Proceed(r, q) /\ q.at # "create"
        <5> DEFINE q == [at |-> "say", by |-> u]
        <5>1. Proceed(r, q) /\ q.at # "create"
          BY <4>1 DEF CheckMessage
        <5> QED
          BY <5>1
      <4>2. CASE AddMessage(r)
        <5> DEFINE q == [at |-> "tell", to |-> Recipient(request[r].by), kind |-> "message", about |-> 0]
        <5>1. Proceed(r, q) /\ q.at # "create"
          BY <4>2 DEF AddMessage
        <5> QED
          BY <5>1
      <4> QED
        BY <2>4, <4>1, <4>2
    <3>2. At("create")' \subseteq At("create")
      BY <3>1, OneMoves DEF RequestsOK
    <3>3. c' <= c
      BY <3>2, StayingAway DEF c
    <3> QED
      BY <2>1, <2>2, <2>4, <3>3
  <2>5. ASSUME NEW r \in Requests, NEW form \in Form, CheckRequest(r, form)
        PROVE  DayInv'
    <3>1. Len(rows) < DayLimit /\ rows' = rows
      BY <2>5 DEF CheckRequest, WithinLimit
    <3> QED
      BY <2>1, <2>2, <3>1
  <2>6. ASSUME NEW r \in Requests, CreateRequest(r)
        PROVE  DayInv'
    <3>1. Len(rows') = Len(rows) + 1
      BY <2>6 DEF CreateRequest, TablesOK
    <3>2. r \in At("create")
      BY <2>6 DEF CreateRequest, At
    <3>3. At("create")' = At("create") \ {r}
      BY <2>6, OneMoves DEF CreateRequest, RequestsOK
    <3>4. c' = c - 1
      BY <3>2, <3>3, Leaving DEF c
    <3> QED
      BY <2>1, <2>2, <3>1, <3>4
  <2> QED
    BY <2>3, <2>4, <2>5, <2>6, Steps DEF Counted
<1>3. DayInv => DayLimitBound
  <2> SUFFICES ASSUME DayInv PROVE DayLimitBound
    OBVIOUS
  <2> DEFINE c == Cardinality(At("create"))
  <2>1. c \in Nat /\ Cardinality(Requests) \in Nat /\ DayLimit \in Nat
    BY AtIsFinite, IntakeAssumption DEF IntakeAssumption
  <2>2. c = 0 \/ c >= 1
    BY <2>1
  <2> HIDE DEF c
  <2> QED
    BY <2>1 DEF DayInv, DayLimitBound, c
<1> QED
  BY <1>1, <1>2, <1>3, Shape, PTL DEF Spec

-----------------------------------------------------------------------------
(* A message can only be late if its request was past the check when the deal *)
(* was closed: those requests are still in flight, or have left a late row,   *)
(* and the request that closed the deal is none of them.                      *)
LateInv ==
    /\ outcome = "open" => Late = {}
    /\ IsFiniteSet(Late)
    /\ outcome # "open" => Cardinality(Late) + Cardinality(At("say")) < Cardinality(Requests)

\* "The chat of a closed deal is forbidden" (SendMessage) up to the messages
\* that were past the check when it was closed, for any number of requests:
\* the INSERT of AddMessage does not look at the outcome again.
THEOREM LateMessagesAreBounded == Spec => []LateBounded
<1>1. Init => LateInv
  <2> SUFFICES ASSUME Init PROVE LateInv
    OBVIOUS
  <2>1. outcome = "open" /\ Late = {}
    BY DEF Init, RoomInit, Late
  <2> QED
    BY <2>1, FS_EmptySet DEF LateInv
<1>2. LateInv /\ RequestsOK /\ TablesOK /\ [Next]_vars => LateInv'
  <2> SUFFICES ASSUME LateInv, RequestsOK, TablesOK, [Next]_vars PROVE LateInv'
    OBVIOUS
  <2> DEFINE c == Cardinality(At("say"))
             n == Cardinality(Requests)
             l == Cardinality(Late)
  <2>1. c \in Nat /\ n \in Nat /\ l \in Nat /\ (outcome # "open" => l + c < n)
    BY AtIsFinite, FS_CardinalityType DEF LateInv
  <2>2. c' \in Nat
    <3>1. At("say")' \subseteq Requests
      BY DEF At
    <3> QED
      BY <3>1, InboxAssumption, FS_Subset, FS_CardinalityType DEF InboxAssumption
  <2>3. LateInv' <=> /\ outcome' = "open" => Late' = {}
                     /\ IsFiniteSet(Late')
                     /\ outcome' # "open" => l' + c' < n
    BY DEF LateInv
  <2>4. ASSUME NEW r \in Requests, r \notin At("say")'
        PROVE  c' < n
    <3>1. At("say")' \subseteq Requests \ {r}
      BY <2>4 DEF At
    <3>2. IsFiniteSet(Requests \ {r}) /\ Cardinality(Requests \ {r}) = n - 1
      BY InboxAssumption, FS_RemoveElement DEF InboxAssumption
    <3>3. c' <= Cardinality(Requests \ {r})
      BY <3>1, <3>2, FS_Subset
    <3> HIDE DEF c, n
    <3> QED
      BY <2>1, <2>2, <3>2, <3>3
  <2> HIDE DEF c, n, l
  <2>5. ASSUME UNCHANGED outcome, Late' = Late, At("say")' \subseteq At("say")
        PROVE  LateInv'
    <3>1. c' <= c
      BY <2>5, StayingAway DEF c
    <3>2. l' = l
      BY <2>5 DEF l
    <3>3. (outcome' = "open" => Late' = {}) /\ IsFiniteSet(Late')
      BY <2>5 DEF LateInv
    <3>4. \A i, j, k, m \in Nat : i + j < m /\ k <= j => i + k < m
      OBVIOUS
    <3>5. outcome' # "open" => l' + c' < n
      BY <2>1, <2>2, <2>5, <3>1, <3>2, <3>4
    <3> QED
      BY <2>3, <3>3, <3>5
  <2>6. ASSUME outcome = "open", outcome' # "open", Late' = Late,
               NEW r \in Requests, r \notin At("say")'
        PROVE  LateInv'
    <3>1. Late' = {} /\ IsFiniteSet(Late')
      BY <2>6, FS_EmptySet DEF LateInv
    <3>2. l' = 0
      BY <3>1, FS_EmptySet DEF l
    <3>3. c' < n
      BY <2>4, <2>6
    <3> QED
      BY <2>2, <2>3, <2>6, <3>1, <3>2, <3>3
  <2>7. ASSUME NEW r \in Requests, NEW u, CheckMessage(r, u)
        PROVE  LateInv'
    <3>1. outcome = "open" /\ UNCHANGED <<messages, outcome>>
      BY <2>7 DEF CheckMessage, MayTalk, room
    <3>2. Late' = {}
      BY <3>1 DEF LateInv, Late
    <3>3. IsFiniteSet(Late')
      BY <3>2, FS_EmptySet
    <3> QED
      BY <2>3, <3>1, <3>2, <3>3
  <2>8. ASSUME NEW r \in Requests, AddMessage(r)
        PROVE  LateInv'
    <3> DEFINE q == [at |-> "tell", to |-> Recipient(request[r].by), kind |-> "message", about |-> 0]
    <3>1. r \in At("say") /\ request[r].by \in Authors
      BY <2>8 DEF AddMessage, At, RequestsOK
    <3>2. Proceed(r, q) /\ q.at # "say" /\ UNCHANGED outcome /\ Say(request[r].by, 0, outcome # "open")
      BY <2>8 DEF AddMessage
    <3> HIDE DEF q
    <3>3. At("say")' = At("say") \ {r}
      BY <3>2, OneMoves DEF RequestsOK
    <3>4. (outcome # "open") \in BOOLEAN /\ 0 \in 0 .. Handover
      BY Numbers
    <3>5. /\ outcome = "open" => Late' = Late
          /\ outcome # "open" => Late' = Late \cup {Len(messages) + 1}
      BY <3>1, <3>2, <3>4, SaidInTime
    <3>6. CASE outcome = "open"
      BY <2>5, <3>2, <3>3, <3>6, <3>5
    <3>7. CASE outcome # "open"
      <4>1. Late' = Late \cup {Len(messages) + 1}
        BY <3>7, <3>5
      <4>2. Len(messages) + 1 \notin Late
        BY DEF Late, TablesOK
      <4>3. IsFiniteSet(Late') /\ l' = l + 1
        BY <4>1, <4>2, FS_AddElement DEF LateInv, l
      <4>4. c' = c - 1
        BY <3>1, <3>3, Leaving DEF c
      <4> QED
        BY <2>1, <2>3, <3>2, <3>7, <4>3, <4>4
    <3> QED
      BY <3>6, <3>7
  <2>9. ASSUME NEW r \in Requests, NEW q, Proceed(r, q), q.at # "say", UNCHANGED room
        PROVE  LateInv'
    <3>1. At("say")' \subseteq At("say")
      BY <2>9, OneMoves DEF RequestsOK
    <3>2. Late' = Late /\ outcome' = outcome
      BY <2>9 DEF room, Late
    <3> QED
      BY <2>5, <3>1, <3>2
  <2>10. ASSUME NEW r \in Requests, NEW form \in Form, CheckRequest(r, form), UNCHANGED room
        PROVE  LateInv'
    <3>1. Proceed(r, [at |-> "create", form |-> form])
      BY <2>10 DEF CheckRequest
    <3> QED
      BY <2>9, <2>10, <3>1
  <2>11. ASSUME NEW r \in Requests, CreateRequest(r), UNCHANGED room
        PROVE  LateInv'
    <3>1. Proceed(r, [at |-> "created", row |-> Len(rows')])
      BY <2>11 DEF CreateRequest
    <3> QED
      BY <2>9, <2>11, <3>1
  <2>12. CASE Quiet
    <3>1. CASE UNCHANGED outcome
      BY <2>5, <2>12, <3>1 DEF Quiet
    <3>2. CASE outcome = "open" /\ outcome' # "open" /\ \E r \in Requests : r \notin At("say")'
      BY <2>6, <2>12, <3>2 DEF Quiet
    <3> QED
      BY <2>12, <3>1, <3>2 DEF Quiet
  <2> QED
    BY <2>7, <2>8, <2>10, <2>11, <2>12, Steps DEF Counted
<1>3. LateInv => LateBounded
  <2> SUFFICES ASSUME LateInv PROVE LateBounded
    OBVIOUS
  <2> DEFINE c == Cardinality(At("say"))
             l == Cardinality(Late)
  <2>1. c \in Nat /\ l \in Nat /\ Cardinality(Requests) \in Nat
    BY AtIsFinite, FS_CardinalityType DEF LateInv
  <2>2. outcome # "open" => l + c < Cardinality(Requests)
    BY DEF LateInv
  <2>3. LateBounded <=> l < Cardinality(Requests)
    BY DEF LateBounded, Late
  <2>4. outcome = "open" => l = 0
    BY FS_EmptySet DEF LateInv
  <2>5. Cardinality(Requests) # 0
    BY InboxAssumption, FS_EmptySet DEF InboxAssumption
  <2> HIDE DEF c, l
  <2> QED
    BY <2>1, <2>2, <2>3, <2>4, <2>5
<1> QED
  BY <1>1, <1>2, <1>3, Shape, PTL DEF Spec
-----------------------------------------------------------------------------
(* The rating of the dealer.                                                  *)

\* numeric(3,2) is off by half a hundredth at most.
LEMMA RoundedIsNear ==
    ASSUME NEW n \in Nat, NEW d \in Nat \ {0}
    PROVE  /\ Rounded(n, d) \in Nat
           /\ 2 * (Rounded(n, d) * d - n) \in - d .. d
<1> DEFINE q == Rounded(n, d)
           x == 2 * n + d
           y == 2 * d
<1>1. x \in Nat /\ y \in Nat \ {0}
  OBVIOUS
<1>2. q \in Nat /\ y * q <= x /\ x < y * q + y
  <2>1. q = x \div y
    BY DEF Rounded
  <2> HIDE DEF x, y, q
  <2> QED
    BY <1>1, <2>1
<1>3. y * q = 2 * (q * d) /\ q * d \in Nat
  BY <1>2
<1> QED
  BY <1>2, <1>3

(* What the roundings of an average can add up to: half a hundredth each,     *)
(* weighed by the reviews that were counted when it was made.                 *)
Near(avg, count, sum) == 4 * (avg * count - 100 * sum) \in - (count * (count + 1)) .. count * (count + 1)

\* One more review: the average is rounded once more.
LEMMA OneMoreRounding ==
    ASSUME NEW a \in Nat, NEW c \in Nat, NEW s \in Nat, NEW stars \in Nat, stars <= s,
           Near(a, c, s - stars)
    PROVE  LET b == Rounded(a * c + 100 * stars, c + 1) IN b \in Nat /\ Near(b, c + 1, s)
<1> DEFINE m == a * c
           n == m + 100 * stars
           b == Rounded(n, c + 1)
           p == b * (c + 1)
           x == c * (c + 1)
           y == (c + 1) * (c + 2)
<1>1. m \in Nat /\ n \in Nat /\ x \in Nat
  OBVIOUS
<1>2. b \in Nat /\ 2 * (p - n) \in - (c + 1) .. c + 1
  <2>1. n \in Nat /\ c + 1 \in Nat \ {0}
    BY <1>1
  <2> HIDE DEF n
  <2> QED
    BY <2>1, RoundedIsNear
<1>3. p \in Nat
  BY <1>2
<1>4. 4 * (m - 100 * (s - stars)) \in - x .. x
  BY DEF Near
<1>5. y = x + 2 * (c + 1)
  OBVIOUS
<1>6. 4 * (p - 100 * s) \in - y .. y
  <2>1. n = m + 100 * stars
    OBVIOUS
  <2> HIDE DEF m, n, p, x, y
  <2> QED
    BY <1>1, <1>2, <1>3, <1>4, <1>5, <2>1
<1>7. y = (c + 1) * ((c + 1) + 1)
  OBVIOUS
<1> HIDE DEF y
<1> QED
  BY <1>2, <1>6, <1>7 DEF Near

(* A new average is an average: no more than five stars.                      *)
LEMMA AverageIsBounded ==
    ASSUME NEW a \in 0 .. 500, NEW c \in Nat, NEW stars \in 1 .. 5
    PROVE  Rounded(a * c + 100 * stars, c + 1) <= 500
<1> DEFINE p == a * c
           n == p + 100 * stars
           d == c + 1
           b == Rounded(n, d)
<1>1. p \in Nat /\ p <= 500 * c
  OBVIOUS
<1>2. n \in Nat /\ n <= 500 * d /\ d \in Nat \ {0}
  <2> HIDE DEF p
  <2> QED
    BY <1>1
<1>3. b \in Nat /\ b = (2 * n + d) \div (2 * d)
  BY <1>2, RoundedIsNear DEF Rounded
<1>4. b <= 500
  <2> HIDE DEF n, d, b
  <2> DEFINE x == 2 * n + d
             y == 2 * d
  <2>1. x \in Nat /\ y \in Nat \ {0} /\ x < 501 * y
    BY <1>2
  <2>2. b = x \div y
    BY <1>3
  <2> HIDE DEF x, y
  <2>3. y * b <= x
    BY <2>1, <2>2
  <2>4. y * b < y * 501
    BY <1>3, <2>1, <2>3
  <2> QED
    BY <1>3, <2>1, <2>4
<1> QED
  BY <1>4

-----------------------------------------------------------------------------
(* The reviews before: the recursion of After has a solution, and what it     *)
(* computes is a rating.                                                      *)

LEMMA LeastElement ==
    ASSUME NEW T \in SUBSET Nat, T # {}
    PROVE  \E m \in T : \A k \in T : m <= k
<1> DEFINE Less == {pair \in Nat \X Nat : pair[1] < pair[2]}
<1>1. IsWellFoundedOn(Less, Nat)
  BY NatLessThanWellFounded DEF OpToRel
<1> HIDE DEF Less
<1>2. PICK m \in T : \A k \in T : ~(<<k, m>> \in Less)
  BY <1>1, WFMin
<1>3. ASSUME NEW k \in T PROVE m <= k
  <2>1. ~(k < m)
    BY <1>2 DEF Less
  <2> QED
    BY <2>1
<1> QED
  BY <1>3

LEMMA SetInduction ==
    ASSUME NEW T \in SUBSET Nat, 0 \in T, \A n \in T : n + 1 \in T
    PROVE  T = Nat
<1> SUFFICES ASSUME Nat \ T # {} PROVE FALSE
  OBVIOUS
<1>1. PICK m \in Nat \ T : \A k \in Nat \ T : m <= k
  BY LeastElement
<1>2. m - 1 \in T
  BY <1>1
<1> QED
  BY <1>1, <1>2

Replays(g, n, stars) == g = [i \in 0 .. n |-> IF i = 0 THEN Unreviewed ELSE OneMore(g[i - 1], stars[i])]

LEMMA ReplaysExist ==
    ASSUME NEW stars, NEW n \in Nat
    PROVE  \E g : Replays(g, n, stars)
<1> DEFINE T == {k \in Nat : \E g : Replays(g, k, stars)}
<1>1. 0 \in T
  <2> DEFINE g == [i \in 0 .. 0 |-> Unreviewed]
  <2>1. g = [i \in 0 .. 0 |-> IF i = 0 THEN Unreviewed ELSE OneMore(g[i - 1], stars[i])]
    OBVIOUS
  <2> HIDE DEF g
  <2>2. Replays(g, 0, stars)
    BY <2>1 DEF Replays
  <2> QED
    BY <2>2
<1>2. ASSUME NEW k \in T PROVE k + 1 \in T
  <2>1. PICK g : Replays(g, k, stars)
    BY <1>2
  <2>2. \A i \in 0 .. k : g[i] = IF i = 0 THEN Unreviewed ELSE OneMore(g[i - 1], stars[i])
    BY <2>1 DEF Replays
  <2> DEFINE e == OneMore(g[k], stars[k + 1])
             h == [i \in 0 .. k + 1 |-> IF i = k + 1 THEN e ELSE g[i]]
  <2>3. h[k + 1] = OneMore(h[k], stars[k + 1])
    <3>1. h[k] = g[k] /\ h[k + 1] = e
      OBVIOUS
    <3> QED
      BY <3>1
  <2>4. ASSUME NEW i \in 0 .. k
        PROVE  h[i] = IF i = 0 THEN Unreviewed ELSE OneMore(h[i - 1], stars[i])
    <3>1. h[i] = g[i] /\ (i # 0 => h[i - 1] = g[i - 1])
      OBVIOUS
    <3> HIDE DEF h
    <3> QED
      BY <2>2, <3>1
  <2>5. h = [i \in 0 .. k + 1 |-> h[i]]
    OBVIOUS
  <2> HIDE DEF h
  <2>6. \A i \in 0 .. k + 1 : h[i] = IF i = 0 THEN Unreviewed ELSE OneMore(h[i - 1], stars[i])
    BY <2>3, <2>4
  <2>7. Replays(h, k + 1, stars)
    BY <2>5, <2>6 DEF Replays
  <2> QED
    BY <2>7
<1> HIDE DEF T
<1>3. T = Nat
  BY <1>1, <1>2, SetInduction DEF T
<1> QED
  BY <1>3 DEF T

(* A rating that lacks no review, and is off by its roundings only.           *)
Sound(d) ==
    /\ d.rating.avg \in 0 .. 500 /\ d.rating.count \in Nat
    /\ d.given.sum \in Nat /\ d.given.count = d.rating.count
    /\ Near(d.rating.avg, d.rating.count, d.given.sum)

LEMMA SoundStart == Sound(Unreviewed)
  BY DEF Sound, Unreviewed, Near

LEMMA OneMoreIsSound ==
    ASSUME NEW d, Sound(d), NEW stars \in 1 .. 5
    PROVE  Sound(OneMore(d, stars))
<1> DEFINE a == d.rating.avg
           c == d.rating.count
           t == d.given.sum
           b == Rounded(a * c + 100 * stars, c + 1)
           e == OneMore(d, stars)
<1>1. e.rating.avg = b /\ e.rating.count = c + 1 /\ e.given.sum = t + stars
      /\ e.given.count = d.given.count + 1
  BY DEF OneMore, WithReview, Got
<1>2. a \in 0 .. 500 /\ c \in Nat /\ t \in Nat /\ d.given.count = c /\ Near(a, c, t)
  BY DEF Sound
<1> HIDE DEF a, c, t, e
<1>3. (t + stars) - stars = t /\ t + stars \in Nat /\ stars \in Nat /\ stars <= t + stars /\ a \in Nat
  BY <1>2
<1>4. b \in Nat /\ Near(b, c + 1, t + stars)
  <2> DEFINE s == t + stars
  <2>1. Near(a, c, s - stars) /\ s \in Nat /\ stars <= s
    BY <1>2, <1>3
  <2> HIDE DEF s
  <2>2. b \in Nat /\ Near(b, c + 1, s)
    BY <1>2, <1>3, <2>1, OneMoreRounding
  <2> QED
    BY <2>2 DEF s
<1>5. b <= 500
  BY <1>2, AverageIsBounded
<1> HIDE DEF b
<1>6. Sound(e)
  BY <1>1, <1>2, <1>3, <1>4, <1>5 DEF Sound
<1> QED
  BY <1>6 DEF e

LEMMA ReviewsBefore ==
    ASSUME NEW stars \in Seq(1 .. 5)
    PROVE  Sound(After(stars))
<1> DEFINE n == Len(stars)
           f == CHOOSE g : Replays(g, n, stars)
<1>1. n \in Nat
  OBVIOUS
<1>2. Replays(f, n, stars)
  BY <1>1, ReplaysExist
<1>3. After(stars) = f[n]
  BY DEF After, Replays
<1> HIDE DEF f
<1>4. \A i \in 0 .. n : f[i] = IF i = 0 THEN Unreviewed ELSE OneMore(f[i - 1], stars[i])
  BY <1>2 DEF Replays
<1>5. \A i \in 1 .. n : stars[i] \in 1 .. 5
  OBVIOUS
<1> HIDE DEF n
<1> DEFINE T == {i \in Nat : i <= n => Sound(f[i])}
<1>6. 0 \in T
  BY <1>1, <1>4, SoundStart
<1>7. ASSUME NEW i \in T PROVE i + 1 \in T
  <2> SUFFICES ASSUME i + 1 <= n PROVE Sound(f[i + 1])
    OBVIOUS
  <2>1. Sound(f[i]) /\ stars[i + 1] \in 1 .. 5
    BY <1>1, <1>5, <1>7
  <2>2. f[i + 1] = OneMore(f[i], stars[i + 1])
    BY <1>1, <1>4
  <2> QED
    BY <2>1, <2>2, OneMoreIsSound
<1> HIDE DEF T
<1>8. T = Nat
  BY <1>6, <1>7, SetInduction DEF T
<1> QED
  BY <1>1, <1>3, <1>8 DEF T

LEMMA RatingAtFirst == Init => Sound([rating |-> rating, given |-> given])
<1> SUFFICES ASSUME Init PROVE Sound([rating |-> rating, given |-> given])
  OBVIOUS
<1>1. PICK stars \in FirstReviews : given = After(stars).given /\ rating = After(stars).rating
  BY DEF Init, RoomInit
<1>2. Sound(After(stars))
  BY ReviewsBefore, RoomAssumption DEF RoomAssumption
<1> QED
  BY <1>1, <1>2 DEF Sound

-----------------------------------------------------------------------------
(* The one review of the deal: not there yet, never to be counted, counted,   *)
(* or on its way into the rating.                                             *)
Complete == rating.count = given.count /\ Near(rating.avg, rating.count, given.sum)
NotYet == review = 0 /\ Complete
Lacking == review # 0 /\ given.count = rating.count + 1
Included == review # 0 /\ Complete
Coming(stars) ==
    /\ Lacking /\ stars <= given.sum
    /\ Near(rating.avg, rating.count, given.sum - stars)

RatingInv ==
    /\ DOMAIN request = Requests
    /\ rating.count \in Nat /\ rating.avg \in Nat
    /\ given.count \in Nat /\ given.sum \in Nat
    /\ \A r \in At("review") \cup At("rate") : request[r].stars \in Ratings
    /\ \/ At("rate") = {} /\ (NotYet \/ Lacking \/ Included)
       \/ \E r \in Requests : At("rate") = {r} /\ Coming(request[r].stars)

(* Every other step leaves the review and the rating alone, and moves at most *)
(* one request, to a place where it has nothing to do with them.              *)
NoReview ==
    /\ UNCHANGED <<review, rating, given>>
    /\ \/ UNCHANGED request
       \/ \E r \in Requests : \E q : Proceed(r, q) /\ q.at \notin {"review", "rate"}

LEMMA ReviewSteps ==
    ASSUME [Next]_vars
    PROVE  \/ \E r \in Requests : Reviews(r)
           \/ NoReview
<1>1. ASSUME NEW r \in Requests, NEW q, Proceed(r, q), q.at \notin {"review", "rate"},
             UNCHANGED <<review, rating, given>>
      PROVE  NoReview
  BY <1>1 DEF NoReview
<1>2. Idle.at \notin {"review", "rate"}
  BY DEF Idle
<1>3. ASSUME NEW r \in Requests, Chat(r) PROVE NoReview
  <2>1. ASSUME NEW u, CheckMessage(r, u) PROVE NoReview
    <3>1. Proceed(r, [at |-> "say", by |-> u]) /\ UNCHANGED room
      BY <2>1 DEF CheckMessage
    <3> QED
      BY <1>1, <3>1 DEF room
  <2>2. ASSUME NEW u, Messages(r, u) PROVE NoReview
    <3>1. Proceed(r, [at |-> "mark", by |-> u]) /\ UNCHANGED room
      BY <2>2 DEF Messages
    <3> QED
      BY <1>1, <3>1 DEF room
  <2>3. CASE AddMessage(r)
    <3>1. Proceed(r, [at |-> "tell", to |-> Recipient(request[r].by), kind |-> "message",
                      about |-> 0])
      BY <2>3 DEF AddMessage
    <3> QED
      BY <1>1, <2>3, <3>1 DEF AddMessage
  <2>4. CASE MarkMessagesRead(r)
    BY <1>1, <1>2, <2>4 DEF MarkMessagesRead, Done
  <2> QED
    BY <1>3, <2>1, <2>2, <2>3, <2>4 DEF Chat
<1>4. ASSUME NEW r \in Requests, Moves(r) PROVE NoReview
  <2>1. ASSUME NEW u, ChangeStage(r, u) PROVE NoReview
    <3>1. Proceed(r, [at |-> "announce", by |-> u, stage |-> stage'])
      BY <2>1 DEF ChangeStage
    <3> QED
      BY <1>1, <2>1, <3>1 DEF ChangeStage
  <2>2. CASE AnnounceInChat(r)
    <3>1. Proceed(r, [at |-> "tell", to |-> Client, kind |-> "stage", about |-> request[r].stage])
      BY <2>2 DEF AnnounceInChat
    <3> QED
      BY <1>1, <2>2, <3>1 DEF AnnounceInChat
  <2>3. CASE CloseDeal(r)
    <3>1. Proceed(r, [at |-> "tell", to |-> Client, kind |-> "closed", about |-> outcome'])
      BY <2>3 DEF CloseDeal
    <3> QED
      BY <1>1, <2>3, <3>1 DEF CloseDeal
  <2>4. CASE ClientRefuses(r)
    <3>1. Proceed(r, [at |-> "tell", to |-> DealerOfDeal, kind |-> "refused", about |-> 0])
      BY <2>4 DEF ClientRefuses
    <3> QED
      BY <1>1, <2>4, <3>1 DEF ClientRefuses
  <2> QED
    BY <1>4, <2>1, <2>2, <2>3, <2>4 DEF Moves
<1>5. ASSUME NEW r \in Requests, Papers(r) PROVE NoReview
  <2>1. ASSUME NEW x, NEW visible, AddDocument(r, x, visible) PROVE NoReview
    <3>1. AfterDocument(x, visible).at \notin {"review", "rate"}
      BY DEF AfterDocument, Idle
    <3>2. Proceed(r, AfterDocument(x, visible)) /\ UNCHANGED <<review, rating, given>>
      BY <2>1 DEF AddDocument
    <3> QED
      BY <1>1, <3>1, <3>2
  <2>2. ASSUME NEW x, DeleteDocument(r, x) PROVE NoReview
    BY <2>2 DEF DeleteDocument, NoReview
  <2> QED
    BY <1>5, <2>1, <2>2 DEF Papers
<1>6. ASSUME NEW r \in Requests, Printing(r) PROVE NoReview
  <2>1. ASSUME NEW n, NEW visible, GenerateDocuments(r, n, visible) PROVE NoReview
    <3>1. Proceed(r, [at |-> "print", left |-> n, visible |-> visible, made |-> {}]) /\ UNCHANGED room
      BY <2>1 DEF GenerateDocuments
    <3> QED
      BY <1>1, <3>1 DEF room
  <2>2. CASE PrintOne(r)
    <3>1. PICK x \in Docs :
             Proceed(r, [at |-> "print", left |-> request[r].left - 1, visible |-> request[r].visible,
                         made |-> request[r].made \cup {x}])
      BY <2>2 DEF PrintOne
    <3> QED
      BY <1>1, <2>2, <3>1 DEF PrintOne
  <2>3. CASE AfterPrinting(r)
    <3> DEFINE q == IF request[r].visible
                    THEN [at |-> "tell", to |-> Client, kind |-> "forms", about |-> request[r].made]
                    ELSE Idle
    <3>1. q.at \notin {"review", "rate"}
      BY DEF Idle
    <3>2. Proceed(r, q) /\ UNCHANGED room
      BY <2>3 DEF AfterPrinting
    <3> QED
      BY <1>1, <3>1, <3>2 DEF room
  <2> QED
    BY <1>6, <2>1, <2>2, <2>3 DEF Printing
<1>7. ASSUME NEW r \in Requests, Tell(r) PROVE NoReview
  BY <1>1, <1>2, <1>7 DEF Tell, Done, room
<1>8. CASE IntakeNext /\ UNCHANGED room
  <2>1. ASSUME NEW r \in Requests, NEW form \in Form, CheckRequest(r, form) PROVE NoReview
    <3>1. Proceed(r, [at |-> "create", form |-> form])
      BY <2>1 DEF CheckRequest
    <3> QED
      BY <1>1, <1>8, <3>1 DEF room
  <2>2. ASSUME NEW r \in Requests, CreateRequest(r) PROVE NoReview
    <3>1. Proceed(r, [at |-> "created", row |-> Len(rows')])
      BY <2>2 DEF CreateRequest
    <3> QED
      BY <1>1, <1>8, <3>1 DEF room
  <2>3. ASSUME NEW r \in Requests, NotifyRequestCreated(r) PROVE NoReview
    BY <1>1, <1>2, <1>8, <2>3 DEF NotifyRequestCreated, Done, room
  <2> QED
    BY <1>8, <2>1, <2>2, <2>3 DEF IntakeNext
<1>9. CASE Reading /\ UNCHANGED <<room, rows>>
  BY <1>9 DEF Reading, room, NoReview
<1>10. ASSUME NEW r \in Requests, Abandon(r), UNCHANGED <<room, rows>> PROVE NoReview
  BY <1>1, <1>2, <1>10 DEF Abandon, Done, room
<1>11. CASE UNCHANGED vars
  BY <1>11 DEF vars, room, NoReview
<1> QED
  BY <1>3, <1>4, <1>5, <1>6, <1>7, <1>8, <1>9, <1>10, <1>11 DEF Next, RoomNext, Room

LEMMA RatingInit == Init => RatingInv
<1> SUFFICES ASSUME Init PROVE RatingInv
  OBVIOUS
<1>1. At("rate") = {} /\ At("review") = {} /\ DOMAIN request = Requests /\ review = 0
  BY DEF Init, InboxInit, RoomInit, Idle, At
<1>2. Sound([rating |-> rating, given |-> given])
  BY RatingAtFirst
<1> QED
  BY <1>1, <1>2 DEF RatingInv, NotYet, Complete, Sound

LEMMA RatingStep == RatingInv /\ [Next]_vars => RatingInv'
<1> SUFFICES ASSUME RatingInv, [Next]_vars PROVE RatingInv'
  OBVIOUS
<1>1. Ratings \subseteq 1 .. 5
  BY RoomAssumption DEF RoomAssumption
<1>2. CASE NoReview /\ UNCHANGED request
  BY <1>2 DEF NoReview, RatingInv, At, NotYet, Lacking, Included, Complete, Coming
<1>3. ASSUME NEW r \in Requests, NEW q, Proceed(r, q), q.at # "rate",
             q.at = "review" => q.stars \in Ratings, UNCHANGED <<review, rating, given>>
      PROVE  RatingInv'
  <2>1. DOMAIN request' = Requests /\ \A x \in Requests : request'[x] = IF x = r THEN q ELSE request[x]
    BY <1>3 DEF RatingInv, Proceed
  <2>2. At("rate")' = At("rate") \ {r} /\ At("review")' \subseteq At("review") \cup {r}
    BY <1>3, <2>1 DEF At
  <2>3. \A x \in At("review")' \cup At("rate")' : request'[x].stars \in Ratings
    BY <1>3, <2>1, <2>2 DEF RatingInv, At
  <2>4. CASE At("rate") = {} /\ (NotYet \/ Lacking \/ Included)
    BY <1>3, <2>1, <2>2, <2>3, <2>4 DEF RatingInv, NotYet, Lacking, Included, Complete
  <2>5. ASSUME NEW x \in Requests, At("rate") = {x}, Coming(request[x].stars)
        PROVE  RatingInv'
    <3>1. CASE x = r
      BY <1>3, <2>1, <2>2, <2>3, <2>5, <3>1 DEF RatingInv, Coming, Lacking
    <3>2. CASE x # r
      <4>1. At("rate")' = {x} /\ request'[x].stars = request[x].stars
        BY <2>1, <2>2, <2>5, <3>2
      <4>2. Coming(request[x].stars)'
        BY <1>3, <2>5, <4>1 DEF Coming, Lacking
      <4> QED
        BY <1>3, <2>1, <2>3, <4>1, <4>2 DEF RatingInv
    <3> QED
      BY <3>1, <3>2
  <2> QED
    BY <2>4, <2>5 DEF RatingInv
<1>4. ASSUME NEW r \in Requests, NEW stars \in Ratings, LeaveReview(r, stars)
      PROVE  RatingInv'
  <2>1. Proceed(r, [at |-> "review", stars |-> stars]) /\ UNCHANGED <<review, rating, given>>
    BY <1>4 DEF LeaveReview, room
  <2> QED
    BY <1>3, <2>1
<1>5. ASSUME NEW r \in Requests, InsertReview(r)
      PROVE  RatingInv'
  <2> DEFINE stars == request[r].stars
  <2>1. CASE Reviewed
    BY <1>3, <1>5, <2>1 DEF InsertReview, Done, Idle
  <2>2. CASE ~ Reviewed
    <3>1. r \in At("review") /\ stars \in Ratings
      BY <1>5 DEF InsertReview, At, RatingInv
    <3>2. At("rate") = {} /\ NotYet
      BY <2>2 DEF RatingInv, Reviewed, Lacking, Included, Coming
    <3>3. /\ review' = stars
          /\ given' = [sum |-> given.sum + stars, count |-> given.count + 1]
          /\ Proceed(r, [at |-> "rate", stars |-> stars])
          /\ UNCHANGED rating
      BY <1>5, <2>2 DEF InsertReview, Got
    <3>4. DOMAIN request' = Requests
          /\ \A x \in Requests : request'[x] = IF x = r THEN [at |-> "rate", stars |-> stars] ELSE request[x]
      BY <3>3 DEF RatingInv, Proceed
    <3>5. At("rate")' = {r} /\ At("review")' \subseteq At("review")
      BY <3>2, <3>4 DEF At
    <3>6. \A x \in At("review")' \cup At("rate")' : request'[x].stars \in Ratings
      <4>1. request'[r].stars \in Ratings
        BY <3>1, <3>4
      <4>2. ASSUME NEW x \in At("review"), x # r PROVE request'[x].stars \in Ratings
        BY <3>4, <4>2 DEF RatingInv, At
      <4> QED
        BY <3>5, <4>1, <4>2
    <3>7. request'[r].stars = stars /\ stars \in 1 .. 5
      <4>1. request'[r].stars = stars
        BY <3>4
      <4> HIDE DEF stars
      <4> QED
        BY <1>1, <3>1, <4>1
    <3>8. given'.sum = given.sum + stars /\ given'.count = given.count + 1
      BY <3>3
    <3> HIDE DEF stars
    <3>9. /\ given.sum \in Nat /\ given.count \in Nat
          /\ given'.sum - stars = given.sum /\ stars <= given'.sum
      BY <3>7, <3>8 DEF RatingInv
    <3>10. review' # 0 /\ given'.count = rating'.count + 1
      BY <3>2, <3>3, <3>7, <3>8 DEF NotYet, Complete
    <3>11. Near(rating'.avg, rating'.count, given'.sum - stars)
      BY <3>2, <3>3, <3>9 DEF NotYet, Complete
    <3>12. Coming(request[r].stars)'
      BY <3>7, <3>9, <3>10, <3>11 DEF Coming, Lacking
    <3>13. given'.sum \in Nat /\ given'.count \in Nat /\ rating'.count \in Nat /\ rating'.avg \in Nat
      BY <3>3, <3>7, <3>8, <3>9 DEF RatingInv
    <3> QED
      BY <3>4, <3>5, <3>6, <3>12, <3>13 DEF RatingInv
  <2> QED
    BY <2>1, <2>2
<1>6. ASSUME NEW r \in Requests, CountRating(r)
      PROVE  RatingInv'
  <2> DEFINE stars == request[r].stars
  <2>1. CASE UNCHANGED rating
    BY <1>3, <1>6, <2>1 DEF CountRating, Done, Idle
  <2>2. CASE ~ UNCHANGED rating
    <3>1. r \in At("rate") /\ stars \in Ratings
      BY <1>6 DEF CountRating, At, RatingInv
    <3>2. At("rate") = {r} /\ Coming(stars)
      BY <3>1 DEF RatingInv
    <3>3. /\ rating' = [avg |-> Rounded(rating.avg * rating.count + 100 * stars, rating.count + 1),
                        count |-> rating.count + 1]
          /\ Proceed(r, Idle)
          /\ UNCHANGED <<review, given>>
      BY <1>6, <2>2 DEF CountRating, WithReview, Done
    <3>4. DOMAIN request' = Requests
          /\ \A x \in Requests : request'[x] = IF x = r THEN Idle ELSE request[x]
      BY <3>3 DEF RatingInv, Proceed
    <3>5. At("rate")' = {} /\ At("review")' \subseteq At("review")
      BY <3>2, <3>4 DEF At, Idle
    <3>6. \A x \in At("review")' \cup At("rate")' : request'[x].stars \in Ratings
      BY <3>4, <3>5 DEF RatingInv, At, Idle
    <3>7. /\ rating'.count = rating.count + 1
          /\ rating'.avg = Rounded(rating.avg * rating.count + 100 * stars, rating.count + 1)
      BY <3>3
    <3> HIDE DEF stars
    <3>8. stars \in Nat
      BY <1>1, <3>1
    <3>9. rating'.avg \in Nat /\ Near(rating'.avg, rating.count + 1, given.sum)
      BY <3>2, <3>7, <3>8, OneMoreRounding DEF RatingInv, Coming
    <3>10. Included'
      BY <3>2, <3>3, <3>7, <3>9 DEF Included, Complete, Coming, Lacking
    <3> QED
      BY <3>3, <3>4, <3>5, <3>6, <3>7, <3>9, <3>10 DEF RatingInv
  <2> QED
    BY <2>1, <2>2
<1>7. CASE NoReview
  BY <1>2, <1>3, <1>7 DEF NoReview
<1> QED
  BY <1>4, <1>5, <1>6, <1>7, ReviewSteps DEF Reviews

\* However reviews race, and whether or not the UPDATE of the profile gets
\* through, the rating counts no review that is not there; and an average that
\* lacks none is off the true one by no more than its roundings add up to, which
\* is a quarter of a hundredth for each review and one more. Nothing better is
\* promised: Create of store/reviews.go rounds what it rounded before, so the
\* rating of a dealer with many reviews may be off by more than a hundredth.
THEOREM RatingsAreHonest == Spec => []RatingHonest
<1>1. RatingInv => RatingHonest
  <2> SUFFICES ASSUME RatingInv PROVE RatingHonest
    OBVIOUS
  <2>1. rating.count \in Nat /\ given.count \in Nat
    BY DEF RatingInv
  <2>2. given.count - rating.count \in 0 .. 1
    BY <2>1 DEF RatingInv, NotYet, Lacking, Included, Complete, Coming
  <2>3. ASSUME rating.count = given.count PROVE Near(rating.avg, rating.count, given.sum)
    BY <2>1, <2>3 DEF RatingInv, NotYet, Included, Complete, Lacking, Coming
  <2> QED
    BY <2>2, <2>3 DEF RatingHonest, Near
<1> QED
  BY <1>1, RatingInit, RatingStep, PTL DEF Spec

-----------------------------------------------------------------------------
(* What is told is true: it holds of a notification that is written and of    *)
(* one a request is about to write, and nothing that happens makes it false.  *)

Doc == [state : {"absent", "there", "deleted"}, visible : BOOLEAN]

RecordsOK ==
    /\ stage \in Machine!Stages
    /\ moves \in Seq(Machine!Stages)
    /\ messages \in Seq(Message)
    /\ documents \in [Docs -> Doc]

(* A document that is, or was until its deletion, the client's to open: that  *)
(* it was meant for them is never taken back.                                 *)
Shown(x, ds) == x \in Docs /\ ds[x].state # "absent" /\ ds[x].visible

Fact(n, mv, oc, ms, ds) ==
    /\ n.kind = "stage" => n.to = Client /\ \E i \in DOMAIN mv : mv[i] = n.about
    /\ n.kind = "closed" => n.to = Client /\ oc = n.about /\ oc # "open"
    /\ n.kind = "refused" => n.to = DealerOfDeal /\ oc # "open"
    /\ n.kind = "message" => \E i \in DOMAIN ms : ms[i].note = 0 /\ Recipient(ms[i].author) = n.to
    /\ n.kind = "document" => n.to = Client /\ Shown(n.about, ds)
    /\ n.kind = "forms" => n.to = Client /\ n.about # {} /\ \A x \in n.about : Shown(x, ds)

Printed(q, ds) ==
    /\ q.visible \in BOOLEAN
    /\ q.left \in Nat /\ (q.left = 0 => q.made # {})
    /\ \A x \in q.made : x \in Docs /\ ds[x].state # "absent" /\ (q.visible => ds[x].visible)

Ready(q, mv, oc, ms, ds) ==
    /\ q.at = "announce" => q.by \in Authors /\ q.stage \in Machine!Stages /\ \E i \in DOMAIN mv : mv[i] = q.stage
    /\ q.at = "say" => q.by \in Authors
    /\ q.at = "tell" => Fact(q, mv, oc, ms, ds)
    /\ q.at = "print" => Printed(q, ds)

IsNote(n) == n = [to |-> n.to, kind |-> n.kind, about |-> n.about, read |-> n.read]

NotesTrue == \A n \in inbox : IsNote(n) /\ Fact(n, moves, outcome, messages, documents)
RequestsTrue == \A r \in Requests : Ready(request[r], moves, outcome, messages, documents)

TruthInv == DOMAIN request = Requests /\ RecordsOK /\ NotesTrue /\ RequestsTrue

(* What a step keeps of what has happened.                                    *)
Grows ==
    /\ \A i \in DOMAIN moves : i \in DOMAIN moves' /\ moves'[i] = moves[i]
    /\ outcome # "open" => outcome' = outcome
    /\ \A i \in DOMAIN messages :
          /\ i \in DOMAIN messages'
          /\ messages'[i].note = messages[i].note /\ messages'[i].author = messages[i].author
    /\ \A x \in Docs : documents[x].state # "absent" =>
          documents'[x].state # "absent" /\ documents'[x].visible = documents[x].visible

LEMMA ShownStays ==
    ASSUME Grows, NEW x, Shown(x, documents)
    PROVE  Shown(x, documents')
  BY DEF Grows, Shown

LEMMA FactsStay ==
    ASSUME Grows, NEW n, Fact(n, moves, outcome, messages, documents)
    PROVE  Fact(n, moves', outcome', messages', documents')
<1>1. ASSUME n.kind = "stage"
      PROVE  n.to = Client /\ \E i \in DOMAIN moves' : moves'[i] = n.about
  BY <1>1 DEF Grows, Fact
<1>2. ASSUME n.kind = "closed" PROVE n.to = Client /\ outcome' = n.about /\ outcome' # "open"
  BY <1>2 DEF Grows, Fact
<1>3. ASSUME n.kind = "refused" PROVE n.to = DealerOfDeal /\ outcome' # "open"
  BY <1>3 DEF Grows, Fact
<1>4. ASSUME n.kind = "message"
      PROVE  \E i \in DOMAIN messages' : messages'[i].note = 0 /\ Recipient(messages'[i].author) = n.to
  <2>1. PICK i \in DOMAIN messages : messages[i].note = 0 /\ Recipient(messages[i].author) = n.to
    BY <1>4 DEF Fact
  <2> QED
    BY <2>1 DEF Grows
<1>5. ASSUME n.kind = "document" PROVE n.to = Client /\ Shown(n.about, documents')
  BY <1>5, ShownStays DEF Fact
<1>6. ASSUME n.kind = "forms"
      PROVE  n.to = Client /\ n.about # {} /\ \A x \in n.about : Shown(x, documents')
  BY <1>6, ShownStays DEF Fact
<1> QED
  BY <1>1, <1>2, <1>3, <1>4, <1>5, <1>6 DEF Fact

LEMMA ReadyStays ==
    ASSUME Grows, NEW q, Ready(q, moves, outcome, messages, documents)
    PROVE  Ready(q, moves', outcome', messages', documents')
<1>1. ASSUME q.at = "announce" PROVE \E i \in DOMAIN moves' : moves'[i] = q.stage
  BY <1>1 DEF Grows, Ready
<1>2. ASSUME q.at = "print" PROVE Printed(q, documents')
  BY <1>2 DEF Grows, Ready, Printed
<1> QED
  BY <1>1, <1>2, FactsStay DEF Ready

(* One request goes on, and what it goes on to is ready.                      *)
LEMMA TruthGoesOn ==
    ASSUME TruthInv, Grows, RecordsOK', UNCHANGED inbox,
           NEW r \in Requests, NEW q, Proceed(r, q),
           Ready(q, moves', outcome', messages', documents')
    PROVE  TruthInv'
<1>1. DOMAIN request' = Requests /\ \A x \in Requests : request'[x] = IF x = r THEN q ELSE request[x]
  BY DEF TruthInv, Proceed
<1>2. \A x \in Requests : Ready(request'[x], moves', outcome', messages', documents')
  <2> SUFFICES ASSUME NEW x \in Requests PROVE Ready(request'[x], moves', outcome', messages', documents')
    OBVIOUS
  <2>1. Ready(request[x], moves', outcome', messages', documents')
    BY ReadyStays DEF TruthInv, RequestsTrue
  <2> QED
    BY <1>1, <2>1
<1>3. \A n \in inbox' : IsNote(n) /\ Fact(n, moves', outcome', messages', documents')
  BY FactsStay DEF TruthInv, NotesTrue
<1> QED
  BY <1>1, <1>2, <1>3 DEF TruthInv, NotesTrue, RequestsTrue

(* Nobody goes on.                                                            *)
LEMMA TruthStays ==
    ASSUME TruthInv, Grows, RecordsOK', UNCHANGED <<inbox, request>>
    PROVE  TruthInv'
<1>1. \A x \in Requests : Ready(request'[x], moves', outcome', messages', documents')
  BY ReadyStays DEF TruthInv, RequestsTrue
<1>2. \A n \in inbox' : IsNote(n) /\ Fact(n, moves', outcome', messages', documents')
  BY FactsStay DEF TruthInv, NotesTrue
<1> QED
  BY <1>1, <1>2 DEF TruthInv, NotesTrue, RequestsTrue

LEMMA NothingGrows ==
    ASSUME TruthInv, UNCHANGED <<stage, outcome, moves, messages, documents>>
    PROVE  Grows /\ RecordsOK'
<1>1. Grows
  BY DEF Grows
<1>2. RecordsOK'
  BY DEF TruthInv, RecordsOK, Message, Authors, Participants, Handover, Machine!StageHandover,
         Machine!Stages, Doc
<1> QED
  BY <1>1, <1>2

(* A request that is at none of the steps that write or tell is ready.        *)
LEMMA Harmless ==
    ASSUME NEW q, q.at \notin {"announce", "say", "tell", "print"},
           NEW mv, NEW oc, NEW ms, NEW ds
    PROVE  Ready(q, mv, oc, ms, ds)
  BY DEF Ready

(* One more row at the end of a table.                                        *)
LEMMA OneMoreRow ==
    ASSUME NEW S, NEW s \in Seq(S), NEW e \in S
    PROVE  /\ Append(s, e) \in Seq(S)
           /\ DOMAIN Append(s, e) = DOMAIN s \cup {Len(s) + 1} /\ Len(s) + 1 \notin DOMAIN s
           /\ \A i \in DOMAIN s : Append(s, e)[i] = s[i]
           /\ Append(s, e)[Len(s) + 1] = e
  OBVIOUS

LEMMA MoreSaid ==
    ASSUME TruthInv, NEW u \in Authors, NEW note \in 0 .. Handover, NEW late \in BOOLEAN,
           Say(u, note, late), UNCHANGED <<stage, outcome, moves, documents>>
    PROVE  /\ Grows /\ RecordsOK'
           /\ \E i \in DOMAIN messages' : messages'[i].note = note /\ messages'[i].author = u
<1> DEFINE m == [author |-> u, note |-> note, late |-> late, read |-> FALSE]
<1>1. m \in Message /\ m.note = note /\ m.author = u
  BY DEF Message
<1>2. messages' = Append(messages, m) /\ messages \in Seq(Message)
  BY DEF Say, TruthInv, RecordsOK
<1> HIDE DEF m
<1>3. /\ messages' \in Seq(Message)
      /\ DOMAIN messages' = DOMAIN messages \cup {Len(messages) + 1}
      /\ \A i \in DOMAIN messages : messages'[i] = messages[i]
      /\ messages'[Len(messages) + 1] = m
  BY <1>1, <1>2, OneMoreRow
<1>4. Grows
  BY <1>3 DEF Grows
<1>5. RecordsOK'
  BY <1>3 DEF TruthInv, RecordsOK, Message, Authors, Participants, Handover, Machine!StageHandover,
              Machine!Stages, Doc
<1> QED
  BY <1>1, <1>3, <1>4, <1>5

-----------------------------------------------------------------------------
LEMMA ChatTruth ==
    ASSUME TruthInv, NEW r \in Requests, Chat(r)
    PROVE  TruthInv'
<1>1. ASSUME NEW u, CheckMessage(r, u) PROVE TruthInv'
  <2>1. Proceed(r, [at |-> "say", by |-> u]) /\ u \in Authors /\ UNCHANGED <<inbox, room>>
    BY <1>1 DEF CheckMessage, Authors
  <2>2. Grows /\ RecordsOK'
    BY <2>1, NothingGrows DEF room
  <2>3. Ready([at |-> "say", by |-> u], moves', outcome', messages', documents')
    BY <2>1 DEF Ready
  <2> QED
    BY <2>1, <2>2, <2>3, TruthGoesOn
<1>2. ASSUME NEW u, Messages(r, u) PROVE TruthInv'
  <2>1. Proceed(r, [at |-> "mark", by |-> u]) /\ UNCHANGED <<inbox, room>>
    BY <1>2 DEF Messages
  <2>2. Grows /\ RecordsOK'
    BY <2>1, NothingGrows DEF room
  <2>3. Ready([at |-> "mark", by |-> u], moves', outcome', messages', documents')
    BY DEF Ready
  <2> QED
    BY <2>1, <2>2, <2>3, TruthGoesOn
<1>3. CASE AddMessage(r)
  <2> DEFINE u == request[r].by
             q == [at |-> "tell", to |-> Recipient(u), kind |-> "message", about |-> 0]
  <2>1. u \in Authors /\ 0 \in 0 .. Handover /\ (outcome # "open") \in BOOLEAN
    BY <1>3, Numbers DEF AddMessage, TruthInv, RequestsTrue, Ready
  <2>2. /\ Say(u, 0, outcome # "open") /\ Proceed(r, q)
        /\ UNCHANGED <<inbox, stage, outcome, moves, documents>>
    BY <1>3 DEF AddMessage
  <2>3. /\ Grows /\ RecordsOK'
        /\ \E i \in DOMAIN messages' : messages'[i].note = 0 /\ messages'[i].author = u
    BY <2>1, <2>2, MoreSaid
  <2>4. Ready(q, moves', outcome', messages', documents')
    BY <2>3 DEF Ready, Fact
  <2> HIDE DEF q
  <2> QED
    BY <2>2, <2>3, <2>4, TruthGoesOn
<1>4. CASE MarkMessagesRead(r)
  <2>1. /\ messages' = [i \in DOMAIN messages |->
               [messages[i] EXCEPT !.read = @ \/ messages[i].author # request[r].by]]
        /\ Proceed(r, Idle) /\ UNCHANGED <<inbox, stage, outcome, moves, documents>>
    BY <1>4 DEF MarkMessagesRead, Done
  <2>2. ASSUME NEW i \in DOMAIN messages
        PROVE  messages'[i] \in Message /\ messages'[i].note = messages[i].note
               /\ messages'[i].author = messages[i].author
    <3> DEFINE m == messages[i]
               b == m.read \/ m.author # request[r].by
    <3>1. m \in Message /\ b \in BOOLEAN
      BY <2>2 DEF TruthInv, RecordsOK
    <3>2. [m EXCEPT !.read = b] = [author |-> m.author, note |-> m.note, late |-> m.late, read |-> b]
      BY <3>1 DEF Message
    <3>3. messages'[i] = [m EXCEPT !.read = b]
      BY <2>1, <2>2
    <3> HIDE DEF m, b
    <3>4. /\ [author |-> m.author, note |-> m.note, late |-> m.late, read |-> b] \in Message
          /\ [author |-> m.author, note |-> m.note, late |-> m.late, read |-> b].note = m.note
          /\ [author |-> m.author, note |-> m.note, late |-> m.late, read |-> b].author = m.author
      BY <3>1 DEF Message
    <3>5. messages'[i] \in Message /\ messages'[i].note = m.note /\ messages'[i].author = m.author
      BY <3>2, <3>3, <3>4
    <3> QED
      BY <3>5 DEF m
  <2>3. DOMAIN messages' = DOMAIN messages /\ messages' \in Seq(Message)
    <3>1. messages \in Seq(Message)
      BY DEF TruthInv, RecordsOK
    <3>2. DOMAIN messages = 1 .. Len(messages) /\ Len(messages) \in Nat
      BY <3>1
    <3>3. messages' = [i \in 1 .. Len(messages) |-> messages'[i]]
      BY <2>1, <3>2
    <3>4. \A i \in 1 .. Len(messages) : messages'[i] \in Message
      BY <2>2, <3>2
    <3>5. [i \in 1 .. Len(messages) |-> messages'[i]] \in Seq(Message)
      BY <3>2, <3>4
    <3> QED
      BY <2>1, <3>3, <3>5
  <2>4. Grows
    BY <2>1, <2>2, <2>3 DEF Grows
  <2>5. RecordsOK'
    BY <2>1, <2>3 DEF TruthInv, RecordsOK, Message, Authors, Participants, Handover,
                      Machine!StageHandover, Machine!Stages, Doc
  <2>6. Ready(Idle, moves', outcome', messages', documents')
    BY DEF Idle, Ready
  <2> QED
    BY <2>1, <2>4, <2>5, <2>6, TruthGoesOn
<1> QED
  BY <1>1, <1>2, <1>3, <1>4 DEF Chat

LEMMA MovesTruth ==
    ASSUME TruthInv, NEW r \in Requests, Moves(r)
    PROVE  TruthInv'
<1>1. ASSUME NEW u \in DealManagers, ChangeStage(r, u) PROVE TruthInv'
  <2> DEFINE to == stage'
             q == [at |-> "announce", by |-> u, stage |-> to]
  <2>1. to \in Machine!Stages /\ u \in Authors
    BY <1>1, Numbers DEF ChangeStage, Machine!Advance, Machine!RollBack, Machine!StageHandover,
                TruthInv, RecordsOK, DealManagers, Authors, Participants
  <2>2. /\ moves' = Append(moves, to) /\ Proceed(r, q)
        /\ UNCHANGED <<inbox, outcome, messages, documents>>
    BY <1>1 DEF ChangeStage, Machine!Advance, Machine!RollBack
  <2>3. /\ moves' \in Seq(Machine!Stages)
        /\ DOMAIN moves' = DOMAIN moves \cup {Len(moves) + 1}
        /\ \A i \in DOMAIN moves : moves'[i] = moves[i]
        /\ moves'[Len(moves) + 1] = to
    BY <2>1, <2>2, OneMoreRow DEF TruthInv, RecordsOK
  <2>4. Grows
    BY <2>2, <2>3 DEF Grows
  <2>5. RecordsOK'
    BY <2>1, <2>2, <2>3 DEF TruthInv, RecordsOK, Message, Authors, Participants, Handover,
                Machine!StageHandover, Machine!Stages, Doc
  <2>6. Ready(q, moves', outcome', messages', documents')
    BY <2>1, <2>3 DEF Ready
  <2> QED
    BY <2>2, <2>4, <2>5, <2>6, TruthGoesOn
<1>2. CASE AnnounceInChat(r)
  <2> DEFINE s == request[r].stage
             u == request[r].by
             q == [at |-> "tell", to |-> Client, kind |-> "stage", about |-> s]
  <2>1. /\ u \in Authors /\ s \in Machine!Stages
        /\ \E i \in DOMAIN moves : moves[i] = s
    BY <1>2 DEF AnnounceInChat, TruthInv, RequestsTrue, Ready
  <2>2. /\ Say(u, s, FALSE) \/ UNCHANGED messages
        /\ Proceed(r, q) /\ UNCHANGED <<inbox, stage, outcome, moves, documents>>
    BY <1>2 DEF AnnounceInChat
  <2>3. s \in 0 .. Handover /\ FALSE \in BOOLEAN
    BY <2>1, Numbers
  <2>4. Grows /\ RecordsOK'
    <3>1. CASE Say(u, s, FALSE)
      BY <2>1, <2>2, <2>3, <3>1, MoreSaid
    <3>2. CASE UNCHANGED messages
      BY <2>2, <3>2, NothingGrows
    <3> QED
      BY <2>2, <3>1, <3>2
  <2>5. Ready(q, moves', outcome', messages', documents')
    BY <2>1, <2>2 DEF Ready, Fact
  <2> HIDE DEF q
  <2> QED
    BY <2>2, <2>4, <2>5, TruthGoesOn
<1>3. CASE CloseDeal(r)
  <2> DEFINE oc == outcome'
             q == [at |-> "tell", to |-> Client, kind |-> "closed", about |-> oc]
  <2>1. /\ Proceed(r, q) /\ outcome = "open" /\ oc # "open"
        /\ UNCHANGED <<inbox, stage, moves, messages, documents>>
    BY <1>3 DEF CloseDeal, Machine!Win, Machine!Lose
  <2>2. Grows
    BY <2>1 DEF Grows
  <2>3. RecordsOK'
    BY <2>1 DEF TruthInv, RecordsOK, Message, Authors, Participants, Handover,
                Machine!StageHandover, Machine!Stages, Doc
  <2>4. Ready(q, moves', outcome', messages', documents')
    BY <2>1 DEF Ready, Fact
  <2> QED
    BY <2>1, <2>2, <2>3, <2>4, TruthGoesOn
<1>4. CASE ClientRefuses(r)
  <2> DEFINE q == [at |-> "tell", to |-> DealerOfDeal, kind |-> "refused", about |-> 0]
  <2>1. /\ Proceed(r, q) /\ outcome' # "open" /\ (outcome # "open" => outcome' = outcome)
        /\ UNCHANGED <<inbox, stage, moves, messages, documents>>
    BY <1>4 DEF ClientRefuses, Machine!Lose
  <2>2. Grows
    BY <2>1 DEF Grows
  <2>3. RecordsOK'
    BY <2>1 DEF TruthInv, RecordsOK, Message, Authors, Participants, Handover,
                Machine!StageHandover, Machine!Stages, Doc
  <2>4. Ready(q, moves', outcome', messages', documents')
    BY <2>1 DEF Ready, Fact
  <2> QED
    BY <2>1, <2>2, <2>3, <2>4, TruthGoesOn
<1> QED
  BY <1>1, <1>2, <1>3, <1>4 DEF Moves

(* A document is added by one statement, in a row that was not there.         *)
LEMMA Attached ==
    ASSUME TruthInv, NEW x \in Docs, NEW visible \in BOOLEAN, Attach(x, visible),
           UNCHANGED <<stage, outcome, moves, messages>>
    PROVE  /\ Grows /\ RecordsOK'
           /\ documents'[x].state # "absent" /\ documents'[x].visible = visible
<1> DEFINE d == [state |-> "there", visible |-> visible]
<1>1. d \in Doc /\ d.state = "there" /\ d.visible = visible
  BY DEF Doc
<1>2. documents[x].state = "absent" /\ documents \in [Docs -> Doc]
  BY DEF Attach, NoDoc, TruthInv, RecordsOK
<1>3. documents' = [documents EXCEPT ![x] = d]
  BY DEF Attach
<1> HIDE DEF d
<1>4. Grows
  BY <1>1, <1>2, <1>3 DEF Grows
<1>5. documents' \in [Docs -> Doc] /\ documents'[x] = d
  BY <1>1, <1>2, <1>3
<1>6. RecordsOK'
  BY <1>5 DEF TruthInv, RecordsOK, Message, Authors, Participants, Handover, Machine!StageHandover,
              Machine!Stages, Doc
<1> QED
  BY <1>1, <1>4, <1>5, <1>6

LEMMA PapersTruth ==
    ASSUME TruthInv, NEW r \in Requests, Papers(r)
    PROVE  TruthInv'
<1>1. ASSUME NEW x \in Docs, NEW visible \in BOOLEAN, AddDocument(r, x, visible) PROVE TruthInv'
  <2> DEFINE q == AfterDocument(x, visible)
  <2>1. /\ Attach(x, visible) /\ Proceed(r, q)
        /\ UNCHANGED <<inbox, stage, outcome, moves, messages>>
    BY <1>1 DEF AddDocument
  <2>2. /\ Grows /\ RecordsOK'
        /\ documents'[x].state # "absent" /\ documents'[x].visible = visible
    BY <2>1, Attached
  <2>3. Ready(q, moves', outcome', messages', documents')
    <3>1. CASE visible
      <4>1. q = [at |-> "tell", to |-> Client, kind |-> "document", about |-> x]
        BY <3>1 DEF AfterDocument
      <4>2. Shown(x, documents')
        BY <2>2, <3>1 DEF Shown
      <4> QED
        BY <4>1, <4>2 DEF Ready, Fact
    <3>2. CASE ~visible
      BY <3>2 DEF AfterDocument, Idle, Ready
    <3> QED
      BY <3>1, <3>2
  <2> HIDE DEF q
  <2> QED
    BY <2>1, <2>2, <2>3, TruthGoesOn
<1>2. ASSUME NEW x \in Docs, DeleteDocument(r, x) PROVE TruthInv'
  <2> DEFINE v == documents[x].visible
             d == [state |-> "deleted", visible |-> v]
  <2>1. documents[x] = [state |-> documents[x].state, visible |-> v] /\ v \in BOOLEAN
        /\ documents \in [Docs -> Doc]
    BY DEF TruthInv, RecordsOK, Doc
  <2>2. documents' = [documents EXCEPT ![x] = d] /\ UNCHANGED <<inbox, request, stage, outcome, moves, messages>>
    <3>1. documents' = [documents EXCEPT ![x] = [documents[x] EXCEPT !.state = "deleted"]]
          /\ UNCHANGED <<inbox, request, stage, outcome, moves, messages>>
      BY <1>2, <2>1 DEF DeleteDocument
    <3>2. [documents[x] EXCEPT !.state = "deleted"] = d
      BY <2>1
    <3> HIDE DEF d
    <3> QED
      BY <3>1, <3>2
  <2>3. d \in Doc /\ d.state # "absent" /\ d.visible = v
    BY <2>1 DEF Doc
  <2> HIDE DEF d
  <2>4. documents' \in [Docs -> Doc]
    BY <2>1, <2>2, <2>3
  <2>5. Grows
    BY <2>1, <2>2, <2>3 DEF Grows
  <2>6. RecordsOK'
    BY <2>2, <2>4 DEF TruthInv, RecordsOK, Message, Authors, Participants, Handover,
                      Machine!StageHandover, Machine!Stages, Doc
  <2> QED
    BY <2>2, <2>5, <2>6, TruthStays
<1> QED
  BY <1>1, <1>2 DEF Papers

LEMMA PrintingTruth ==
    ASSUME TruthInv, NEW r \in Requests, Printing(r)
    PROVE  TruthInv'
<1>1. ASSUME NEW n \in Batches, NEW visible \in BOOLEAN, GenerateDocuments(r, n, visible)
      PROVE  TruthInv'
  <2> DEFINE q == [at |-> "print", left |-> n, visible |-> visible, made |-> {}]
  <2>1. Proceed(r, q) /\ UNCHANGED <<inbox, room>>
    BY <1>1 DEF GenerateDocuments
  <2>2. Grows /\ RecordsOK'
    BY <2>1, NothingGrows DEF room
  <2>3. n \in Nat /\ n # 0
    BY RoomAssumption DEF RoomAssumption
  <2>4. Ready(q, moves', outcome', messages', documents')
    BY <2>3 DEF Ready, Printed
  <2> HIDE DEF q
  <2> QED
    BY <2>1, <2>2, <2>4, TruthGoesOn
<1>2. CASE PrintOne(r)
  <2> DEFINE visible == request[r].visible
  <2>1. PICK x \in Docs :
           /\ Attach(x, visible)
           /\ Proceed(r, [at |-> "print", left |-> request[r].left - 1, visible |-> visible,
                          made |-> request[r].made \cup {x}])
    BY <1>2 DEF PrintOne
  <2>2. /\ request[r].at = "print" /\ request[r].left > 0
        /\ UNCHANGED <<inbox, stage, outcome, moves, messages>>
    BY <1>2 DEF PrintOne
  <2>3. Printed(request[r], documents)
    BY <2>2 DEF TruthInv, RequestsTrue, Ready
  <2> DEFINE q == [at |-> "print", left |-> request[r].left - 1, visible |-> visible,
                   made |-> request[r].made \cup {x}]
             d == [state |-> "there", visible |-> visible]
  <2>4. documents' = [documents EXCEPT ![x] = d] /\ documents[x].state = "absent"
    BY <2>1 DEF Attach, NoDoc
  <2>5. visible \in BOOLEAN
    BY <2>3 DEF Printed
  <2>6. /\ Grows /\ RecordsOK'
        /\ documents'[x].state # "absent" /\ documents'[x].visible = visible
    BY <2>1, <2>2, <2>5, Attached
  <2>7. Printed(q, documents')
    <3>1. q.left \in Nat /\ q.made # {}
      BY <2>2, <2>3 DEF Printed
    <3>2. ASSUME NEW y \in q.made
          PROVE  y \in Docs /\ documents'[y].state # "absent" /\ (q.visible => documents'[y].visible)
      <4>1. CASE y = x
        BY <2>6, <4>1
      <4>2. CASE y \in request[r].made
        BY <2>3, <2>6, <4>2 DEF Printed, Grows
      <4> QED
        BY <3>2, <4>1, <4>2
    <3>3. q.visible \in BOOLEAN
      BY <2>5
    <3> QED
      BY <3>1, <3>2, <3>3 DEF Printed
  <2>8. Ready(q, moves', outcome', messages', documents')
    BY <2>7 DEF Ready
  <2> HIDE DEF q
  <2> QED
    BY <2>1, <2>2, <2>6, <2>8, TruthGoesOn DEF q
<1>3. CASE AfterPrinting(r)
  <2> DEFINE made == request[r].made
             q == IF request[r].visible
                  THEN [at |-> "tell", to |-> Client, kind |-> "forms", about |-> made]
                  ELSE Idle
  <2>1. Proceed(r, q) /\ UNCHANGED <<inbox, room>> /\ request[r].at = "print" /\ request[r].left = 0
    BY <1>3 DEF AfterPrinting
  <2>2. Grows /\ RecordsOK' /\ documents' = documents
    BY <2>1, NothingGrows DEF room
  <2>3. Printed(request[r], documents)
    BY <2>1 DEF TruthInv, RequestsTrue, Ready
  <2>4. Ready(q, moves', outcome', messages', documents')
    <3>1. CASE request[r].visible
      <4>1. q = [at |-> "tell", to |-> Client, kind |-> "forms", about |-> made]
        BY <3>1
      <4>2. made # {} /\ \A x \in made : Shown(x, documents')
        BY <2>1, <2>2, <2>3, <3>1 DEF Printed, Shown
      <4> HIDE DEF made, q
      <4> QED
        BY <4>1, <4>2 DEF Ready, Fact
    <3>2. CASE ~request[r].visible
      BY <3>2 DEF Idle, Ready
    <3> QED
      BY <3>1, <3>2
  <2> HIDE DEF q
  <2> QED
    BY <2>1, <2>2, <2>4, TruthGoesOn
<1> QED
  BY <1>1, <1>2, <1>3 DEF Printing

LEMMA ReviewsTruth ==
    ASSUME TruthInv, NEW r \in Requests, Reviews(r)
    PROVE  TruthInv'
<1>1. ASSUME NEW q, Proceed(r, q), q.at \in {"review", "rate", "idle"},
             UNCHANGED <<inbox, stage, outcome, moves, messages, documents>>
      PROVE  TruthInv'
  <2>1. Grows /\ RecordsOK'
    BY <1>1, NothingGrows
  <2>2. Ready(q, moves', outcome', messages', documents')
    BY <1>1 DEF Ready
  <2> QED
    BY <1>1, <2>1, <2>2, TruthGoesOn
<1>2. Idle.at = "idle"
  BY DEF Idle
<1>3. ASSUME NEW stars, LeaveReview(r, stars) PROVE TruthInv'
  <2>1. Proceed(r, [at |-> "review", stars |-> stars]) /\ UNCHANGED <<inbox, room>>
    BY <1>3 DEF LeaveReview
  <2> QED
    BY <1>1, <2>1 DEF room
<1>4. CASE InsertReview(r)
  <2>1. \/ Proceed(r, Idle)
        \/ Proceed(r, [at |-> "rate", stars |-> request[r].stars])
    BY <1>4 DEF InsertReview, Done
  <2>2. UNCHANGED <<inbox, stage, outcome, moves, messages, documents>>
    BY <1>4 DEF InsertReview
  <2> QED
    BY <1>1, <1>2, <2>1, <2>2
<1>5. CASE CountRating(r)
  BY <1>1, <1>2, <1>5 DEF CountRating, Done
<1> QED
  BY <1>3, <1>4, <1>5 DEF Reviews

(* A notification that comes in, or is marked as read.                        *)
LEMMA NotesStay ==
    ASSUME TruthInv, UNCHANGED room,
           \A n \in inbox' : \/ n \in inbox
                             \/ IsNote(n) /\ Fact(n, moves, outcome, messages, documents),
           \/ UNCHANGED request
           \/ \E r \in Requests : Proceed(r, Idle)
           \/ \E r \in Requests : \E q : Proceed(r, q) /\ q.at \in {"create", "created"}
    PROVE  TruthInv'
<1>1. UNCHANGED <<moves, outcome, messages, documents, stage>>
  BY DEF room
<1>2. RecordsOK'
  BY <1>1, NothingGrows
<1>3. \A n \in inbox' : IsNote(n) /\ Fact(n, moves', outcome', messages', documents')
  BY <1>1 DEF TruthInv, NotesTrue
<1>4. DOMAIN request' = Requests /\ \A x \in Requests : Ready(request'[x], moves', outcome', messages', documents')
  <2>1. CASE UNCHANGED request
    BY <1>1, <2>1 DEF TruthInv, RequestsTrue
  <2>2. ASSUME NEW r \in Requests, NEW q, Proceed(r, q), q.at \in {"create", "created", "idle"}
        PROVE  DOMAIN request' = Requests /\ \A x \in Requests : Ready(request'[x], moves', outcome', messages', documents')
    <3>1. DOMAIN request' = Requests /\ \A x \in Requests : request'[x] = IF x = r THEN q ELSE request[x]
      BY <2>2 DEF TruthInv, Proceed
    <3>2. Ready(q, moves', outcome', messages', documents')
      BY <2>2 DEF Ready
    <3> QED
      BY <1>1, <3>1, <3>2 DEF TruthInv, RequestsTrue
  <2>3. Idle.at = "idle"
    BY DEF Idle
  <2> QED
    BY <2>1, <2>2, <2>3
<1> QED
  BY <1>2, <1>3, <1>4 DEF TruthInv, NotesTrue, RequestsTrue

LEMMA TellTruth ==
    ASSUME TruthInv, NEW r \in Requests, Tell(r)
    PROVE  TruthInv'
<1> DEFINE q == request[r]
           n == [to |-> q.to, kind |-> q.kind, about |-> q.about, read |-> FALSE]
<1>1. q.at = "tell" /\ inbox' \in {inbox, inbox \cup {n}} /\ Proceed(r, Idle) /\ UNCHANGED room
  BY DEF Tell, Notify, Done
<1>2. Fact(q, moves, outcome, messages, documents)
  BY <1>1 DEF TruthInv, RequestsTrue, Ready
<1>3. n.to = q.to /\ n.kind = q.kind /\ n.about = q.about /\ IsNote(n)
  BY DEF IsNote
<1> HIDE DEF n, q
<1>4. Fact(n, moves, outcome, messages, documents)
  BY <1>2, <1>3 DEF Fact
<1> QED
  BY <1>1, <1>3, <1>4, NotesStay

LEMMA IntakeTruth ==
    ASSUME TruthInv, IntakeNext, UNCHANGED room
    PROVE  TruthInv'
<1>1. PICK r \in Requests :
         (\E form \in Form : CheckRequest(r, form)) \/ CreateRequest(r) \/ NotifyRequestCreated(r)
  BY DEF IntakeNext
<1>2. ASSUME NEW form \in Form, CheckRequest(r, form) PROVE TruthInv'
  <2>1. Proceed(r, [at |-> "create", form |-> form]) /\ UNCHANGED inbox
    BY <1>2 DEF CheckRequest
  <2> QED
    BY <2>1, NotesStay
<1>3. CASE CreateRequest(r)
  <2>1. Proceed(r, [at |-> "created", row |-> Len(rows')]) /\ UNCHANGED inbox
    BY <1>3 DEF CreateRequest
  <2> QED
    BY <2>1, NotesStay
<1>4. CASE NotifyRequestCreated(r)
  <2> DEFINE i == request[r].row
             n == [to |-> rows[i].form.dealer, kind |-> "request", about |-> i, read |-> FALSE]
  <2>1. Proceed(r, Idle) /\ (inbox' = inbox \/ inbox' = inbox \cup {n})
    BY <1>4 DEF NotifyRequestCreated, Notify, Done
  <2>2. IsNote(n) /\ n.kind = "request"
    BY DEF IsNote
  <2> HIDE DEF n, i
  <2>3. Fact(n, moves, outcome, messages, documents)
    BY <2>2 DEF Fact
  <2> QED
    BY <2>1, <2>2, <2>3, NotesStay
<1> QED
  BY <1>1, <1>2, <1>3, <1>4

LEMMA AfterReading ==
    ASSUME NEW n, IsNote(n)
    PROVE  LET m == [n EXCEPT !.read = TRUE] IN
           IsNote(m) /\ m.to = n.to /\ m.kind = n.kind /\ m.about = n.about
<1> DEFINE A == {n.to}
           B == {n.kind}
           C == {n.about}
           D == {n.read, TRUE}
           S == [to: A, kind: B, about: C, read: D]
           m == [n EXCEPT !.read = TRUE]
<1>1. n \in S
  BY DEF IsNote
<1>2. m \in S
  BY <1>1
<1>3. IsNote(m)
  <2> HIDE DEF A, B, C, D, m
  <2>1. m \in [to: A, kind: B, about: C, read: D]
    BY <1>2
  <2> QED
    BY <2>1 DEF IsNote
<1>4. m.to = n.to /\ m.kind = n.kind /\ m.about = n.about
  BY <1>2
<1> QED
  BY <1>3, <1>4

LEMMA ReadingTruth ==
    ASSUME TruthInv, Reading, UNCHANGED room
    PROVE  TruthInv'
<1>1. UNCHANGED request
  BY DEF Reading
<1>2. ASSUME NEW some \in SUBSET inbox, AsRead(some) PROVE TruthInv'
  <2>1. inbox' = (inbox \ some) \cup {[n EXCEPT !.read = TRUE] : n \in some}
    BY <1>2 DEF AsRead
  <2>2. ASSUME NEW n \in some
        PROVE  LET m == [n EXCEPT !.read = TRUE] IN
               IsNote(m) /\ Fact(m, moves, outcome, messages, documents)
    <3> DEFINE m == [n EXCEPT !.read = TRUE]
    <3>1. IsNote(n) /\ Fact(n, moves, outcome, messages, documents)
      BY <1>2, <2>2 DEF TruthInv, NotesTrue
    <3>2. IsNote(m) /\ m.to = n.to /\ m.kind = n.kind /\ m.about = n.about
      BY <3>1, AfterReading
    <3> HIDE DEF m
    <3>3. IsNote(m) /\ Fact(m, moves, outcome, messages, documents)
      BY <3>1, <3>2 DEF Fact
    <3> QED
      BY <3>3 DEF m
  <2>3. \A n \in inbox' : n \in inbox \/ (IsNote(n) /\ Fact(n, moves, outcome, messages, documents))
    BY <2>1, <2>2
  <2> QED
    BY <1>1, <2>3, NotesStay
<1>3. CASE DeleteOld
  <2>1. inbox' \subseteq inbox
    BY <1>3 DEF DeleteOld
  <2> QED
    BY <1>1, <2>1, NotesStay
<1>4. ASSUME NEW u, MarkAllRead(u) PROVE TruthInv'
  <2>1. Unread(u) \in SUBSET inbox /\ AsRead(Unread(u))
    BY <1>4 DEF MarkAllRead, Unread, Of
  <2> QED
    BY <1>2, <2>1
<1>5. ASSUME NEW u, NEW n \in inbox, MarkRead(u, {n}) PROVE TruthInv'
  <2>1. ({n} \cap Unread(u)) \in SUBSET inbox /\ AsRead({n} \cap Unread(u))
    BY <1>5 DEF MarkRead, Unread, Of
  <2> QED
    BY <1>2, <2>1
<1> QED
  BY <1>3, <1>4, <1>5 DEF Reading

LEMMA TruthInit == Init => TruthInv
<1> SUFFICES ASSUME Init PROVE TruthInv
  OBVIOUS
<1>1. DOMAIN request = Requests /\ inbox = {} /\ \A r \in Requests : request[r].at = "idle"
  BY DEF Init, InboxInit, Idle
<1>2. RecordsOK
  BY RoomAssumption DEF RoomAssumption, Init, RoomInit, RecordsOK, Doc, NoDoc
<1>3. RequestsTrue
  BY <1>1, Harmless DEF RequestsTrue
<1> QED
  BY <1>1, <1>2, <1>3 DEF TruthInv, NotesTrue

LEMMA TruthStep == TruthInv /\ [Next]_vars => TruthInv'
<1> SUFFICES ASSUME TruthInv, [Next]_vars PROVE TruthInv'
  OBVIOUS
<1>1. ASSUME NEW r \in Requests, Room(r) PROVE TruthInv'
  BY <1>1, ChatTruth, PapersTruth, PrintingTruth, ReviewsTruth, MovesTruth, TellTruth DEF Room
<1>2. CASE IntakeNext /\ UNCHANGED room
  BY <1>2, IntakeTruth
<1>3. CASE Reading /\ UNCHANGED <<room, rows>>
  BY <1>3, ReadingTruth
<1>4. ASSUME NEW r \in Requests, Abandon(r), UNCHANGED <<room, rows>> PROVE TruthInv'
  BY <1>4, NotesStay DEF Abandon, Done
<1>5. CASE UNCHANGED vars
  BY <1>5, NotesStay DEF vars
<1> QED
  BY <1>1, <1>2, <1>3, <1>4, <1>5 DEF Next, RoomNext

-----------------------------------------------------------------------------
(* Counting: every announcement, and every request about to make one, has a   *)
(* move of its own.                                                           *)

MovedTo(s) == {i \in DOMAIN moves : moves[i] = s}
Announcing(s) == {r \in At("announce") : request[r].stage = s}

Owed(s) ==
    Cardinality(Announcements(s)) + Cardinality(Announcing(s)) <= Cardinality(MovedTo(s))

CountInv == \A s \in Machine!Stages : Owed(s)

LEMMA TablesAreFinite ==
    ASSUME TruthInv, NEW s
    PROVE  /\ IsFiniteSet(Announcements(s)) /\ Cardinality(Announcements(s)) \in Nat
           /\ IsFiniteSet(Announcing(s)) /\ Cardinality(Announcing(s)) \in Nat
           /\ IsFiniteSet(MovedTo(s)) /\ Cardinality(MovedTo(s)) \in Nat
<1>1. Len(messages) \in Nat /\ DOMAIN messages = 1 .. Len(messages)
  BY DEF TruthInv, RecordsOK
<1>2. Len(moves) \in Nat /\ DOMAIN moves = 1 .. Len(moves)
  BY DEF TruthInv, RecordsOK
<1>3. IsFiniteSet(1 .. Len(messages)) /\ IsFiniteSet(1 .. Len(moves))
  BY <1>1, <1>2, FS_Interval
<1>4. Announcements(s) \subseteq 1 .. Len(messages)
  BY <1>1 DEF Announcements
<1>5. MovedTo(s) \subseteq 1 .. Len(moves)
  BY <1>2 DEF MovedTo
<1>6. Announcing(s) \subseteq Requests /\ IsFiniteSet(Requests)
  BY InboxAssumption DEF InboxAssumption, Announcing, At
<1>7. IsFiniteSet(Announcements(s))
  BY <1>3, <1>4, FS_Subset
<1>8. IsFiniteSet(MovedTo(s))
  BY <1>3, <1>5, FS_Subset
<1>9. IsFiniteSet(Announcing(s))
  BY <1>6, FS_Subset
<1> QED
  BY <1>7, <1>8, <1>9, FS_CardinalityType

(* Whoever goes on to something else than an announcement owes none.          *)
LEMMA NoLongerAnnouncing ==
    ASSUME TruthInv, NEW r \in Requests, NEW q, Proceed(r, q), q.at # "announce", NEW s
    PROVE  Announcing(s)' = Announcing(s) \ {r}
<1>1. DOMAIN request' = Requests /\ \A x \in Requests : request'[x] = IF x = r THEN q ELSE request[x]
  BY DEF TruthInv, Proceed
<1> QED
  BY <1>1 DEF Announcing, At

(* A step that neither moves the deal nor announces anything.                 *)
Still ==
    \A s \in Machine!Stages :
       /\ Announcements(s)' = Announcements(s)
       /\ Announcing(s)' \subseteq Announcing(s)
       /\ MovedTo(s)' = MovedTo(s)

LEMMA StillOwed ==
    ASSUME TruthInv, CountInv, Still
    PROVE  CountInv'
<1> SUFFICES ASSUME NEW s \in Machine!Stages PROVE Owed(s)'
  BY Numbers DEF CountInv, Machine!Stages, Machine!StageLead, Machine!StageHandover
<1>1. Cardinality(Announcing(s)') <= Cardinality(Announcing(s)) /\ Cardinality(Announcing(s)') \in Nat
  <2>1. Announcing(s)' \subseteq Announcing(s) /\ IsFiniteSet(Announcing(s))
    BY TablesAreFinite DEF Still
  <2> QED
    BY <2>1, FS_Subset, FS_CardinalityType
<1>2. Announcements(s)' = Announcements(s) /\ MovedTo(s)' = MovedTo(s)
  BY DEF Still
<1>3. Owed(s)
  BY DEF CountInv
<1> DEFINE a == Cardinality(Announcements(s))
           b == Cardinality(Announcing(s))
           c == Cardinality(MovedTo(s))
           d == Cardinality(Announcing(s)')
<1>4. a \in Nat /\ b \in Nat /\ c \in Nat /\ a + b <= c /\ d <= b /\ d \in Nat
  BY <1>1, <1>3, TablesAreFinite DEF Owed
<1>5. a + d <= c
  <2> HIDE DEF a, b, c, d
  <2> QED
    BY <1>4
<1> QED
  BY <1>2, <1>5 DEF Owed

LEMMA StillSteps ==
    ASSUME TruthInv, [Next]_vars
    PROVE  \/ Still
           \/ \E r \in Requests : AnnounceInChat(r) \/ \E u \in DealManagers : ChangeStage(r, u)
<1>1. ASSUME UNCHANGED <<moves, messages, request>> PROVE Still
  BY <1>1 DEF Still, Announcements, Announcing, At, MovedTo
<1>2. ASSUME NEW r \in Requests, NEW q, Proceed(r, q), q.at # "announce",
             UNCHANGED <<moves, messages>>
      PROVE  Still
  BY <1>2, NoLongerAnnouncing DEF Still, Announcements, MovedTo
<1>3. Idle.at = "idle"
  BY DEF Idle
<1>4. ASSUME NEW r \in Requests, Chat(r) PROVE Still
  <2>1. ASSUME NEW u, CheckMessage(r, u) PROVE Still
    <3>1. Proceed(r, [at |-> "say", by |-> u]) /\ UNCHANGED room
      BY <2>1 DEF CheckMessage
    <3> QED
      BY <1>2, <3>1 DEF room
  <2>2. ASSUME NEW u, Messages(r, u) PROVE Still
    <3>1. Proceed(r, [at |-> "mark", by |-> u]) /\ UNCHANGED room
      BY <2>2 DEF Messages
    <3> QED
      BY <1>2, <3>1 DEF room
  <2>3. CASE AddMessage(r)
    <3> DEFINE u == request[r].by
               late == outcome # "open"
               m == [author |-> u, note |-> 0, late |-> late, read |-> FALSE]
               q == [at |-> "tell", to |-> Recipient(u), kind |-> "message", about |-> 0]
    <3>1. Proceed(r, q) /\ q.at # "announce" /\ UNCHANGED moves
      BY <2>3 DEF AddMessage
    <3>2. messages' = Append(messages, m) /\ m.note = 0
      BY <2>3 DEF AddMessage, Say
    <3>3. messages \in Seq(Message) /\ m \in Message
      <4>1. u \in Authors /\ late \in BOOLEAN
        BY <2>3 DEF AddMessage, TruthInv, RequestsTrue, Ready
      <4> HIDE DEF late, u
      <4> QED
        BY <4>1, Numbers DEF TruthInv, RecordsOK, Message
    <3> HIDE DEF m, q
    <3>4. /\ DOMAIN messages' = DOMAIN messages \cup {Len(messages) + 1}
          /\ \A i \in DOMAIN messages : messages'[i] = messages[i]
          /\ messages'[Len(messages) + 1] = m
      BY <3>2, <3>3, OneMoreRow
    <3>5. ASSUME NEW s \in Machine!Stages PROVE Announcements(s)' = Announcements(s)
      <4>1. s # 0
        BY Numbers
      <4> QED
        BY <3>2, <3>4, <4>1 DEF Announcements
    <3>6. \A s : Announcing(s)' \subseteq Announcing(s)
      BY <3>1, NoLongerAnnouncing
    <3> QED
      BY <3>1, <3>5, <3>6 DEF Still, MovedTo
  <2>4. CASE MarkMessagesRead(r)
    <3>1. /\ messages' = [i \in DOMAIN messages |->
                 [messages[i] EXCEPT !.read = @ \/ messages[i].author # request[r].by]]
          /\ Proceed(r, Idle) /\ UNCHANGED moves
      BY <2>4 DEF MarkMessagesRead, Done
    <3>2. ASSUME NEW i \in DOMAIN messages PROVE messages'[i].note = messages[i].note
      <4> DEFINE m == messages[i]
                 b == m.read \/ m.author # request[r].by
      <4>1. m \in Message
        BY <3>2 DEF TruthInv, RecordsOK
      <4>2. messages'[i] = [m EXCEPT !.read = b]
        BY <3>1, <3>2
      <4> HIDE DEF m, b
      <4>3. [m EXCEPT !.read = b].note = m.note
        BY <4>1 DEF Message
      <4> QED
        BY <4>2, <4>3 DEF m
    <3>3. DOMAIN messages' = DOMAIN messages
      BY <3>1
    <3>4. \A s : Announcing(s)' \subseteq Announcing(s)
      BY <1>3, <3>1, NoLongerAnnouncing
    <3> QED
      BY <3>1, <3>2, <3>3, <3>4 DEF Still, MovedTo, Announcements
  <2> QED
    BY <1>4, <2>1, <2>2, <2>3, <2>4 DEF Chat
<1>5. ASSUME NEW r \in Requests, CloseDeal(r) PROVE Still
  <2>1. Proceed(r, [at |-> "tell", to |-> Client, kind |-> "closed", about |-> outcome'])
    BY <1>5 DEF CloseDeal
  <2> QED
    BY <1>2, <1>5, <2>1 DEF CloseDeal
<1>6. ASSUME NEW r \in Requests, Papers(r) PROVE Still
  <2>1. ASSUME NEW x, NEW visible, AddDocument(r, x, visible) PROVE Still
    <3>1. AfterDocument(x, visible).at # "announce"
      BY DEF AfterDocument, Idle
    <3>2. Proceed(r, AfterDocument(x, visible)) /\ UNCHANGED <<moves, messages>>
      BY <2>1 DEF AddDocument
    <3> QED
      BY <1>2, <3>1, <3>2
  <2>2. ASSUME NEW x, DeleteDocument(r, x) PROVE Still
    BY <1>1, <2>2 DEF DeleteDocument
  <2> QED
    BY <1>6, <2>1, <2>2 DEF Papers
<1>7. ASSUME NEW r \in Requests, Printing(r) PROVE Still
  <2>1. ASSUME NEW n, NEW visible, GenerateDocuments(r, n, visible) PROVE Still
    <3>1. Proceed(r, [at |-> "print", left |-> n, visible |-> visible, made |-> {}]) /\ UNCHANGED room
      BY <2>1 DEF GenerateDocuments
    <3> QED
      BY <1>2, <3>1 DEF room
  <2>2. CASE PrintOne(r)
    <3>1. PICK x \in Docs :
             Proceed(r, [at |-> "print", left |-> request[r].left - 1, visible |-> request[r].visible,
                         made |-> request[r].made \cup {x}])
      BY <2>2 DEF PrintOne
    <3> QED
      BY <1>2, <2>2, <3>1 DEF PrintOne
  <2>3. CASE AfterPrinting(r)
    <3> DEFINE q == IF request[r].visible
                    THEN [at |-> "tell", to |-> Client, kind |-> "forms", about |-> request[r].made]
                    ELSE Idle
    <3>1. q.at # "announce"
      BY DEF Idle
    <3>2. Proceed(r, q) /\ UNCHANGED room
      BY <2>3 DEF AfterPrinting
    <3> QED
      BY <1>2, <3>1, <3>2 DEF room
  <2> QED
    BY <1>7, <2>1, <2>2, <2>3 DEF Printing
<1>8. ASSUME NEW r \in Requests, Reviews(r) PROVE Still
  <2>1. ASSUME NEW stars, LeaveReview(r, stars) PROVE Still
    <3>1. Proceed(r, [at |-> "review", stars |-> stars]) /\ UNCHANGED room
      BY <2>1 DEF LeaveReview
    <3> QED
      BY <1>2, <3>1 DEF room
  <2>2. CASE InsertReview(r)
    <3>1. \/ Proceed(r, Idle)
          \/ Proceed(r, [at |-> "rate", stars |-> request[r].stars])
      BY <2>2 DEF InsertReview, Done
    <3>2. UNCHANGED <<moves, messages>>
      BY <2>2 DEF InsertReview
    <3> QED
      BY <1>2, <1>3, <3>1, <3>2
  <2>3. CASE CountRating(r)
    BY <1>2, <1>3, <2>3 DEF CountRating, Done
  <2> QED
    BY <1>8, <2>1, <2>2, <2>3 DEF Reviews
<1>9. ASSUME NEW r \in Requests, Tell(r) PROVE Still
  BY <1>2, <1>3, <1>9 DEF Tell, Done, room
<1>10. ASSUME NEW r \in Requests, ClientRefuses(r) PROVE Still
  <2>1. Proceed(r, [at |-> "tell", to |-> DealerOfDeal, kind |-> "refused", about |-> 0])
    BY <1>10 DEF ClientRefuses
  <2> QED
    BY <1>2, <1>10, <2>1 DEF ClientRefuses
<1>11. CASE IntakeNext /\ UNCHANGED room
  <2>1. ASSUME NEW r \in Requests, NEW form \in Form, CheckRequest(r, form) PROVE Still
    <3>1. Proceed(r, [at |-> "create", form |-> form])
      BY <2>1 DEF CheckRequest
    <3> QED
      BY <1>2, <1>11, <3>1 DEF room
  <2>2. ASSUME NEW r \in Requests, CreateRequest(r) PROVE Still
    <3>1. Proceed(r, [at |-> "created", row |-> Len(rows')])
      BY <2>2 DEF CreateRequest
    <3> QED
      BY <1>2, <1>11, <3>1 DEF room
  <2>3. ASSUME NEW r \in Requests, NotifyRequestCreated(r) PROVE Still
    BY <1>2, <1>3, <1>11, <2>3 DEF NotifyRequestCreated, Done, room
  <2> QED
    BY <1>11, <2>1, <2>2, <2>3 DEF IntakeNext
<1>12. CASE Reading /\ UNCHANGED <<room, rows>>
  BY <1>1, <1>12 DEF Reading, room
<1>13. ASSUME NEW r \in Requests, Abandon(r), UNCHANGED <<room, rows>> PROVE Still
  BY <1>2, <1>3, <1>13 DEF Abandon, Done, room
<1>14. CASE UNCHANGED vars
  BY <1>1, <1>14 DEF vars, room
<1> QED
  BY <1>4, <1>5, <1>6, <1>7, <1>8, <1>9, <1>10, <1>11, <1>12, <1>13, <1>14
     DEF Next, RoomNext, Room, Moves

(* The move and the request that is to announce it are counted together.      *)
LEMMA MoveOwes ==
    ASSUME TruthInv, TruthInv', CountInv, NEW r \in Requests, NEW u \in DealManagers, ChangeStage(r, u)
    PROVE  CountInv'
<1> SUFFICES ASSUME NEW s \in Machine!Stages PROVE Owed(s)'
  BY Numbers DEF CountInv, Machine!Stages, Machine!StageLead, Machine!StageHandover
<1> DEFINE to == stage'
           q == [at |-> "announce", by |-> u, stage |-> to]
           k == Len(moves) + 1
<1>1. /\ to \in Machine!Stages
      /\ moves' = Append(moves, to) /\ Proceed(r, q) /\ UNCHANGED messages
      /\ request[r].at = "idle"
  BY Numbers DEF ChangeStage, Start, Machine!Advance, Machine!RollBack, Machine!StageHandover,
                 TruthInv, RecordsOK
<1>2. /\ DOMAIN moves' = DOMAIN moves \cup {k} /\ k \notin DOMAIN moves
      /\ \A i \in DOMAIN moves : moves'[i] = moves[i]
      /\ moves'[k] = to
  BY <1>1, OneMoreRow DEF TruthInv, RecordsOK
<1>3. DOMAIN request' = Requests /\ \A x \in Requests : request'[x] = IF x = r THEN q ELSE request[x]
  BY <1>1 DEF TruthInv, Proceed
<1>4. q.at = "announce" /\ q.stage = to
  OBVIOUS
<1> HIDE DEF to, q, k
<1>5. Announcements(s)' = Announcements(s)
  BY <1>1 DEF Announcements
<1>6. Owed(s)
  BY DEF CountInv
<1>7. CASE to = s
  <2>1. MovedTo(s)' = MovedTo(s) \cup {k} /\ k \notin MovedTo(s)
    BY <1>2, <1>7 DEF MovedTo
  <2>2. Announcing(s)' = Announcing(s) \cup {r} /\ r \notin Announcing(s)
    BY <1>1, <1>3, <1>4, <1>7 DEF Announcing, At
  <2>3. Cardinality(MovedTo(s)') = Cardinality(MovedTo(s)) + 1
    BY <2>1, TablesAreFinite, FS_AddElement
  <2>4. Cardinality(Announcing(s)') = Cardinality(Announcing(s)) + 1
    BY <2>2, TablesAreFinite, FS_AddElement
  <2> DEFINE a == Cardinality(Announcements(s))
             b == Cardinality(Announcing(s))
             c == Cardinality(MovedTo(s))
  <2>5. a \in Nat /\ b \in Nat /\ c \in Nat /\ a + b <= c
    BY <1>6, TablesAreFinite DEF Owed
  <2>6. a + (b + 1) <= c + 1
    <3> HIDE DEF a, b, c
    <3> QED
      BY <2>5
  <2> QED
    BY <1>5, <2>3, <2>4, <2>6 DEF Owed
<1>8. CASE to # s
  <2>1. MovedTo(s)' = MovedTo(s)
    BY <1>2, <1>8 DEF MovedTo
  <2>2. Announcing(s)' = Announcing(s)
    BY <1>1, <1>3, <1>4, <1>8 DEF Announcing, At
  <2> QED
    BY <1>5, <1>6, <2>1, <2>2 DEF Owed
<1> QED
  BY <1>7, <1>8

(* The announcement takes the place of the request that owed it.              *)
LEMMA AnnouncementPays ==
    ASSUME TruthInv, TruthInv', CountInv, NEW r \in Requests, AnnounceInChat(r)
    PROVE  CountInv'
<1> SUFFICES ASSUME NEW s \in Machine!Stages PROVE Owed(s)'
  BY Numbers DEF CountInv, Machine!Stages, Machine!StageLead, Machine!StageHandover
<1> DEFINE to == request[r].stage
           u == request[r].by
           m == [author |-> u, note |-> to, late |-> FALSE, read |-> FALSE]
           q == [at |-> "tell", to |-> Client, kind |-> "stage", about |-> to]
           k == Len(messages) + 1
<1>1. /\ request[r].at = "announce"
      /\ messages' = Append(messages, m) \/ UNCHANGED messages
      /\ Proceed(r, q) /\ UNCHANGED moves
  BY DEF AnnounceInChat, Say
<1>2. m \in Message /\ m.note = to
  <2>1. u \in Authors /\ to \in Machine!Stages
    BY <1>1 DEF TruthInv, RequestsTrue, Ready
  <2> HIDE DEF u, to
  <2> QED
    BY <2>1, Numbers DEF Message
<1>3. q.at # "announce"
  OBVIOUS
<1> HIDE DEF m, q, k
<1>4. Announcing(s)' = Announcing(s) \ {r}
  BY <1>1, <1>3, NoLongerAnnouncing
<1>5. MovedTo(s)' = MovedTo(s)
  BY <1>1 DEF MovedTo
<1>6. Announcements(s)' = Announcements(s)
      \/ (to = s /\ Announcements(s)' = Announcements(s) \cup {k})
  <2>1. CASE UNCHANGED messages
    BY <2>1 DEF Announcements
  <2>2. CASE messages' = Append(messages, m)
    <3>1. /\ DOMAIN messages' = DOMAIN messages \cup {k}
          /\ \A i \in DOMAIN messages : messages'[i] = messages[i]
          /\ messages'[k] = m
      BY <1>2, <2>2, OneMoreRow DEF TruthInv, RecordsOK, k
    <3> QED
      BY <1>2, <3>1 DEF Announcements
  <2> QED
    BY <1>1, <2>1, <2>2
<1> DEFINE a == Cardinality(Announcements(s))
           b == Cardinality(Announcing(s))
           c == Cardinality(MovedTo(s))
           e == Cardinality(Announcements(s)')
           d == Cardinality(Announcing(s)')
<1>7. a \in Nat /\ b \in Nat /\ c \in Nat /\ a + b <= c
  BY TablesAreFinite DEF CountInv, Owed
<1>8. d \in Nat /\ d <= b /\ (to = s => d = b - 1)
  <2>1. d <= b /\ d \in Nat
    BY <1>4, TablesAreFinite, FS_Subset, FS_CardinalityType
  <2>2. to = s => r \in Announcing(s)
    BY <1>1 DEF Announcing, At
  <2>3. to = s => d = b - 1
    BY <1>4, <2>2, TablesAreFinite, FS_RemoveElement
  <2> QED
    BY <2>1, <2>3
<1>9. e = a \/ (to = s /\ e <= a + 1 /\ e \in Nat)
  <2>1. CASE Announcements(s)' = Announcements(s)
    BY <2>1
  <2>2. CASE to = s /\ Announcements(s)' = Announcements(s) \cup {k}
    <3>1. Cardinality(Announcements(s) \cup {k}) \in {a, a + 1}
      BY TablesAreFinite, FS_AddElement
    <3>2. e \in {a, a + 1}
      BY <2>2, <3>1
    <3> HIDE DEF e, a
    <3> QED
      BY <1>7, <2>2, <3>2
  <2> QED
    BY <1>6, <2>1, <2>2
<1>10. e + d <= c
  <2> HIDE DEF a, b, c, d, e
  <2> QED
    BY <1>7, <1>8, <1>9
<1> QED
  BY <1>5, <1>10 DEF Owed

\* Every announcement in the chat is of a move of its own, committed before it,
\* and every notification of a deal tells the right side of something that
\* happened: for any number of participants' requests, of documents and of
\* moves, though each is written in a statement of its own after the change it
\* tells of, and may be left out or overtaken by another (the callers of
\* AddSystemMessage and notify in service/pipeline.go). A document the client is
\* told of was meant for them and opens, or has been deleted since
\* (DocumentForDownload and DeleteDocument of store/deal_comms.go).
THEOREM WhatIsToldIsTrue == Spec => []TellsTruth
<1>1. Init => TruthInv /\ CountInv
  <2> SUFFICES ASSUME Init PROVE TruthInv /\ CountInv
    OBVIOUS
  <2>1. TruthInv
    BY TruthInit
  <2>2. ASSUME NEW s \in Machine!Stages PROVE Owed(s)
    <3>1. Announcements(s) = {}
      BY DEF Init, RoomInit, Announcements
    <3>2. Announcing(s) = {}
      BY DEF Init, InboxInit, Idle, Announcing, At
    <3>3. MovedTo(s) = {}
      BY DEF Init, RoomInit, MovedTo
    <3> QED
      BY <3>1, <3>2, <3>3, FS_EmptySet DEF Owed
  <2> QED
    BY <2>1, <2>2 DEF CountInv
<1>2. (TruthInv /\ CountInv) /\ [Next]_vars => (TruthInv /\ CountInv)'
  <2> SUFFICES ASSUME TruthInv, CountInv, [Next]_vars PROVE TruthInv' /\ CountInv'
    OBVIOUS
  <2>1. TruthInv'
    BY TruthStep
  <2> QED
    BY <2>1, StillSteps, StillOwed, MoveOwes, AnnouncementPays
<1>3. TruthInv /\ CountInv => TellsTruth
  <2> SUFFICES ASSUME TruthInv, CountInv PROVE TellsTruth
    OBVIOUS
  <2>1. ASSUME NEW s \in Machine!Stages
        PROVE  Cardinality(Announcements(s)) <= Cardinality({i \in DOMAIN moves : moves[i] = s})
    <3> DEFINE a == Cardinality(Announcements(s))
               b == Cardinality(Announcing(s))
               c == Cardinality(MovedTo(s))
    <3>1. a \in Nat /\ b \in Nat /\ c \in Nat /\ a + b <= c
      BY TablesAreFinite DEF CountInv, Owed
    <3>2. a <= c
      <4> HIDE DEF a, b, c
      <4> QED
        BY <3>1
    <3> QED
      BY <3>2 DEF MovedTo
  <2>2. ASSUME NEW n \in inbox
        PROVE  /\ n.kind = "stage" => n.to = Client /\ \E i \in DOMAIN moves : moves[i] = n.about
               /\ n.kind = "closed" => n.to = Client /\ outcome = n.about
               /\ n.kind = "refused" => n.to = DealerOfDeal /\ outcome # "open"
               /\ n.kind = "message" => \E i \in DOMAIN messages :
                      messages[i].note = 0 /\ Recipient(messages[i].author) = n.to
               /\ n.kind = "document" => n.to = Client /\ Opened(n.about)
               /\ n.kind = "forms" => n.to = Client /\ n.about # {} /\ \A x \in n.about : Opened(x)
    <3>1. Fact(n, moves, outcome, messages, documents)
      BY <2>2 DEF TruthInv, NotesTrue
    <3>2. ASSUME NEW x, Shown(x, documents) PROVE Opened(x)
      BY <3>2 DEF Shown, Opened, CanSee, TruthInv, RecordsOK, Doc
    <3> QED
      BY <3>1, <3>2 DEF Fact
  <2> QED
    BY <2>1, <2>2 DEF TellsTruth
<1> QED
  BY <1>1, <1>2, <1>3, PTL DEF Spec

-----------------------------------------------------------------------------
(* Types: who is written to, and the numbers of the deal and of the rating.   *)

Addressee(q, table) ==
    /\ q.at = "tell" => q.to \in People
    /\ q.at = "created" => q.row \in DOMAIN table

AddressesOK ==
    /\ DOMAIN request = Requests
    /\ \A r \in Requests : Addressee(request[r], rows)
    /\ \A n \in inbox : n.to \in People /\ n.read \in BOOLEAN

NumbersOK ==
    /\ outcome \in Machine!Outcomes
    /\ review \in Ratings \cup {0}
    /\ rating.avg <= 500

LEMMA SomePeople == Client \in People /\ DealerOfDeal \in People /\ Dealers \subseteq People
  BY RoomAssumption DEF RoomAssumption, People, Managers

(* A request that goes on, tells people of a row that is there.               *)
LEMMA AddressesGoOn ==
    ASSUME AddressesOK, NEW r \in Requests, NEW q, Proceed(r, q), Addressee(q, rows'),
           DOMAIN rows \subseteq DOMAIN rows',
           \A n \in inbox' : n \in inbox \/ (n.to \in People /\ n.read \in BOOLEAN)
    PROVE  AddressesOK'
<1>1. DOMAIN request' = Requests /\ \A x \in Requests : request'[x] = IF x = r THEN q ELSE request[x]
  BY DEF AddressesOK, Proceed
<1>2. People' = People
  BY DEF People, Managers
<1>3. ASSUME NEW x \in Requests PROVE Addressee(request'[x], rows')
  BY <1>1, <1>2, <1>3 DEF AddressesOK, Addressee
<1> QED
  BY <1>1, <1>2, <1>3 DEF AddressesOK

LEMMA AddressesStay ==
    ASSUME AddressesOK, NEW r \in Requests, NEW q, Proceed(r, q), UNCHANGED <<rows, inbox>>,
           q.at = "tell" => q.to \in People, q.at # "created"
    PROVE  AddressesOK'
<1>1. Addressee(q, rows')
  BY DEF Addressee, People, Managers
<1> QED
  BY <1>1, AddressesGoOn

LEMMA NobodyGoesOn ==
    ASSUME AddressesOK, UNCHANGED <<request, rows>>,
           \A n \in inbox' : n \in inbox \/ (n.to \in People /\ n.read \in BOOLEAN)
    PROVE  AddressesOK'
  BY DEF AddressesOK, Addressee, People, Managers

LEMMA ChatAddresses ==
    ASSUME AddressesOK, NEW r \in Requests, Chat(r), UNCHANGED rows
    PROVE  AddressesOK'
<1>1. ASSUME NEW u, CheckMessage(r, u) PROVE AddressesOK'
  <2>1. Proceed(r, [at |-> "say", by |-> u]) /\ UNCHANGED inbox
    BY <1>1 DEF CheckMessage
  <2> QED
    BY <2>1, AddressesStay
<1>2. ASSUME NEW u, Messages(r, u) PROVE AddressesOK'
  <2>1. Proceed(r, [at |-> "mark", by |-> u]) /\ UNCHANGED inbox
    BY <1>2 DEF Messages
  <2> QED
    BY <2>1, AddressesStay
<1>3. CASE AddMessage(r)
  <2> DEFINE to == Recipient(request[r].by)
             q == [at |-> "tell", to |-> to, kind |-> "message", about |-> 0]
  <2>1. Proceed(r, q) /\ UNCHANGED inbox
    BY <1>3 DEF AddMessage
  <2>2. q.at = "tell" /\ q.to = to /\ to \in People
    BY SomePeople DEF Recipient
  <2> HIDE DEF q
  <2> QED
    BY <2>1, <2>2, AddressesStay
<1>4. CASE MarkMessagesRead(r)
  BY <1>4, AddressesStay DEF MarkMessagesRead, Done, Idle
<1> QED
  BY <1>1, <1>2, <1>3, <1>4 DEF Chat

LEMMA MovesAddresses ==
    ASSUME AddressesOK, NEW r \in Requests, Moves(r) \/ Tell(r), UNCHANGED rows
    PROVE  AddressesOK'
<1>1. ASSUME NEW u, ChangeStage(r, u) PROVE AddressesOK'
  <2>1. Proceed(r, [at |-> "announce", by |-> u, stage |-> stage']) /\ UNCHANGED inbox
    BY <1>1 DEF ChangeStage
  <2> QED
    BY <2>1, AddressesStay
<1>2. CASE AnnounceInChat(r)
  <2>1. /\ Proceed(r, [at |-> "tell", to |-> Client, kind |-> "stage", about |-> request[r].stage])
        /\ UNCHANGED inbox
    BY <1>2 DEF AnnounceInChat
  <2> QED
    BY <2>1, SomePeople, AddressesStay
<1>3. CASE CloseDeal(r)
  <2>1. /\ Proceed(r, [at |-> "tell", to |-> Client, kind |-> "closed", about |-> outcome'])
        /\ UNCHANGED inbox
    BY <1>3 DEF CloseDeal
  <2> QED
    BY <2>1, SomePeople, AddressesStay
<1>4. CASE ClientRefuses(r)
  <2>1. /\ Proceed(r, [at |-> "tell", to |-> DealerOfDeal, kind |-> "refused", about |-> 0])
        /\ UNCHANGED inbox
    BY <1>4 DEF ClientRefuses
  <2> QED
    BY <2>1, SomePeople, AddressesStay
<1>5. CASE Tell(r)
  <2> DEFINE q == request[r]
             n == [to |-> q.to, kind |-> q.kind, about |-> q.about, read |-> FALSE]
  <2>1. q.at = "tell" /\ inbox' \in {inbox, inbox \cup {n}} /\ Proceed(r, Idle)
    BY <1>5 DEF Tell, Notify, Done
  <2>2. n.to \in People /\ n.read \in BOOLEAN
    BY <2>1 DEF AddressesOK, Addressee
  <2>3. Addressee(Idle, rows')
    BY DEF Addressee, Idle
  <2> HIDE DEF n, q
  <2> QED
    BY <2>1, <2>2, <2>3, AddressesGoOn
<1> QED
  BY <1>1, <1>2, <1>3, <1>4, <1>5 DEF Moves

LEMMA PapersAddresses ==
    ASSUME AddressesOK, NEW r \in Requests, Papers(r) \/ Printing(r) \/ Reviews(r), UNCHANGED rows
    PROVE  AddressesOK'
<1>1. ASSUME NEW x, NEW visible, AddDocument(r, x, visible) PROVE AddressesOK'
  <2> DEFINE q == AfterDocument(x, visible)
  <2>1. (q.at = "tell" => q.to \in People) /\ q.at # "created"
    BY SomePeople DEF AfterDocument, Idle
  <2>2. Proceed(r, q) /\ UNCHANGED inbox
    BY <1>1 DEF AddDocument
  <2> HIDE DEF q
  <2> QED
    BY <2>1, <2>2, AddressesStay
<1>2. ASSUME NEW x, DeleteDocument(r, x) PROVE AddressesOK'
  BY <1>2, NobodyGoesOn DEF DeleteDocument
<1>3. ASSUME NEW n, NEW visible, GenerateDocuments(r, n, visible) PROVE AddressesOK'
  <2>1. Proceed(r, [at |-> "print", left |-> n, visible |-> visible, made |-> {}]) /\ UNCHANGED inbox
    BY <1>3 DEF GenerateDocuments
  <2> QED
    BY <2>1, AddressesStay
<1>4. CASE PrintOne(r)
  <2>1. PICK x \in Docs :
           Proceed(r, [at |-> "print", left |-> request[r].left - 1, visible |-> request[r].visible,
                       made |-> request[r].made \cup {x}])
    BY <1>4 DEF PrintOne
  <2>2. UNCHANGED inbox
    BY <1>4 DEF PrintOne
  <2> QED
    BY <2>1, <2>2, AddressesStay
<1>5. CASE AfterPrinting(r)
  <2> DEFINE q == IF request[r].visible
                  THEN [at |-> "tell", to |-> Client, kind |-> "forms", about |-> request[r].made]
                  ELSE Idle
  <2>1. (q.at = "tell" => q.to \in People) /\ q.at # "created"
    BY SomePeople DEF Idle
  <2>2. Proceed(r, q) /\ UNCHANGED inbox
    BY <1>5 DEF AfterPrinting
  <2> HIDE DEF q
  <2> QED
    BY <2>1, <2>2, AddressesStay
<1>6. ASSUME NEW stars, LeaveReview(r, stars) PROVE AddressesOK'
  <2>1. Proceed(r, [at |-> "review", stars |-> stars]) /\ UNCHANGED inbox
    BY <1>6 DEF LeaveReview
  <2> QED
    BY <2>1, AddressesStay
<1>7. CASE InsertReview(r) \/ CountRating(r)
  <2>1. Idle.at \notin {"tell", "created"}
    BY DEF Idle
  <2>2. /\ Proceed(r, Idle) \/ Proceed(r, [at |-> "rate", stars |-> request[r].stars])
        /\ UNCHANGED inbox
    BY <1>7 DEF InsertReview, CountRating, Done
  <2> QED
    BY <2>1, <2>2, AddressesStay
<1> QED
  BY <1>1, <1>2, <1>3, <1>4, <1>5, <1>6, <1>7 DEF Papers, Printing, Reviews

(* The addressee of a notification of a new request is the one of its form.   *)
LEMMA IntakeAddresses ==
    ASSUME AddressesOK, RequestsOK, TablesOK, IntakeNext
    PROVE  AddressesOK'
<1>1. PICK r \in Requests :
         (\E form \in Form : CheckRequest(r, form)) \/ CreateRequest(r) \/ NotifyRequestCreated(r)
  BY DEF IntakeNext
<1>2. ASSUME NEW form \in Form, CheckRequest(r, form) PROVE AddressesOK'
  <2>1. Proceed(r, [at |-> "create", form |-> form]) /\ UNCHANGED <<inbox, rows>>
    BY <1>2 DEF CheckRequest
  <2> QED
    BY <2>1, AddressesStay
<1>3. CASE CreateRequest(r)
  <2> DEFINE row == [form |-> request[r].form, answer |-> "none"]
             q == [at |-> "created", row |-> Len(rows')]
  <2>1. rows' = Append(rows, row) /\ Proceed(r, q) /\ UNCHANGED inbox
    BY <1>3 DEF CreateRequest
  <2>2. DOMAIN rows = 1 .. Len(rows) /\ DOMAIN rows' = 1 .. Len(rows) + 1
        /\ Len(rows') = Len(rows) + 1 /\ Len(rows) \in Nat
    BY <2>1 DEF TablesOK
  <2>3. q.at = "created" /\ q.row \in DOMAIN rows'
    BY <2>2
  <2>4. Addressee(q, rows')
    BY <2>3 DEF Addressee
  <2> HIDE DEF q
  <2> QED
    BY <2>1, <2>2, <2>4, AddressesGoOn
<1>4. CASE NotifyRequestCreated(r)
  <2> DEFINE i == request[r].row
             form == rows[i].form
             n == [to |-> form.dealer, kind |-> "request", about |-> i, read |-> FALSE]
  <2>1. i \in DOMAIN rows
    BY <1>4 DEF NotifyRequestCreated, AddressesOK, Addressee
  <2>2. form \in Form
    <3>1. rows[i] \in Row
      BY <2>1 DEF TablesOK
    <3> QED
      BY <3>1 DEF Row
  <2>3. form.dealer \in Dealers \cup {NoDealer}
    <3> HIDE DEF form
    <3> QED
      BY <2>2 DEF Form
  <2>4. /\ inbox' = inbox \/ (form.dealer # NoDealer /\ inbox' \in {inbox, inbox \cup {n}})
        /\ Proceed(r, Idle)
    BY <1>4 DEF NotifyRequestCreated, Notify, Done
  <2>5. DOMAIN rows' = DOMAIN rows
    BY <1>4 DEF NotifyRequestCreated
  <2>6. \A m \in inbox' : m \in inbox \/ (m.to \in People /\ m.read \in BOOLEAN)
    <3>1. n.to = form.dealer /\ n.read = FALSE
      OBVIOUS
    <3> HIDE DEF n, form
    <3> QED
      BY <2>3, <2>4, <3>1, SomePeople
  <2>7. Addressee(Idle, rows')
    BY DEF Addressee, Idle
  <2> HIDE DEF n, form, i
  <2> QED
    BY <2>4, <2>5, <2>6, <2>7, AddressesGoOn
<1> QED
  BY <1>1, <1>2, <1>3, <1>4

LEMMA ReadingAddresses ==
    ASSUME AddressesOK, TruthInv, Reading, UNCHANGED rows
    PROVE  AddressesOK'
<1>1. UNCHANGED request
  BY DEF Reading
<1>2. ASSUME NEW some \in SUBSET inbox, AsRead(some) PROVE AddressesOK'
  <2>1. inbox' = (inbox \ some) \cup {[n EXCEPT !.read = TRUE] : n \in some}
    BY <1>2 DEF AsRead
  <2>2. ASSUME NEW n \in some
        PROVE  [n EXCEPT !.read = TRUE].to \in People /\ [n EXCEPT !.read = TRUE].read \in BOOLEAN
    <3>1. IsNote(n) /\ n.to \in People
      BY <1>2, <2>2 DEF TruthInv, NotesTrue, AddressesOK
    <3>2. [n EXCEPT !.read = TRUE].read = TRUE
      BY <3>1 DEF IsNote
    <3>3. [n EXCEPT !.read = TRUE].to = n.to
      BY <3>1, AfterReading
    <3> QED
      BY <3>1, <3>2, <3>3
  <2>3. \A n \in inbox' : n \in inbox \/ (n.to \in People /\ n.read \in BOOLEAN)
    BY <2>1, <2>2
  <2> QED
    BY <1>1, <2>3, NobodyGoesOn
<1>3. CASE DeleteOld
  <2>1. inbox' \subseteq inbox
    BY <1>3 DEF DeleteOld
  <2> QED
    BY <1>1, <2>1, NobodyGoesOn
<1>4. ASSUME NEW u, MarkAllRead(u) PROVE AddressesOK'
  <2>1. Unread(u) \in SUBSET inbox /\ AsRead(Unread(u))
    BY <1>4 DEF MarkAllRead, Unread, Of
  <2> QED
    BY <1>2, <2>1
<1>5. ASSUME NEW u, NEW n \in inbox, MarkRead(u, {n}) PROVE AddressesOK'
  <2>1. ({n} \cap Unread(u)) \in SUBSET inbox /\ AsRead({n} \cap Unread(u))
    BY <1>5 DEF MarkRead, Unread, Of
  <2> QED
    BY <1>2, <2>1
<1> QED
  BY <1>3, <1>4, <1>5 DEF Reading

LEMMA AddressesStep ==
    ASSUME AddressesOK, RequestsOK, TablesOK, TruthInv, [Next]_vars
    PROVE  AddressesOK'
<1>1. ASSUME NEW r \in Requests, Room(r), UNCHANGED rows PROVE AddressesOK'
  BY <1>1, ChatAddresses, MovesAddresses, PapersAddresses DEF Room
<1>2. CASE IntakeNext
  BY <1>2, IntakeAddresses
<1>3. CASE Reading /\ UNCHANGED rows
  BY <1>3, ReadingAddresses
<1>4. ASSUME NEW r \in Requests, Abandon(r), UNCHANGED rows PROVE AddressesOK'
  BY <1>4, AddressesStay DEF Abandon, Done, Idle
<1>5. CASE UNCHANGED vars
  BY <1>5, NobodyGoesOn DEF vars
<1> QED
  BY <1>1, <1>2, <1>3, <1>4, <1>5 DEF Next, RoomNext

-----------------------------------------------------------------------------
LEMMA OutcomeStep == outcome \in Machine!Outcomes /\ [Next]_vars => outcome' \in Machine!Outcomes
<1> SUFFICES ASSUME outcome \in Machine!Outcomes, [Next]_vars PROVE outcome' \in Machine!Outcomes
  OBVIOUS
<1>1. ASSUME NEW r \in Requests, Chat(r) PROVE UNCHANGED outcome
  BY <1>1 DEF Chat, CheckMessage, Messages, AddMessage, MarkMessagesRead, room
<1>2. ASSUME NEW r \in Requests, Papers(r) \/ Printing(r) \/ Reviews(r) \/ Tell(r), UNCHANGED rows
      PROVE  UNCHANGED outcome
  BY <1>2, PapersAndReviews DEF Untouched
<1>3. ASSUME NEW r \in Requests, Moves(r) PROVE outcome' \in Machine!Outcomes
  BY <1>3 DEF Moves, ChangeStage, AnnounceInChat, CloseDeal, ClientRefuses, Machine!Advance, Machine!RollBack,
              Machine!Win, Machine!Lose, Machine!Outcomes
<1>4. UNCHANGED room => UNCHANGED outcome
  BY DEF room
<1>5. UNCHANGED vars => UNCHANGED outcome
  BY DEF vars, room
<1> QED
  BY <1>1, <1>2, <1>3, <1>4, <1>5 DEF Next, RoomNext, Room

LEMMA NumbersStep ==
    ASSUME NumbersOK, RatingInv, [Next]_vars
    PROVE  NumbersOK'
<1>1. outcome' \in Machine!Outcomes
  BY OutcomeStep DEF NumbersOK
<1>2. CASE NoReview
  BY <1>1, <1>2 DEF NumbersOK, NoReview
<1>3. ASSUME NEW r \in Requests, Reviews(r)
      PROVE  review' \in Ratings \cup {0} /\ rating'.avg <= 500
  <2> DEFINE stars == request[r].stars
  <2>1. ASSUME NEW s, LeaveReview(r, s) PROVE UNCHANGED <<review, rating>>
    BY <2>1 DEF LeaveReview, room
  <2>2. CASE InsertReview(r)
    <3>1. stars \in Ratings /\ review' \in {review, stars} /\ UNCHANGED rating
      BY <2>2 DEF InsertReview, RatingInv, At
    <3> QED
      BY <3>1 DEF NumbersOK
  <2>3. CASE CountRating(r)
    <3>1. stars \in Ratings /\ UNCHANGED review
      BY <2>3 DEF CountRating, RatingInv, At
    <3>2. stars \in 1 .. 5
      BY <3>1, RoomAssumption DEF RoomAssumption
    <3>3. rating.avg \in 0 .. 500 /\ rating.count \in Nat
      BY DEF NumbersOK, RatingInv
    <3>4. \/ UNCHANGED rating
          \/ rating'.avg = Rounded(rating.avg * rating.count + 100 * stars, rating.count + 1)
      BY <2>3 DEF CountRating, WithReview
    <3> HIDE DEF stars
    <3>5. Rounded(rating.avg * rating.count + 100 * stars, rating.count + 1) <= 500
      BY <3>2, <3>3, AverageIsBounded
    <3>6. rating'.avg <= 500
      <4> DEFINE new == Rounded(rating.avg * rating.count + 100 * stars, rating.count + 1)
      <4>1. new <= 500 /\ (rating' = rating \/ rating'.avg = new)
        BY <3>4, <3>5
      <4> HIDE DEF new
      <4> QED
        BY <4>1 DEF NumbersOK
    <3> QED
      BY <3>1, <3>6 DEF NumbersOK
  <2> QED
    BY <1>3, <2>1, <2>2, <2>3 DEF Reviews, NumbersOK
<1> QED
  BY <1>1, <1>2, <1>3, ReviewSteps DEF NumbersOK

LEMMA ServedStep == served \in 0 .. MaxServed /\ [Next]_vars => served' \in 0 .. MaxServed
<1> SUFFICES ASSUME served \in 0 .. MaxServed, [Next]_vars PROVE served' \in 0 .. MaxServed
  OBVIOUS
<1>1. ASSUME NEW r, Start(r) PROVE served' \in 0 .. MaxServed
  BY <1>1, InboxAssumption DEF Start, InboxAssumption
<1>2. ASSUME NEW r \in Requests, Room(r) PROVE UNCHANGED served \/ Start(r)
  <2>1. Chat(r) => UNCHANGED served \/ Start(r)
    BY DEF Chat, CheckMessage, Messages, AddMessage, MarkMessagesRead
  <2>2. Papers(r) \/ Printing(r) => UNCHANGED served \/ Start(r)
    BY DEF Papers, DeleteDocument, AddDocument, Printing, GenerateDocuments, PrintOne, AfterPrinting
  <2>3. Reviews(r) \/ Moves(r) \/ Tell(r) => UNCHANGED served \/ Start(r)
    BY DEF Reviews, LeaveReview, InsertReview, CountRating, Moves, ChangeStage, AnnounceInChat,
           CloseDeal, ClientRefuses, Tell
  <2> QED
    BY <1>2, <2>1, <2>2, <2>3 DEF Room
<1>3. Reading \/ UNCHANGED vars => UNCHANGED served
  BY DEF Reading, vars
<1>4. ASSUME NEW r, Abandon(r) PROVE UNCHANGED served
  BY <1>4 DEF Abandon
<1>5. CASE IntakeNext
  <2>1. PICK r \in Requests : UNCHANGED served \/ Start(r)
    BY <1>5 DEF IntakeNext, CheckRequest, CreateRequest, NotifyRequestCreated
  <2> QED
    BY <1>1, <2>1
<1> QED
  BY <1>1, <1>2, <1>3, <1>4, <1>5 DEF Next, RoomNext

\* Whatever is written and read at the same time, the tables hold rows of
\* their types, a notification is addressed to a user, and the average that
\* CountRating rounds again with every review stays within five stars: the
\* constraint dealer_rating_range never refuses it (store/reviews.go, and
\* notifyRequestCreated of service/requests.go).
THEOREM CorrespondenceTyping == Spec => []TypeOK
<1>1. Init => AddressesOK /\ NumbersOK /\ served \in 0 .. MaxServed
  <2> SUFFICES ASSUME Init PROVE AddressesOK /\ NumbersOK /\ served \in 0 .. MaxServed
    OBVIOUS
  <2>1. AddressesOK
    BY DEF Init, InboxInit, Idle, AddressesOK, Addressee
  <2>2. served \in 0 .. MaxServed
    BY InboxAssumption DEF InboxAssumption, Init, InboxInit
  <2>3. rating.avg <= 500
    BY RatingAtFirst DEF Sound
  <2>4. outcome \in Machine!Outcomes /\ review = 0
    BY DEF Init, RoomInit, Machine!Outcomes
  <2> QED
    BY <2>1, <2>2, <2>3, <2>4 DEF NumbersOK
<1>2. /\ RequestsOK /\ TablesOK /\ TruthInv /\ RatingInv
      /\ AddressesOK /\ NumbersOK /\ served \in 0 .. MaxServed /\ [Next]_vars
      => (AddressesOK /\ NumbersOK /\ served \in 0 .. MaxServed)'
  BY AddressesStep, NumbersStep, ServedStep
<1>3. /\ TablesOK /\ TruthInv /\ RatingInv
      /\ AddressesOK /\ NumbersOK /\ served \in 0 .. MaxServed
      => TypeOK
  <2> SUFFICES ASSUME TablesOK, TruthInv, RatingInv, AddressesOK, NumbersOK, served \in 0 .. MaxServed
               PROVE  TypeOK
    OBVIOUS
  <2>1. /\ stage \in Machine!Stages /\ moves \in Seq(Machine!Stages)
        /\ messages \in Seq(Message) /\ documents \in [Docs -> Doc]
    BY DEF TruthInv, RecordsOK
  <2>2. rating.count \in Nat /\ rating.avg \in 0 .. 500
    BY DEF RatingInv, NumbersOK
  <2>3. RoomTypeOK
    BY <2>1, <2>2 DEF RoomTypeOK, NumbersOK, Message, Authors, Doc
  <2>4. IntakeTypeOK
    BY DEF IntakeTypeOK, TablesOK, Row
  <2> QED
    BY <2>3, <2>4 DEF TypeOK, AddressesOK
<1> QED
  BY <1>1, <1>2, <1>3, Shape, TruthInit, TruthStep, RatingInit, RatingStep, PTL DEF Spec
=============================================================================
