------------------------------ MODULE DealRoom -------------------------------
(* What the participants of one deal share: the chat, the documents and the   *)
(* review (store/deal_comms.go, store/reviews.go and the second half of       *)
(* service/pipeline.go). The deal moves as StageMachine promises, which       *)
(* DealPipeline is shown to keep.                                             *)
(*                                                                            *)
(* A handler loads the deal, judges the copy, writes one row and then tells   *)
(* the other side: each is a statement of its own.                            *)
EXTENDS Inbox

CONSTANTS DealerOfDeal, \* the dealer of the deal
          Docs,         \* identifiers of documents
          Batches,      \* how many printed forms may be asked for at once
          Ratings,      \* stars a client may give
          FirstStages,  \* stages the deal may be at
          FirstReviews  \* stars of the reviews the dealer may have already, in their order

VARIABLES stage, outcome, \* the deal
          moves,     \* stages the deal was moved to, in the order of the commits
          messages,  \* rows of deal_messages, in the order of their ids
          documents, \* rows of deal_documents
          review,    \* the row of reviews, 0 while there is none
          rating,    \* rating_avg in hundredths and rating_count of the profile
          given      \* history: the reviews the dealer has got

room == <<stage, outcome, moves, messages, documents, review, rating, given>>

Machine == INSTANCE StageMachine
Handover == Machine!StageHandover
Participants == {Client, DealerOfDeal}
DealManagers == {DealerOfDeal, Admin}
NoDoc == [state |-> "absent", visible |-> FALSE]

ASSUME RoomAssumption ==
    /\ DealerOfDeal \in Dealers /\ FirstStages \subseteq Machine!Stages
    /\ Ratings \subseteq 1 .. 5 /\ Batches \subseteq Nat \ {0}
    /\ FirstReviews \subseteq Seq(1 .. 5)

\* Mutant of Rounded: the average is taken over the reviews before this one.
RoundedByOldCount(n, d) == LET old == IF d = 1 THEN 1 ELSE d - 1 IN (2 * n + old) \div (2 * old)

\* numeric(3,2): rounded to hundredths, half away from zero.
Rounded(n, d) == (2 * n + d) \div (2 * d)

\* The UPDATE of Create reads the average that is stored, which was rounded
\* when the review before this one was counted.
WithReview(r, stars) ==
    [avg |-> Rounded(r.avg * r.count + 100 * stars, r.count + 1), count |-> r.count + 1]
Got(g, stars) == [sum |-> g.sum + stars, count |-> g.count + 1]

Unreviewed == [rating |-> [avg |-> 0, count |-> 0], given |-> [sum |-> 0, count |-> 0]]
OneMore(d, stars) == [rating |-> WithReview(d.rating, stars), given |-> Got(d.given, stars)]

\* A dealer's rating, and what it was made of, after reviews that were all counted.
After(stars) ==
    LET f[n \in 0 .. Len(stars)] == IF n = 0 THEN Unreviewed ELSE OneMore(f[n - 1], stars[n])
    IN f[Len(stars)]

RoomInit ==
    /\ stage \in FirstStages /\ outcome = "open"
    /\ moves = <<>> /\ messages = <<>>
    /\ documents = [x \in Docs |-> NoDoc]
    /\ review = 0
    /\ \E stars \in FirstReviews : given = After(stars).given /\ rating = After(stars).rating

-----------------------------------------------------------------------------
(* Moves of the deal, and what is said of them.                               *)

\* The transaction of ChangeStage; the announcement comes after its commit.
ChangeStage(r, u) ==
    /\ Start(r)
    /\ Machine!Advance \/ Machine!RollBack
    /\ moves' = Append(moves, stage')
    /\ Proceed(r, [at |-> "announce", by |-> u, stage |-> stage'])
    /\ UNCHANGED <<inbox, messages, documents, review, rating, given>>

Say(u, note, late) ==
    messages' = Append(messages, [author |-> u, note |-> note, late |-> late, read |-> FALSE])

\* AddSystemMessage does not look at the deal; its error is logged.
AnnounceInChat(r) ==
    LET q == request[r] IN
    /\ q.at = "announce"
    /\ Say(q.by, q.stage, FALSE) \/ UNCHANGED messages
    /\ Proceed(r, [at |-> "tell", to |-> Client, kind |-> "stage", about |-> q.stage])
    /\ UNCHANGED <<inbox, served, stage, outcome, moves, documents, review, rating, given>>

\* The transaction of CloseDeal.
CloseDeal(r) ==
    /\ Start(r)
    /\ Machine!Win \/ Machine!Lose
    /\ Proceed(r, [at |-> "tell", to |-> Client, kind |-> "closed", about |-> outcome'])
    /\ UNCHANGED <<inbox, moves, messages, documents, review, rating, given>>

\* The client refuses the dealer, whose claim stands while the deal is open or
\* won: an open deal is lost. The dealer is told after the transaction. The
\* claim itself is in RequestClaims; refusing once more is allowed here.
ClientRefuses(r) ==
    /\ Start(r)
    /\ Machine!Lose \/ (outcome = "won" /\ UNCHANGED <<stage, outcome>>)
    /\ Proceed(r, [at |-> "tell", to |-> DealerOfDeal, kind |-> "refused", about |-> 0])
    /\ UNCHANGED <<inbox, moves, messages, documents, review, rating, given>>

\* The last statement of a handler.
Tell(r) ==
    LET q == request[r] IN
    /\ q.at = "tell" /\ Notify(q.to, q.kind, q.about) /\ Done(r)
    /\ UNCHANGED <<served, room>>

-----------------------------------------------------------------------------
(* The chat. *)

\* Mutant of MayTalk: a closed deal keeps its chat.
MayTalkAlways == TRUE

\* The chat of a closed deal is over.
MayTalk == outcome = "open"

CheckMessage(r, u) ==
    /\ Start(r)
    /\ u \in Participants \cup {Admin} /\ MayTalk
    /\ Proceed(r, [at |-> "say", by |-> u])
    /\ UNCHANGED <<inbox, room>>

\* Both the dealer and an administrator are read by the client alone.
Recipient(u) == IF u = Client THEN DealerOfDeal ELSE Client

\* The INSERT looks at the participants again, and not at the outcome.
AddMessage(r) ==
    LET u == request[r].by IN
    /\ request[r].at = "say"
    /\ Say(u, 0, outcome # "open")
    /\ Proceed(r, [at |-> "tell", to |-> Recipient(u), kind |-> "message", about |-> 0])
    /\ UNCHANGED <<inbox, served, stage, outcome, moves, documents, review, rating, given>>

\* GET messages: a page is read, and then everything others wrote is marked.
Messages(r, u) ==
    /\ Start(r)
    /\ u \in Participants \cup {Admin}
    /\ Proceed(r, [at |-> "mark", by |-> u])
    /\ UNCHANGED <<inbox, room>>

MarkMessagesRead(r) ==
    /\ request[r].at = "mark"
    /\ messages' = [i \in DOMAIN messages |->
           [messages[i] EXCEPT !.read = @ \/ messages[i].author # request[r].by]]
    /\ Done(r)
    /\ UNCHANGED <<inbox, served, stage, outcome, moves, documents, review, rating, given>>

-----------------------------------------------------------------------------
(* Documents and the review. *)

\* Mutant of AfterDocument: the client hears of every document.
AfterDocumentAlways(x, visible) == [at |-> "tell", to |-> Client, kind |-> "document", about |-> x]

\* The client hears of a document they may see.
AfterDocument(x, visible) ==
    IF visible THEN [at |-> "tell", to |-> Client, kind |-> "document", about |-> x] ELSE Idle

Attach(x, visible) ==
    /\ documents[x] = NoDoc
    /\ documents' = [documents EXCEPT ![x] = [state |-> "there", visible |-> visible]]

AddDocument(r, x, visible) ==
    /\ Start(r)
    /\ Attach(x, visible)
    /\ Proceed(r, AfterDocument(x, visible))
    /\ UNCHANGED <<inbox, stage, outcome, moves, messages, review, rating, given>>

DeleteDocument(r, x) ==
    /\ Start(r)
    /\ documents[x].state = "there"
    /\ documents' = [documents EXCEPT ![x].state = "deleted"]
    /\ UNCHANGED <<inbox, request, stage, outcome, moves, messages, review, rating, given>>

\* The forms to print are chosen and filled in from a copy of the deal.
GenerateDocuments(r, n, visible) ==
    /\ Start(r)
    /\ Proceed(r, [at |-> "print", left |-> n, visible |-> visible, made |-> {}])
    /\ UNCHANGED <<inbox, room>>

\* One form, one row. A failure in the middle (Abandon) leaves the rows before
\* it, and the client is told of none.
PrintOne(r) ==
    LET q == request[r] IN
    /\ q.at = "print" /\ q.left > 0
    /\ \E x \in Docs :
          /\ Attach(x, q.visible)
          /\ Proceed(r, [at |-> "print", left |-> q.left - 1, visible |-> q.visible,
                         made |-> q.made \cup {x}])
    /\ UNCHANGED <<inbox, served, stage, outcome, moves, messages, review, rating, given>>

\* The client hears once of all the forms they may see.
AfterPrinting(r) ==
    LET q == request[r] IN
    /\ q.at = "print" /\ q.left = 0
    /\ Proceed(r, IF q.visible THEN [at |-> "tell", to |-> Client, kind |-> "forms", about |-> q.made]
                  ELSE Idle)
    /\ UNCHANGED <<inbox, served, room>>

\* DocumentForDownload: the dealer of the deal, the client what is meant for
\* them, the administrator everything.
CanSee(u, x) ==
    /\ documents[x].state = "there"
    /\ u \in DealManagers \/ (u = Client /\ documents[x].visible)

\* ByDeal.
Reviewed == review # 0

MayReview == outcome = "won" \/ stage = Handover

\* ByDeal finds no review, and the copy of the deal is far enough.
LeaveReview(r, stars) ==
    /\ Start(r)
    /\ MayReview /\ ~Reviewed
    /\ Proceed(r, [at |-> "review", stars |-> stars])
    /\ UNCHANGED <<inbox, room>>

\* Mutant of InsertReview: the rating is counted though the row was there.
InsertReviewAgain(r) ==
    LET stars == request[r].stars IN
    /\ request[r].at = "review"
    /\ Proceed(r, [at |-> "rate", stars |-> stars])
    /\ \/ Reviewed /\ UNCHANGED <<review, given>>
       \/ /\ ~Reviewed /\ review' = stars
          /\ given' = Got(given, stars)
    /\ UNCHANGED <<inbox, served, stage, outcome, moves, messages, documents, rating>>

\* The second review of a deal is refused by the UNIQUE index.
InsertReview(r) ==
    LET stars == request[r].stars IN
    /\ request[r].at = "review"
    /\ \/ Reviewed /\ Done(r) /\ UNCHANGED <<review, given>>
       \/ /\ ~Reviewed /\ review' = stars
          /\ given' = Got(given, stars)
          /\ Proceed(r, [at |-> "rate", stars |-> stars])
    /\ UNCHANGED <<inbox, served, stage, outcome, moves, messages, documents, rating>>

\* One UPDATE of the profile, if there is one; its error is dropped.
CountRating(r) ==
    /\ request[r].at = "rate"
    /\ \/ UNCHANGED rating
       \/ rating' = WithReview(rating, request[r].stars)
    /\ Done(r)
    /\ UNCHANGED <<inbox, served, stage, outcome, moves, messages, documents, review, given>>

-----------------------------------------------------------------------------
\* Who may do what: the participants and the administrator in the chat, the
\* client alone for the review, the dealer and the administrator for the rest.
Chat(r) ==
    \/ \E u \in People : CheckMessage(r, u) \/ Messages(r, u)
    \/ AddMessage(r) \/ MarkMessagesRead(r)

Papers(r) == \E x \in Docs : DeleteDocument(r, x) \/ \E visible \in BOOLEAN : AddDocument(r, x, visible)

Printing(r) ==
    \/ \E n \in Batches, visible \in BOOLEAN : GenerateDocuments(r, n, visible)
    \/ PrintOne(r) \/ AfterPrinting(r)

Reviews(r) == (\E stars \in Ratings : LeaveReview(r, stars)) \/ InsertReview(r) \/ CountRating(r)

Moves(r) ==
    \/ \E u \in DealManagers : ChangeStage(r, u)
    \/ AnnounceInChat(r) \/ CloseDeal(r) \/ ClientRefuses(r)

Room(r) == Chat(r) \/ Papers(r) \/ Printing(r) \/ Reviews(r) \/ Moves(r) \/ Tell(r)

RoomNext == \E r \in Requests : Room(r)

-----------------------------------------------------------------------------
(* Properties. *)

RoomTypeOK ==
    /\ stage \in Machine!Stages /\ outcome \in Machine!Outcomes
    /\ moves \in Seq(Machine!Stages)
    /\ messages \in Seq([author : Participants \cup {Admin}, note : 0 .. Handover,
                         late : BOOLEAN, read : BOOLEAN])
    /\ documents \in [Docs -> [state : {"absent", "there", "deleted"}, visible : BOOLEAN]]
    /\ review \in Ratings \cup {0}
    /\ rating.count \in Nat /\ rating.avg \in 0 .. 500

\* "The chat of a closed deal is forbidden" (SendMessage) up to the messages
\* that were on their way when it was closed: fewer than requests are served at
\* the same time, since one of them is the one that closed it.
LateBounded ==
    Cardinality({i \in DOMAIN messages : messages[i].late}) < Cardinality(Requests)

\* A document the client is told of opens for them, or did until it was
\* deleted: a notification may outlive its document, and may even come after it
\* is gone, but is never of one that was not meant for the client.
Opened(x) == CanSee(Client, x) \/ (documents[x].state = "deleted" /\ documents[x].visible)

\* Every announcement in the chat is of a move of its own that was committed
\* before (in which order several are told is not promised, and not kept), and
\* every notification of a deal tells of something that happened, to the right
\* side.
Announcements(s) == {i \in DOMAIN messages : messages[i].note = s}
TellsTruth ==
    /\ \A s \in Machine!Stages :
         Cardinality(Announcements(s)) <= Cardinality({i \in DOMAIN moves : moves[i] = s})
    /\ \A n \in inbox :
         /\ n.kind = "stage" => n.to = Client /\ \E i \in DOMAIN moves : moves[i] = n.about
         /\ n.kind = "closed" => n.to = Client /\ outcome = n.about
         /\ n.kind = "refused" => n.to = DealerOfDeal /\ outcome # "open"
         /\ n.kind = "message" => \E i \in DOMAIN messages :
                messages[i].note = 0 /\ Recipient(messages[i].author) = n.to
         /\ n.kind = "document" => n.to = Client /\ Opened(n.about)
         /\ n.kind = "forms" => n.to = Client /\ n.about # {} /\ \A x \in n.about : Opened(x)

\* However reviews race, the rating of the dealer counts no review that is not
\* there and lacks at most the one of this deal. While it lacks none, its
\* average is off the true one by what its roundings can add up to and no more:
\* half a hundredth for each review, weighed by the reviews counted so far.
RatingHonest ==
    LET n == rating.count IN
    /\ given.count - n \in 0 .. 1
    /\ n = given.count => 4 * (rating.avg * n - 100 * given.sum) \in - (n * (n + 1)) .. n * (n + 1)
=============================================================================
