---------------------------- MODULE SocialOutbox ----------------------------
(***************************************************************************)
(* The queue through which the cars of one dealer are posted to one social *)
(* network, and the workers that empty it.  docker-compose runs two        *)
(* workers: one inside the api process, one in a container of its own.     *)
(*                                                                         *)
(* store.ClaimPending counts an attempt and returns the rows, but leaves   *)
(* them pending: its row locks end with the statement.  The worker then    *)
(* goes through its batch; for every row it reads the dealer's channel,    *)
(* calls the network and writes the result, each a step of its own between *)
(* which the dealer and the other worker run.  A run is cut off after two  *)
(* minutes, or by a crash or a panic, wherever it is; the errors of the    *)
(* writes that then fail are ignored.                                      *)
(*                                                                         *)
(* Left out: the size of a batch (a batch holds the whole queue) and its   *)
(* order, the auto_post switch (a dealer who turns it off queues nothing), *)
(* the status of the car (one withdrawn after it was queued is posted all  *)
(* the same), and the refreshing of a YouTube token (that network is never *)
(* queued).                                                                *)
(***************************************************************************)
EXTENDS Naturals, FiniteSets

CONSTANTS
    Workers,        \* processes that run the loop of flushSocial
    Cars,           \* cars of the dealer that may be posted
    NoCar,          \* not a car
    MaxAttempts,    \* outboxMaxAttempts, 8 in the code
    Answers,        \* what a call of the network may come to
    MaxAsks,        \* bound: how often a car is queued, for each car
    MaxMishaps      \* bound: answers lost and workers cut off, for each car

(* What the call that posts comes to: doJSON takes 401 and 403 for a lost  *)
(* key, and a post whose answer it cannot read for an error.               *)
CallAnswers == {"posted", "lost", "reauth", "error"}

(* Adapter.Publish: an adapter without a place or a photo does not call.   *)
AllAnswers == CallAnswers \cup {"skipped"}

ASSUME OutboxAssumption ==
    /\ IsFiniteSet(Workers)
    /\ NoCar \notin Cars
    /\ MaxAttempts \in Nat \ {0}
    /\ Answers \subseteq AllAnswers
    /\ MaxAsks \in [Cars -> Nat]
    /\ MaxMishaps \in Nat

VARIABLES
    outbox,   \* the row of social_outbox of each car
    channel,  \* the row of dealer_social_accounts, and has it credentials
    hand,     \* the rows a worker has claimed, each with its attempt, or 0
    step,     \* where each worker is
    car,      \* the car whose row it works on
    key,      \* has it read credentials
    request,  \* the SaveChannel or TestConnection that has read the channel
    asked,    \* how often each car was queued
    posts,    \* how often each car was posted
    mishaps   \* attempts of each car whose answer was lost or whose worker was cut off

vars == <<outbox, channel, hand, step, car, key, request, asked, posts, mishaps>>
work == <<hand, step, car, key>>

NoRow     == [status |-> "none", attempts |-> 0]
NoRequest == [op |-> "none", status |-> "disconnected", key |-> FALSE]
NoHand    == [c \in Cars |-> 0]

Init ==
    /\ outbox = [c \in Cars |-> NoRow]
    /\ channel = [status |-> "connected", key |-> TRUE]
    /\ hand = [w \in Workers |-> NoHand]
    /\ step = [w \in Workers |-> "idle"]
    /\ car = [w \in Workers |-> NoCar]
    /\ key = [w \in Workers |-> FALSE]
    /\ request = NoRequest
    /\ asked = [c \in Cars |-> 0]
    /\ posts = [c \in Cars |-> 0]
    /\ mishaps = [c \in Cars |-> 0]

-----------------------------------------------------------------------------
(* AutoPostNetworks: the channel has a key and did not lose it.            *)
Postable == channel.status \in {"connected", "error"} /\ channel.key

(* Enqueue: a car goes on sale, or its dealer presses the button.  The row *)
(* is inserted, or put back to pending whatever it was.                    *)
Enqueue(c) ==
    /\ Postable
    /\ asked[c] < MaxAsks[c]
    /\ outbox' = [outbox EXCEPT ![c] = [status |-> "pending", attempts |-> 0]]
    /\ asked' = [asked EXCEPT ![c] = @ + 1]
    /\ UNCHANGED <<channel, work, request, posts, mishaps>>

(* SaveChannel and TestConnection read the row of the channel first.       *)
ReadChannel(op) ==
    /\ request = NoRequest
    /\ request' = [op |-> op, status |-> channel.status, key |-> channel.key]
    /\ UNCHANGED <<outbox, channel, work, asked, posts, mishaps>>

(* Without a key COALESCE keeps the one that is there.                     *)
Upsert(status, saved) == channel' = [status |-> status, key |-> saved \/ channel.key]

(* The status alone, whatever the channel has become.                      *)
SetStatus(status) == channel' = [channel EXCEPT !.status = status]

(* SaveChannel: the key of the form, or the one that was read, is written  *)
(* with the status that was read; a disconnected channel with a key is     *)
(* connected.                                                              *)
SaveChannel ==
    /\ request.op = "save"
    /\ \E given \in BOOLEAN :
          LET saved == given \/ request.key IN
          Upsert(IF saved /\ request.status = "disconnected" THEN "connected" ELSE request.status,
                 saved)
    /\ request' = NoRequest
    /\ UNCHANGED <<outbox, work, asked, posts, mishaps>>

(* finishInstagram, at the end of OAuthCallback.                           *)
FinishOAuth ==
    /\ channel' = [status |-> "connected", key |-> TRUE]
    /\ UNCHANGED <<outbox, work, request, asked, posts, mishaps>>

(* Adapter.Test, as TestConnection takes it.                               *)
TestAnswers == {"connected", "error", "needs_reauth"}

(* The answer of the network to TestConnection sets the status.            *)
TestConnection ==
    /\ request.op = "test"
    /\ \E s \in TestAnswers :
          /\ s = "connected" => request.key
          /\ SetStatus(s)
    /\ request' = NoRequest
    /\ UNCHANGED <<outbox, work, asked, posts, mishaps>>

(* store.Clear.                                                            *)
Disconnect ==
    /\ channel' = [status |-> "disconnected", key |-> FALSE]
    /\ UNCHANGED <<outbox, work, request, asked, posts, mishaps>>

-----------------------------------------------------------------------------
(* Mutant: the attempts are not looked at.                                 *)
ClaimableUncapped == {c \in Cars : outbox[c].status = "pending"}

Claimable == {c \in Cars : outbox[c].status = "pending" /\ outbox[c].attempts < MaxAttempts}

Claimed ==
    [c \in Cars |-> IF c \in Claimable THEN [outbox[c] EXCEPT !.attempts = @ + 1] ELSE outbox[c]]

(* store.ClaimPending, one statement.                                      *)
ClaimPending(w) ==
    /\ step[w] = "idle"
    /\ Claimable # {}
    /\ outbox' = Claimed
    /\ hand' = [hand EXCEPT ![w] =
          [c \in Cars |-> IF c \in Claimable THEN outbox[c].attempts + 1 ELSE 0]]
    /\ step' = [step EXCEPT ![w] = "next"]
    /\ UNCHANGED <<channel, car, key, request, asked, posts, mishaps>>

(* Mutant: the result is written by the upsert that queues a car, which    *)
(* starts its attempts anew.                                               *)
FinishRequeued(c, status) ==
    outbox' = [outbox EXCEPT ![c] = [status |-> "pending", attempts |-> 0]]

(* FinishOutbox: whatever the status of the row is by now.                 *)
Finish(c, status) == outbox' = [outbox EXCEPT ![c].status = status]

(* The worker is done with the row of c.                                   *)
Drop(w, c) ==
    /\ hand' = [hand EXCEPT ![w][c] = 0]
    /\ step' = [step EXCEPT ![w] =
          IF \E other \in Cars \ {c} : hand[w][other] # 0 THEN "next" ELSE "idle"]
    /\ car' = [car EXCEPT ![w] = NoCar]
    /\ key' = [key EXCEPT ![w] = FALSE]

(* processOne takes the next row and reads the channel.                    *)
ReadKey(w, c) ==
    /\ step[w] = "next"
    /\ hand[w][c] # 0
    /\ car' = [car EXCEPT ![w] = c]
    /\ key' = [key EXCEPT ![w] = channel.key]
    /\ step' = [step EXCEPT ![w] = "publish"]
    /\ UNCHANGED <<outbox, channel, hand, request, asked, posts, mishaps>>

(* The channel or the car cannot be read, for whatever reason.             *)
SkipUnread(w, c) ==
    /\ step[w] = "next"
    /\ hand[w][c] # 0
    /\ Finish(c, "skipped")
    /\ Drop(w, c)
    /\ UNCHANGED <<channel, request, asked, posts, mishaps>>

MayFail == \A c \in Cars : mishaps[c] < MaxMishaps

(* Adapter.Publish.  A post may be made and its answer lost, which the     *)
(* worker takes for an error; without a key nothing is posted.             *)
Publish(w, answer) ==
    /\ step[w] = "publish"
    /\ answer \in {"posted", "lost"} => key[w]
    /\ answer = "lost" => MayFail
    /\ posts' = IF answer \in {"posted", "lost"} THEN [posts EXCEPT ![car[w]] = @ + 1] ELSE posts
    /\ mishaps' = IF answer = "lost" THEN [mishaps EXCEPT ![car[w]] = @ + 1] ELSE mishaps
    /\ step' = [step EXCEPT ![w] = IF answer = "lost" THEN "error" ELSE answer]
    /\ UNCHANGED <<outbox, channel, hand, car, key, request, asked>>

(* Mutant: the result is written after the status of the channel, and the  *)
(* row is forgotten.                                                       *)
WriteSentNever(w) ==
    /\ step[w] = "posted"
    /\ step' = [step EXCEPT ![w] = "sent"]
    /\ UNCHANGED <<outbox, channel, hand, car, key, request, asked, posts, mishaps>>

WriteSent(w) ==
    /\ step[w] = "posted"
    /\ Finish(car[w], "sent")
    /\ step' = [step EXCEPT ![w] = "sent"]
    /\ UNCHANGED <<channel, hand, car, key, request, asked, posts, mishaps>>

(* After a post the channel is connected, whatever it was.                 *)
SetConnected(w) ==
    /\ step[w] = "sent"
    /\ SetStatus("connected")
    /\ Drop(w, car[w])
    /\ UNCHANGED <<outbox, request, asked, posts, mishaps>>

(* markReauth, before the row is failed.                                   *)
SetNeedsReauth(w) ==
    /\ step[w] = "reauth"
    /\ SetStatus("needs_reauth")
    /\ step' = [step EXCEPT ![w] = "failed"]
    /\ UNCHANGED <<outbox, hand, car, key, request, asked, posts, mishaps>>

WriteFailed(w) ==
    /\ step[w] = "failed"
    /\ Finish(car[w], "failed")
    /\ Drop(w, car[w])
    /\ UNCHANGED <<channel, request, asked, posts, mishaps>>

WriteSkipped(w) ==
    /\ step[w] = "skipped"
    /\ Finish(car[w], "skipped")
    /\ Drop(w, car[w])
    /\ UNCHANGED <<channel, request, asked, posts, mishaps>>

(* Mutant: the last attempt leaves the row pending.                        *)
AfterErrorOffByOne(attempt) == IF attempt > MaxAttempts THEN "failed" ELSE "pending"

AfterError(attempt) == IF attempt >= MaxAttempts THEN "failed" ELSE "pending"

(* RetryOrFail looks at the attempt of the copy the worker has.            *)
RetryOrFail(w) ==
    /\ step[w] = "error"
    /\ Finish(car[w], AfterError(hand[w][car[w]]))
    /\ Drop(w, car[w])
    /\ UNCHANGED <<channel, request, asked, posts, mishaps>>

InHand(w) == {c \in Cars : hand[w][c] # 0}

(* The two minutes of safeRun are over, or the process dies.               *)
Interrupted(w) ==
    /\ step[w] # "idle"
    /\ MayFail
    /\ mishaps' = [c \in Cars |-> IF c \in InHand(w) THEN mishaps[c] + 1 ELSE mishaps[c]]
    /\ hand' = [hand EXCEPT ![w] = NoHand]
    /\ step' = [step EXCEPT ![w] = "idle"]
    /\ car' = [car EXCEPT ![w] = NoCar]
    /\ key' = [key EXCEPT ![w] = FALSE]
    /\ UNCHANGED <<outbox, channel, request, asked, posts>>

-----------------------------------------------------------------------------
Dealer ==
    \/ \E c \in Cars : Enqueue(c)
    \/ \E op \in {"save", "test"} : ReadChannel(op)
    \/ SaveChannel \/ FinishOAuth \/ TestConnection \/ Disconnect

ProcessOutbox(w) ==
    \/ ClaimPending(w)
    \/ \E c \in Cars : ReadKey(w, c) \/ SkipUnread(w, c)
    \/ \E answer \in Answers : Publish(w, answer)
    \/ WriteSent(w) \/ SetConnected(w)
    \/ SetNeedsReauth(w) \/ WriteFailed(w)
    \/ WriteSkipped(w) \/ RetryOrFail(w)

Next ==
    \/ Dealer
    \/ \E w \in Workers : ProcessOutbox(w) \/ Interrupted(w)

Spec == Init /\ [][Next]_vars

(* Every worker has a ticker of one minute and a run always ends, by its   *)
(* own deadline if need be: a worker that can go on does.                  *)
FairSpec == Spec /\ \A w \in Workers : WF_vars(ProcessOutbox(w))

-----------------------------------------------------------------------------
Statuses == {"disconnected", "connected", "needs_reauth", "error"}
Steps == {"idle", "next", "publish", "posted", "sent", "skipped", "reauth", "failed", "error"}

RowsOK ==
    /\ outbox \in [Cars -> [status   : {"none", "pending", "sent", "failed", "skipped"},
                            attempts : 0 .. MaxAttempts]]
    /\ channel \in [status : Statuses, key : BOOLEAN]
    /\ request \in [op : {"none", "save", "test"}, status : Statuses, key : BOOLEAN]

WorkOK ==
    /\ hand \in [Workers -> [Cars -> 0 .. MaxAttempts]]
    /\ step \in [Workers -> Steps]
    /\ car \in [Workers -> Cars \cup {NoCar}]
    /\ key \in [Workers -> BOOLEAN]

HistoryOK ==
    /\ asked \in [Cars -> Nat] /\ \A c \in Cars : asked[c] <= MaxAsks[c]
    /\ posts \in [Cars -> Nat]
    /\ mishaps \in [Cars -> 0 .. MaxMishaps]

(* Every variable keeps its type; no row is attempted more often than the  *)
(* code allows.                                                            *)
TypeOK == RowsOK /\ WorkOK /\ HistoryOK

(* Whatever is lost, cut off or done twice, one request to post a car      *)
(* brings at most MaxAttempts posts: an attempt is counted before it is    *)
(* made, and only a new request puts the count back to zero.               *)
PostsBounded == \A c \in Cars : posts[c] <= MaxAttempts * asked[c]

(* A request to post a car brings at most one post, and one more for each  *)
(* attempt whose answer was lost or whose worker was cut off.  True of one *)
(* worker; two workers post the same row, although ClaimPending takes rows *)
(* "without a race between workers".                                       *)
PostedOncePerAsk == \A c \in Cars : posts[c] <= asked[c] + mishaps[c]

(* Every queued row is sent, failed or skipped in the end ("leaves the row *)
(* pending or marks it failed at the limit of attempts", RetryOrFail),     *)
(* unless a worker was cut off with it in hand: a row whose last attempt   *)
(* was cut off stays pending for ever.  (One worker.)                      *)
PendingSettles ==
    \A c \in Cars : outbox[c].status = "pending" ~> (outbox[c].status # "pending" \/ mishaps[c] > 0)
=============================================================================
