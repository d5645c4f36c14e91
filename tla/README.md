# Verification of the car-import CRM

TLA+ models, TLC runs and TLAPS proofs for the CRM in `src/`: a Go backend
(`src/backend`: chi, pgx, PostgreSQL, Redis) and a React client
(`src/frontend`). Private buyers file requests for cars from China and Japan,
dealers take the requests up and lead the deals through a seven-stage
pipeline, and pay for banners and posts in social networks.

The models are written from the Go code and its SQL. All state that matters
is in PostgreSQL and Redis. Several processes work on it: every HTTP request
is a goroutine of the `api` process, a dealer has several accounts and tabs,
and the background worker runs **twice**, once inside `api`
(`cmd/api/main.go:228`) and once in a container of its own
(`docker-compose.yml:149`). So the models are about interleavings: what a
request read, what happened meanwhile, and what its statements then write.

Files: `X.tla` models a component, `XProofs.tla` holds its theorems
(`WorkerProofs` those of `Banners` and `Reminders`, `GatewayProofs` those of
`Idempotency` and of `SignIn` with `Protection`), `MCX.tla` and the `.cfg`
files are the small instances for TLC, and `PROJECT.json` lists components,
runs, mutants, the map from definitions to lines of code, findings, hazards and
theorems.

    tlc -workers 2 -config pipeline.cfg MCDealPipeline.tla
    tlapm DealPipelineProofs.tla

## 1. Inventory

| Component | State | Operations | What makes it correct | Modules |
|---|---|---|---|---|
| Deal pipeline (`domain/pipeline.go`, `store/deals.go`, `service/pipeline.go`) | rows of `deals`, `deal_stage_history`, `deal_documents` | create, change stage, close, edit, attach and delete documents, refusal by the client | stages are walked one at a time, the history is one chain, its dates agree with it, a closed deal is frozen | `StageRules`, `StageMachine`, `DealPipeline` |
| Requests and claims (`store/requests.go`, `store/request_claims.go`, `service/requests.go`) | rows of `requests`, `request_claims` | file, take, give back, answer, close, refuse a dealer, open a deal | never more than five dealers on one request; claim and deal agree; the limit per day; a request that is written is confirmed | `RequestClaims`, `Intake` |
| Social outbox (`store/social.go`, `service/social.go`, `pkg/social`) | rows of `social_outbox`, `dealer_social_accounts` | queue, claim a batch, publish, record the result, retry; connect, test, disconnect | bounded attempts, no double posts, every row settles | `SocialOutbox` |
| Banners (`store/banners.go`, `service/banners.go`, `service/banner_counters.go`) | rows of `banners`, two hashes in Redis | edit, submit, moderate, pause, resume, delete, serve, expire; count, drain, flush | only moderated content is shown, no impression is lost or counted twice | `Banners` |
| Idempotent requests (`httpx/mw_idempotency.go`) | answers and locks in Redis | look up, lock, run, store, unlock | one copy at a time, a success that is known is replayed | `Idempotency` |
| Sessions (`store/sessions.go`, `service/auth.go`, `service/revoker.go`, `service/admin.go`) | `users`, `refresh_sessions`, marks of revoked sessions in Redis | register, sign in, rotate, sign out, change the password, delete, suspend | one live session per family; a revoked session's tokens stop; an old password's sessions end | `Sessions` |
| Sign-in, verification codes, limits (`service/auth.go`, `store/users.go`, `store/verification.go`, `pkg/ratelimit`, `httpx/mw_protect.go`) | failure count and lock of an account, `verification_codes`, token buckets, scores and bans in Redis | guess, lock, send and confirm a code, pass the bucket, strike, ban | a lock comes in time; a code reopens nothing an administrator closed; the rate holds; bans only grow | `Protection`, `SignIn` |
| Catalog and cars (`store/cars.go`, `service/catalog.go`, `domain/car.go`) | `cars`, photos, favourites, queue of posts | create, edit, change status, moderate, archive, delete, favour; four lists by cursor | what is shown has a date; the pages miss nothing | `Catalog` |
| Deal chat, documents, reviews (`store/deal_comms.go`, `store/reviews.go`, second half of `service/pipeline.go`) | messages, read marks, documents, reviews, the rating of a dealer | send, read, announce a move, attach, print a batch, review | nothing is written into a closed deal; announcements tell the truth; the rating is the average, as far as rounding lets it be | `DealRoom` |
| Notifications (`store/notifications.go`) | rows of `notifications` | write, read, clean | a statement of its own after what it tells of | `Inbox` |
| Reminders of tasks (`service/worker.go`, `store/deal_comms.go`) | `deal_tasks`, a map in each process | create, finish, delete a task; remind, clean the map, crash | once a day, and every day | `Reminders` |
| Dealers, sellers, administration | profiles, cards | forms, lists, blocking | one statement each; status and role of a user are in `Sessions` and `SignIn`, the rating in `DealRoom` | — |
| Documents and templates | template rows, rendered files | upload, render | text and archives; the batch that prints is in `DealRoom` | — |
| Audit and security log | appended rows | append, list | no rule reads them | — |
| Migrations, pool (`store/migrate.go`, `store/db.go`) | `schema_migrations` | up, down, `InTx` | a transaction is all or nothing: `InTx` is part of every module | — |
| HTTP layer, configuration, commands, frontend, deployment | none of their own | decode, route, answer, wire | guards of routes and the middlewares with state are in the modules | — |

How they interact:

- A **deal** may come of a **request**: `CreateDeal` checks the owner of the
  request and `store.Create` converts the dealer's claim. `Deals.Close` with
  a lost deal releases the claim, `RefuseClaimByClient` closes the deal.
- Every change of stage is announced in the **chat** of the deal and as a
  **notification**, after the commit, each in a statement of its own.
- A car that goes on sale is queued in the **outbox** after its status is
  written; the **worker** empties the outbox every minute, and the result of a
  post changes the dealer's channel.
- Showing a **banner** increments Redis; the worker carries the counters to
  the database and expires banners. The worker also **reminds** of tasks and
  cleans up sessions, codes and notifications.
- Ending a **session** is an UPDATE in Postgres and then a mark in Redis, which
  every request with an access token looks up.
- Every request passes the **blocklist** and the **token bucket**; what a
  handler answers (a failed sign-in, a page not found) adds to the score that
  bans its address.
- `store.InTx` makes a function one transaction and rolls back when it returns
  an error. Most single operations are one statement. The isolation level is
  Postgres' READ COMMITTED: a row is protected from the `FOR UPDATE` on.

What is hard here: checks made on a copy that was read before the transaction;
timestamps that are taken at BEGIN and not at the lock; row locks that end
with a statement; results written whatever the row has become; a change and
what tells of it in statements of their own; workers that exist twice, with
loops that share a map without a lock; runs cut off after two minutes with
errors ignored; errors that roll back the bookkeeping they report; lists read
by cursor while they change. `PROJECT.json` lists each of these at its line
under `hazards`, with the properties that watch over it.

## 2. Plan

The plan was ordered by what a mistake would cost; all of it is built.

1. `StageRules`, `StageMachine`, `DealPipeline`: the pure rules, the abstract
   promise, and the deal that implements it (refinement by `INSTANCE ... WITH`).
2. `RequestClaims`: the request, its claims and the outcomes of the deals that
   come of it, composed.
3. `SocialOutbox`, `Banners`, `Idempotency`: what the worker, Redis and
   impatient clients do to rows.
4. `Sessions`; `Protection` and `SignIn`, which puts the handlers behind the
   limits.
5. `Catalog` and its lists.
6. `Reminders`: the map two loops share.
7. `Inbox`, and over it `DealRoom` and `Intake`; `Correspondence` composes the
   two in one process with the same inboxes. `DealRoom` moves its deal by the
   actions of `StageMachine`, so what `DealPipeline` is proved to promise is
   what the chat is checked against.

Every passing run keeps one type invariant and otherwise what a test would
hardly reach, and every invariant and action property of a passing run is also the
statement of a theorem. Left for later: the profiles of dealers and cards of
sellers, and the templates of documents.

## 3. The modules

A step of a model is what the database or Redis does atomically: a read, one
statement, or a transaction from its lock to its commit. What a request has
read and where it stands is a variable (`pc`, `call`, `request`, `hand`, ...)
of the model. A handler that goes on after its commit has a step for each
statement; between any two of them the client may go away, a write may fail, or
another request may run.

### StageRules, StageMachine, DealPipeline

`StageRules` holds the pure rules of `domain/pipeline.go`. A stage is its
position in `StageOrder` (1 = lead, 7 = handover). `ValidTransition` is
`ValidateStageTransition`, `RollbackFloor` is the table `stageRollbackFloor`,
`AdvanceAllowed` is `ValidateStageAdvanceRequirements`.

`DealPipeline` is one deal and the requests of its managers.

| TLA+ | Code |
|---|---|
| `deal` | the row of `deals`: stage, outcome, amounts, `paid_rub_minor`, `sbkts_issued_at`, and `marks`, the date columns that are set |
| `history` | `deal_stage_history` in commit order |
| `docs` | the documents, as far as they are evidence |
| `pc`, `target`, `snap`, `form` | where the goroutine of a request is and what it has read |
| `LoadDeal`, `CheckAdvance`, `CommitStage` | `ChangeStage`: read of the deal, read of the documents, transaction |
| `BeginClose`, `CommitClose` | `CloseDeal` |
| `LoadUpdate`, `ApplyUpdate` | `UpdateDeal` |
| `ClientRefuses` | the part of `RefuseClaimByClient` that closes the deal |

`StageMachine` is the promise: forward by one, back not below payment once
shipped, won only from handover, frozen when closed. "Not below payment" is
about one step back; see section 6 for two.

### RequestClaims

One request, the row of `request_claims` of each dealer, the deals of the
request. `store.Claim` is two steps, because the count and the write are
different statements: `LockAndCount` takes the row lock (`lock`) and counts
(`seen`), `WriteClaim` writes and commits, `AbortClaim` is a lost connection.
Actions that need the locked row (an answer, closing, refusing, the foreign
key check of a new deal) are disabled meanwhile; `Reject` and `CloseDeal`, which
write only claims and deals, are not. `CreateDeal` is `CheckCreate` (an
unlocked read) and `CommitCreate`. `Refuse` is `RefuseClaimByClient` and
`CloseDeal` is `Deals.Close` with its release of the claim.

### SocialOutbox

The outbox rows of one dealer and network, the channel, and the workers.
`ClaimPending` is the one statement with `FOR UPDATE SKIP LOCKED`; the worker
then keeps copies (`hand`). For every row there is one step for the reading of
the key, one for the call of the network and one for each write that follows
(`WriteSent` and `SetConnected`, `SetNeedsReauth` and `WriteFailed`, ...),
since the dealer and the other worker run in between. The answer of the
network is chosen freely from `Answers`: posted, posted but the answer lost,
skipped, key refused, error. `Interrupted` is the two minutes of `safeRun`
running out, a panic or a crash. History variables count what the dealer asked
for, what the network got, and, for each car, the mishaps (answers lost, runs
cut off). With one worker a request to post brings one post, and one more for
each mishap (`PostedOncePerAsk`).

### Banners

One banner and its counter of impressions. Moderation is one UPDATE with a
condition per action. `Serve` answers a visitor, who then reports the
impression. `writtenIn` (the status in which the content was last written) and
`approved` (has an admin approved since) are history variables for the
properties. `Drain` is the Redis transaction, `WriteCounters` the batch of
updates, `ExpireOutdated` the last step of a run; each may fail, and what was
drained is then lost and counted in `lost`. `ReadTotal` and `Merge` are the two
reads of the dealer's list.

### Idempotency

The copies of one request under one `Idempotency-Key`. `LookUp` is the GET,
`TakeLock` the SETNX, `Handle` the handler with its transaction,
`StoreAndAnswer` the SET and the answer, `Unlock` the deferred DEL, which
removes the lock whoever set it. `GiveUp` cancels the context of a copy:
nothing more is written or stored for it, but its lock is removed. `Crash`
leaves the lock to `LockExpires`. `before` records, for every copy, which
successes a client already knew of when it began.

The stored answer is not looked for again under the lock. A copy that missed it
before the first copy stored it, and sets the lock after the first copy removed
it, runs the handler again (`httpx/mw_idempotency.go:66`): with the model one
sees `effects = 2`. So the promise is worded for copies that begin after the
client was told.

### Sessions

| TLA+ | Code |
|---|---|
| `user` | the row of `users`: status, role, password (a number that counts its changes) |
| `sess` | `refresh_sessions`: owner, family, state; `born` is the password its sign-in verified |
| `access` | access tokens that have not expired; they are checked without Postgres |
| `marks`, `lost` | marks of revoked sessions in Redis, and those Redis refused |
| `cookie` | the refresh token in the browser; any tab may present it, or an older one |
| `call` | what a request has read and where it stands |

`Login`, `Register`, `Refresh`, `Logout`, `ChangePassword`, `DeleteAccount`,
`SetUserStatus` and `SetUserRole` are split where the service goes from one
statement to the next: the session is revoked and then marked; the password is
written and then the sessions listed (`RevokeAllSnapshot`), revoked
(`RevokeRows`) and marked. The snapshot of the list is a step of its own, since an
INSERT that commits after it is not seen. `Abandon` is a client that goes away
or a process that dies; what was to follow does not happen. `SessionExpires`,
`AccessExpires` and `MarkExpires` are time.

### Protection, SignIn

`Protection` has a clock, and each script of Redis as one step: `TakeToken` /
`RefuseToken` of the bucket with its fractions and the life of its key,
`RegisterSuspicious` with the score, the strikes and the ban. `SignIn` extends
it: every request `Arrive`s through the ban and the limit of its route. The
sign-ins of an address share the bucket of the rule `login`
(`LimitedByAddress`); a code is asked for and confirmed by a user who is signed
in, under the rule `verify_code` of that user (`LimitedByUser`). What is left
in the user's bucket is not kept, so any of these requests may be refused, and
counts as suspicious then. A request that is let through runs the handler of
sign-in (`LoginRead`, then the write of a failure or a success on the copy it
read), of sending a code (`IssueCode` in a transaction, `MailCode` after it) or
of confirming one (`ConfirmCode` in a transaction that rolls back on a wrong
code, `MarkVerified` and `ReissueAccess` after it, which refuses an account
that may not sign in), or of an administrator. The weight of the signatures of
suspicious requests is a choice among what the table of `mw_protect.go` can
add. `passes[a][t]` is history: the requests of an address that the bucket of
sign-ins let through by the end of tick t, so `PassesBetween` is a difference
of two of them. The durations of locks and bans double by `TwoTo`, a recursive
function, since theorems rest on it.

### Catalog

The rows of `cars` in the order of their ids, what each request has left to do
(`photos`, `status`, `enqueue`, `favorite`), and one visitor who reads one of
four lists page by page. `Create` and `Update` write the row and then the
photos, `ChangeStatus` judges a copy and `SetStatus` writes without a
condition, `EnqueuePublished` follows. `SetFavorite` reads the car and
`WriteFavorite` writes the mark, whatever the car has become. `Before` is the
ORDER BY of a list, `Beyond` the comparison with the cursor, `ReadPage` one
query with its LIMIT. `walk.must` is what has been in the list since the first
page.

### Reminders

Tasks, the map `reminded` of each process (by the age of a mark, up to `Keep`),
and its two loops: `ReadDue` reads the due tasks, `Mark` drops the fresh ones
and marks the rest, `Write` is the one INSERT; `StartCleanup` and
`ForgetOldReminders` are the other loop, between any two steps of the first.
`Crash` and `ConcurrentMap` (the runtime ends a process whose goroutines meet in
a map) empty the map.

### Inbox, DealRoom, Intake, Correspondence

`Inbox` has the notifications and the requests in flight that write them.
`DealRoom` is the deal as `StageMachine` moves it, the chat with its read
marks, the documents with what the client may see, and the review with the
rating of the dealer; `moves` records the moves made. Every change tells the
other side in a step of its own, the client's refusal (`ClientRefuses`) too. A
document that is deleted opens for nobody (`CanSee`); `Opened` is what the
client may rely on: what they were told of opens, or did until it was deleted.
The rating is kept in hundredths, as `numeric(3,2)` does, `Rounded` is the
rounding of the database, and `WithReview` the UPDATE, which starts from the
average that was rounded with the review before. So a dealer who has reviews
already has the rating `After` them: each of them counted and rounded in turn.
`Intake` is the limit per day, the INSERT of a request and the notification of
its addressee. `Correspondence` lets one set of requests do both.

## 4. The runs

| Run | Instance | Shows |
|---|---|---|
| `pipeline` | 2 managers, deals created at contract or at customs, 1 document, 1 form, 4 history rows | the history chains, no stage is skipped, dates match history; the deal implements `StageMachine` |
| `claims` | 3 dealers for 2 slots, 3 deals, requests for everyone or for one dealer | the slots are never oversubscribed, claim and deal agree |
| `social` | 1 worker, 2 cars in a batch, a car queued twice, 2 attempts, 1 mishap | bounded posts, one post per request and mishap, every row settles |
| `banners` | 2 workers, 3 impressions, 1 loss | the counters are conserved, the list never overstates, edits are moderated |
| `idempotency` | 3 copies of a request, clients give up, processes die, handlers faster than the lock | one copy at a time is at work, a success a client knows of is replayed, the key is freed |
| `sessions` | 1 account, 2 requests at once, 4 in all, 3 sessions, 1 change of password, Redis may fail | one live session per family, tokens of revoked sessions stop, sessions of an old password end |
| `signin` | 2 addresses, 2 requests at once, 4 in all, 3 ticks, bucket of 2, ban at 3, 2 codes | the lock comes in time, a code reopens nothing, the rate holds, bans only grow |
| `market` | 2 cars with 1 VIN between them, 2 requests at once, 3 in all, pages of 1 row | what is shown has a date, the pages miss nothing |
| `reminders` | 2 tasks, 1 process, a day of 2 units, a map kept for 4, a limit of 1 row, 2 faults | no reminder is early, due tasks are reminded of every day |
| `correspondence` | 2 requests at once, 3 in all, 2 documents, batches of 2, no review or 11 reviews before, a limit of 1 request a day | late messages are bounded, announcements and notifications tell the truth, the rating is honest, the daily limit is nearly kept |

Two runs show code that does not do what its comments say (TLC finds a
violation; section 6 has those that have no run):

| Run | Disagreement |
|---|---|
| `sessions_reuse` | A refresh token that is presented twice is to end its family, "including the active session of the rightful owner" (`store/sessions.go:149`); `Rotate` returns the error from inside `InTx`, which rolls that UPDATE back (`store/sessions.go:158`) |
| `intake` | A request about a car is written, and then `notifyRequestCreated` dereferences the nil `DealerID` of the request instead of the target it found (`service/requests.go:467`): the client is answered 500 for a request that exists |

Why the bounds are enough. In `pipeline`, what can go wrong needs one request
that has read and one that changes what was read: two managers. Four history
rows are the first row and three moves, one more than two racing requests
write; starting at contract or at customs puts both ends of the roll back
floor, the payment requirement and the handover within them. In `claims`, three
dealers for two slots have one dealer too many, as six have for five; further
deals are needed because a dealer may open another one. In `social`, two
attempts have a first and a last one; the second request to post resets the
count while the worker has an old copy; the second car is in the same batch as
the first and waits for it. In `banners`, three impressions can be in the
database, in a worker's hand and in Redis at once. In `idempotency`, three
copies are one that has done its work, one that is at work and one that begins;
`SlowHandlers` is FALSE, since the code sets the lock's 45 seconds against
handlers that take less: with a slower one `OneAtATime` fails. In `sessions`,
every property relates one request that is between two of its statements to
another one; four requests are a sign-in, a refresh and two that race. In
`signin`, an account must have been locked after as many failures as there are
free attempts and requests at once: two and two, so four requests are just
enough to break it; three suspicious requests ban an address, and a fourth one
that passed the check before strikes again. In `market`, two rows may change
places, share the value the cursor compares, or come and go around it; more
rows only repeat what a pair does, and the proof is for any number. In
`reminders`, two tasks for a limit of one row starve each other. In
`correspondence`, two requests race and a third comes after: one of two can be
late while the other closes the deal, the most `LateBounded` leaves, and
`DayLimitBound` is reached with equality. The eleven reviews of the second
start (`MCFirstReviews`) are ones whose average the roundings have moved by
more than a hundredth already, 4.65 where 51 stars of 11 reviews are 4.636. A
document takes one request to be added and one to be deleted before the first
one tells of it.

`CHECK_DEADLOCK` is on where the system goes on for ever. It is off in
`idempotency`, whose copies all end, and in `sessions`, `sessions_reuse`,
`signin`, `market`, `correspondence` and `intake`, where the number of requests
ever started is bounded (`MaxServed`), so the run ends when they are served.

### Fairness

Three modules have a liveness property.

`FairSpec` of `SocialOutbox` assumes weak fairness of each worker's
`ProcessOutbox`: the loop has a ticker of one minute, each run has its own
deadline, and a panic is recovered (`service/worker.go:96-122`), so a worker
that can take a step does. Nothing is assumed of dealers, of the network, or of
interruptions. Requests to post are bounded (`MaxAsks`), or the dealer could
reset the attempts for ever, and mishaps are (`MaxMishaps`). A worker that is cut
off at the last attempt leaves the row pending and unclaimable: `PendingSettles`
excepts the rows that had a mishap.

`Spec` of `Idempotency` assumes weak fairness of `Serve(c)`, the goroutine of a
request, which runs on, and of `LockExpires`, the time to live that Redis keeps.
Neither clients nor crashes are fair.

`Spec` of `Reminders` assumes weak fairness of each loop's steps, which tick
while the process lives, and strong fairness of `Tick`: a run is cut off after
two minutes and the next one starts ten minutes later, so time passes between
runs however often they run. Crashes and failed writes are bounded
(`MaxFaults`); a process that dies is started again (`restart: unless-stopped`).
Tasks may be postponed by the dealer for ever, and are not fair.

## 5. The proofs

All theorems are `Spec => ...` for every value of the constants that meets the
modules' named ASSUMEs; TLC evaluates these assumptions on every run.

`DealPipelineProofs`, from `PipelineAssumption` (amounts and rates positive,
creation stages are stages, forms are forms):

- `Typing`: one step per action. Besides types it gives the CHECK constraints of
  the table.
- `HistoryIsAChain`, `StagesAreWalked`, `DealsCloseOnce`,
  `WonDealsAreHandedOver` come of one inductive invariant, `PipelineInv`: the
  history chains, every stage passed is in it, no row follows a closing one,
  and a won deal is at handover. None is inductive alone: a new row starts
  where the *deal* is, so the chain needs that the last row ends there, and a
  new stage is next to the *present* one, so "no stage skipped" needs the chain.
  The argument splits the steps in two: `RowKeepsHistory` (a step of an open
  deal that appends one row) and `QuietStep` (every other step).
- `DatesTellTheHistory`: `MilestonesMatchHistory` is inductive with the types;
  the same two kinds of steps, `RowKeepsMarks` and `QuietMarks`.
- `PipelineKeepsPromise`: the refinement. `DealStep` says that a step either
  leaves stage and outcome alone or is one of the four moves of `StageMachine`.

`RequestClaimsProofs`, from `ClaimsAssumption` (finitely many dealers, null
values outside the sets):

- `Typing`.
- `SlotsNeverOversubscribed`: for any number of dealers and slots. The bound is
  not inductive, since `WriteClaim` does not look at the number of claims
  again. `CountHolds` adds what makes it safe: who is between count and write
  holds the lock, has counted fewer than `MaxActive`, and since then claims
  have only been released (`OnlyReleases`).
- `OnlyOwnerOpensDeals`: inductive, since an owner once set stays.
- `ClaimsAgreeWithDeals`: inductive with the types.

`SocialOutboxProofs`, from `OutboxAssumption` (finitely many workers, at least
one attempt):

- `Typing`, together with `CarInHand`: a worker has a car exactly while it works
  on a row it has claimed. Types need it, since a result is written to the row
  of the worker's car.
- `PostsStayBounded`: for any number of workers, at most `MaxAttempts` posts per
  request to post. The invariant `CountHolds` adds up, for each car, the posts
  made, the workers that may still post (`Unposted`) and the attempts that are
  left: `ClaimPending` moves an attempt into a hand, `Publish` a hand into a
  post, and `Enqueue`, which resets the attempts, pays for it with a new
  request. Every other step is `Quiet`.
- `OnePostPerAsk`: with one worker, any number of cars and attempts. A pending
  row is a permit to post: it costs a request, or a mishap, to get one back.

`WorkerProofs`, from `BannersAssumption` and `RemindersAssumption` (a mark is
kept at least as long as it is fresh):

- `BannersTyping`, and `EditsAreModerated`. `ModeratedInv` extends the property to
  paused banners, because `Resume` shows what was paused without another look.
- `ImpressionsAreConserved` and `ReportsNeverExceed`, for any number of workers.
  What the workers hold is the size of a set of pairs (`Held`), so that no sum
  over workers, and no induction, is needed: `HandChanges` says how it moves
  with one worker. `CountersInv` adds that a worker that is not about to write
  holds nothing, and that a list that has read its total exceeds nothing even
  with all that is still in Redis.
- `RemindersTyping`, and `NoReminderIsEarly` for any number of tasks and
  processes. `Marked`: a reminder of the last day has a mark of the same age,
  and what is about to be written was marked in this unit of time. The
  cleaning may drop a mark between any two steps of a run; it drops only marks
  that are older than any reminder that counts, which is where `Day <= Keep`
  comes in.

`GatewayProofs`, from `IdempotencyAssumption`, for the idempotent requests:

- `IdempotencyTyping`.
- `OneCopyAtWork`, which assumes that handlers are not slow: `WorkerHoldsLock`
  says that who is at work set the lock.
- `LaterCopiesAreReplayed`, slow handlers or not: a success that was told is
  stored (`ToldIsStored`), since the SET comes before the answer.
- `ReplayedHappened`: what is stored took effect.

and from `ProtectionAssumption` and `SignInAssumption` (a burst is at most two
windows' worth, the longest ban no longer than strikes are remembered, the first
lock or ban no longer than the longest, finitely many requests), for what stands
before the handlers and for sign-in:

- `SignInTyping`. `SignInGood` is not types alone: the failures since the last
  success, and the requests being served, are no more than those ever started
  (`FailuresOK`, over the set `Busy`), without which the counter of failures has
  no bound and the lock no last tick.
- `LateLocksAreBounded`, for any number of requests at once. A sign-in that
  fails writes what it computed from its own copy of the counter, so the bound
  is the number of copies that are still below the free attempts: `LockInv`
  counts the failures and those requests (`Low`) together, and each failure that
  does not lock the account is one of them (`LockStep`).
- `SuspensionHolds`, an action property: a step that makes a blocked or deleted
  account active again is one of an administrator.
- `RateIsBounded`, for any rule and any two ticks. `RateInv` says for every past
  tick s that what was let through since, a window's worth of units each, and
  what the bucket has now are no more than the burst and what the time since s
  brought. The key of a bucket dies after two windows and a new one is full; the
  old one was full by then (`Refilled`), so that dying gives nothing away.
- `BansAreNeverShortened`, an action property. `StrikesInv`: the strikes are
  remembered for `StrikeLife` after the last of them, and the ban that stands is
  no longer than they ask for; a next strike finds at least as many
  (`BanForGrows`), or the ban is over.
- What `BanFor` and `LockoutDuration` need of powers of two (`TwoToFacts`) is
  proved by an induction over a set of numbers: the numbers that lack the
  property would have a least element (`LeastElement`, from well-foundedness),
  and none can be it (`SetInduction`). That the recursive definition of `TwoTo`
  defines something is part of it (`DoublesExist`, `DoublesAgree`, `TwoToIs`).

`SessionsProofs`, from `SessionsAssumption` (null values outside the sets, at
least one role):

- `Typing`. `Good` adds to the types what refers to what: a session that was
  made has an account and its family was made, and tokens and requests are about
  sessions that were made. A step makes or ends rows (`RowsStay`, `Inserted`) and
  moves one request (`OneCall`); there is a lemma for each kind of request.
- `FamiliesHaveOneLive`, for any number of tabs and lost answers. Every step
  leaves the rows what they are, signs in with a new family, or rotates a live
  session and ends it (`RowsStep`); each keeps one live session per family.
- `RevocationsAreMarked`. `MarksInv` extends the property to sessions that only a
  request is about: such a request may still issue a token for them, so they
  must be marked by then. A mark may die when no token and no request is left.
  The argument splits a step by request: what it ends it is about to mark
  (`EndsMarked`), and it is about nothing new but a session just made
  (`UsesKnown`).
- `EarlierPasswordsEnd`. `PasswordInv`: a live session of an earlier password was
  inserted after the list of sessions was taken (`late`), or a change of password
  has yet to take that list, or has this session on it. The property excuses
  the same; the invariant names the request that will end it.

`CatalogProofs`, from `CatalogAssumption`:

- `DatesOfPublication`. `Good` has, besides the dates of the rows on sale and
  sold, what the requests in flight rely on: a car that is to be reserved, sold
  or queued has its date already, and no step takes a date away (`KeepsDates`).
  `SetStatus` does not look at the row, so without this a stale request could
  not be answered for.
- `PagesMissNothing`, for any number of cars and any length of a page. `WalkInv`:
  a car that must be shown has been shown or is ahead of the cursor. It holds
  over a page since what stands after the last row of a page is beyond its
  cursor (`CursorKeeps`), and between pages since a car whose key changes is no longer
  required. That the rows not on a page stand after its last one (`PageEnds`)
  needs a last element of a finite ordered set, which `FirstElement` takes from
  well-foundedness.
- `CatalogTyping`: `Good`, the marks of the visitor, and the pages
  (`PageIsOfCars`).

`CorrespondenceProofs`, from the assumptions of `Inbox`, `DealRoom` and `Intake`:

- `LateMessagesAreBounded`: `LateInv` says that in a closed deal the late
  messages and the requests past the check (`At("say")`) are together fewer than
  the requests served at once: the request that closed the deal was none of
  them, and nobody gets past the check after it.
- `DayLimitIsNearlyKept`: `DayInv` counts the rows and the requests that have
  been counted and not yet written (`At("create")`).
- `RatingsAreHonest`, for any reviews the dealer had before: `RatingInv` says
  that the one review of the deal is not there yet, on its way (by exactly one
  request), never to be counted, or counted, and that what is stored is `Sound`:
  the average times the number of reviews has drifted from the sum of the stars
  by no more than half a hundredth for each review, weighed by the reviews
  counted with it. One more rounding keeps it so (`OneMoreRounding`,
  `OneMoreIsSound`). That the rating a dealer starts with, the end of the
  recursive function in `After`, is sound is an induction over a set of numbers
  (`SetInduction`, `ReviewsBefore`), and so is that the function is defined
  (`ReplaysExist`). The bound is on the average itself: a quarter of a hundredth
  per review, and one quarter more.
- `WhatIsToldIsTrue`: `TruthInv` says of every notification, written or carried
  by a request that is about to write it (`At("tell")`), that it is a `Fact` of
  the deal, and `Grows` that no step takes such a fact back. A document that
  opens is not such a fact, since it may be deleted before the client is told;
  that it was meant for the client and opened until then is. `CountInv` counts
  for each stage the announcements and the requests about to make one
  (`Announcing`) together: never more than the moves to that stage. The
  refactoring it guards against is announcing before the move is committed.
- `CorrespondenceTyping`: `AddressesOK` says that a request about to notify is
  about a row that is there and a user; `AverageIsBounded` that a rating rounded
  again stays within five stars, so that the constraint `dealer_rating_range`
  refuses no review. It is proved with `Shape`, `TruthInv` and `RatingInv`.

What the provers do not reach: the liveness properties `PendingSettles`,
`KeyIsFreed` and `DueIsReminded` are only model-checked. The library's induction
theorems, whose parameter is an operator, cannot be instantiated; where numbers
are needed the least element of a set takes their place (`SetInduction`,
`FirstElement`, `LeastNumber`), and where sums over workers would be, the size
of a set of pairs. What the two runs that expect a violation show is a
counterexample and has no theorem.

## 6. Disagreements that have no run

Seen while modelling. Those of the deal and its claims:

- A roll back judged on a stage that is stale by the time of the transaction is
  a step forward no one judged: a deal reaches payment without an amount
  (`service/pipeline.go:536`).
- Two roll backs get a shipped deal below payment (`domain/pipeline.go:161`),
  and the comment at `domain/pipeline.go:155` and the table disagree about
  handover.
- The history is shown by `created_at`, which is the time of BEGIN, not in the
  order the transactions took effect (`store/deals.go:524`).
- A client gives up a dealer and another deal of theirs goes on
  (`store/request_claims.go:209`); the deal that is closed gets no history row
  (`store/request_claims.go:211`), which is why `ClosedOnce` speaks of the rows.
- A claim that is taken again loses the number of its old deal
  (`store/request_claims.go:87`).
- A request may be closed between the check and the insert of its deal
  (`service/pipeline.go:176`); the second dealer of a request is told to take it
  first although they have (`service/pipeline.go:173`).
- A document may be deleted between the check and the move
  (`service/pipeline.go:537`); an edit of the currency alone keeps the old rouble
  amount (`service/pipeline.go:764`).
- When a client's account is made for a deal and a later check fails, the account stays.

Of the other parts:

- Two workers post one car twice, against the comment of `ClaimPending`
  (`store/social.go:243`); a result writes the status of a channel that was
  disconnected meanwhile (`service/social.go:525`).
- A paused banner is edited and resumed without moderation
  (`store/banners.go:104`); an administrator approves what the banner holds by
  then (`store/banners.go:131`); two requests at once pass the limit of banners
  of a dealer (`service/banners.go:64`).
- `SetStatus` writes what was judged on a copy: a car sold or archived
  meanwhile comes back on sale (`domain/car.go:398`). Two forms at once can
  leave a car with more photos than allowed (`httpx/car_handlers.go:516`). An
  archived car whose VIN was taken again cannot be restored, and the answer is
  an internal error. Drafts have no value for the default sort: after the first
  page, a dealer's and the moderators' list lose them (`walk.must` excepts rows
  without a date).
- A wrong code is counted in a transaction that its error rolls back, so the
  count of attempts never grows (`store/verification.go:131`).
- Of two sign-ins that fail together, the slower one computes the lock from the
  older count and can shorten it (`store/users.go:254`); a sign-in that
  rehashes a password can write an old one back.
- Reviews are accepted for deals at handover that are open or lost, though the
  migration says only after a finished deal
  (`migrations/000006_messaging_reviews_banners.up.sql:24`). A review left while the dealer has no
  profile is never counted. The average drifts by the rounding of each review
  (`store/reviews.go:113`): after 11 reviews it may be wrong by more than a
  hundredth, `RatingHonest` says how far it can get, and from the 200th review on
  a review one star away from the average no longer moves it at all.
- A document that is deleted between its INSERT and the notification, or later,
  leaves the client with a link that answers "not found"
  (`store/deal_comms.go:507`); the notification is not taken back.
- Two moves at once may be announced in the other order, so that the last line
  of the chat names a stage the deal has left (`service/pipeline.go:590`).
- A confirmed code of an account that was suspended meanwhile is consumed and the
  address marked, and the answer is a refusal (`service/auth.go:738`).
- A dealer's refusal of a request releases its claim in one statement; the next
  one passes a `$2` it does not use (`store/requests.go:311`), and Postgres may
  refuse it as a parameter without a type: the answer would be an error though
  the claim is gone. `RequestClaims.Reject` is the first statement; the reason
  the second one writes is data no property tells apart.
- Opening the chat marks messages that were not shown, and an administrator's
  look marks them for both sides (`service/pipeline.go:814`). A message of an
  administrator tells only the client.
- Reminders: `api` and `worker` each remind, and a restart reminds again; the
  run has one process, and `NeverEarly` speaks of one life of it. The query takes
  the 200 nearest terms and tasks of closed deals never leave it
  (`store/deal_comms.go:291`).
- `dealer_profiles.deals_won` is said to be kept up to date and never written,
  though the directory sorts by it. A seller sees their own card with its
  contacts masked, and the form that edits it saves what it was shown.

## 7. What the models leave out

Each module names at its head what it abstracts. In general: texts, forms,
filters, search and summaries; who is allowed to call an operation, except
where a route or a handler decides it by the role (there the model asks too);
the rounding of money; deadlocks between row locks, which Postgres ends by
aborting one transaction (every transaction is one step, except where its
inside matters).

Not modelled:

- Operations nothing calls: `MarkClaimConverted`, `ReleaseClaimOnDealLost`,
  `RevokeFamily`, `ChangeEmail`, `ChangePhone`, the status of a user by
  `store.Users` alone, and the manual ban, unban and reset of a bucket.
- Profiles of dealers, cards of sellers, templates of documents: forms over one
  row each, with no step that depends on another one's. Rendering is text.
- The audit and security log: rows that are appended and shown.
- Migrations: they run once, from one command, before anything here. They take
  no lock of their own, so two releases at once are not protected; the
  deployment script runs one.
- Configuration, commands, HTTP form, metrics, storage of files, the adapters'
  requests to the networks: wiring and I/O. The networks' answers are the
  nondeterministic answers of `Publish`, `TestConnection` and `FinishOAuth`.
- The browser client and the deployment keep no state the modules need; a
  release that restarts the processes is a crash of the models.
- The clock of a token bucket is Redis' own in the model; the code passes the
  time of the process, so skew between two processes is left out.
