------------------------------- MODULE SignIn -------------------------------
(* Signing in with a password and confirming the address of an account:      *)
(* service/auth.go (Login, handleFailedLogin, SendVerificationCode,          *)
(* ConfirmVerificationCode), store/users.go, store/verification.go and       *)
(* domain/user.go, behind the limits of Protection. One account.             *)
(*                                                                           *)
(* A sign-in judges the row it has read and writes afterwards, and several   *)
(* run at once. A code is issued in one transaction and mailed after it; a   *)
(* code is consumed in one transaction and the account marked in another.    *)
EXTENDS Protection, FiniteSets

CONSTANTS Requests,       \* requests served at the same time
          FreeAttempts,   \* failures without a lock (freeAttempts: 4)
          LockBase, LockMax, \* shortest and longest lock
          Pause,          \* between two codes (minInterval: a minute)
          CodeLife,       \* life of a code
          MaxCodes,       \* bound: codes ever issued
          MaxServed       \* bound: requests ever started

ASSUME SignInAssumption ==
    /\ FreeAttempts \in Nat \ {0} /\ LockBase \in Nat \ {0} /\ LockMax \in Nat \ {0}
    /\ LockBase <= LockMax
    /\ Pause \in Nat \ {0} /\ CodeLife \in Nat \ {0} /\ MaxCodes \in Nat /\ MaxServed \in Nat
    /\ IsFiniteSet(Requests)

VARIABLES status,    \* the status of the account
          verified,  \* email_verified_at is set
          failed,    \* failed_login_count
          locked,    \* locked_until, 0 when NULL
          missed,    \* history: failures since the last success
          codes,     \* verification codes, by the order of their issue
          inbox,     \* codes whose mail has arrived
          call,      \* requests in flight
          served     \* requests started so far

accountVars == <<status, verified, failed, locked, missed>>
codeVars == <<codes, inbox>>
vars == <<now, protectionVars, accountVars, codeVars, call, served>>

Statuses == {"pending", "active", "suspended", "deleted"}
CanSignIn(st) == st \in {"active", "pending"}
CodeIds == 1 .. MaxCodes
Code == [state: {"none", "open", "consumed"}, at: 0 .. MaxTime]
Idle == [at |-> "idle", addr |-> CHOOSE a \in Addrs : TRUE, seen |-> 0]

\* A registered account whose first code is yet to be sent.
Init ==
    /\ ProtectionInit
    /\ status = "pending" /\ verified = FALSE
    /\ failed = 0 /\ locked = 0 /\ missed = 0
    /\ codes = [c \in CodeIds |-> [state |-> "none", at |-> 0]]
    /\ inbox = {}
    /\ call = [r \in Requests |-> Idle]
    /\ served = 0

Goto(r, at) == call' = [call EXCEPT ![r].at = at]

\* The request answers, and the answer counts against its address.
Answer(r, what) ==
    /\ call' = [call EXCEPT ![r] = Idle]
    /\ PunishStatus(call[r].addr, what)
    /\ UNCHANGED <<bucket, passes>>

-----------------------------------------------------------------------------
Admit(r, a, handler) == call' = [call EXCEPT ![r] = [at |-> handler, addr |-> a, seen |-> 0]]

\* A request over its limit is refused and counts as suspicious.
Refuse(a) == PunishStatus(a, "rate_limited") /\ UNCHANGED call

\* RateLimit: the sign-ins of an address share its bucket.
LimitedByAddress(r, a, handler) ==
    \/ HasToken(a) /\ TakeToken(a) /\ Admit(r, a, handler) /\ UNCHANGED <<score, strikes, ban>>
    \/ ~HasToken(a) /\ RefuseToken(a) /\ Refuse(a)

\* RateLimitByUser: what is left in the bucket of the user is not kept here,
\* so that any request may be the one over the limit.
LimitedByUser(r, a, handler) ==
    /\ \/ Admit(r, a, handler) /\ UNCHANGED <<score, strikes, ban>>
       \/ Refuse(a)
    /\ UNCHANGED <<bucket, passes>>

\* A request of a banned address stops here; the others meet the limit of
\* their route: a code is asked for and confirmed by a user who is signed in.
Arrive(r, a, handler) ==
    /\ call[r] = Idle /\ served < MaxServed /\ served' = served + 1
    /\ ~IsBanned(a)
    /\ IF handler = "login" THEN LimitedByAddress(r, a, handler) ELSE LimitedByUser(r, a, handler)
    /\ UNCHANGED <<now, accountVars, codeVars>>

\* WAF, before the bucket: the request is registered with the weight of what
\* it was recognised by and answered without a handler, and the answer to a
\* scanner is "not found", which PunishStatus registers once more.
Recognised(r, a) ==
    /\ call[r] = Idle /\ served < MaxServed /\ served' = served + 1
    /\ ~IsBanned(a)
    /\ \/ /\ \E weight \in OddWeights : RegisterSuspicious(a, weight)
          /\ UNCHANGED call
       \/ /\ RegisterSuspicious(a, ScannerWeight)
          /\ call' = [call EXCEPT ![r] = [at |-> "unknown", addr |-> a, seen |-> 0]]
    /\ UNCHANGED <<now, bucket, passes, accountVars, codeVars>>

NotFound(r) ==
    /\ call[r].at = "unknown"
    /\ Answer(r, "not_found")
    /\ UNCHANGED <<now, accountVars, codeVars, served>>

-----------------------------------------------------------------------------
(* Sign-in. *)

\* How long the failure with this number locks the account.
LockoutDuration(n) ==
    IF n <= FreeAttempts THEN 0 ELSE Least(LockBase * TwoTo[n - FreeAttempts - 1], LockMax)

\* The row is read: a lock, a status that may not sign in and the password
\* are judged on the copy.
LoginRead(r) ==
    /\ call[r].at = "login"
    /\ \/ locked > now /\ Answer(r, "locked")
       \/ locked <= now /\ ~CanSignIn(status) /\ Answer(r, "forbidden")
       \/ /\ locked <= now /\ CanSignIn(status)
          /\ \E at \in {"failed", "succeeded"} :
               call' = [call EXCEPT ![r].at = at, ![r].seen = failed]
          /\ UNCHANGED protectionVars
    /\ UNCHANGED <<now, accountVars, codeVars, served>>

\* Mutant of RegisterFailedLogin: the count that was read is written back.
RegisterFailedStale(seen) ==
    /\ failed' = seen + 1
    /\ locked' = IF LockoutDuration(seen + 1) > 0 THEN now + LockoutDuration(seen + 1) ELSE locked

\* One UPDATE counts the failure; the lock it sets is the one of the count
\* that was read before the password was checked.
RegisterFailedLogin(seen) ==
    /\ failed' = failed + 1
    /\ locked' = IF LockoutDuration(seen + 1) > 0 THEN now + LockoutDuration(seen + 1) ELSE locked

LoginFailed(r) ==
    /\ call[r].at = "failed"
    /\ RegisterFailedLogin(call[r].seen)
    /\ missed' = missed + 1
    /\ Answer(r, "unauthorized")
    /\ UNCHANGED <<now, status, verified, codeVars, served>>

LoginSucceeded(r) ==
    /\ call[r].at = "succeeded"
    /\ failed' = 0 /\ locked' = 0 /\ missed' = 0
    /\ Answer(r, "ok")
    /\ UNCHANGED <<now, status, verified, codeVars, served>>

-----------------------------------------------------------------------------
(* Verification codes. *)

Open == {c \in CodeIds : codes[c].state = "open"}
Expired(c) == codes[c].at + CodeLife <= now
Issued == {c \in CodeIds : codes[c].state # "none"}

\* The account is not verified yet and no code that still works is younger
\* than the pause.
SendCode(r) ==
    /\ call[r].at = "send"
    /\ IF verified \/ \E c \in Open : ~Expired(c) /\ now - codes[c].at < Pause
       THEN Answer(r, "refused")
       ELSE Goto(r, "issue") /\ UNCHANGED protectionVars
    /\ UNCHANGED <<now, accountVars, codeVars, served>>

\* One transaction: the open code is consumed and a new one inserted.
IssueCode(r) ==
    /\ call[r].at = "issue"
    /\ \E c \in CodeIds \ Issued :
         /\ \A x \in CodeIds : x < c => x \in Issued
         /\ codes' = [x \in CodeIds |->
               IF x = c THEN [state |-> "open", at |-> now]
               ELSE IF x \in Open THEN [codes[x] EXCEPT !.state = "consumed"] ELSE codes[x]]
         /\ call' = [call EXCEPT ![r].at = "mail", ![r].seen = c]
    /\ UNCHANGED <<now, protectionVars, accountVars, inbox, served>>

\* Two overlapping transactions: the second insert meets the unique index.
IssueConflicts(r) ==
    /\ call[r].at = "issue"
    /\ \E x \in Open : codes[x].at = now
    /\ Answer(r, "error")
    /\ UNCHANGED <<now, accountVars, codeVars, served>>

\* Send: a mail that was taken may be lost on its way, and one that ended in an
\* error, with the end of the transfer, may arrive.
Deliver(c) == inbox' \in {inbox, inbox \cup {c}}

\* The mail is sent after the commit, and may fail.
MailCode(r) ==
    /\ call[r].at = "mail"
    /\ Deliver(call[r].seen)
    /\ Answer(r, "mailed")
    /\ UNCHANGED <<now, accountVars, codes, served>>

\* One transaction over the open code, locked. Every refusal is an error, and
\* an error rolls back what was written before it: the expired code stays
\* open, and the failed attempt is not counted. Only a match is kept.
Consume(r, c) ==
    \/ /\ c \in Open /\ ~Expired(c)
       /\ codes' = [codes EXCEPT ![c].state = "consumed"]
       /\ Goto(r, "verify")
       /\ UNCHANGED protectionVars
    \/ /\ c \in Open /\ Expired(c)
       /\ Answer(r, "refused") /\ UNCHANGED codes
    \/ /\ c \notin Open
       /\ Answer(r, IF Open = {} THEN "not_found" ELSE "refused") /\ UNCHANGED codes

ConfirmCode(r) ==
    /\ call[r].at = "confirm"
    /\ \E c \in inbox : Consume(r, c)
    /\ UNCHANGED <<now, accountVars, inbox, served>>

\* A code that nobody was sent: a mistyped one.
ConfirmMistyped(r) ==
    /\ call[r].at = "confirm"
    /\ Answer(r, IF Open = {} THEN "not_found" ELSE "refused")
    /\ UNCHANGED <<now, accountVars, codeVars, served>>

\* Mutant of MarkVerified: the status is not looked at.
MarkVerifiedAnyway(r) ==
    /\ call[r].at = "verify"
    /\ verified' = TRUE /\ status' = "active"
    /\ Goto(r, "reissue")
    /\ UNCHANGED <<now, protectionVars, failed, locked, missed, codeVars, served>>

\* A transaction of its own: the address is verified, and a pending account
\* becomes active.
MarkVerified(r) ==
    /\ call[r].at = "verify"
    /\ verified' = TRUE
    /\ status' = IF status = "pending" THEN "active" ELSE status
    /\ Goto(r, "reissue")
    /\ UNCHANGED <<now, protectionVars, failed, locked, missed, codeVars, served>>

\* The row is read once more, and an account that may not sign in gets no new
\* token, although its address has been verified.
ReissueAccess(r) ==
    /\ call[r].at = "reissue"
    /\ Answer(r, IF CanSignIn(status) THEN "ok" ELSE "forbidden")
    /\ UNCHANGED <<now, accountVars, codeVars, served>>

-----------------------------------------------------------------------------
\* Mutant of SetUserStatus: what the form says is written unchecked.
SetUserStatusRaw(st) ==
    /\ served < MaxServed /\ served' = served + 1
    /\ status' = "blocked"
    /\ UNCHANGED <<now, verified, protectionVars, failed, locked, missed, codeVars, call>>

\* An administrator sets the status; an account set active counts as verified.
SetUserStatus(st) ==
    /\ served < MaxServed /\ served' = served + 1
    /\ st # status
    /\ status' = st /\ verified' = (verified \/ st = "active")
    /\ UNCHANGED <<now, protectionVars, failed, locked, missed, codeVars, call>>

\* The client is gone or the process dies.
Abandon(r) ==
    /\ call[r] # Idle
    /\ call' = [call EXCEPT ![r] = Idle]
    /\ UNCHANGED <<now, protectionVars, accountVars, codeVars, served>>

\* A request is shorter than the unit of time: the write timeout of the server
\* is 30 s, the shortest lock and the pause are a minute.
Tick ==
    /\ now < MaxTime /\ now' = now + 1
    /\ \A r \in Requests : call[r] = Idle
    /\ UNCHANGED <<protectionVars, accountVars, codeVars, call, served>>

Handlers == {"login", "send", "confirm"}

Next ==
    \/ \E r \in Requests, a \in Addrs : Recognised(r, a) \/ \E h \in Handlers : Arrive(r, a, h)
    \/ \E r \in Requests :
         \/ NotFound(r) \/ LoginRead(r) \/ LoginFailed(r) \/ LoginSucceeded(r)
         \/ SendCode(r) \/ IssueCode(r) \/ IssueConflicts(r) \/ MailCode(r)
         \/ ConfirmCode(r) \/ ConfirmMistyped(r) \/ MarkVerified(r) \/ ReissueAccess(r)
         \/ Abandon(r)
    \/ \E st \in Statuses : SetUserStatus(st)
    \/ Tick

Spec == Init /\ [][Next]_vars

-----------------------------------------------------------------------------
(* Properties. *)

TypeOK ==
    /\ ProtectionTypeOK
    /\ status \in Statuses /\ verified \in BOOLEAN
    /\ failed \in 0 .. MaxServed /\ missed \in 0 .. MaxServed /\ locked \in 0 .. MaxTime + LockMax
    /\ codes \in [CodeIds -> Code] /\ inbox \subseteq CodeIds
    /\ served \in 0 .. MaxServed

\* Sign-ins that run at once may all judge the same count, so the lock comes
\* late, but no failure is lost and the delay is bounded by the number of
\* requests in flight: an account with that many more failures since its last
\* success than are free has been locked (the comment of RegisterFailedLogin).
OvershootBounded == missed >= FreeAttempts + Cardinality(Requests) => locked > 0

\* A confirmed code never lets a suspended or deleted account in again: only
\* an administrator changes such a status.
SuspendedStays ==
    [][(status \in {"suspended", "deleted"}) => (status' = status \/ served' > served)]_vars

\* Between any two ticks an address gets no more requests through than the
\* burst and the rate of the rule allow, whatever the spacing of its requests
\* and although the key of the bucket dies after two windows.
PassesBetween(a, s, t) == passes[a][t] - (IF s = 0 THEN 0 ELSE passes[a][s - 1])

RateBound ==
    \A a \in Addrs, s \in 0 .. now :
        PassesBetween(a, s, now) * Window <= Capacity + (now - s) * Limit

\* A ban is not shortened by a later one: the duration grows with the strikes
\* and the strikes are remembered as long as the longest ban.
BanNeverShortened == [][\A a \in Addrs : ban'[a] >= ban[a]]_vars
=============================================================================
