------------------------------ MODULE Sessions ------------------------------
(* Refresh sessions, access tokens and the list of revoked sessions:         *)
(* service/auth.go, service/revoker.go, service/admin.go, store/sessions.go, *)
(* store/users.go and the handlers over them.                                *)
(*                                                                           *)
(* A refresh session is a row of Postgres; an access token is a signed claim *)
(* checked without Postgres, so a revoked session is also marked in Redis.   *)
(* The two are written one after the other by requests that run              *)
(* concurrently: call[r] is what request r has read and where it stands.     *)
(* Whoever holds the browser's cookie presents it; several tabs may present  *)
(* the same one, and the answer that carries the next one may be lost.       *)
EXTENDS Naturals, FiniteSets

CONSTANTS Users,          \* accounts that may exist
          Roles,          \* roles an account may have
          Requests,       \* requests served at the same time
          MaxSessions,    \* bound: rows of refresh_sessions ever inserted
          MaxPassword,    \* bound: changes of a password
          MaxServed,      \* bound: requests ever started
          SkipVerify,     \* the configuration activates accounts at once
          MayRehash,      \* parameters of the hash changed since it was made
          RedisMayFail,   \* Redis may not answer the look-up of a mark
          None            \* no session, no user

ASSUME SessionsAssumption ==
    /\ MaxSessions \in Nat /\ MaxPassword \in Nat /\ MaxServed \in Nat
    /\ SkipVerify \in BOOLEAN /\ MayRehash \in BOOLEAN /\ RedisMayFail \in BOOLEAN
    /\ Roles # {} /\ None \notin Users /\ None \notin Nat

VARIABLES user,    \* the row of each account
          sess,    \* rows of refresh_sessions, by id
          access,  \* access tokens that have not expired: session and role
          marks,   \* sessions marked as revoked in Redis
          lost,    \* sessions whose mark was never written
          cookie,  \* the refresh token the browser holds, by its session
          reused,  \* families reported as stolen
          call,    \* requests in flight
          served   \* requests started so far

vars == <<user, sess, access, marks, lost, cookie, reused, call, served>>

SessionIds == 1 .. MaxSessions
Statuses == {"absent", "pending", "active", "suspended", "deleted"}
UserRow == [status: Statuses, gone: BOOLEAN, role: Roles, pw: 0 .. MaxPassword]
SessionRow == [state: {"absent", "live", "expired", "revoked", "purged"},
               user: Users \cup {None}, family: SessionIds \cup {None},
               previous: SessionIds \cup {None}, born: 0 .. MaxPassword, late: BOOLEAN]
Claims == [sess: SessionIds, role: Roles]
Steps == {"idle", "stamp", "issue", "read", "reissue", "write", "snapshot", "revoke",
          "mark", "softdelete"}
Kinds == {"none", "login", "refresh", "confirm", "password", "all", "one", "delete",
          "status", "role"}
Call == [at: Steps, kind: Kinds, user: Users \cup {None}, sess: SessionIds \cup {None},
         ids: SUBSET SessionIds, role: Roles, pw: 0 .. MaxPassword]

CanSignIn(st) == st \in {"active", "pending"}
Unrevoked(s) == sess[s].state \in {"live", "expired"}
Created == {s \in SessionIds : sess[s].state # "absent"}

AnyRole == CHOOSE x \in Roles : TRUE
Idle == [at |-> "idle", kind |-> "none", user |-> None, sess |-> None, ids |-> {},
         role |-> AnyRole, pw |-> 0]

Init ==
    /\ user = [u \in Users |-> [status |-> "absent", gone |-> FALSE, role |-> AnyRole, pw |-> 0]]
    /\ sess = [s \in SessionIds |-> [state |-> "absent", user |-> None, family |-> None,
                                     previous |-> None, born |-> 0, late |-> FALSE]]
    /\ access = {} /\ marks = {} /\ lost = {} /\ cookie = None /\ reused = {}
    /\ call = [r \in Requests |-> Idle] /\ served = 0

-----------------------------------------------------------------------------
(* Moves of a request. *)

Begin(r, c) == call[r] = Idle /\ call' = [call EXCEPT ![r] = c]
Goto(r, at) == call' = [call EXCEPT ![r].at = at]
End(r) == call' = [call EXCEPT ![r] = Idle]

\* An answer that carries cookies reaches the browser, or is lost on the way.
SetSessionCookies(s) == cookie' \in {s, cookie}
ClearSessionCookies == cookie' \in {None, cookie}

\* May the look-up come to "not revoked"?  When Redis does not answer it does,
\* whatever is marked.
MayLookLive(s) == s \notin marks \/ RedisMayFail

\* The request carries an access token that the middleware lets through.
Authenticate(t) == t \in access /\ MayLookLive(t.sess)

\* The sessions an account is shown as active.
ListActiveForUser(u) == {s \in SessionIds : sess[s].user = u /\ sess[s].state = "live"}

\* INSERT INTO refresh_sessions. late is a history of the model: the session
\* carries a password that has been changed, and no change is still to take
\* its snapshot of the sessions to end.
InsertSession(s, u, family, previous, born) ==
    /\ sess[s].state = "absent"
    /\ \A x \in SessionIds : x < s => sess[x].state # "absent"
    /\ LET stale == born < user[u].pw
           pending == \E r \in Requests : call[r].kind = "password" /\ call[r].user = u
                                          /\ call[r].at = "snapshot"
       IN sess' = [(IF previous = None THEN sess ELSE [sess EXCEPT ![previous].state = "revoked"])
                   EXCEPT ![s] = [state |-> "live", user |-> u, family |-> family,
                                  previous |-> previous, born |-> born,
                                  late |-> stale /\ ~pending]]

-----------------------------------------------------------------------------
(* Registration and sign-in. *)

\* Users.Create with the sending of the code left to SignIn; the tokens are
\* issued in a statement of their own.
Register(r, u, role) ==
    /\ user[u].status = "absent"
    /\ user' = [user EXCEPT ![u] = [status |-> IF SkipVerify THEN "active" ELSE "pending",
                                    gone |-> FALSE, role |-> role, pw |-> 0]]
    /\ Begin(r, [Idle EXCEPT !.at = "issue", !.kind = "login", !.user = u, !.role = role])
    /\ UNCHANGED <<sess, access, marks, lost, cookie, reused>>

\* The row is read once; lock, status and password are judged on that copy.
Login(r, u) ==
    /\ user[u].status # "absent" /\ ~user[u].gone /\ CanSignIn(user[u].status)
    /\ Begin(r, [Idle EXCEPT !.at = "stamp", !.kind = "login", !.user = u,
                             !.role = user[u].role, !.pw = user[u].pw])
    /\ UNCHANGED <<user, sess, access, marks, lost, cookie, reused>>

\* Sessions whose account got another password behind the back of a change.
SetLate(u) == [s \in SessionIds |-> IF sess[s].user = u THEN [sess[s] EXCEPT !.late = TRUE]
                                                      ELSE sess[s]]

\* The count of failures is reset and, when the parameters of the hash have
\* changed, the hash of the password that was typed is written back, over
\* whatever password the account has got in between.
LoginStamp(r) ==
    /\ call[r].at = "stamp"
    /\ \/ UNCHANGED <<user, sess>>
       \/ /\ MayRehash
          /\ user' = [user EXCEPT ![call[r].user].pw = call[r].pw]
          /\ sess' = IF user[call[r].user].pw = call[r].pw THEN sess ELSE SetLate(call[r].user)
    /\ Goto(r, "issue")
    /\ UNCHANGED <<access, marks, lost, cookie, reused>>

\* A new family, and an access token with the role read at the start.
IssueTokens(r) ==
    /\ call[r].at = "issue" /\ call[r].kind = "login"
    /\ \E s \in SessionIds :
        /\ InsertSession(s, call[r].user, s, None, call[r].pw)
        /\ access' = access \cup {[sess |-> s, role |-> call[r].role]}
        /\ SetSessionCookies(s)
    /\ End(r)
    /\ UNCHANGED <<user, marks, lost, reused>>

-----------------------------------------------------------------------------
(* Refresh. *)

\* Mutant of Rotate: the row that was presented is left as it is.
RotateKeepsOld(r, s) ==
    /\ sess[s].state = "live"
    /\ \E n \in SessionIds :
         /\ InsertSession(n, sess[s].user, sess[s].family, None, sess[s].born)
         /\ Begin(r, [Idle EXCEPT !.at = "mark", !.kind = "refresh", !.sess = n,
                                  !.user = sess[s].user, !.ids = {s}])
    /\ UNCHANGED <<cookie, reused>>

\* One transaction with the presented row locked. A revoked row is reported as
\* stolen; the UPDATE that ends the family is rolled back with the error.
Rotate(r, s) ==
    \/ /\ sess[s].state = "live"
       /\ \E n \in SessionIds :
            /\ InsertSession(n, sess[s].user, sess[s].family, s, sess[s].born)
            /\ Begin(r, [Idle EXCEPT !.at = "mark", !.kind = "refresh", !.sess = n,
                                     !.user = sess[s].user, !.ids = {s}])
       /\ UNCHANGED <<cookie, reused>>
    \/ /\ sess[s].state = "revoked"
       /\ reused' = reused \cup {sess[s].family}
       /\ ClearSessionCookies
       /\ UNCHANGED <<sess, call>>
    \/ /\ sess[s].state \in {"expired", "purged"}
       /\ ClearSessionCookies
       /\ UNCHANGED <<sess, reused, call>>

Refresh(r) ==
    /\ call[r] = Idle /\ cookie # None
    /\ Rotate(r, cookie)
    /\ UNCHANGED <<user, access, marks, lost>>

\* After the rotation is committed the account is read: an account that may
\* not sign in gets no token and the browser loses its cookie.
RefreshRead(r) ==
    /\ call[r].at = "read" /\ call[r].kind = "refresh"
    /\ LET u == user[call[r].user] IN
       \/ /\ CanSignIn(u.status) /\ ~u.gone
          /\ call' = [call EXCEPT ![r].at = "issue", ![r].role = u.role]
          /\ UNCHANGED cookie
       \/ /\ ~CanSignIn(u.status) \/ u.gone
          /\ End(r) /\ ClearSessionCookies
    /\ UNCHANGED <<user, sess, access, marks, lost, reused>>

RefreshIssue(r) ==
    /\ call[r].at = "issue" /\ call[r].kind = "refresh"
    /\ access' = access \cup {[sess |-> call[r].sess, role |-> call[r].role]}
    /\ SetSessionCookies(call[r].sess)
    /\ End(r)
    /\ UNCHANGED <<user, sess, marks, lost, reused>>

-----------------------------------------------------------------------------
(* A confirmed address: the account becomes active and the session of the    *)
(* request gets a second access token.                                       *)

ConfirmMark(r, t) ==
    /\ Authenticate(t)
    /\ LET u == sess[t.sess].user IN
       /\ ~user[u].gone
       /\ user' = [user EXCEPT ![u].status = IF @ = "pending" THEN "active" ELSE @]
       /\ Begin(r, [Idle EXCEPT !.at = "read", !.kind = "confirm", !.user = u, !.sess = t.sess])
    /\ UNCHANGED <<sess, access, marks, lost, cookie, reused>>

ReissueRead(r) ==
    /\ call[r].at = "read" /\ call[r].kind = "confirm"
    /\ LET u == user[call[r].user] IN
       IF CanSignIn(u.status) /\ ~u.gone
       THEN call' = [call EXCEPT ![r].at = "reissue", ![r].role = u.role]
       ELSE End(r)
    /\ UNCHANGED <<user, sess, access, marks, lost, cookie, reused>>

ReissueAccess(r) ==
    /\ call[r].at = "reissue" /\ call[r].kind = "confirm"
    /\ access' = access \cup {[sess |-> call[r].sess, role |-> call[r].role]}
    /\ End(r)
    /\ UNCHANGED <<user, sess, marks, lost, cookie, reused>>

-----------------------------------------------------------------------------
(* Revocation: first in Postgres, then in Redis. *)

\* Mutant of Logout: nothing is written to Redis.
LogoutUnmarked(r) ==
    /\ cookie # None /\ Unrevoked(cookie) /\ call[r] = Idle
    /\ sess' = [sess EXCEPT ![cookie].state = "revoked"]
    /\ ClearSessionCookies
    /\ UNCHANGED <<user, access, marks, lost, reused, call>>

\* Logout revokes the session of the presented token, and only a row that is
\* not revoked yet gives an id to mark.
Logout(r) ==
    /\ cookie # None /\ Unrevoked(cookie)
    /\ sess' = [sess EXCEPT ![cookie].state = "revoked"]
    /\ Begin(r, [Idle EXCEPT !.at = "mark", !.kind = "one", !.ids = {cookie},
                             !.user = sess[cookie].user])
    /\ ClearSessionCookies
    /\ UNCHANGED <<user, access, marks, lost, reused>>

\* The owner ends one of the sessions listed as active.
RevokeSession(r, t, s) ==
    /\ Authenticate(t)
    /\ s \in ListActiveForUser(sess[t.sess].user)
    /\ Begin(r, [Idle EXCEPT !.at = "revoke", !.kind = "one", !.ids = {s}, !.user = sess[s].user])
    /\ UNCHANGED <<user, sess, access, marks, lost, cookie, reused>>

LogoutEverywhere(r, t) ==
    /\ Authenticate(t)
    /\ Begin(r, [Idle EXCEPT !.at = "snapshot", !.kind = "all", !.user = sess[t.sess].user])
    /\ UNCHANGED <<user, sess, access, marks, lost, cookie, reused>>

\* The old password is verified on a copy; the new hash is a second statement.
ChangePassword(r, t) ==
    /\ Authenticate(t)
    /\ LET u == sess[t.sess].user IN
       /\ ~user[u].gone /\ user[u].pw < MaxPassword
       /\ Begin(r, [Idle EXCEPT !.at = "write", !.kind = "password", !.user = u,
                                !.pw = user[u].pw + 1])
    /\ UNCHANGED <<user, sess, access, marks, lost, cookie, reused>>

\* Mutant of UpdatePasswordHash: no session is ended afterwards.
UpdatePasswordHashOnly(r) ==
    /\ call[r].at = "write" /\ call[r].kind = "password"
    /\ user' = [user EXCEPT ![call[r].user].pw = call[r].pw]
    /\ End(r)
    /\ UNCHANGED <<sess, access, marks, lost, cookie, reused>>

UpdatePasswordHash(r) ==
    /\ call[r].at = "write" /\ call[r].kind = "password"
    /\ user' = [user EXCEPT ![call[r].user].pw = call[r].pw]
    /\ Goto(r, "snapshot")
    /\ UNCHANGED <<sess, access, marks, lost, cookie, reused>>

DeleteAccount(r, t) ==
    /\ Authenticate(t) /\ ~user[sess[t.sess].user].gone
    /\ Begin(r, [Idle EXCEPT !.at = "snapshot", !.kind = "delete", !.user = sess[t.sess].user])
    /\ UNCHANGED <<user, sess, access, marks, lost, cookie, reused>>

\* Mutant of SetUserStatus: what the form says is written unchecked.
SetUserStatusRaw(r, u, st) ==
    /\ user[u].status # "absent" /\ call[r] = Idle
    /\ user' = [user EXCEPT ![u].status = "blocked"]
    /\ UNCHANGED <<sess, access, marks, lost, cookie, reused, call>>

\* An administrator sets the status; the sessions end unless it is active.
SetUserStatus(r, u, st) ==
    /\ user[u].status # "absent" /\ st # "absent"
    /\ user' = [user EXCEPT ![u].status = st]
    /\ IF st = "active" THEN call[r] = Idle /\ UNCHANGED call
       ELSE Begin(r, [Idle EXCEPT !.at = "snapshot", !.kind = "status", !.user = u])
    /\ UNCHANGED <<sess, access, marks, lost, cookie, reused>>

SetUserRole(r, u, role) ==
    /\ user[u].status # "absent"
    /\ user' = [user EXCEPT ![u].role = role]
    /\ Begin(r, [Idle EXCEPT !.at = "snapshot", !.kind = "role", !.user = u])
    /\ UNCHANGED <<sess, access, marks, lost, cookie, reused>>

\* RevokeAllForUser is one UPDATE: it sees the rows of its snapshot, and
\* changes those of them that are still not revoked when it reaches them.
RevokeAllSnapshot(r) ==
    /\ call[r].at = "snapshot"
    /\ call' = [call EXCEPT ![r].at = "revoke",
                            ![r].ids = {s \in SessionIds : Unrevoked(s) /\ sess[s].user = call[r].user}]
    /\ UNCHANGED <<user, sess, access, marks, lost, cookie, reused>>

RevokeRows(r) ==
    /\ call[r].at = "revoke"
    /\ LET ended == {s \in call[r].ids : Unrevoked(s)} IN
       /\ sess' = [s \in SessionIds |-> IF s \in ended THEN [sess[s] EXCEPT !.state = "revoked"]
                                                       ELSE sess[s]]
       /\ call' = [call EXCEPT ![r].at = "mark",
                               ![r].ids = IF call[r].kind = "one" THEN @ ELSE ended]
    /\ UNCHANGED <<user, access, marks, lost, cookie, reused>>

\* Where a request goes once its marks are written: only a refresh and a
\* deletion have more to do, the others answer and clear the cookie of the
\* browser that asked (an administrator's request clears nobody's).
AfterMarks(r) ==
    CASE call[r].kind = "refresh" -> Goto(r, "read") /\ UNCHANGED cookie
      [] call[r].kind = "delete" -> Goto(r, "softdelete") /\ UNCHANGED cookie
      [] call[r].kind \in {"password", "all"} -> End(r) /\ ClearSessionCookies
      [] OTHER -> End(r) /\ UNCHANGED cookie

RevokeMany(r) ==
    /\ call[r].at = "mark"
    /\ marks' = marks \cup call[r].ids
    /\ AfterMarks(r)
    /\ UNCHANGED <<user, sess, access, lost, reused>>

\* Redis did not answer: the error is logged and the request goes on.
RevokeManyFails(r) ==
    /\ call[r].at = "mark"
    /\ lost' = lost \cup call[r].ids
    /\ AfterMarks(r)
    /\ UNCHANGED <<user, sess, access, marks, reused>>

\* The account is anonymised and every session it still has is revoked, this
\* time without a mark.
SoftDelete(r) ==
    /\ call[r].at = "softdelete"
    /\ user' = [user EXCEPT ![call[r].user].status = "deleted", ![call[r].user].gone = TRUE]
    /\ sess' = [s \in SessionIds |->
                  IF sess[s].user = call[r].user /\ Unrevoked(s)
                  THEN [sess[s] EXCEPT !.state = "revoked"] ELSE sess[s]]
    /\ ClearSessionCookies
    /\ End(r)
    /\ UNCHANGED <<access, marks, lost, reused>>

\* The client disconnects or the process dies: the context of the request is
\* cancelled, and what it had not written yet is never written.
Abandon(r) ==
    /\ call[r] # Idle
    /\ lost' = IF call[r].at = "mark" THEN lost \cup call[r].ids ELSE lost
    /\ sess' = IF call[r].kind = "password" /\ call[r].at \in {"snapshot", "revoke"}
               THEN SetLate(call[r].user) ELSE sess
    /\ End(r)
    /\ UNCHANGED <<user, access, marks, cookie, reused>>

-----------------------------------------------------------------------------
(* Time. *)

\* A refresh token passes its expires_at.
SessionExpires(s) ==
    /\ sess[s].state = "live"
    /\ sess' = [sess EXCEPT ![s].state = "expired"]
    /\ UNCHANGED <<user, access, marks, lost, cookie, reused, call>>

\* The worker deletes rows a month after they expired or were revoked: no
\* access token of the row and no request over it is left by then.
DeleteExpired(s) ==
    /\ sess[s].state \in {"expired", "revoked"}
    /\ \A t \in access : t.sess # s
    /\ \A r \in Requests : call[r] = Idle
    /\ sess' = [sess EXCEPT ![s].state = "purged"]
    /\ UNCHANGED <<user, access, marks, lost, cookie, reused, call>>

AccessExpires(t) ==
    /\ t \in access
    /\ access' = access \ {t}
    /\ UNCHANGED <<user, sess, marks, lost, cookie, reused, call>>

\* A mark lives one minute longer than an access token: every token issued
\* before the mark has expired, and so has one issued by a request that
\* authenticated before it, which lives less than the minute (the write
\* timeout of the server is 30 s).
MarkExpires(s) ==
    /\ s \in marks
    /\ \A t \in access : t.sess # s
    /\ \A r \in Requests : call[r].sess # s
    /\ marks' = marks \ {s}
    /\ UNCHANGED <<user, sess, access, lost, cookie, reused, call>>

-----------------------------------------------------------------------------
Step(r) ==
    \/ LoginStamp(r) \/ IssueTokens(r) \/ RefreshRead(r) \/ RefreshIssue(r)
    \/ ReissueRead(r) \/ ReissueAccess(r) \/ UpdatePasswordHash(r)
    \/ RevokeAllSnapshot(r) \/ RevokeRows(r) \/ RevokeMany(r) \/ RevokeManyFails(r)
    \/ SoftDelete(r) \/ Abandon(r)

SigningIn(r) ==
    \/ \E u \in Users, role \in Roles : Register(r, u, role)
    \/ \E u \in Users : Login(r, u)

Leaving(r) == Logout(r) \/ \E t \in access : LogoutEverywhere(r, t)

OwnAccount(r) ==
    \E t \in access : \/ ConfirmMark(r, t) \/ ChangePassword(r, t)
                      \/ \E s \in SessionIds : RevokeSession(r, t, s)

Administer(r) ==
    \/ \E u \in Users, st \in Statuses : SetUserStatus(r, u, st)
    \/ \E u \in Users, role \in Roles : SetUserRole(r, u, role)

Start(r) ==
    \/ SigningIn(r) \/ Refresh(r) \/ Leaving(r) \/ OwnAccount(r) \/ Administer(r)
    \/ \E t \in access : DeleteAccount(r, t)

Passing ==
    \/ \E s \in SessionIds : SessionExpires(s) \/ DeleteExpired(s) \/ MarkExpires(s)
    \/ \E t \in access : AccessExpires(t)

Next ==
    \/ \E r \in Requests : Start(r) /\ served < MaxServed /\ served' = served + 1
    \/ \E r \in Requests : Step(r) /\ UNCHANGED served
    \/ Passing /\ UNCHANGED served

Spec == Init /\ [][Next]_vars

-----------------------------------------------------------------------------
(* Properties. *)

TypeOK ==
    /\ user \in [Users -> UserRow]
    /\ sess \in [SessionIds -> SessionRow]
    /\ access \subseteq Claims /\ marks \subseteq SessionIds /\ lost \subseteq SessionIds
    /\ cookie \in SessionIds \cup {None} /\ reused \subseteq SessionIds
    /\ call \in [Requests -> Call] /\ served \in 0 .. MaxServed

\* However many tabs present the same token, and however many answers are
\* lost, a family (one sign-in on one device) has at most one session that can
\* still be refreshed (Rotate locks the row it replaces).
OneLivePerFamily ==
    \A s, x \in SessionIds :
        Unrevoked(s) /\ Unrevoked(x) /\ sess[s].family = sess[x].family => s = x

\* An access token of a revoked session is refused: its session is marked, or
\* a request in flight has yet to mark it, or Redis refused the mark, or the
\* account was deleted while the session was made.
RevokedIsMarked ==
    \A t \in access : sess[t.sess].state = "revoked" =>
        \/ t.sess \in marks \cup lost
        \/ \E r \in Requests : call[r].at = "mark" /\ t.sess \in call[r].ids
        \/ user[sess[t.sess].user].gone

\* A session opened with an earlier password does not outlive the change of
\* the password, unless it was inserted after the change had listed the
\* sessions to end, or the request that changed it was cut short.
OldPasswordEnds ==
    \A s \in SessionIds :
        sess[s].state = "live" /\ sess[s].born < user[sess[s].user].pw =>
            \/ sess[s].late
            \/ \E r \in Requests : /\ call[r].kind = "password" /\ call[r].user = sess[s].user
                                   /\ call[r].at \in {"snapshot", "revoke"}

\* What auth.go and sessions.go say of a token presented twice: the whole
\* family is ended in the database.
ReuseEndsTheFamily ==
    \A s \in SessionIds : sess[s].family \in reused => ~Unrevoked(s)
=============================================================================
