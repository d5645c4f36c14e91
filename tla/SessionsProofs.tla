--------------------------- MODULE SessionsProofs ---------------------------
(* Theorems about Sessions, for any number of accounts, sessions, passwords  *)
(* and requests served at once.                                              *)
EXTENDS Sessions, TLAPS

-----------------------------------------------------------------------------
(* Types, and what the rows and the requests in flight refer to: a session   *)
(* that was made has an account and belongs to a family that was made, a     *)
(* token and a request are about sessions that were made.                    *)

Made(s) == sess[s].state # "absent"

RowsLinked ==
    \A s \in SessionIds : Made(s) =>
        sess[s].user \in Users /\ sess[s].family \in SessionIds /\ Made(sess[s].family)
TokensLinked == \A t \in access : Made(t.sess)
CallLinked(c) ==
    /\ c = Idle \/ c.user \in Users
    /\ c.sess # None => Made(c.sess)
    /\ c.kind \in {"refresh", "confirm"} => c.sess # None
CallsLinked == \A r \in Requests : CallLinked(call[r])
GoneHasRow == \A u \in Users : user[u].gone => user[u].status # "absent"

Linked == RowsLinked /\ TokensLinked /\ CallsLinked /\ GoneHasRow
Good == TypeOK /\ Linked

(* The mark of a revoked session is written, or about to be, or was lost, or *)
(* the account is gone, as long as a token or a request is about the session.*)
InUse(s) == (\E t \in access : t.sess = s) \/ \E r \in Requests : call[r].sess = s
Ended(s) ==
    \/ s \in marks \cup lost
    \/ \E r \in Requests : call[r].at = "mark" /\ s \in call[r].ids
    \/ user[sess[s].user].gone
MarksInv == \A s \in SessionIds : sess[s].state = "revoked" /\ InUse(s) => Ended(s)

(* A live session of an earlier password is late, or a change of the password*)
(* is yet to list the sessions, or has listed this one.                      *)
Ending(s, r) ==
    /\ call[r].kind = "password" /\ call[r].user = sess[s].user
    /\ call[r].at = "snapshot" \/ (call[r].at = "revoke" /\ s \in call[r].ids)
PasswordInv ==
    \A s \in SessionIds :
        sess[s].state = "live" /\ sess[s].born < user[sess[s].user].pw =>
            sess[s].late \/ \E r \in Requests : Ending(s, r)

LEMMA IdleIsCall == Idle \in Call /\ Idle.kind = "none" /\ Idle.sess = None /\ Idle.ids = {}
<1>1. AnyRole \in Roles
  BY SessionsAssumption DEF SessionsAssumption, AnyRole
<1>2. 0 \in 0 .. MaxPassword
  BY SessionsAssumption DEF SessionsAssumption
<1> QED
  BY <1>1, <1>2 DEF Idle, Call, Steps, Kinds

(* A step that makes or ends sessions and rewrites one request.              *)
MadeStays == \A s \in SessionIds : Made(s) => Made(s)'

LEMMA OneCall ==
    ASSUME Good, MadeStays, NEW r \in Requests, NEW c \in Call,
           call' = [call EXCEPT ![r] = c],
           c = Idle \/ c.user \in Users,
           c.sess # None => Made(c.sess)',
           c.kind \in {"refresh", "confirm"} => c.sess # None
    PROVE  call' \in [Requests -> Call] /\ CallsLinked'
<1>1. call' \in [Requests -> Call]
  BY DEF Good, TypeOK
<1>2. ASSUME NEW x \in Requests
      PROVE  CallLinked(call[x])'
  <2>1. CASE x = r
    BY <2>1 DEF CallLinked, Good, TypeOK
  <2>2. CASE x # r
    <3>1. call'[x] = call[x] /\ CallLinked(call[x]) /\ call[x].sess \in SessionIds \cup {None}
      BY <2>2 DEF Good, TypeOK, Linked, CallsLinked, Call
    <3> QED
      BY <3>1 DEF CallLinked, MadeStays
  <2> QED
    BY <2>1, <2>2
<1> QED
  BY <1>1, <1>2 DEF CallsLinked

LEMMA SameCalls ==
    ASSUME Good, MadeStays, UNCHANGED call
    PROVE  call' \in [Requests -> Call] /\ CallsLinked'
<1>1. \A x \in Requests : CallLinked(call[x]) /\ call[x].sess \in SessionIds \cup {None}
  BY DEF Good, TypeOK, Linked, CallsLinked, Call
<1> QED
  BY <1>1 DEF Good, TypeOK, CallsLinked, CallLinked, MadeStays

LEMMA EndType ==
    ASSUME Good, MadeStays, NEW r \in Requests, End(r)
    PROVE  call' \in [Requests -> Call] /\ CallsLinked'
BY OneCall, IdleIsCall DEF End

LEMMA GotoType ==
    ASSUME Good, MadeStays, NEW r \in Requests, call[r] # Idle, NEW at \in Steps, Goto(r, at)
    PROVE  call' \in [Requests -> Call] /\ CallsLinked'
<1> DEFINE c == [call[r] EXCEPT !.at = at]
<1>1. call[r] \in Call /\ CallLinked(call[r])
  BY DEF Good, TypeOK, Linked, CallsLinked
<1>2. /\ c \in Call /\ c.user = call[r].user /\ c.sess = call[r].sess /\ c.kind = call[r].kind
  BY <1>1 DEF Call
<1>3. call' = [call EXCEPT ![r] = c]
  BY DEF Goto
<1>4. call[r].sess \in SessionIds \cup {None}
  BY <1>1 DEF Call
<1> HIDE DEF c
<1> QED
  BY <1>1, <1>2, <1>3, <1>4, OneCall DEF CallLinked, MadeStays

(* A request is begun with what is not named left as it is when idle.        *)
LEMMA BeginType ==
    ASSUME Good, MadeStays, NEW r \in Requests, NEW c \in Call, Begin(r, c), c.user \in Users,
           c.sess # None => Made(c.sess)',
           c.kind \in {"refresh", "confirm"} => c.sess # None
    PROVE  call' \in [Requests -> Call] /\ CallsLinked'
BY OneCall DEF Begin

-----------------------------------------------------------------------------
(* What a step does to the rows: it leaves what they are and ends some, or it*)
(* inserts one.                                                              *)

RowsStay ==
    /\ sess' \in [SessionIds -> SessionRow]
    /\ \A s \in SessionIds :
         /\ sess'[s].user = sess[s].user /\ sess'[s].family = sess[s].family
         /\ sess'[s].born = sess[s].born
         /\ sess'[s].state = sess[s].state
              \/ (sess[s].state # "absent" /\ sess'[s].state \in {"expired", "revoked", "purged"})
         /\ sess'[s].state = "expired" => Unrevoked(s)
         /\ sess[s].late => sess'[s].late

LEMMA RowsStayLinked ==
    ASSUME Good, RowsStay
    PROVE  MadeStays /\ RowsLinked'
BY DEF Good, Linked, RowsLinked, RowsStay, MadeStays, Made

LEMMA SameRows ==
    ASSUME Good, UNCHANGED sess
    PROVE  RowsStay
BY DEF Good, TypeOK, RowsStay, Unrevoked

LEMMA OneRow ==
    ASSUME Good, NEW s \in SessionIds, NEW st \in {"expired", "revoked", "purged"},
           Made(s), st = "expired" => Unrevoked(s),
           sess' = [sess EXCEPT ![s].state = st]
    PROVE  RowsStay
BY DEF Good, TypeOK, RowsStay, SessionRow, Made, Unrevoked

LEMMA LateRows ==
    ASSUME Good, NEW u, sess' = SetLate(u)
    PROVE  RowsStay
<1>1. \A s \in SessionIds : sess[s] \in SessionRow
  BY DEF Good, TypeOK
<1>2. \A s \in SessionIds : [sess[s] EXCEPT !.late = TRUE] \in SessionRow
                           /\ [sess[s] EXCEPT !.late = TRUE].state = sess[s].state
                           /\ [sess[s] EXCEPT !.late = TRUE].user = sess[s].user
                           /\ [sess[s] EXCEPT !.late = TRUE].family = sess[s].family
                           /\ [sess[s] EXCEPT !.late = TRUE].born = sess[s].born
  BY <1>1 DEF SessionRow
<1>3. \A s \in SessionIds : sess[s].late => sess'[s].late
  <2>1. \A s \in SessionIds : sess'[s].late = IF sess[s].user = u THEN TRUE ELSE sess[s].late
    BY <1>1 DEF SetLate, SessionRow
  <2> QED
    BY <2>1
<1> QED
  BY <1>1, <1>2, <1>3 DEF RowsStay, SetLate, Unrevoked

LEMMA RevokedRows ==
    ASSUME Good, NEW T, \A s \in T \cap SessionIds : Unrevoked(s),
           sess' = [s \in SessionIds |-> IF s \in T THEN [sess[s] EXCEPT !.state = "revoked"] ELSE sess[s]]
    PROVE  RowsStay
BY DEF Good, TypeOK, RowsStay, SessionRow, Unrevoked

(* A row that is inserted.                                                   *)
Inserted(s, u, family, previous, born) ==
    /\ ~Made(s) /\ sess'[s].state = "live" /\ sess'[s].user = u /\ sess'[s].family = family
    /\ sess'[s].born = born
    /\ sess'[s].late = (born < user[u].pw /\ ~\E r \in Requests : call[r].kind = "password"
                                          /\ call[r].user = u /\ call[r].at = "snapshot")
    /\ \A x \in SessionIds \ {s} :
         /\ sess'[x].user = sess[x].user /\ sess'[x].family = sess[x].family
         /\ sess'[x].born = sess[x].born /\ sess'[x].late = sess[x].late
         /\ sess'[x].state = IF x = previous THEN "revoked" ELSE sess[x].state

LEMMA InsertedRow ==
    ASSUME Good, NEW s \in SessionIds, NEW u \in Users, NEW family \in SessionIds,
           NEW previous \in SessionIds \cup {None}, NEW born \in 0 .. MaxPassword,
           family = s \/ Made(family), previous # None => Made(previous),
           InsertSession(s, u, family, previous, born)
    PROVE  /\ sess' \in [SessionIds -> SessionRow]
           /\ Inserted(s, u, family, previous, born)
           /\ MadeStays /\ RowsLinked'
<1> DEFINE old == IF previous = None THEN sess ELSE [sess EXCEPT ![previous].state = "revoked"]
           late == /\ born < user[u].pw
                   /\ ~ \E r \in Requests : call[r].kind = "password" /\ call[r].user = u
                                            /\ call[r].at = "snapshot"
           row == [state |-> "live", user |-> u, family |-> family, previous |-> previous,
                   born |-> born, late |-> late]
<1>0. None \notin SessionIds
  BY SessionsAssumption DEF SessionsAssumption, SessionIds
<1>1. sess' = [old EXCEPT ![s] = row] /\ ~Made(s)
  BY DEF InsertSession, Made
<1>2. /\ old \in [SessionIds -> SessionRow]
      /\ \A x \in SessionIds :
           /\ old[x].user = sess[x].user /\ old[x].family = sess[x].family
           /\ old[x].born = sess[x].born /\ old[x].late = sess[x].late
           /\ old[x].state = IF x = previous THEN "revoked" ELSE sess[x].state
  BY <1>0 DEF Good, TypeOK, SessionRow
<1>3. late \in BOOLEAN
  BY Zenon
<1> HIDE DEF late, old
<1>4. row \in SessionRow
  BY <1>3 DEF SessionRow
<1>5. sess' \in [SessionIds -> SessionRow] /\ sess'[s] = row
      /\ \A x \in SessionIds \ {s} : sess'[x] = old[x]
  BY <1>1, <1>2, <1>4
<1>6. Inserted(s, u, family, previous, born)
  BY <1>1, <1>2, <1>5 DEF Inserted, late
<1>7. MadeStays /\ Made(s)'
  BY <1>6 DEF Inserted, MadeStays, Made
<1>8. ASSUME NEW x \in SessionIds, Made(x)'
      PROVE  sess'[x].user \in Users /\ sess'[x].family \in SessionIds /\ sess'[sess'[x].family].state # "absent"
  <2>1. CASE x = s
    BY <1>6, <1>7, <2>1 DEF Inserted, MadeStays, Made
  <2>2. CASE x # s
    <3>1. Made(x)
      BY <1>0, <1>6, <1>8, <2>2 DEF Inserted, Made
    <3>2. sess[x].user \in Users /\ sess[x].family \in SessionIds /\ Made(sess[x].family)
      BY <3>1 DEF Good, Linked, RowsLinked
    <3> QED
      BY <1>6, <1>7, <2>2, <3>2 DEF Inserted, MadeStays, Made
  <2> QED
    BY <2>1, <2>2
<1>9. RowsLinked'
  BY <1>8 DEF RowsLinked, Made
<1> QED
  BY <1>5, <1>6, <1>7, <1>9

-----------------------------------------------------------------------------
(* Every step keeps the types and the links. The parts of the state besides  *)
(* the rows and the requests, which the lemmas above look after:             *)

RestOK ==
    /\ user \in [Users -> UserRow] /\ GoneHasRow
    /\ access \subseteq Claims /\ TokensLinked
    /\ marks \subseteq SessionIds /\ lost \subseteq SessionIds
    /\ cookie \in SessionIds \cup {None} /\ reused \subseteq SessionIds

LEMMA SameRest ==
    ASSUME Good, MadeStays
    PROVE  /\ UNCHANGED user => user' \in [Users -> UserRow] /\ GoneHasRow'
           /\ UNCHANGED access => access' \subseteq Claims /\ TokensLinked'
           /\ UNCHANGED marks => marks' \subseteq SessionIds
           /\ UNCHANGED lost => lost' \subseteq SessionIds
           /\ cookie' = cookie => cookie' \in SessionIds \cup {None}
           /\ UNCHANGED reused => reused' \subseteq SessionIds
BY DEF Good, TypeOK, Linked, GoneHasRow, TokensLinked, MadeStays, Claims

LEMMA CallParts ==
    ASSUME Good, NEW r \in Requests
    PROVE  /\ call[r].at \in Steps /\ call[r].kind \in Kinds
           /\ call[r].user \in Users \cup {None} /\ call[r].sess \in SessionIds \cup {None}
           /\ call[r].ids \in SUBSET SessionIds /\ call[r].role \in Roles
           /\ call[r].pw \in 0 .. MaxPassword
           /\ call[r].at # "idle" => call[r] # Idle
           /\ call[r] # Idle => call[r].user \in Users
           /\ call[r].sess # None => Made(call[r].sess)
           /\ call[r].kind \in {"refresh", "confirm"} => call[r].sess \in SessionIds
BY DEF Good, TypeOK, Call, Linked, CallsLinked, CallLinked, Idle

(* Good after a step, in the parts that the proofs below show.               *)
LEMMA GoodParts ==
    ASSUME sess' \in [SessionIds -> SessionRow], RowsLinked', RestOK',
           call' \in [Requests -> Call], CallsLinked', served' \in 0 .. MaxServed
    PROVE  Good'
BY DEF Good, TypeOK, Linked, RestOK

(* A request is begun and the rows are left alone.                           *)
LEMMA BeginGood ==
    ASSUME Good, UNCHANGED sess, NEW r \in Requests, NEW c \in Call, Begin(r, c),
           c.user \in Users, c.sess # None => Made(c.sess),
           c.kind \in {"refresh", "confirm"} => c.sess # None,
           MadeStays => RestOK', served' \in 0 .. MaxServed
    PROVE  Good'
<1>1. RowsStay /\ MadeStays /\ RowsLinked'
  BY SameRows, RowsStayLinked
<1>2. call' \in [Requests -> Call] /\ CallsLinked'
  BY <1>1, BeginType DEF Made
<1> QED
  BY <1>1, <1>2, GoodParts DEF RowsStay

LEMMA TokenAccount ==
    ASSUME Good, NEW t \in access
    PROVE  t.sess \in SessionIds /\ Made(t.sess) /\ sess[t.sess].user \in Users
BY DEF Good, TypeOK, Claims, Linked, TokensLinked, RowsLinked

LEMMA RegisterGood ==
    ASSUME Good, NEW r \in Requests, NEW u \in Users, NEW role \in Roles, Register(r, u, role),
           served' \in 0 .. MaxServed
    PROVE  Good'
<1> DEFINE c == [Idle EXCEPT !.at = "issue", !.kind = "login", !.user = u, !.role = role]
<1>1. c \in Call /\ c.user = u /\ c.sess = None /\ c.kind = "login"
  BY IdleIsCall DEF Call, Steps, Kinds
<1>2. user' \in [Users -> UserRow] /\ GoneHasRow'
  BY SessionsAssumption DEF Good, TypeOK, Linked, GoneHasRow, Register, UserRow, Statuses, SessionsAssumption
<1>3. MadeStays => RestOK'
  BY <1>2, SameRest DEF Register, RestOK
<1>4. Begin(r, c) /\ UNCHANGED sess
  BY DEF Register
<1> HIDE DEF c
<1> QED
  BY <1>1, <1>3, <1>4, BeginGood

LEMMA LoginGood ==
    ASSUME Good, NEW r \in Requests, NEW u \in Users, Login(r, u), served' \in 0 .. MaxServed
    PROVE  Good'
<1> DEFINE c == [Idle EXCEPT !.at = "stamp", !.kind = "login", !.user = u,
                             !.role = user[u].role, !.pw = user[u].pw]
<1>1. c \in Call /\ c.user = u /\ c.sess = None /\ c.kind = "login"
  BY IdleIsCall DEF Call, Steps, Kinds, Good, TypeOK, UserRow
<1>2. MadeStays => RestOK'
  BY SameRest DEF Login, RestOK
<1>3. Begin(r, c) /\ UNCHANGED sess
  BY DEF Login
<1> HIDE DEF c
<1> QED
  BY <1>1, <1>2, <1>3, BeginGood

LEMMA ConfirmMarkGood ==
    ASSUME Good, NEW r \in Requests, NEW t \in access, ConfirmMark(r, t), served' \in 0 .. MaxServed
    PROVE  Good'
<1> DEFINE u == sess[t.sess].user
           c == [Idle EXCEPT !.at = "read", !.kind = "confirm", !.user = u, !.sess = t.sess]
<1>1. t.sess \in SessionIds /\ Made(t.sess) /\ u \in Users
  BY TokenAccount
<1>2. c \in Call /\ c.user = u /\ c.sess = t.sess /\ c.kind = "confirm"
  BY <1>1, IdleIsCall DEF Call, Steps, Kinds
<1>3. /\ Begin(r, c)
      /\ user' = [user EXCEPT ![u].status = IF @ = "pending" THEN "active" ELSE @]
      /\ UNCHANGED <<sess, access, marks, lost, cookie, reused>>
  BY DEF ConfirmMark
<1> HIDE DEF u, c
<1>4. user' \in [Users -> UserRow] /\ GoneHasRow'
  BY <1>1, <1>3 DEF Good, TypeOK, Linked, GoneHasRow, UserRow, Statuses
<1>5. MadeStays => RestOK'
  BY <1>3, <1>4, SameRest DEF RestOK
<1>6. c.sess # None
  BY <1>1, <1>2, SessionsAssumption DEF SessionsAssumption, SessionIds
<1> QED
  BY <1>1, <1>2, <1>3, <1>5, <1>6, BeginGood

LEMMA OwnerGood ==
    ASSUME Good, NEW r \in Requests, NEW t \in access, served' \in 0 .. MaxServed,
           \/ \E s \in SessionIds : RevokeSession(r, t, s)
           \/ LogoutEverywhere(r, t) \/ ChangePassword(r, t) \/ DeleteAccount(r, t)
    PROVE  Good'
<1>1. t.sess \in SessionIds /\ Made(t.sess) /\ sess[t.sess].user \in Users
  BY TokenAccount
<1>2. UNCHANGED <<user, sess, access, marks, lost, cookie, reused>>
  BY DEF RevokeSession, LogoutEverywhere, ChangePassword, DeleteAccount
<1>3. MadeStays => RestOK'
  BY <1>2, SameRest DEF RestOK
<1>4. \E c \in Call : /\ Begin(r, c) /\ c.user \in Users /\ c.sess = None
                      /\ c.kind \notin {"refresh", "confirm"}
  <2>1. ASSUME NEW s \in SessionIds, RevokeSession(r, t, s)
        PROVE  /\ [Idle EXCEPT !.at = "revoke", !.kind = "one", !.ids = {s}, !.user = sess[s].user] \in Call
               /\ sess[s].user \in Users
    <3>1. sess[s].user \in Users
      BY <1>1, <2>1 DEF RevokeSession, ListActiveForUser
    <3>2. {s} \in SUBSET SessionIds
      OBVIOUS
    <3> QED
      BY <3>1, <3>2, IdleIsCall DEF Call, Steps, Kinds
  <2>2. ASSUME LogoutEverywhere(r, t)
        PROVE  [Idle EXCEPT !.at = "snapshot", !.kind = "all", !.user = sess[t.sess].user] \in Call
    BY <1>1, IdleIsCall DEF Call, Steps, Kinds
  <2>3. ASSUME ChangePassword(r, t)
        PROVE  [Idle EXCEPT !.at = "write", !.kind = "password", !.user = sess[t.sess].user,
                            !.pw = user[sess[t.sess].user].pw + 1] \in Call
    <3>1. user[sess[t.sess].user].pw + 1 \in 0 .. MaxPassword
      BY <1>1, <2>3, SessionsAssumption DEF ChangePassword, Good, TypeOK, UserRow, SessionsAssumption
    <3> QED
      BY <1>1, <3>1, IdleIsCall DEF Call, Steps, Kinds
  <2>4. ASSUME DeleteAccount(r, t)
        PROVE  [Idle EXCEPT !.at = "snapshot", !.kind = "delete", !.user = sess[t.sess].user] \in Call
    BY <1>1, IdleIsCall DEF Call, Steps, Kinds
  <2>5. CASE \E s \in SessionIds : RevokeSession(r, t, s)
    BY <2>1, <2>5, IdleIsCall DEF RevokeSession, Idle
  <2>6. CASE LogoutEverywhere(r, t)
    BY <1>1, <2>2, <2>6 DEF LogoutEverywhere, Idle
  <2>7. CASE ChangePassword(r, t)
    BY <1>1, <2>3, <2>7 DEF ChangePassword, Idle
  <2>8. CASE DeleteAccount(r, t)
    BY <1>1, <2>4, <2>8 DEF DeleteAccount, Idle
  <2> QED
    BY <2>5, <2>6, <2>7, <2>8
<1> QED
  BY <1>2, <1>3, <1>4, BeginGood

LEMMA AdministerGood ==
    ASSUME Good, NEW r \in Requests, Administer(r), served' \in 0 .. MaxServed
    PROVE  Good'
<1>1. ASSUME NEW u \in Users
      PROVE  /\ [Idle EXCEPT !.at = "snapshot", !.kind = "status", !.user = u] \in Call
             /\ [Idle EXCEPT !.at = "snapshot", !.kind = "role", !.user = u] \in Call
  BY IdleIsCall DEF Call, Steps, Kinds
<1>2. ASSUME NEW u \in Users, NEW st \in Statuses, SetUserStatus(r, u, st)
      PROVE  Good'
  <2>1. user' \in [Users -> UserRow] /\ GoneHasRow'
    BY <1>2 DEF Good, TypeOK, Linked, GoneHasRow, UserRow, SetUserStatus
  <2>2. MadeStays => RestOK'
    BY <1>2, <2>1, SameRest DEF RestOK, SetUserStatus
  <2>3. CASE st = "active"
    <3>1. RowsStay /\ MadeStays /\ RowsLinked' /\ UNCHANGED call
      BY <1>2, <2>3, SameRows, RowsStayLinked DEF SetUserStatus
    <3> QED
      BY <2>2, <3>1, SameCalls, GoodParts DEF RowsStay
  <2>4. CASE st # "active"
    <3>1. Begin(r, [Idle EXCEPT !.at = "snapshot", !.kind = "status", !.user = u]) /\ UNCHANGED sess
      BY <1>2, <2>4 DEF SetUserStatus
    <3>2. \E c \in Call : Begin(r, c) /\ c.user = u /\ c.sess = None /\ c.kind = "status"
      BY <1>1, <3>1 DEF Idle
    <3> QED
      BY <2>2, <3>1, <3>2, BeginGood
  <2> QED
    BY <2>3, <2>4
<1>3. ASSUME NEW u \in Users, NEW role \in Roles, SetUserRole(r, u, role)
      PROVE  Good'
  <2>1. user' \in [Users -> UserRow] /\ GoneHasRow'
    BY <1>3 DEF Good, TypeOK, Linked, GoneHasRow, UserRow, SetUserRole
  <2>2. MadeStays => RestOK'
    BY <1>3, <2>1, SameRest DEF RestOK, SetUserRole
  <2>3. \E c \in Call : Begin(r, c) /\ c.user = u /\ c.sess = None /\ c.kind = "role"
    BY <1>1, <1>3 DEF Idle, SetUserRole
  <2> QED
    BY <1>3, <2>2, <2>3, BeginGood DEF SetUserRole
<1> QED
  BY <1>2, <1>3 DEF Administer

-----------------------------------------------------------------------------
(* Steps of a request that was begun.                                        *)

LEMMA LoginStampGood ==
    ASSUME Good, NEW r \in Requests, LoginStamp(r), served' \in 0 .. MaxServed
    PROVE  Good'
<1>1. RowsStay
  BY SameRows, LateRows DEF LoginStamp
<1>2. MadeStays /\ RowsLinked'
  BY <1>1, RowsStayLinked
<1>3. call' \in [Requests -> Call] /\ CallsLinked'
  BY <1>2, GotoType, CallParts DEF LoginStamp, Steps
<1>4. user' \in [Users -> UserRow] /\ GoneHasRow'
  BY CallParts DEF Good, TypeOK, Linked, GoneHasRow, UserRow, LoginStamp
<1>5. RestOK'
  BY <1>2, <1>4, SameRest DEF LoginStamp, RestOK
<1> QED
  BY <1>1, <1>2, <1>3, <1>5, GoodParts DEF RowsStay

LEMMA IssueTokensGood ==
    ASSUME Good, NEW r \in Requests, IssueTokens(r), served' \in 0 .. MaxServed
    PROVE  Good'
<1>1. PICK s \in SessionIds :
        /\ InsertSession(s, call[r].user, s, None, call[r].pw)
        /\ access' = access \cup {[sess |-> s, role |-> call[r].role]}
        /\ SetSessionCookies(s)
  BY DEF IssueTokens
<1>2. call[r].user \in Users /\ call[r].pw \in 0 .. MaxPassword /\ call[r].role \in Roles
  BY CallParts DEF IssueTokens
<1>3. /\ sess' \in [SessionIds -> SessionRow] /\ MadeStays /\ RowsLinked'
      /\ Inserted(s, call[r].user, s, None, call[r].pw)
  BY <1>1, <1>2, InsertedRow
<1>4. access' \subseteq Claims /\ TokensLinked'
  BY <1>1, <1>2, <1>3 DEF Good, TypeOK, Linked, TokensLinked, MadeStays, Inserted, Made, Claims
<1>5. cookie' \in SessionIds \cup {None}
  BY <1>1 DEF SetSessionCookies, Good, TypeOK
<1>6. RestOK'
  BY <1>3, <1>4, <1>5, SameRest DEF IssueTokens, RestOK
<1>7. call' \in [Requests -> Call] /\ CallsLinked'
  BY <1>3, EndType DEF IssueTokens
<1> QED
  BY <1>3, <1>6, <1>7, GoodParts

LEMMA RefreshGood ==
    ASSUME Good, NEW r \in Requests, Refresh(r), served' \in 0 .. MaxServed
    PROVE  Good'
<1> DEFINE s == cookie
<1>1. s \in SessionIds /\ UNCHANGED <<user, access, marks, lost>> /\ Rotate(r, s)
  BY DEF Refresh, Good, TypeOK
<1> HIDE DEF s
<1>2. CASE sess[s].state = "live"
  <2>1. PICK n \in SessionIds :
          /\ InsertSession(n, sess[s].user, sess[s].family, s, sess[s].born)
          /\ Begin(r, [Idle EXCEPT !.at = "mark", !.kind = "refresh", !.sess = n,
                                   !.user = sess[s].user, !.ids = {s}])
          /\ UNCHANGED <<cookie, reused>>
    BY <1>1, <1>2 DEF Rotate
  <2>2. /\ sess[s].user \in Users /\ sess[s].family \in SessionIds /\ Made(sess[s].family)
        /\ sess[s].born \in 0 .. MaxPassword /\ Made(s)
    BY <1>1, <1>2 DEF Good, TypeOK, SessionRow, Linked, RowsLinked, Made
  <2>3. /\ sess' \in [SessionIds -> SessionRow] /\ MadeStays /\ RowsLinked'
        /\ Inserted(n, sess[s].user, sess[s].family, s, sess[s].born)
    BY <1>1, <2>1, <2>2, InsertedRow
  <2> DEFINE c == [Idle EXCEPT !.at = "mark", !.kind = "refresh", !.sess = n,
                               !.user = sess[s].user, !.ids = {s}]
  <2>4. c \in Call /\ c.user = sess[s].user /\ c.sess = n
    <3>1. {s} \in SUBSET SessionIds
      BY <1>1
    <3> QED
      BY <2>2, <3>1, IdleIsCall DEF Call, Steps, Kinds
  <2>5. Made(n)' /\ n # None
    BY <2>3, SessionsAssumption DEF Inserted, Made, SessionsAssumption, SessionIds
  <2>6. call' \in [Requests -> Call] /\ CallsLinked'
    <3>1. Begin(r, c)
      BY <2>1
    <3> HIDE DEF c
    <3> QED
      BY <2>2, <2>3, <2>4, <2>5, <3>1, BeginType DEF Made
  <2>7. RestOK'
    BY <1>1, <2>1, <2>3, SameRest DEF RestOK
  <2> QED
    BY <2>3, <2>6, <2>7, GoodParts
<1>3. CASE sess[s].state # "live"
  <2>1. UNCHANGED <<sess, call>> /\ ClearSessionCookies
    BY <1>1, <1>3 DEF Rotate
  <2>2. RowsStay /\ MadeStays /\ RowsLinked'
    BY <2>1, SameRows, RowsStayLinked
  <2>3. reused' \subseteq SessionIds
    <3>1. reused \subseteq SessionIds
      BY DEF Good, TypeOK
    <3>2. Made(s) => sess[s].family \in SessionIds
      BY <1>1 DEF Good, Linked, RowsLinked
    <3>3. reused' = reused \/ (sess[s].state = "revoked" /\ reused' = reused \cup {sess[s].family})
      BY <1>1, <1>3, Zenon DEF Rotate
    <3> QED
      BY <3>1, <3>2, <3>3 DEF Made
  <2>4. RestOK'
    BY <1>1, <2>1, <2>2, <2>3, SameRest DEF RestOK, ClearSessionCookies, Good, TypeOK
  <2> QED
    BY <2>1, <2>2, <2>4, SameCalls, GoodParts DEF RowsStay
<1> QED
  BY <1>2, <1>3

(* An access token for a session that is there.                              *)
LEMMA TokenIssued ==
    ASSUME Good, NEW r \in Requests, call[r].kind \in {"refresh", "confirm"}, MadeStays,
           access' = access \cup {[sess |-> call[r].sess, role |-> call[r].role]}
    PROVE  access' \subseteq Claims /\ TokensLinked'
<1>1. call[r].sess \in SessionIds /\ call[r].role \in Roles /\ Made(call[r].sess)
  BY CallParts, SessionsAssumption DEF SessionsAssumption, SessionIds
<1> QED
  BY <1>1 DEF Good, TypeOK, Linked, TokensLinked, MadeStays, Claims

(* A request goes on with the role it has read.                              *)
LEMMA ReadRole ==
    ASSUME Good, NEW r \in Requests, call[r].kind \in {"refresh", "confirm"}, call[r].at = "read",
           MadeStays, NEW at \in Steps,
           call' = [call EXCEPT ![r].at = at, ![r].role = user[call[r].user].role]
    PROVE  call' \in [Requests -> Call] /\ CallsLinked'
<1> DEFINE c == [call[r] EXCEPT !.at = at, !.role = user[call[r].user].role]
<1>1. /\ call[r] \in Call /\ call[r].user \in Users /\ user[call[r].user].role \in Roles
      /\ call[r].sess \in SessionIds /\ Made(call[r].sess)
  BY CallParts, SessionsAssumption DEF Good, TypeOK, UserRow, SessionsAssumption, SessionIds
<1>2. c \in Call /\ c.user = call[r].user /\ c.sess = call[r].sess
  BY <1>1 DEF Call
<1>3. call' = [call EXCEPT ![r] = c]
  BY DEF Good, TypeOK
<1>4. call[r].sess # None
  BY <1>1, SessionsAssumption DEF SessionsAssumption, SessionIds
<1> HIDE DEF c
<1> QED
  BY <1>1, <1>2, <1>3, <1>4, OneCall DEF MadeStays

LEMMA TokenStepsGood ==
    ASSUME Good, NEW r \in Requests, served' \in 0 .. MaxServed,
           RefreshRead(r) \/ RefreshIssue(r) \/ ReissueRead(r) \/ ReissueAccess(r)
    PROVE  Good'
<1>1. RowsStay /\ MadeStays /\ RowsLinked'
  BY SameRows, RowsStayLinked DEF RefreshRead, RefreshIssue, ReissueRead, ReissueAccess
<1>2. call' \in [Requests -> Call] /\ CallsLinked'
  <2>1. CASE RefreshRead(r) \/ ReissueRead(r)
    BY <1>1, <2>1, ReadRole, EndType DEF RefreshRead, ReissueRead, Steps
  <2>2. CASE RefreshIssue(r) \/ ReissueAccess(r)
    BY <1>1, <2>2, EndType DEF RefreshIssue, ReissueAccess
  <2> QED
    BY <2>1, <2>2
<1>3. access' \subseteq Claims /\ TokensLinked'
  BY <1>1, TokenIssued, SameRest DEF RefreshRead, RefreshIssue, ReissueRead, ReissueAccess
<1>4. cookie' \in SessionIds \cup {None}
  BY CallParts DEF RefreshRead, RefreshIssue, ReissueRead, ReissueAccess, Good, TypeOK,
                   ClearSessionCookies, SetSessionCookies
<1>5. RestOK'
  BY <1>1, <1>3, <1>4, SameRest DEF RefreshRead, RefreshIssue, ReissueRead, ReissueAccess, RestOK
<1> QED
  BY <1>1, <1>2, <1>5, GoodParts DEF RowsStay

LEMMA LogoutGood ==
    ASSUME Good, NEW r \in Requests, Logout(r), served' \in 0 .. MaxServed
    PROVE  Good'
<1> DEFINE s == cookie
           c == [Idle EXCEPT !.at = "mark", !.kind = "one", !.ids = {s}, !.user = sess[s].user]
<1>1. /\ s \in SessionIds /\ Unrevoked(s) /\ sess' = [sess EXCEPT ![s].state = "revoked"]
      /\ Begin(r, c) /\ ClearSessionCookies /\ UNCHANGED <<user, access, marks, lost, reused>>
  BY DEF Logout, Good, TypeOK
<1> HIDE DEF s
<1>2. Made(s) /\ sess[s].user \in Users
  BY <1>1 DEF Unrevoked, Made, Good, Linked, RowsLinked
<1>3. RowsStay /\ MadeStays /\ RowsLinked'
  BY <1>1, <1>2, OneRow, RowsStayLinked
<1>4. c \in Call /\ c.user = sess[s].user /\ c.sess = None /\ c.kind = "one"
  <2>1. {s} \in SUBSET SessionIds
    BY <1>1
  <2> QED
    BY <1>2, <2>1, IdleIsCall DEF Call, Steps, Kinds
<1> HIDE DEF c
<1>5. call' \in [Requests -> Call] /\ CallsLinked'
  BY <1>1, <1>2, <1>3, <1>4, BeginType
<1>6. RestOK'
  BY <1>1, <1>3, SameRest DEF RestOK, ClearSessionCookies, Good, TypeOK
<1> QED
  BY <1>3, <1>5, <1>6, GoodParts DEF RowsStay

LEMMA UpdatePasswordHashGood ==
    ASSUME Good, NEW r \in Requests, UpdatePasswordHash(r), served' \in 0 .. MaxServed
    PROVE  Good'
<1>1. RowsStay /\ MadeStays /\ RowsLinked'
  BY SameRows, RowsStayLinked DEF UpdatePasswordHash
<1>2. call' \in [Requests -> Call] /\ CallsLinked'
  BY <1>1, GotoType, CallParts DEF UpdatePasswordHash, Steps
<1>3. user' \in [Users -> UserRow] /\ GoneHasRow'
  BY CallParts DEF Good, TypeOK, Linked, GoneHasRow, UserRow, UpdatePasswordHash
<1>4. RestOK'
  BY <1>1, <1>3, SameRest DEF UpdatePasswordHash, RestOK
<1> QED
  BY <1>1, <1>2, <1>4, GoodParts DEF RowsStay

(* A request takes note of the sessions it ends.                             *)
LEMMA NotedIds ==
    ASSUME Good, MadeStays, NEW r \in Requests, call[r] # Idle,
           NEW at \in Steps, NEW ids \in SUBSET SessionIds,
           call' = [call EXCEPT ![r].at = at, ![r].ids = ids]
    PROVE  call' \in [Requests -> Call] /\ CallsLinked'
<1> DEFINE c == [call[r] EXCEPT !.at = at, !.ids = ids]
<1>1. call[r] \in Call /\ CallLinked(call[r]) /\ call[r].sess \in SessionIds \cup {None}
  BY CallParts DEF Good, TypeOK, Linked, CallsLinked
<1>2. c \in Call /\ c.user = call[r].user /\ c.sess = call[r].sess /\ c.kind = call[r].kind
  BY <1>1 DEF Call
<1>3. call' = [call EXCEPT ![r] = c]
  BY DEF Good, TypeOK
<1> HIDE DEF c
<1> QED
  BY <1>1, <1>2, <1>3, OneCall DEF CallLinked, MadeStays

LEMMA RevokeAllSnapshotGood ==
    ASSUME Good, NEW r \in Requests, RevokeAllSnapshot(r), served' \in 0 .. MaxServed
    PROVE  Good'
<1>1. RowsStay /\ MadeStays /\ RowsLinked'
  BY SameRows, RowsStayLinked DEF RevokeAllSnapshot
<1>2. call' \in [Requests -> Call] /\ CallsLinked'
  <2> DEFINE ids == {s \in SessionIds : Unrevoked(s) /\ sess[s].user = call[r].user}
  <2>1. ids \in SUBSET SessionIds /\ call' = [call EXCEPT ![r].at = "revoke", ![r].ids = ids]
    BY DEF RevokeAllSnapshot
  <2> HIDE DEF ids
  <2> QED
    BY <1>1, <2>1, NotedIds, CallParts DEF RevokeAllSnapshot, Steps
<1>3. RestOK'
  BY <1>1, SameRest DEF RevokeAllSnapshot, RestOK
<1> QED
  BY <1>1, <1>2, <1>3, GoodParts DEF RowsStay

LEMMA RevokeRowsGood ==
    ASSUME Good, NEW r \in Requests, RevokeRows(r), served' \in 0 .. MaxServed
    PROVE  Good'
<1> DEFINE ended == {s \in call[r].ids : Unrevoked(s)}
           ids == IF call[r].kind = "one" THEN call[r].ids ELSE ended
<1>1. /\ sess' = [s \in SessionIds |-> IF s \in ended THEN [sess[s] EXCEPT !.state = "revoked"]
                                                      ELSE sess[s]]
      /\ call' = [call EXCEPT ![r].at = "mark", ![r].ids = ids]
      /\ UNCHANGED <<user, access, marks, lost, cookie, reused>>
  BY DEF RevokeRows
<1>2. ids \in SUBSET SessionIds /\ call[r] # Idle
  BY CallParts DEF RevokeRows
<1>3. \A s \in ended : Unrevoked(s)
  OBVIOUS
<1> HIDE DEF ended, ids
<1>4. RowsStay /\ MadeStays /\ RowsLinked'
  BY <1>1, <1>3, RevokedRows, RowsStayLinked
<1>5. call' \in [Requests -> Call] /\ CallsLinked'
  BY <1>1, <1>2, <1>4, NotedIds DEF Steps
<1>6. RestOK'
  BY <1>1, <1>4, SameRest DEF RestOK
<1> QED
  BY <1>4, <1>5, <1>6, GoodParts DEF RowsStay

LEMMA MarksGood ==
    ASSUME Good, NEW r \in Requests, RevokeMany(r) \/ RevokeManyFails(r), served' \in 0 .. MaxServed
    PROVE  Good'
<1>1. RowsStay /\ MadeStays /\ RowsLinked'
  BY SameRows, RowsStayLinked DEF RevokeMany, RevokeManyFails
<1>2. (End(r) \/ Goto(r, "read") \/ Goto(r, "softdelete")) /\ cookie' \in {cookie, None}
  BY Zenon DEF RevokeMany, RevokeManyFails, AfterMarks, ClearSessionCookies
<1>3. call' \in [Requests -> Call] /\ CallsLinked'
  BY <1>1, <1>2, EndType, GotoType, CallParts DEF RevokeMany, RevokeManyFails, Steps
<1>4. RestOK'
  BY <1>1, <1>2, SameRest, CallParts DEF RevokeMany, RevokeManyFails, RestOK, Good, TypeOK
<1> QED
  BY <1>1, <1>3, <1>4, GoodParts DEF RowsStay

LEMMA SoftDeleteGood ==
    ASSUME Good, NEW r \in Requests, SoftDelete(r), served' \in 0 .. MaxServed
    PROVE  Good'
<1> DEFINE T == {s \in SessionIds : sess[s].user = call[r].user /\ Unrevoked(s)}
<1>1. sess' = [s \in SessionIds |-> IF s \in T THEN [sess[s] EXCEPT !.state = "revoked"] ELSE sess[s]]
  BY DEF SoftDelete
<1>2. \A s \in T \cap SessionIds : Unrevoked(s)
  OBVIOUS
<1> HIDE DEF T
<1>3. RowsStay /\ MadeStays /\ RowsLinked'
  BY <1>1, <1>2, RevokedRows, RowsStayLinked
<1>4. call' \in [Requests -> Call] /\ CallsLinked'
  BY <1>3, EndType DEF SoftDelete
<1>5. user' \in [Users -> UserRow] /\ GoneHasRow'
  BY DEF Good, TypeOK, Linked, GoneHasRow, UserRow, Statuses, SoftDelete
<1>6. RestOK'
  BY <1>3, <1>5, SameRest DEF SoftDelete, RestOK, ClearSessionCookies, Good, TypeOK
<1> QED
  BY <1>3, <1>4, <1>6, GoodParts DEF RowsStay

LEMMA AbandonGood ==
    ASSUME Good, NEW r \in Requests, Abandon(r), served' \in 0 .. MaxServed
    PROVE  Good'
<1>1. RowsStay /\ MadeStays /\ RowsLinked'
  BY SameRows, LateRows, RowsStayLinked DEF Abandon
<1>2. call' \in [Requests -> Call] /\ CallsLinked'
  BY <1>1, EndType DEF Abandon
<1>3. lost' \subseteq SessionIds
  BY CallParts DEF Abandon, Good, TypeOK
<1>4. RestOK'
  BY <1>1, <1>3, SameRest DEF Abandon, RestOK
<1> QED
  BY <1>1, <1>2, <1>4, GoodParts DEF RowsStay

LEMMA PassingGood ==
    ASSUME Good, Passing, UNCHANGED served
    PROVE  Good'
<1>1. RowsStay
  BY SameRows, OneRow DEF Passing, SessionExpires, DeleteExpired, MarkExpires, AccessExpires, Made, Unrevoked
<1>2. MadeStays /\ RowsLinked'
  BY <1>1, RowsStayLinked
<1>3. UNCHANGED <<call, user, lost, cookie, reused>> /\ access' \subseteq access /\ marks' \subseteq marks
  BY DEF Passing, SessionExpires, DeleteExpired, MarkExpires, AccessExpires
<1>4. access' \subseteq Claims /\ TokensLinked' /\ marks' \subseteq SessionIds
  BY <1>2, <1>3 DEF Good, TypeOK, Linked, TokensLinked, MadeStays, Claims
<1>5. RestOK'
  BY <1>2, <1>3, <1>4, SameRest DEF RestOK
<1> QED
  BY <1>1, <1>2, <1>3, <1>5, SameCalls, GoodParts DEF RowsStay, Good, TypeOK

LEMMA InitGood == Init => Good
<1> SUFFICES ASSUME Init PROVE Good
  OBVIOUS
<1>1. /\ \A u \in Users : user[u].status = "absent" /\ user[u].gone = FALSE
      /\ user \in [Users -> UserRow]
  BY IdleIsCall, SessionsAssumption DEF Init, UserRow, Statuses, Idle, Call, SessionsAssumption
<1>2. sess \in [SessionIds -> SessionRow] /\ \A s \in SessionIds : ~Made(s)
  BY SessionsAssumption DEF Init, SessionRow, Made, SessionsAssumption
<1>3. call \in [Requests -> Call] /\ \A r \in Requests : CallLinked(call[r])
  BY IdleIsCall DEF Init, CallLinked
<1>4. RowsLinked /\ CallsLinked /\ GoneHasRow
  BY <1>1, <1>2, <1>3 DEF RowsLinked, CallsLinked, GoneHasRow
<1>5. access = {} /\ marks = {} /\ lost = {} /\ cookie = None /\ reused = {} /\ served \in 0 .. MaxServed
  BY SessionsAssumption DEF Init, SessionsAssumption
<1>6. TypeOK /\ TokensLinked
  BY <1>1, <1>2, <1>3, <1>5 DEF TypeOK, TokensLinked
<1> QED
  BY <1>4, <1>6 DEF Good, Linked

LEMMA NextGood == Good /\ [Next]_vars => Good'
<1> SUFFICES ASSUME Good, [Next]_vars
             PROVE  Good'
  OBVIOUS
<1>0. UNCHANGED served => served' \in 0 .. MaxServed
  BY DEF Good, TypeOK
<1>1. ASSUME NEW r \in Requests, Start(r), served < MaxServed, served' = served + 1
      PROVE  Good'
  <2>1. served' \in 0 .. MaxServed
    BY <1>1, SessionsAssumption DEF Good, TypeOK, SessionsAssumption
  <2>2. CASE SigningIn(r)
    BY <2>1, <2>2, RegisterGood, LoginGood DEF SigningIn
  <2>3. CASE Refresh(r) \/ Administer(r)
    BY <2>1, <2>3, RefreshGood, AdministerGood
  <2>4. CASE Leaving(r) \/ \E t \in access : DeleteAccount(r, t)
    BY <2>1, <2>4, LogoutGood, OwnerGood DEF Leaving
  <2>5. CASE OwnAccount(r)
    BY <2>1, <2>5, ConfirmMarkGood, OwnerGood DEF OwnAccount
  <2> QED
    BY <1>1, <2>2, <2>3, <2>4, <2>5 DEF Start
<1>2. ASSUME NEW r \in Requests, Step(r), UNCHANGED served
      PROVE  Good'
  BY <1>0, <1>2, LoginStampGood, IssueTokensGood, TokenStepsGood, UpdatePasswordHashGood,
     RevokeAllSnapshotGood, RevokeRowsGood, MarksGood, SoftDeleteGood, AbandonGood DEF Step
<1>3. CASE Passing /\ UNCHANGED served
  BY <1>3, PassingGood
<1>4. CASE UNCHANGED vars
  <2>1. RowsStay /\ MadeStays /\ RowsLinked'
    BY <1>4, SameRows, RowsStayLinked DEF vars
  <2>2. RestOK'
    BY <1>4, <2>1, SameRest DEF RestOK, vars
  <2> QED
    BY <1>0, <1>4, <2>1, <2>2, SameCalls, GoodParts DEF RowsStay, vars
<1> QED
  BY <1>1, <1>2, <1>3, <1>4 DEF Next

LEMMA AlwaysGood == Spec => []Good
BY InitGood, NextGood, PTL DEF Spec

(* Every variable keeps its type: no session is made out of another's number,*)
(* no token is issued and no session marked that was not made.               *)
THEOREM Typing == Spec => []TypeOK
<1>1. Good => TypeOK
  BY DEF Good
<1> QED
  BY <1>1, AlwaysGood, PTL

-----------------------------------------------------------------------------
(* Every step leaves the rows what they are, signs an account in with a new  *)
(* family, or rotates a live session of a family.                            *)

SignedIn == \E s \in SessionIds, u \in Users, born \in 0 .. MaxPassword : Inserted(s, u, s, None, born)
Rotated ==
    \E s, p \in SessionIds :
        sess[p].state = "live" /\ Inserted(s, sess[p].user, sess[p].family, p, sess[p].born)

LEMMA IssuedRow ==
    ASSUME Good, NEW r \in Requests, IssueTokens(r)
    PROVE  \E s \in SessionIds :
              /\ Inserted(s, call[r].user, s, None, call[r].pw)
              /\ access' = access \cup {[sess |-> s, role |-> call[r].role]}
<1>1. PICK s \in SessionIds :
        /\ InsertSession(s, call[r].user, s, None, call[r].pw)
        /\ access' = access \cup {[sess |-> s, role |-> call[r].role]}
  BY DEF IssueTokens
<1>2. call[r].user \in Users /\ call[r].pw \in 0 .. MaxPassword
  BY CallParts DEF IssueTokens
<1> QED
  BY <1>1, <1>2, InsertedRow

LEMMA RotatedRow ==
    ASSUME Good, NEW r \in Requests, Refresh(r)
    PROVE  \/ UNCHANGED <<sess, call>>
           \/ \E n, p \in SessionIds :
                 /\ sess[p].state = "live" /\ call[r] = Idle
                 /\ Inserted(n, sess[p].user, sess[p].family, p, sess[p].born)
                 /\ call' = [call EXCEPT ![r] = [Idle EXCEPT !.at = "mark", !.kind = "refresh", !.sess = n,
                                                             !.user = sess[p].user, !.ids = {p}]]
<1>1. cookie \in SessionIds /\ Rotate(r, cookie)
  BY DEF Refresh, Good, TypeOK
<1>2. CASE sess[cookie].state = "live"
  <2>1. PICK n \in SessionIds :
          /\ InsertSession(n, sess[cookie].user, sess[cookie].family, cookie, sess[cookie].born)
          /\ Begin(r, [Idle EXCEPT !.at = "mark", !.kind = "refresh", !.sess = n,
                                   !.user = sess[cookie].user, !.ids = {cookie}])
    BY <1>1, <1>2 DEF Rotate
  <2>2. /\ sess[cookie].user \in Users /\ sess[cookie].family \in SessionIds /\ Made(sess[cookie].family)
        /\ sess[cookie].born \in 0 .. MaxPassword /\ Made(cookie)
    BY <1>1, <1>2 DEF Good, TypeOK, SessionRow, Linked, RowsLinked, Made
  <2>3. Inserted(n, sess[cookie].user, sess[cookie].family, cookie, sess[cookie].born)
    BY <1>1, <2>1, <2>2, InsertedRow
  <2> QED
    BY <1>1, <1>2, <2>1, <2>3 DEF Begin
<1>3. CASE sess[cookie].state # "live"
  BY <1>1, <1>3 DEF Rotate
<1> QED
  BY <1>2, <1>3

LEMMA RowsStep ==
    ASSUME Good, [Next]_vars
    PROVE  RowsStay \/ SignedIn \/ Rotated
<1>1. ASSUME NEW r \in Requests, Start(r)
      PROVE  RowsStay \/ Rotated
  <2>1. CASE Refresh(r)
    BY <2>1, RotatedRow, SameRows DEF Rotated
  <2>2. CASE Logout(r)
    BY <2>2, OneRow DEF Logout, Unrevoked, Made, Good, TypeOK
  <2>3. ASSUME NEW t \in access,
               \/ LogoutEverywhere(r, t) \/ DeleteAccount(r, t) \/ ConfirmMark(r, t)
               \/ ChangePassword(r, t) \/ \E s \in SessionIds : RevokeSession(r, t, s)
        PROVE  RowsStay
    BY <2>3, SameRows
    DEF LogoutEverywhere, DeleteAccount, ConfirmMark, ChangePassword, RevokeSession
  <2>4. CASE SigningIn(r) \/ Administer(r)
    BY <2>4, SameRows DEF SigningIn, Register, Login, Administer, SetUserStatus, SetUserRole
  <2> QED
    BY <1>1, <2>1, <2>2, <2>3, <2>4 DEF Start, Leaving, OwnAccount
<1>2. ASSUME NEW r \in Requests, Step(r)
      PROVE  RowsStay \/ SignedIn
  <2>1. CASE IssueTokens(r)
    BY <2>1, IssuedRow, CallParts DEF SignedIn, IssueTokens
  <2>2. CASE LoginStamp(r) \/ Abandon(r)
    BY <2>2, SameRows, LateRows DEF LoginStamp, Abandon
  <2>3. CASE RevokeRows(r)
    <3> DEFINE ended == {s \in call[r].ids : Unrevoked(s)}
    <3>1. /\ sess' = [s \in SessionIds |-> IF s \in ended THEN [sess[s] EXCEPT !.state = "revoked"]
                                                          ELSE sess[s]]
          /\ \A s \in ended : Unrevoked(s)
      BY <2>3 DEF RevokeRows
    <3> HIDE DEF ended
    <3> QED
      BY <3>1, RevokedRows
  <2>4. CASE SoftDelete(r)
    <3> DEFINE ended == {s \in SessionIds : sess[s].user = call[r].user /\ Unrevoked(s)}
    <3>1. /\ sess' = [s \in SessionIds |-> IF s \in ended THEN [sess[s] EXCEPT !.state = "revoked"]
                                                          ELSE sess[s]]
          /\ \A s \in ended : Unrevoked(s)
      BY <2>4 DEF SoftDelete
    <3> HIDE DEF ended
    <3> QED
      BY <3>1, RevokedRows
  <2>5. CASE \/ RefreshRead(r) \/ RefreshIssue(r) \/ ReissueRead(r) \/ ReissueAccess(r)
             \/ UpdatePasswordHash(r) \/ RevokeAllSnapshot(r) \/ RevokeMany(r) \/ RevokeManyFails(r)
    BY <2>5, SameRows DEF RefreshRead, RefreshIssue, ReissueRead, ReissueAccess, UpdatePasswordHash,
                          RevokeAllSnapshot, RevokeMany, RevokeManyFails
  <2> QED
    BY <1>2, <2>1, <2>2, <2>3, <2>4, <2>5 DEF Step
<1>3. CASE Passing
  BY <1>3, SameRows, OneRow DEF Passing, SessionExpires, DeleteExpired, MarkExpires, AccessExpires, Made, Unrevoked
<1>4. CASE UNCHANGED vars
  BY <1>4, SameRows DEF vars
<1> QED
  BY <1>1, <1>2, <1>3, <1>4 DEF Next

LEMMA FamilyStep ==
    ASSUME Good, OneLivePerFamily, [Next]_vars
    PROVE  OneLivePerFamily'
<1> SUFFICES ASSUME NEW s \in SessionIds, NEW x \in SessionIds,
                    Unrevoked(s)', Unrevoked(x)', sess'[s].family = sess'[x].family
             PROVE  s = x
  BY DEF OneLivePerFamily
<1>1. CASE RowsStay
  <2>1. Unrevoked(s) /\ Unrevoked(x) /\ sess[s].family = sess[x].family
    BY <1>1 DEF RowsStay, Unrevoked
  <2> QED
    BY <2>1 DEF OneLivePerFamily
<1>2. CASE SignedIn
  <2>1. PICK n \in SessionIds, u \in Users, born \in 0 .. MaxPassword : Inserted(n, u, n, None, born)
    BY <1>2 DEF SignedIn
  <2>2. \A y \in SessionIds : y # n /\ Unrevoked(y)' =>
            Unrevoked(y) /\ sess'[y].family = sess[y].family /\ sess[y].family # n
    BY <2>1, SessionsAssumption
    DEF Inserted, Unrevoked, Good, Linked, RowsLinked, Made, SessionsAssumption, SessionIds
  <2>3. sess'[n].family = n
    BY <2>1 DEF Inserted
  <2> QED
    BY <2>2, <2>3 DEF OneLivePerFamily
<1>3. CASE Rotated
  <2>1. PICK n \in SessionIds, p \in SessionIds :
            sess[p].state = "live" /\ Inserted(n, sess[p].user, sess[p].family, p, sess[p].born)
    BY <1>3 DEF Rotated
  <2>2. \A y \in SessionIds : y # n /\ Unrevoked(y)' =>
            y # p /\ Unrevoked(y) /\ sess'[y].family = sess[y].family
    BY <2>1 DEF Inserted, Unrevoked
  <2>3. sess'[n].family = sess[p].family /\ Unrevoked(p)
    BY <2>1 DEF Inserted, Unrevoked
  <2> QED
    BY <2>2, <2>3 DEF OneLivePerFamily
<1> QED
  BY <1>1, <1>2, <1>3, RowsStep

(* A family has at most one session that can still be refreshed, for any     *)
(* number of tabs, lost answers and accounts: Rotate locks what it replaces. *)
THEOREM FamiliesHaveOneLive == Spec => []OneLivePerFamily
<1>1. Init => OneLivePerFamily
  BY DEF Init, OneLivePerFamily, Unrevoked
<1> QED
  BY <1>1, AlwaysGood, FamilyStep, PTL DEF Spec

-----------------------------------------------------------------------------
(* Revocation: what is ended in Postgres is marked in Redis.                 *)

LEMMA GoneStays ==
    ASSUME Good, [Next]_vars, NEW u \in Users, user[u].gone
    PROVE  user'[u].gone
<1>0. user \in [Users -> UserRow] /\ user[u].status # "absent"
  BY DEF Good, TypeOK, Linked, GoneHasRow
<1>1. ASSUME NEW r \in Requests, Start(r)
      PROVE  user'[u].gone
  <2>1. CASE SigningIn(r) \/ Administer(r)
    BY <1>0, <2>1 DEF SigningIn, Register, Login, Administer, SetUserStatus, SetUserRole, UserRow
  <2>2. CASE OwnAccount(r)
    BY <1>0, <2>2 DEF OwnAccount, ConfirmMark, ChangePassword, RevokeSession, UserRow
  <2>3. CASE Refresh(r) \/ Leaving(r) \/ \E t \in access : DeleteAccount(r, t)
    BY <2>3 DEF Refresh, Leaving, Logout, LogoutEverywhere, DeleteAccount
  <2> QED
    BY <1>1, <2>1, <2>2, <2>3 DEF Start
<1>2. ASSUME NEW r \in Requests, Step(r)
      PROVE  user'[u].gone
  <2>1. CASE LoginStamp(r) \/ UpdatePasswordHash(r) \/ SoftDelete(r)
    BY <1>0, <2>1 DEF LoginStamp, UpdatePasswordHash, SoftDelete, UserRow
  <2>2. CASE ~(LoginStamp(r) \/ UpdatePasswordHash(r) \/ SoftDelete(r))
    BY <1>2, <2>2 DEF Step, IssueTokens, RefreshRead, RefreshIssue, ReissueRead, ReissueAccess,
                      RevokeAllSnapshot, RevokeRows, RevokeMany, RevokeManyFails, Abandon
  <2> QED
    BY <2>1, <2>2
<1>3. CASE Passing \/ UNCHANGED vars
  BY <1>3 DEF Passing, SessionExpires, DeleteExpired, MarkExpires, AccessExpires, vars
<1> QED
  BY <1>1, <1>2, <1>3 DEF Next

LEMMA AccountStays ==
    ASSUME Good, [Next]_vars, NEW s \in SessionIds, Made(s)
    PROVE  sess'[s].user = sess[s].user /\ sess[s].user \in Users
BY RowsStep DEF RowsStay, SignedIn, Rotated, Inserted, Good, Linked, RowsLinked

LEMMA RevokedWasMade ==
    ASSUME Good, [Next]_vars, NEW s \in SessionIds, sess'[s].state = "revoked"
    PROVE  Made(s)
<1>1. None \notin SessionIds
  BY SessionsAssumption DEF SessionsAssumption, SessionIds
<1> QED
  BY <1>1, RowsStep DEF RowsStay, SignedIn, Rotated, Inserted, Made

(* What the request r does in a step, as far as the marks are concerned: it  *)
(* loses no mark, it is about no session but the one it was about, one of a  *)
(* token or a new one, and what it ends it is about to mark.                 *)
KeepsMarks(r) ==
    /\ \A x \in Requests \ {r} : call'[x] = call[x]
    /\ marks \cup lost \subseteq marks' \cup lost'
    /\ call[r].at = "mark" => call[r].ids \subseteq marks' \cup lost'
UsesKnown(r) ==
    /\ \A t \in access' : t \in access \/ t.sess = call[r].sess \/ sess'[t.sess].state = "live"
    /\ \/ call'[r].sess \in {None, call[r].sess}
       \/ \E t \in access : call'[r].sess = t.sess
       \/ sess'[call'[r].sess].state = "live"
EndsMarked(r) ==
    \A s \in SessionIds : sess'[s].state = "revoked" /\ sess[s].state # "revoked" =>
        (call'[r].at = "mark" /\ s \in call'[r].ids) \/ user'[sess[s].user].gone

LEMMA MarksKept ==
    ASSUME Good, MarksInv, [Next]_vars, NEW r \in Requests,
           KeepsMarks(r), UsesKnown(r), EndsMarked(r)
    PROVE  MarksInv'
<1> SUFFICES ASSUME NEW s \in SessionIds, sess'[s].state = "revoked", InUse(s)'
             PROVE  Ended(s)'
  BY DEF MarksInv
<1>1. Made(s) /\ sess'[s].user = sess[s].user /\ sess[s].user \in Users
  BY RevokedWasMade, AccountStays
<1>2. CASE sess[s].state # "revoked"
  BY <1>1, <1>2 DEF EndsMarked, Ended
<1>3. CASE sess[s].state = "revoked"
  <2>1. InUse(s)
    <3>1. CASE \E t \in access' : t.sess = s
      BY <3>1 DEF UsesKnown, InUse
    <3>2. CASE \E x \in Requests : call'[x].sess = s
      <4>1. None # s
        BY SessionsAssumption DEF SessionsAssumption, SessionIds
      <4> QED
        BY <3>2, <4>1 DEF UsesKnown, KeepsMarks, InUse
    <3> QED
      BY <3>1, <3>2 DEF InUse
  <2>2. Ended(s)
    BY <1>3, <2>1 DEF MarksInv
  <2>3. CASE user[sess[s].user].gone
    BY <1>1, <2>3, GoneStays DEF Ended
  <2>4. CASE s \in marks \cup lost \/ \E x \in Requests : call[x].at = "mark" /\ s \in call[x].ids
    BY <2>4 DEF KeepsMarks, Ended
  <2> QED
    BY <2>2, <2>3, <2>4 DEF Ended
<1> QED
  BY <1>2, <1>3

(* A step that ends no session.                                              *)
LEMMA NothingEnded ==
    ASSUME UNCHANGED sess, NEW r \in Requests
    PROVE  EndsMarked(r)
BY DEF EndsMarked

LEMMA NothingIssued ==
    ASSUME UNCHANGED access, NEW r \in Requests, call'[r].sess \in {None, call[r].sess}
    PROVE  UsesKnown(r)
BY DEF UsesKnown

LEMMA MarksBegun ==
    ASSUME Good, NEW r \in Requests, NEW c, Begin(r, c), marks \cup lost \subseteq marks' \cup lost'
    PROVE  KeepsMarks(r) /\ call'[r] = c /\ call[r] = Idle
<1>1. /\ call \in [Requests -> Call] /\ Idle.at = "idle"
      /\ call[r] = Idle /\ call' = [call EXCEPT ![r] = c]
  BY DEF Good, TypeOK, Idle, Begin
<1> QED
  BY <1>1 DEF KeepsMarks

LEMMA MarksUnbegun ==
    ASSUME Good, NEW r \in Requests, call[r] = Idle, UNCHANGED <<sess, access, call, marks, lost>>
    PROVE  KeepsMarks(r) /\ UsesKnown(r) /\ EndsMarked(r)
<1>1. Idle.at = "idle"
  BY DEF Idle
<1> QED
  BY <1>1, NothingEnded, NothingIssued DEF KeepsMarks

LEMMA MarksAtStart ==
    ASSUME Good, NEW r \in Requests, Start(r)
    PROVE  KeepsMarks(r) /\ UsesKnown(r) /\ EndsMarked(r)
<1>1. CASE SigningIn(r)
  <2>1. UNCHANGED <<sess, access, marks, lost>>
    BY <1>1 DEF SigningIn, Register, Login
  <2>2. \E c : Begin(r, c) /\ c.sess = None
    <3>1. ASSUME NEW u \in Users, NEW role \in Roles, Register(r, u, role)
          PROVE  \E c : Begin(r, c) /\ c.sess = None
      <4>1. [Idle EXCEPT !.at = "issue", !.kind = "login", !.user = u, !.role = role].sess = None
        BY DEF Idle
      <4> QED
        BY <3>1, <4>1 DEF Register
    <3>2. ASSUME NEW u \in Users, Login(r, u)
          PROVE  \E c : Begin(r, c) /\ c.sess = None
      <4>1. [Idle EXCEPT !.at = "stamp", !.kind = "login", !.user = u,
                         !.role = user[u].role, !.pw = user[u].pw].sess = None
        BY DEF Idle
      <4> QED
        BY <3>2, <4>1 DEF Login
    <3> QED
      BY <1>1, <3>1, <3>2 DEF SigningIn
  <2> QED
    BY <2>1, <2>2, MarksBegun, NothingEnded, NothingIssued
<1>2. CASE Refresh(r)
  <2>1. UNCHANGED <<access, marks, lost>> /\ call[r] = Idle
    BY <1>2 DEF Refresh
  <2>2. CASE UNCHANGED <<sess, call>>
    BY <2>1, <2>2, MarksUnbegun
  <2>3. ASSUME NEW n \in SessionIds, NEW p \in SessionIds,
               Inserted(n, sess[p].user, sess[p].family, p, sess[p].born),
               call' = [call EXCEPT ![r] = [Idle EXCEPT !.at = "mark", !.kind = "refresh", !.sess = n,
                                                        !.user = sess[p].user, !.ids = {p}]]
        PROVE  KeepsMarks(r) /\ UsesKnown(r) /\ EndsMarked(r)
    <3> DEFINE c == [Idle EXCEPT !.at = "mark", !.kind = "refresh", !.sess = n,
                                 !.user = sess[p].user, !.ids = {p}]
    <3>1. c.at = "mark" /\ c.sess = n /\ c.ids = {p} /\ Begin(r, c)
      BY <2>1, <2>3 DEF Idle, Begin
    <3> HIDE DEF c
    <3>2. KeepsMarks(r) /\ call'[r] = c
      BY <2>1, <3>1, MarksBegun
    <3>3. \A s \in SessionIds : sess'[s].state = "revoked" /\ sess[s].state # "revoked" => s = p
      BY <2>3 DEF Inserted
    <3>4. EndsMarked(r)
      BY <3>1, <3>2, <3>3 DEF EndsMarked
    <3>5. UsesKnown(r)
      BY <2>1, <2>3, <3>1, <3>2 DEF UsesKnown, Inserted
    <3> QED
      BY <3>2, <3>4, <3>5
  <2> QED
    BY <1>2, <2>2, <2>3, RotatedRow
<1>3. CASE Logout(r)
  <2> DEFINE s == cookie
             c == [Idle EXCEPT !.at = "mark", !.kind = "one", !.ids = {s}, !.user = sess[s].user]
  <2>1. /\ s \in SessionIds /\ sess' = [sess EXCEPT ![s].state = "revoked"]
        /\ Begin(r, c) /\ UNCHANGED <<access, marks, lost>>
    BY <1>3 DEF Logout, Good, TypeOK
  <2>2. c.at = "mark" /\ c.sess = None /\ c.ids = {s}
    BY DEF Idle
  <2> HIDE DEF s, c
  <2>3. KeepsMarks(r) /\ call'[r] = c
    BY <2>1, MarksBegun
  <2>4. EndsMarked(r)
    BY <2>1, <2>2, <2>3 DEF EndsMarked, Good, TypeOK
  <2> QED
    BY <2>1, <2>2, <2>3, <2>4, NothingIssued
<1>4. ASSUME NEW t \in access,
             \/ LogoutEverywhere(r, t) \/ DeleteAccount(r, t) \/ ConfirmMark(r, t)
             \/ ChangePassword(r, t) \/ \E s \in SessionIds : RevokeSession(r, t, s)
      PROVE  KeepsMarks(r) /\ UsesKnown(r) /\ EndsMarked(r)
  <2>1. UNCHANGED <<sess, access, marks, lost>>
    BY <1>4 DEF LogoutEverywhere, DeleteAccount, ConfirmMark, ChangePassword, RevokeSession
  <2>2. PICK c : Begin(r, c) /\ c.sess \in {None, t.sess}
    <3> DEFINE u == sess[t.sess].user
    <3>1. CASE LogoutEverywhere(r, t)
      <4>1. [Idle EXCEPT !.at = "snapshot", !.kind = "all", !.user = u].sess = None
        BY DEF Idle
      <4> QED
        BY <3>1, <4>1 DEF LogoutEverywhere
    <3>2. CASE DeleteAccount(r, t)
      <4>1. [Idle EXCEPT !.at = "snapshot", !.kind = "delete", !.user = u].sess = None
        BY DEF Idle
      <4> QED
        BY <3>2, <4>1 DEF DeleteAccount
    <3>3. CASE ConfirmMark(r, t)
      <4>1. [Idle EXCEPT !.at = "read", !.kind = "confirm", !.user = u, !.sess = t.sess].sess = t.sess
        BY DEF Idle
      <4> QED
        BY <3>3, <4>1 DEF ConfirmMark
    <3>4. CASE ChangePassword(r, t)
      <4>1. [Idle EXCEPT !.at = "write", !.kind = "password", !.user = u,
                         !.pw = user[u].pw + 1].sess = None
        BY DEF Idle
      <4> QED
        BY <3>4, <4>1 DEF ChangePassword
    <3>5. ASSUME NEW s \in SessionIds, RevokeSession(r, t, s)
          PROVE  \E c : Begin(r, c) /\ c.sess \in {None, t.sess}
      <4>1. [Idle EXCEPT !.at = "revoke", !.kind = "one", !.ids = {s}, !.user = sess[s].user].sess = None
        BY DEF Idle
      <4> QED
        BY <3>5, <4>1 DEF RevokeSession
    <3> QED
      BY <1>4, <3>1, <3>2, <3>3, <3>4, <3>5
  <2>3. KeepsMarks(r) /\ call'[r] = c
    BY <2>1, <2>2, MarksBegun
  <2>4. UsesKnown(r)
    BY <2>1, <2>2, <2>3 DEF UsesKnown
  <2> QED
    BY <2>1, <2>3, <2>4, NothingEnded
<1>5. CASE Administer(r)
  <2>1. UNCHANGED <<sess, access, marks, lost>>
    BY <1>5 DEF Administer, SetUserStatus, SetUserRole
  <2>2. (call[r] = Idle /\ UNCHANGED call) \/ \E c : Begin(r, c) /\ c.sess = None
    <3>1. ASSUME NEW u \in Users, NEW st \in Statuses, SetUserStatus(r, u, st)
          PROVE  (call[r] = Idle /\ UNCHANGED call) \/ \E c : Begin(r, c) /\ c.sess = None
      <4>1. [Idle EXCEPT !.at = "snapshot", !.kind = "status", !.user = u].sess = None
        BY DEF Idle
      <4> QED
        BY <3>1, <4>1 DEF SetUserStatus
    <3>2. ASSUME NEW u \in Users, NEW role \in Roles, SetUserRole(r, u, role)
          PROVE  \E c : Begin(r, c) /\ c.sess = None
      <4>1. [Idle EXCEPT !.at = "snapshot", !.kind = "role", !.user = u].sess = None
        BY DEF Idle
      <4> QED
        BY <3>2, <4>1 DEF SetUserRole
    <3> QED
      BY <1>5, <3>1, <3>2 DEF Administer
  <2> QED
    BY <2>1, <2>2, MarksBegun, MarksUnbegun, NothingEnded, NothingIssued
<1> QED
  BY <1>1, <1>2, <1>3, <1>4, <1>5 DEF Start, Leaving, OwnAccount

LEMMA MarksGoingOn ==
    ASSUME Good, NEW r \in Requests, Step(r)
    PROVE  KeepsMarks(r) /\ UsesKnown(r) /\ EndsMarked(r)
<1>0. /\ call \in [Requests -> Call] /\ Idle.at = "idle" /\ Idle.sess = None
      /\ call[r].sess \in SessionIds \cup {None} /\ None \notin SessionIds
  BY CallParts, SessionsAssumption DEF Good, TypeOK, Idle, SessionsAssumption, SessionIds
<1>1. CASE IssueTokens(r)
  <2>1. PICK s \in SessionIds :
              /\ Inserted(s, call[r].user, s, None, call[r].pw)
              /\ access' = access \cup {[sess |-> s, role |-> call[r].role]}
    BY <1>1, IssuedRow
  <2>2. call[r].at = "issue" /\ call'[r] = Idle /\ UNCHANGED <<marks, lost>>
        /\ \A x \in Requests \ {r} : call'[x] = call[x]
    BY <1>0, <1>1 DEF IssueTokens, End
  <2>3. UsesKnown(r)
    BY <1>0, <2>1, <2>2 DEF UsesKnown, Inserted
  <2>4. \A s1 \in SessionIds : sess'[s1].state = "revoked" => sess[s1].state = "revoked"
    BY <1>0, <2>1 DEF Inserted
  <2> QED
    BY <2>2, <2>3, <2>4 DEF KeepsMarks, EndsMarked
<1>2. CASE LoginStamp(r) \/ UpdatePasswordHash(r) \/ RevokeAllSnapshot(r)
  <2>1. /\ \A x \in Requests \ {r} : call'[x] = call[x]
        /\ call'[r].sess = call[r].sess /\ call[r].at # "mark"
        /\ UNCHANGED <<access, marks, lost>>
    BY <1>0, <1>2 DEF LoginStamp, UpdatePasswordHash, RevokeAllSnapshot, Goto, Call
  <2>2. \A s \in SessionIds : sess'[s].state = sess[s].state
    BY <1>2 DEF LoginStamp, UpdatePasswordHash, RevokeAllSnapshot, SetLate, Good, TypeOK, SessionRow
  <2> QED
    BY <2>1, <2>2, NothingIssued DEF KeepsMarks, EndsMarked
<1>3. CASE RefreshRead(r) \/ RefreshIssue(r) \/ ReissueRead(r) \/ ReissueAccess(r)
  <2>1. /\ \A x \in Requests \ {r} : call'[x] = call[x]
        /\ call'[r].sess \in {None, call[r].sess} /\ call[r].at # "mark"
        /\ UNCHANGED <<sess, marks, lost>>
    BY <1>0, <1>3 DEF RefreshRead, RefreshIssue, ReissueRead, ReissueAccess, End, Call
  <2>2. \A t \in access' : t \in access \/ t.sess = call[r].sess
    BY <1>3 DEF RefreshRead, RefreshIssue, ReissueRead, ReissueAccess
  <2> QED
    BY <2>1, <2>2, NothingEnded DEF KeepsMarks, UsesKnown
<1>4. CASE RevokeRows(r)
  <2> DEFINE ended == {s \in call[r].ids : Unrevoked(s)}
             ids == IF call[r].kind = "one" THEN call[r].ids ELSE ended
  <2>1. /\ sess' = [s \in SessionIds |-> IF s \in ended THEN [sess[s] EXCEPT !.state = "revoked"]
                                                        ELSE sess[s]]
        /\ call' = [call EXCEPT ![r].at = "mark", ![r].ids = ids]
        /\ UNCHANGED <<access, marks, lost>> /\ call[r].at = "revoke"
    BY <1>4 DEF RevokeRows
  <2>2. ended \subseteq ids
    OBVIOUS
  <2> HIDE DEF ended, ids
  <2>3. /\ \A x \in Requests \ {r} : call'[x] = call[x]
        /\ call'[r].sess = call[r].sess /\ call'[r].at = "mark" /\ call'[r].ids = ids
    BY <1>0, <2>1 DEF Call
  <2>4. \A s \in SessionIds : sess'[s].state # sess[s].state => s \in ended
    BY <2>1
  <2> QED
    BY <2>1, <2>2, <2>3, <2>4, NothingIssued DEF KeepsMarks, EndsMarked
<1>5. CASE RevokeMany(r) \/ RevokeManyFails(r)
  <2>1. End(r) \/ Goto(r, "read") \/ Goto(r, "softdelete")
    BY <1>5, Zenon DEF RevokeMany, RevokeManyFails, AfterMarks
  <2>2. /\ \A x \in Requests \ {r} : call'[x] = call[x]
        /\ call'[r].sess \in {None, call[r].sess}
    BY <1>0, <2>1 DEF End, Goto, Call
  <2>3. /\ UNCHANGED <<sess, access>> /\ call[r].ids \subseteq marks' \cup lost'
        /\ marks \cup lost \subseteq marks' \cup lost'
    BY <1>5 DEF RevokeMany, RevokeManyFails
  <2> QED
    BY <2>2, <2>3, NothingIssued, NothingEnded DEF KeepsMarks
<1>6. CASE SoftDelete(r)
  <2>1. /\ \A x \in Requests \ {r} : call'[x] = call[x]
        /\ call'[r].sess = None /\ call[r].at # "mark" /\ call[r] # Idle
        /\ UNCHANGED <<access, marks, lost>>
    BY <1>0, <1>6, CallParts DEF SoftDelete, End
  <2>2. call[r].user \in Users /\ user'[call[r].user].gone
    BY <2>1, <1>6, CallParts DEF SoftDelete, Good, TypeOK, UserRow
  <2>3. \A s \in SessionIds : sess'[s].state # sess[s].state => sess[s].user = call[r].user
    BY <1>6 DEF SoftDelete
  <2> QED
    BY <2>1, <2>2, <2>3, NothingIssued DEF KeepsMarks, EndsMarked
<1>7. CASE Abandon(r)
  <2>1. /\ \A x \in Requests \ {r} : call'[x] = call[x]
        /\ call'[r].sess = None /\ UNCHANGED <<access, marks>>
        /\ lost \subseteq lost' /\ (call[r].at = "mark" => call[r].ids \subseteq lost')
    BY <1>0, <1>7 DEF Abandon, End
  <2>2. \A s \in SessionIds : sess'[s].state = sess[s].state
    BY <1>7 DEF Abandon, SetLate, Good, TypeOK, SessionRow
  <2> QED
    BY <2>1, <2>2, NothingIssued DEF KeepsMarks, EndsMarked
<1> QED
  BY <1>1, <1>2, <1>3, <1>4, <1>5, <1>6, <1>7 DEF Step

(* Time loses only marks of sessions that nothing is about any more.         *)
LEMMA MarksPassing ==
    ASSUME Good, MarksInv, Passing
    PROVE  MarksInv'
<1> SUFFICES ASSUME NEW s \in SessionIds, sess'[s].state = "revoked", InUse(s)'
             PROVE  Ended(s)'
  BY DEF MarksInv
<1>1. /\ UNCHANGED <<call, user, lost>> /\ access' \subseteq access
      /\ sess[s].state = "revoked" /\ sess'[s].user = sess[s].user
  BY DEF Passing, SessionExpires, DeleteExpired, MarkExpires, AccessExpires, Good, TypeOK, SessionRow
<1>2. InUse(s) /\ Ended(s)
  BY <1>1 DEF InUse, MarksInv
<1>3. s \in marks => s \in marks'
  BY <1>2 DEF Passing, SessionExpires, DeleteExpired, MarkExpires, AccessExpires, InUse
<1> QED
  BY <1>1, <1>2, <1>3 DEF Ended

(* A revoked session whose access token has not expired is marked, is about  *)
(* to be, or its mark was refused, or its account is gone, for any number of *)
(* sessions and requests: what the middleware can know without Postgres.     *)
THEOREM RevocationsAreMarked == Spec => []RevokedIsMarked
<1>1. Init => MarksInv
  BY DEF Init, MarksInv
<1>2. Good /\ MarksInv /\ [Next]_vars => MarksInv'
  <2> SUFFICES ASSUME Good, MarksInv, [Next]_vars
               PROVE  MarksInv'
    OBVIOUS
  <2>1. ASSUME NEW r \in Requests, Start(r) \/ Step(r)
        PROVE  MarksInv'
    BY <2>1, MarksAtStart, MarksGoingOn, MarksKept
  <2>2. CASE UNCHANGED vars
    BY <2>2 DEF vars, MarksInv, InUse, Ended
  <2> QED
    BY <2>1, <2>2, MarksPassing DEF Next
<1>3. Good /\ MarksInv => RevokedIsMarked
  BY DEF Good, TypeOK, Claims, MarksInv, InUse, Ended, RevokedIsMarked
<1> QED
  BY <1>1, <1>2, <1>3, AlwaysGood, PTL DEF Spec

-----------------------------------------------------------------------------
(* Passwords: a session of an earlier password is late or is being ended.    *)

EndsSessions(r) == call[r].kind = "password" /\ call[r].at \in {"snapshot", "revoke"}
OnlyMoves(r) == \A x \in Requests \ {r} : call'[x] = call[x]

(* The request of the step is not changing a password, or has not got so far.*)
LEMMA PasswordsAside ==
    ASSUME Good, PasswordInv, RowsStay \/ SignedIn \/ Rotated, NEW r \in Requests,
           OnlyMoves(r), ~EndsSessions(r),
           \A u \in Users : user'[u].pw \in {0, user[u].pw}
    PROVE  PasswordInv'
<1> SUFFICES ASSUME NEW s \in SessionIds, sess'[s].state = "live",
                    sess'[s].born < user'[sess'[s].user].pw, ~sess'[s].late
             PROVE  \E x \in Requests : Ending(s, x)'
  BY DEF PasswordInv
<1>0. /\ \A u \in Users : user[u].pw \in 0 .. MaxPassword
      /\ \A x \in SessionIds : sess[x].born \in 0 .. MaxPassword
      /\ \A x \in SessionIds : sess[x].state = "live" => sess[x].user \in Users
      /\ MaxPassword \in Nat /\ None \notin SessionIds
  <2>1. user \in [Users -> UserRow] /\ sess \in [SessionIds -> SessionRow]
    BY DEF Good, TypeOK
  <2>2. \A u \in Users : user[u].pw \in 0 .. MaxPassword
    BY <2>1 DEF UserRow
  <2>3. \A x \in SessionIds : sess[x].born \in 0 .. MaxPassword
    BY <2>1 DEF SessionRow
  <2>4. \A x \in SessionIds : sess[x].state = "live" => sess[x].user \in Users
    BY DEF Good, Linked, RowsLinked, Made
  <2> QED
    BY <2>2, <2>3, <2>4, SessionsAssumption DEF SessionsAssumption, SessionIds
<1>1. ASSUME sess[s].state = "live", sess'[s].user = sess[s].user, sess'[s].born = sess[s].born,
             ~sess[s].late
      PROVE  \E x \in Requests : Ending(s, x)'
  <2>1. sess[s].born < user[sess[s].user].pw
    BY <1>0, <1>1
  <2>2. PICK x \in Requests : Ending(s, x)
    BY <1>1, <2>1 DEF PasswordInv
  <2> QED
    BY <1>1, <2>2 DEF Ending, EndsSessions, OnlyMoves
<1>2. CASE RowsStay
  BY <1>1, <1>2 DEF RowsStay
<1>3. ASSUME NEW n \in SessionIds, NEW u \in Users, NEW family, NEW p \in SessionIds \cup {None},
             NEW born \in 0 .. MaxPassword, Inserted(n, u, family, p, born)
      PROVE  \E x \in Requests : Ending(s, x)'
  <2>1. CASE s = n
    <3>1. sess'[s].user = u /\ sess'[s].born = born
      BY <1>3, <2>1 DEF Inserted
    <3>2. born < user[u].pw
      BY <1>0, <1>3, <3>1
    <3>3. PICK x \in Requests : call[x].kind = "password" /\ call[x].user = u /\ call[x].at = "snapshot"
      BY <1>3, <2>1, <3>2 DEF Inserted
    <3> QED
      BY <3>1, <3>3 DEF Ending, EndsSessions, OnlyMoves
  <2>2. CASE s # n
    BY <1>1, <1>3, <2>2 DEF Inserted
  <2> QED
    BY <2>1, <2>2
<1>4. CASE SignedIn
  BY <1>3, <1>4 DEF SignedIn
<1>5. CASE Rotated
  BY <1>0, <1>3, <1>5 DEF Rotated
<1> QED
  BY <1>2, <1>4, <1>5

LEMMA PasswordsAtStart ==
    ASSUME Good, NEW r \in Requests, Start(r)
    PROVE  OnlyMoves(r) /\ ~EndsSessions(r) /\ \A u \in Users : user'[u].pw \in {0, user[u].pw}
<1>0. call \in [Requests -> Call] /\ user \in [Users -> UserRow] /\ Idle.kind = "none"
  BY DEF Good, TypeOK, Idle
<1>1. ASSUME NEW c, Begin(r, c)
      PROVE  call[r] = Idle /\ OnlyMoves(r)
  BY <1>0, <1>1 DEF Begin, OnlyMoves
<1>2. call[r] = Idle /\ OnlyMoves(r)
  <2>1. CASE SigningIn(r) \/ Administer(r)
    BY <1>1, <2>1 DEF SigningIn, Register, Login, Administer, SetUserStatus, SetUserRole, OnlyMoves
  <2>2. CASE Refresh(r)
    BY <1>1, <2>2 DEF Refresh, Rotate, OnlyMoves
  <2>3. CASE Leaving(r) \/ OwnAccount(r) \/ \E t \in access : DeleteAccount(r, t)
    BY <1>1, <2>3 DEF Leaving, Logout, LogoutEverywhere, OwnAccount, ConfirmMark, ChangePassword,
                      RevokeSession, DeleteAccount
  <2> QED
    BY <2>1, <2>2, <2>3 DEF Start
<1>3. \A u \in Users : user'[u].pw \in {0, user[u].pw}
  <2>1. CASE UNCHANGED user
    BY <2>1
  <2>2. ASSUME NEW a \in Users, NEW role, user' = [user EXCEPT ![a] =
                 [status |-> IF SkipVerify THEN "active" ELSE "pending", gone |-> FALSE, role |-> role, pw |-> 0]]
        PROVE  \A u \in Users : user'[u].pw \in {0, user[u].pw}
    BY <1>0, <2>2
  <2>3. ASSUME NEW a, NEW st, user' = [user EXCEPT ![a].status = st] \/ user' = [user EXCEPT ![a].role = st]
        PROVE  \A u \in Users : user'[u].pw \in {0, user[u].pw}
    BY <1>0, <2>3 DEF UserRow
  <2>4. CASE SigningIn(r)
    BY <2>1, <2>2, <2>4 DEF SigningIn, Register, Login
  <2>5. CASE Administer(r)
    BY <2>3, <2>5 DEF Administer, SetUserStatus, SetUserRole
  <2>6. CASE OwnAccount(r)
    BY <2>1, <2>3, <2>6 DEF OwnAccount, ConfirmMark, ChangePassword, RevokeSession
  <2>7. CASE Refresh(r) \/ Leaving(r) \/ \E t \in access : DeleteAccount(r, t)
    BY <2>1, <2>7 DEF Refresh, Leaving, Logout, LogoutEverywhere, DeleteAccount
  <2> QED
    BY <2>4, <2>5, <2>6, <2>7 DEF Start
<1> QED
  BY <1>0, <1>2, <1>3 DEF EndsSessions

LEMMA PasswordsGoingOn ==
    ASSUME Good, PasswordInv, NEW r \in Requests, Step(r), RowsStay \/ SignedIn \/ Rotated
    PROVE  PasswordInv'
<1>0. /\ call \in [Requests -> Call] /\ user \in [Users -> UserRow] /\ sess \in [SessionIds -> SessionRow]
      /\ \A s \in SessionIds : sess[s].state = "live" => sess[s].user \in Users
  BY DEF Good, TypeOK, Linked, RowsLinked, Made
<1>1. CASE LoginStamp(r)
  <2>1. OnlyMoves(r) /\ ~EndsSessions(r)
    BY <1>0, <1>1 DEF LoginStamp, Goto, OnlyMoves, EndsSessions
  <2>2. CASE \A u \in Users : user'[u].pw = user[u].pw
    BY <2>1, <2>2, PasswordsAside
  <2>3. CASE \E u \in Users : user'[u].pw # user[u].pw
    <3> DEFINE a == call[r].user
    <3>1. /\ user' = [user EXCEPT ![a].pw = call[r].pw]
          /\ sess' = IF user[a].pw = call[r].pw THEN sess ELSE SetLate(a)
      BY <1>1, <2>3 DEF LoginStamp
    <3>2. user[a].pw # call[r].pw
      BY <1>0, <2>3, <3>1 DEF UserRow
    <3>3. \A u \in Users : u # a => user'[u].pw = user[u].pw
      BY <1>0, <3>1
    <3>4. \A s \in SessionIds : /\ sess'[s].state = sess[s].state /\ sess'[s].born = sess[s].born
                                /\ sess'[s].user = sess[s].user
                                /\ sess'[s].late = IF sess[s].user = a THEN TRUE ELSE sess[s].late
      BY <1>0, <3>1, <3>2 DEF SetLate, SessionRow
    <3> HIDE DEF a
    <3>5. \A s \in SessionIds, x \in Requests : Ending(s, x) => Ending(s, x)'
      BY <2>1, <3>4 DEF Ending, OnlyMoves, EndsSessions
    <3> QED
      BY <1>0, <3>3, <3>4, <3>5 DEF PasswordInv
  <2> QED
    BY <2>2, <2>3
<1>2. CASE UpdatePasswordHash(r)
  <2> DEFINE a == call[r].user
  <2>1. /\ user' = [user EXCEPT ![a].pw = call[r].pw] /\ UNCHANGED sess
        /\ call[r].kind = "password" /\ call[r].at = "write"
        /\ call' = [call EXCEPT ![r].at = "snapshot"]
    BY <1>2 DEF UpdatePasswordHash, Goto
  <2>2. call'[r].at = "snapshot" /\ call'[r].kind = "password" /\ call'[r].user = a /\ OnlyMoves(r)
    BY <1>0, <2>1 DEF Call, OnlyMoves
  <2>3. \A u \in Users : u # a => user'[u].pw = user[u].pw
    BY <1>0, <2>1
  <2> HIDE DEF a
  <2>4. \A s \in SessionIds, x \in Requests : Ending(s, x) => Ending(s, x)'
    BY <2>1, <2>2 DEF Ending, OnlyMoves
  <2>5. \A s \in SessionIds : sess[s].user = a => Ending(s, r)'
    BY <2>1, <2>2 DEF Ending
  <2> QED
    BY <1>0, <2>1, <2>3, <2>4, <2>5 DEF PasswordInv
<1>3. CASE RevokeAllSnapshot(r)
  <2> DEFINE ids == {s \in SessionIds : Unrevoked(s) /\ sess[s].user = call[r].user}
  <2>1. /\ call' = [call EXCEPT ![r].at = "revoke", ![r].ids = ids]
        /\ UNCHANGED <<user, sess>>
    BY <1>3 DEF RevokeAllSnapshot
  <2>2. \A s \in SessionIds : sess[s].state = "live" /\ sess[s].user = call[r].user => s \in ids
    BY DEF Unrevoked
  <2> HIDE DEF ids
  <2>3. /\ call'[r].at = "revoke" /\ call'[r].ids = ids /\ OnlyMoves(r)
        /\ call'[r].kind = call[r].kind /\ call'[r].user = call[r].user
    BY <1>0, <2>1 DEF Call, OnlyMoves
  <2>4. \A s \in SessionIds, x \in Requests : sess[s].state = "live" /\ Ending(s, x) => Ending(s, x)'
    BY <2>1, <2>2, <2>3 DEF Ending, OnlyMoves
  <2> QED
    BY <2>1, <2>4 DEF PasswordInv
<1>4. CASE RevokeRows(r)
  <2> DEFINE ended == {s \in call[r].ids : Unrevoked(s)}
             ids == IF call[r].kind = "one" THEN call[r].ids ELSE ended
  <2>1. /\ sess' = [s \in SessionIds |-> IF s \in ended THEN [sess[s] EXCEPT !.state = "revoked"]
                                                        ELSE sess[s]]
        /\ call' = [call EXCEPT ![r].at = "mark", ![r].ids = ids]
        /\ UNCHANGED user /\ call[r].at = "revoke"
    BY <1>4 DEF RevokeRows
  <2>2. \A s \in SessionIds : sess[s].state = "live" /\ s \in call[r].ids => s \in ended
    BY DEF Unrevoked
  <2> HIDE DEF ended, ids
  <2>3. OnlyMoves(r)
    BY <1>0, <2>1 DEF OnlyMoves
  <2>4. \A s \in SessionIds : sess'[s].state = "live" => s \notin ended /\ sess'[s] = sess[s]
    BY <1>0, <2>1 DEF SessionRow
  <2>5. \A s \in SessionIds, x \in Requests : s \notin call[r].ids /\ sess'[s] = sess[s] /\ Ending(s, x) => Ending(s, x)'
    BY <2>1, <2>3 DEF Ending, OnlyMoves
  <2> QED
    BY <2>1, <2>2, <2>4, <2>5 DEF PasswordInv
<1>5. CASE Abandon(r)
  <2>1. OnlyMoves(r) /\ UNCHANGED user
    BY <1>0, <1>5 DEF Abandon, End, OnlyMoves
  <2>2. CASE ~EndsSessions(r)
    BY <2>1, <2>2, PasswordsAside
  <2>3. CASE EndsSessions(r)
    <3> DEFINE a == call[r].user
    <3>1. sess' = SetLate(a)
      BY <1>5, <2>3 DEF Abandon, EndsSessions
    <3>2. \A s \in SessionIds : /\ sess'[s].state = sess[s].state /\ sess'[s].born = sess[s].born
                                /\ sess'[s].user = sess[s].user
                                /\ sess'[s].late = IF sess[s].user = a THEN TRUE ELSE sess[s].late
      BY <1>0, <3>1 DEF SetLate, SessionRow
    <3>3. \A s \in SessionIds, x \in Requests : Ending(s, x) => Ending(s, x)' \/ sess[s].user = a
      BY <2>1, <3>2 DEF Ending, OnlyMoves
    <3> HIDE DEF a
    <3> QED
      BY <2>1, <3>2, <3>3 DEF PasswordInv
  <2> QED
    BY <2>2, <2>3
<1>6. CASE \/ IssueTokens(r) \/ RefreshRead(r) \/ RefreshIssue(r) \/ ReissueRead(r) \/ ReissueAccess(r)
           \/ RevokeMany(r) \/ RevokeManyFails(r) \/ SoftDelete(r)
  <2>1. ~EndsSessions(r)
    BY <1>6 DEF EndsSessions, IssueTokens, RefreshRead, RefreshIssue, ReissueRead, ReissueAccess,
                RevokeMany, RevokeManyFails, SoftDelete
  <2>2. OnlyMoves(r)
    <3>1. CASE RevokeMany(r) \/ RevokeManyFails(r)
      <4>1. End(r) \/ Goto(r, "read") \/ Goto(r, "softdelete")
        BY <3>1, Zenon DEF RevokeMany, RevokeManyFails, AfterMarks
      <4> QED
        BY <1>0, <4>1 DEF End, Goto, OnlyMoves
    <3>2. CASE ~(RevokeMany(r) \/ RevokeManyFails(r))
      BY <1>0, <1>6, <3>2 DEF IssueTokens, RefreshRead, RefreshIssue, ReissueRead, ReissueAccess,
                              SoftDelete, End, OnlyMoves
    <3> QED
      BY <3>1, <3>2
  <2>3. \A u \in Users : user'[u].pw = user[u].pw
    BY <1>0, <1>6 DEF IssueTokens, RefreshRead, RefreshIssue, ReissueRead, ReissueAccess,
                      RevokeMany, RevokeManyFails, SoftDelete, UserRow
  <2> QED
    BY <2>1, <2>2, <2>3, PasswordsAside
<1> QED
  BY <1>1, <1>2, <1>3, <1>4, <1>5, <1>6 DEF Step

(* A session opened with an earlier password does not outlive the change of  *)
(* the password, for any number of sessions and requests, unless it was      *)
(* inserted after the change had listed the sessions to end, or the change   *)
(* was cut short: what service/auth.go ChangePassword achieves.              *)
THEOREM EarlierPasswordsEnd == Spec => []OldPasswordEnds
<1>1. Init => PasswordInv
  BY DEF Init, PasswordInv
<1>2. Good /\ PasswordInv /\ [Next]_vars => PasswordInv'
  <2> SUFFICES ASSUME Good, PasswordInv, [Next]_vars
               PROVE  PasswordInv'
    OBVIOUS
  <2>0. RowsStay \/ SignedIn \/ Rotated
    BY RowsStep
  <2>1. ASSUME NEW r \in Requests, Start(r)
        PROVE  PasswordInv'
    BY <2>0, <2>1, PasswordsAtStart, PasswordsAside
  <2>2. ASSUME NEW r \in Requests, Step(r)
        PROVE  PasswordInv'
    BY <2>0, <2>2, PasswordsGoingOn
  <2>3. CASE Passing \/ UNCHANGED vars
    <3>1. UNCHANGED <<user, call>>
      BY <2>3 DEF Passing, SessionExpires, DeleteExpired, MarkExpires, AccessExpires, vars
    <3>2. \A s \in SessionIds : /\ sess'[s].state = "live" => sess[s].state = "live"
                                /\ sess'[s].user = sess[s].user /\ sess'[s].born = sess[s].born
                                /\ sess'[s].late = sess[s].late
      BY <2>3 DEF Passing, SessionExpires, DeleteExpired, MarkExpires, AccessExpires, vars,
                  Good, TypeOK, SessionRow
    <3> QED
      BY <3>1, <3>2 DEF PasswordInv, Ending
  <2> QED
    BY <2>1, <2>2, <2>3 DEF Next
<1>3. PasswordInv => OldPasswordEnds
  BY DEF PasswordInv, OldPasswordEnds, Ending
<1> QED
  BY <1>1, <1>2, <1>3, AlwaysGood, PTL DEF Spec
=============================================================================
