-------------------------------- MODULE Inbox --------------------------------
(* The notifications of the users (store/notifications.go) and the requests   *)
(* in flight that write them. A notification is written by a statement of its *)
(* own after the change it tells of; its failure is logged and nothing else.  *)
EXTENDS Integers, FiniteSets, Sequences

CONSTANTS Client, Dealers, Admin, \* users
          Requests,               \* requests served at the same time
          MaxServed               \* bound: requests ever started

ASSUME InboxAssumption == IsFiniteSet(Requests) /\ Requests # {} /\ MaxServed \in Nat

VARIABLES inbox,   \* rows of the table notifications
          request, \* requests in flight
          served   \* requests started so far

Managers == Dealers \cup {Admin}
People == {Client} \cup Managers
Idle == [at |-> "idle"]

InboxInit ==
    /\ inbox = {}
    /\ request = [r \in Requests |-> Idle]
    /\ served = 0

Start(r) == request[r].at = "idle" /\ served < MaxServed /\ served' = served + 1
Proceed(r, q) == request' = [request EXCEPT ![r] = q]
Done(r) == Proceed(r, Idle)

\* Create: the row is written, or the error is logged.
Notify(to, kind, about) ==
    inbox' \in {inbox, inbox \cup {[to |-> to, kind |-> kind, about |-> about, read |-> FALSE]}}

Of(u) == {n \in inbox : n.to = u}
Unread(u) == {n \in Of(u) : ~n.read}
AsRead(some) == inbox' = (inbox \ some) \cup {[n EXCEPT !.read = TRUE] : n \in some}

\* Numbers of other users' rows change nothing.
MarkRead(u, ids) == AsRead(ids \cap Unread(u))
MarkAllRead(u) == AsRead(Unread(u))

\* The cleaning of the worker: rows that were read, 90 days old.
DeleteOld == \E old \in SUBSET {n \in inbox : n.read} : inbox' = inbox \ old

\* POST /notifications/read, and the cleaning.
Reading ==
    /\ \/ \E u \in People : MarkAllRead(u) \/ \E n \in inbox : MarkRead(u, {n})
       \/ DeleteOld
    /\ UNCHANGED <<request, served>>

\* The connection is lost, or the process dies, between two statements.
Abandon(r) ==
    /\ request[r].at # "idle" /\ Done(r)
    /\ UNCHANGED <<inbox, served>>
=============================================================================
