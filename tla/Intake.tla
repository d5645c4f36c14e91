------------------------------- MODULE Intake --------------------------------
(* The requests a client leaves: Create of service/requests.go and            *)
(* store/requests.go. A request is about a car, addressed to a dealer, or for *)
(* every dealer. What dealers do with it is RequestClaims.                    *)
EXTENDS Inbox

CONSTANTS NoDealer, NoCar, \* NULLs
          Cars,            \* cars that are shown
          OwnerOf,         \* the dealer of a car, or NoDealer when it has a seller only
          DayLimit         \* requestsPerDayLimit, 20 in the code

VARIABLE rows  \* rows of the table requests the client has left in a day

ASSUME IntakeAssumption ==
    /\ NoDealer \notin People /\ NoCar \notin Cars /\ DayLimit \in Nat \ {0}
    /\ OwnerOf \in [Cars -> Dealers \cup {NoDealer}]

IntakeInit == rows = <<>>

\* A request about a car has no addressee: any dealer may take it.
Form == {[car |-> c, dealer |-> NoDealer] : c \in Cars \cup {NoCar}}
          \cup {[car |-> NoCar, dealer |-> d] : d \in Dealers}

\* Mutant of WithinLimit: the requests of the day are not counted.
WithinLimitAlways == TRUE

WithinLimit == Len(rows) < DayLimit

\* The requests of a day are counted, and the form is judged.
CheckRequest(r, form) ==
    /\ Start(r)
    /\ WithinLimit
    /\ Proceed(r, [at |-> "create", form |-> form])
    /\ UNCHANGED <<inbox, rows>>

\* The row and the counter of the car, in one transaction.
CreateRequest(r) ==
    /\ request[r].at = "create"
    /\ rows' = Append(rows, [form |-> request[r].form, answer |-> "none"])
    /\ Proceed(r, [at |-> "created", row |-> Len(rows')])
    /\ UNCHANGED <<inbox, served>>

\* notifyRequestCreated: nobody is told when there is neither an addressee nor
\* an owner of the car. The owner is found, but the row is written for the
\* addressee, who is missing: the handler panics, and Recovery answers 500.
NotifyRequestCreated(r) ==
    LET i == request[r].row  form == rows[i].form
        owner == IF form.car = NoCar THEN NoDealer ELSE OwnerOf[form.car]
        Answer(a) == rows' = [rows EXCEPT ![i].answer = a]
    IN /\ request[r].at = "created"
       /\ \/ form.dealer # NoDealer /\ Notify(form.dealer, "request", i) /\ Answer("created")
          \/ form.dealer = NoDealer /\ owner = NoDealer /\ Answer("created") /\ UNCHANGED inbox
          \/ form.dealer = NoDealer /\ owner # NoDealer /\ Answer("error") /\ UNCHANGED inbox
       /\ Done(r)
       /\ UNCHANGED served

IntakeNext ==
    \E r \in Requests :
       \/ \E form \in Form : CheckRequest(r, form)
       \/ CreateRequest(r) \/ NotifyRequestCreated(r)

-----------------------------------------------------------------------------
(* Properties. *)

IntakeTypeOK == rows \in Seq([form : Form, answer : {"none", "created", "error"}])

\* A client leaves no more requests in a day than the limit and those that
\* were counted at the same time.
DayLimitBound == Len(rows) < DayLimit + Cardinality(Requests)

\* A client whose request has been written is told so: "the request is there
\* already, and must not be rolled back because of a notification" (the
\* comment of notifyRequestCreated).
CreatedIsConfirmed == \A i \in DOMAIN rows : rows[i].answer # "error"
=============================================================================
