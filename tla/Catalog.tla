------------------------------- MODULE Catalog -------------------------------
(* The catalogue of cars: service/catalog.go, store/cars.go, domain/car.go    *)
(* and the handlers of httpx/car_handlers.go, with the moderation of          *)
(* httpx/admin_handlers.go and the queueing of posts of service/social.go.    *)
(*                                                                            *)
(* A change of status reads the car, judges the copy and writes the status    *)
(* without looking at the row again; a form is saved in two transactions, the *)
(* row and then the photos. A visitor reads the list page by page, by the     *)
(* value of the sort and the id of the last row of the page before.           *)
EXTENDS Integers, FiniteSets

CONSTANTS NumCars,    \* cars, by the order of their ids
          Dealers, Admin, \* callers of the endpoints
          Vins,       \* identification numbers
          Requests,   \* requests served at the same time
          PageLimit,  \* rows of a page
          Prices,     \* prices in roubles
          Forms,      \* forms a dealer may send
          FirstRows,  \* rows the table may hold at the start
          MaxServed   \* bound: requests ever started

VARIABLES cars,      \* rows of the table cars, and the photos of each
          favorites, \* cars the visitor has marked
          queued,    \* cars that have been queued for the channels of their dealer
          request,   \* requests in flight
          walk,      \* the visitor's way through the pages
          served     \* requests started so far

others == <<cars, favorites, queued, request, served>>
vars == <<others, walk>>

Cars == 1 .. NumCars
NoVin == "none"
CarStatuses == {"draft", "moderation", "active", "reserved", "sold", "archived"}
PubliclyVisible == {"active", "reserved"}

\* A time is a number; 0 stands for NULL.
Times == 0 .. NumCars + MaxServed

Row == [owner : Dealers, status : CarStatuses, created : Times, published : Times,
        described : BOOLEAN, photos : BOOLEAN, price : Prices, vin : Vins \cup {NoVin}]
NoCar == [status |-> "absent"]
Exists(c) == cars[c].status # "absent"
Visible(c) == cars[c].status \in PubliclyVisible

\* Mutant of ValidTransition: a car on moderation may be reserved at once.
ValidTransitionReserving(from, to) ==
    \/ from = "draft" /\ to \in {"moderation", "archived"}
    \/ from = "moderation" /\ to \in {"active", "reserved", "draft", "archived"}
    \/ from = "active" /\ to \in {"reserved", "sold", "archived", "draft"}
    \/ from = "reserved" /\ to \in {"active", "sold", "archived"}
    \/ from = "sold" /\ to = "archived"
    \/ from = "archived" /\ to = "draft"

ValidTransition(from, to) ==
    \/ from = "draft" /\ to \in {"moderation", "archived"}
    \/ from = "moderation" /\ to \in {"active", "draft", "archived"}
    \/ from = "active" /\ to \in {"reserved", "sold", "archived", "draft"}
    \/ from = "reserved" /\ to \in {"active", "sold", "archived"}
    \/ from = "sold" /\ to = "archived"
    \/ from = "archived" /\ to = "draft"

\* A description that is long enough and photos that are enough; the price is
\* always positive, and the mileage is left out.
CanBePublished(row) == row.photos /\ row.described

\* The unique index cars_vin_unique covers the cars that are not archived or
\* sold: what a row with this number and status would meet.
VinTaken(c, vin, status) ==
    /\ vin # NoVin /\ status \notin {"archived", "sold"}
    /\ \E x \in Cars \ {c} : /\ Exists(x) /\ cars[x].vin = vin
                             /\ cars[x].status \notin {"archived", "sold"}

At(step, c) == [at |-> step, car |-> c, to |-> "absent", photos |-> FALSE]
WithPhotos(c, enough) == [at |-> "photos", car |-> c, to |-> "absent", photos |-> enough]
Idle == At("idle", 0)

\* A form as DecodeJSON, toForm and toInput let it through: it has a price, may
\* lack a description, and carries no photos, a few or enough of them.
CarForm == [described : BOOLEAN, photos : {"none", "few", "enough"}, price : Prices,
            vin : Vins \cup {NoVin}]

\* A car that is there at the start: a draft, or one that has been on sale.
FirstRow ==
    {row \in Row :
        /\ row.status \in {"draft", "active"}
        /\ row.status = "active" => row.published # 0
        /\ row.created = 0 /\ row.vin = NoVin}

ASSUME CatalogAssumption ==
    /\ NumCars \in Nat /\ MaxServed \in Nat /\ PageLimit \in Nat \ {0}
    /\ Admin \notin Dealers /\ Prices \subseteq Nat \ {0}
    /\ NoVin \notin Vins /\ Forms \subseteq CarForm /\ FirstRows \subseteq FirstRow

Init ==
    /\ cars \in [Cars -> {NoCar} \cup FirstRows]
    /\ favorites = {} /\ queued = {}
    /\ request = [r \in Requests |-> Idle]
    /\ walk = [at |-> "idle"]
    /\ served = 0

\* The requests come in the order of their numbers: the clock of the database.
Now == NumCars + served

-----------------------------------------------------------------------------
(* Requests. *)

Start == served < MaxServed /\ served' = served + 1
Done(r) == request' = [request EXCEPT ![r] = Idle]

\* The photos of a form are saved by another transaction.
ThenPhotos(r, c, form) ==
    request' = [request EXCEPT ![r] =
        IF form.photos = "none" THEN Idle
        ELSE WithPhotos(c, form.photos = "enough")]

\* A new row is a draft without photos.
InsertCar(c, d, form) ==
    cars' = [cars EXCEPT ![c] =
        [owner |-> d, status |-> "draft", created |-> Now', published |-> 0,
         described |-> form.described, photos |-> FALSE, price |-> form.price, vin |-> form.vin]]

\* POST /cars: a number of a live car is refused by the index.
Create(r, d, form) ==
    /\ request[r].at = "idle" /\ Start
    /\ \E c \in Cars :
         /\ ~Exists(c)
         /\ \/ VinTaken(c, form.vin, "draft") /\ UNCHANGED <<cars, request>>
            \/ ~VinTaken(c, form.vin, "draft") /\ InsertCar(c, d, form) /\ ThenPhotos(r, c, form)
    /\ UNCHANGED <<favorites, queued>>

\* The UPDATE of the row leaves the status and the dates alone.
UpdateCar(c, form) ==
    cars' = [cars EXCEPT ![c].described = form.described, ![c].price = form.price,
                         ![c].vin = form.vin]

\* PUT /cars/{id}: a car of the dealer, whatever its status; a form without
\* photos leaves the photos alone.
Update(r, d, c, form) ==
    /\ request[r].at = "idle" /\ Start
    /\ Exists(c) /\ cars[c].owner = d
    /\ \/ VinTaken(c, form.vin, cars[c].status) /\ UNCHANGED <<cars, request>>
       \/ ~VinTaken(c, form.vin, cars[c].status) /\ UpdateCar(c, form) /\ ThenPhotos(r, c, form)
    /\ UNCHANGED <<favorites, queued>>

\* ReplacePhotos deletes and inserts: what another form inserted after the
\* DELETE took its snapshot stays beside the photos of this one.
ReplacePhotos(r) ==
    /\ request[r].at = "photos"
    /\ cars' = [cars EXCEPT ![request[r].car].photos = request[r].photos]
    /\ \E stays \in BOOLEAN :
         request' = [x \in Requests |->
             IF x = r THEN Idle
             ELSE IF stays /\ request[x].at = "photos" /\ request[x].car = request[r].car
             THEN WithPhotos(request[x].car, TRUE) ELSE request[x]]
    /\ UNCHANGED <<favorites, queued, served>>

-----------------------------------------------------------------------------
(* The status. *)

\* PATCH /cars/{id}/status: the car is read and the request judged on the copy.
\* A dealer's car must be complete to go to moderation or on sale; an
\* administrator needs it complete only to send it to moderation.
ChangeStatus(r, by, c, to) ==
    /\ request[r].at = "idle" /\ Start
    /\ Exists(c)
    /\ by = cars[c].owner \/ by = Admin
    /\ ValidTransition(cars[c].status, to)
    /\ to = "moderation" \/ (to = "active" /\ by # Admin) => CanBePublished(cars[c])
    /\ request' = [request EXCEPT ![r] = [at |-> "status", car |-> c, to |-> to, photos |-> FALSE]]
    /\ UNCHANGED <<cars, favorites, queued>>

\* POST /admin/cars/{id}/moderate.
ModerateCar(r, c, approve) == ChangeStatus(r, Admin, c, IF approve THEN "active" ELSE "draft")

\* Mutant of Dated: the date of publication is set anew each time.
DatedAnew(row, to, t) == IF to = "active" THEN t ELSE row.published

\* The date of the first publication stays.
Dated(row, to, t) == IF to = "active" /\ row.published = 0 THEN t ELSE row.published

\* One UPDATE by id and dealer: the status is not compared with the copy. A
\* number that was taken meanwhile makes the index refuse an archived car.
SetStatus(r) ==
    LET q == request[r] IN
    /\ q.at = "status"
    /\ \/ VinTaken(q.car, cars[q.car].vin, q.to) /\ Done(r) /\ UNCHANGED cars
       \/ /\ ~VinTaken(q.car, cars[q.car].vin, q.to)
          /\ cars' = [cars EXCEPT ![q.car].status = q.to,
                                  ![q.car].published = Dated(cars[q.car], q.to, Now)]
          /\ request' = [request EXCEPT ![r] =
                IF q.to = "active" THEN At("enqueue", q.car) ELSE Idle]
    /\ UNCHANGED <<favorites, queued, served>>

\* Mutant of EnqueuePublished: the request is forgotten before it is used.
EnqueueForgotten(r) ==
    /\ request[r].at = "enqueue"
    /\ queued' = queued \cup {Idle.car}
    /\ Done(r)
    /\ UNCHANGED <<cars, favorites, served>>

\* EnqueuePublishedCar, whose failure is only logged.
EnqueuePublished(r) ==
    /\ request[r].at = "enqueue"
    /\ queued' \in {queued, queued \cup {request[r].car}}
    /\ Done(r)
    /\ UNCHANGED <<cars, favorites, served>>

\* POST /cars/{id}/publish-social: only a car on sale, judged on a copy.
EnqueueManual(r, d, c) ==
    /\ request[r].at = "idle" /\ Start
    /\ Exists(c) /\ cars[c].owner = d /\ cars[c].status = "active"
    /\ request' = [request EXCEPT ![r] = At("enqueue", c)]
    /\ UNCHANGED <<cars, favorites, queued>>

Archive(c) == cars' = [cars EXCEPT ![c].status = "archived"]

\* DELETE /cars/{id}: the car is archived from any status.
Delete(d, c) ==
    /\ Start /\ Exists(c) /\ cars[c].owner = d
    /\ Archive(c)
    /\ UNCHANGED <<favorites, queued, request>>

\* The client is gone, or the process dies between two statements.
Abandon(r) ==
    /\ request[r].at # "idle" /\ Done(r)
    /\ UNCHANGED <<cars, favorites, queued, served>>

-----------------------------------------------------------------------------
(* The visitor: a mark, a list page by page. *)

\* The public list fixes the statuses, whatever the query says.
PublicList(c) == Exists(c) /\ Visible(c)

\* PUT and DELETE /cars/{id}/favorite, for a car that was shown when it was read.
SetFavorite(r, c) ==
    /\ request[r].at = "idle" /\ Start /\ PublicList(c)
    /\ request' = [request EXCEPT ![r] = At("favorite", c)]
    /\ UNCHANGED <<cars, favorites, queued>>

\* The mark is written or taken away, whatever the status is by then.
WriteFavorite(r) ==
    LET c == request[r].car IN
    /\ request[r].at = "favorite"
    /\ favorites' \in {favorites \cup {c}, favorites \ {c}}
    /\ Done(r)
    /\ UNCHANGED <<cars, queued, served>>

\* The favourites are a filter of it; a dealer sees all of their cars.
FavoriteList(c) == PublicList(c) /\ c \in favorites
DealerList(c, d) == Exists(c) /\ cars[c].owner = d
ModerationList(c) == Exists(c) /\ cars[c].status = "moderation"

Lists == {"public", "favorites", "moderation"} \cup Dealers
Matches(list, c) ==
    \/ list = "public" /\ PublicList(c)
    \/ list = "favorites" /\ FavoriteList(c)
    \/ list = "moderation" /\ ModerationList(c)
    \/ list \in Dealers /\ DealerList(c, list)

Sorts == {"fresh", "price"}
SortKey(sort, c) == IF sort = "fresh" THEN cars[c].published ELSE cars[c].price

\* ORDER BY: the freshest first and those never published last, or the
\* cheapest first; the id decides between equal ones.
Before(sort, c, x) ==
    LET k == SortKey(sort, c)  m == SortKey(sort, x)
    IN IF sort = "fresh" THEN k > m \/ (k = m /\ c > x) ELSE k < m \/ (k = m /\ c < x)

\* The cursor keeps the value of the last row, and the date of its creation
\* when it was never published.
CursorOf(sort, c) ==
    [key |-> IF SortKey(sort, c) = 0 THEN cars[c].created ELSE SortKey(sort, c), id |-> c]

\* Mutant of Beyond: the rows that share the value of the last row are skipped.
BeyondValue(sort, c, cursor) ==
    LET k == SortKey(sort, c)
    IN k # 0 /\ (IF sort = "fresh" THEN k < cursor.key ELSE k > cursor.key)

\* cursorCondition: strictly beyond the pair of value and id. A comparison
\* with NULL is not true.
Beyond(sort, c, cursor) ==
    LET k == SortKey(sort, c)
    IN /\ k # 0
       /\ IF sort = "fresh" THEN k < cursor.key \/ (k = cursor.key /\ c < cursor.id)
                            ELSE k > cursor.key \/ (k = cursor.key /\ c > cursor.id)

\* One request for a list: the first PageLimit rows, and a cursor when there is
\* one more. "must" are the published cars that have matched since the first
\* page.
ReadPage(sort, list, rows, shown, must) ==
    LET page == {c \in rows : Cardinality({x \in rows : Before(sort, x, c)}) < PageLimit}
        last == CHOOSE c \in page : \A x \in page \ {c} : Before(sort, x, c)
        end  == page = rows
    IN walk' = [at |-> IF end THEN "done" ELSE "more", sort |-> sort, list |-> list,
                cursor |-> IF end THEN [key |-> 0, id |-> 0] ELSE CursorOf(sort, last),
                shown |-> shown \cup page, must |-> must]

FirstPage(sort, list) ==
    /\ walk.at = "idle"
    /\ LET rows == {c \in Cars : Matches(list, c)}
       IN ReadPage(sort, list, rows, {}, {c \in rows : cars[c].published # 0})
    /\ UNCHANGED others

NextPage ==
    /\ walk.at = "more"
    /\ ReadPage(walk.sort, walk.list,
                {c \in Cars : Matches(walk.list, c) /\ Beyond(walk.sort, c, walk.cursor)},
                walk.shown, walk.must)
    /\ UNCHANGED others

-----------------------------------------------------------------------------
\* Who the router lets through: dealers and the administrator to the status of
\* a car, only the administrator to the moderation.
Managed(r) ==
    \/ \E d \in Dealers, form \in Forms : Create(r, d, form) \/ \E c \in Cars : Update(r, d, c, form)
    \/ ReplacePhotos(r) \/ SetStatus(r) \/ EnqueuePublished(r) \/ Abandon(r)
    \/ \E c \in Cars :
         \/ \E by \in Dealers \cup {Admin}, to \in CarStatuses : ChangeStatus(r, by, c, to)
         \/ \E approve \in BOOLEAN : ModerateCar(r, c, approve)
         \/ \E d \in Dealers : EnqueueManual(r, d, c)

\* Whoever is signed in may mark cars.
Marked(r) == (\E c \in Cars : SetFavorite(r, c)) \/ WriteFavorite(r)

\* The walk need not show a car that stops matching, or whose price changes
\* while the walk goes by the price.
KeepMust ==
    \/ walk.at # "more" /\ UNCHANGED walk
    \/ /\ walk.at = "more"
       /\ \E list \in {walk.list} :
            walk' = [walk EXCEPT !.must = {c \in @ :
                       /\ Matches(list, c)'
                       /\ walk.sort = "price" => cars'[c].price = cars[c].price}]

Next ==
    \/ /\ \/ \E r \in Requests : Managed(r) \/ Marked(r)
          \/ \E d \in Dealers, c \in Cars : Delete(d, c)
       /\ KeepMust
    \/ \E sort \in Sorts, list \in Lists : FirstPage(sort, list)
    \/ NextPage

Spec == Init /\ [][Next]_vars

-----------------------------------------------------------------------------
(* Properties. *)

TypeOK ==
    /\ cars \in [Cars -> {NoCar} \cup Row]
    /\ favorites \subseteq Cars /\ queued \subseteq Cars
    /\ served \in 0 .. MaxServed
    /\ \A r \in Requests :
         /\ request[r].at \in {"idle", "photos", "status", "enqueue", "favorite"}
         /\ request[r].at # "idle" => Exists(request[r].car)
    /\ walk.at \in {"idle", "more", "done"}
    /\ walk.at # "idle" => walk.shown \subseteq Cars /\ walk.must \subseteq Cars

\* Whatever requests overlap, a car that is shown to visitors, was sold or was
\* queued for the channels has a date of publication: the public list, whose
\* cursor compares that date, holds no row the comparison would drop.
VisibleIsDated ==
    \A c \in Cars : (Exists(c) /\ (Visible(c) \/ cars[c].status = "sold")) \/ c \in queued
                    => cars[c].published # 0

\* A visitor who follows the cursor to the end has seen every published car
\* that was in the list all the time, while others were added, hidden,
\* published and given new prices (the comment of cursorCondition).
PagesCover == walk.at = "done" => walk.must \subseteq walk.shown
=============================================================================
