---------------------------- MODULE CatalogProofs ----------------------------
(* Theorems about Catalog, for any number of cars, dealers, requests, prices  *)
(* and forms.                                                                 *)
EXTENDS Catalog, FiniteSetTheorems, WellFoundedInduction, TLAPS

(* The tables and the requests have their types.                              *)
CarsOK == cars \in [Cars -> {NoCar} \cup Row]

RequestOK(q) ==
    /\ q = [at |-> q.at, car |-> q.car, to |-> q.to, photos |-> q.photos]
    /\ q.at \in {"idle", "photos", "status", "enqueue", "favorite"}
    /\ q.at # "idle" => q.car \in Cars
    /\ q.at = "status" => q.to \in CarStatuses
    /\ q.photos \in BOOLEAN

RequestsOK ==
    /\ DOMAIN request = Requests
    /\ \A r \in Requests : RequestOK(request[r])

Types == CarsOK /\ RequestsOK /\ served \in 0 .. MaxServed /\ queued \subseteq Cars

(* What a request may still do, and the dates it relies on: a car in flight   *)
(* is there, and one that is to be reserved, sold or queued has a date.       *)
Sound(r) ==
    LET q == request[r] IN
    q.at # "idle" =>
       /\ Exists(q.car)
       /\ q.at = "status" /\ q.to \in {"reserved", "sold"} => cars[q.car].published # 0
       /\ q.at = "enqueue" => cars[q.car].published # 0

OnSaleOrSold(row) == row.status \in {"active", "reserved", "sold"}

Dates ==
    /\ \A c \in Cars : OnSaleOrSold(cars[c]) => cars[c].published # 0
    /\ \A c \in queued : Exists(c) /\ cars[c].published # 0
    /\ \A r \in Requests : Sound(r)

-----------------------------------------------------------------------------
LEMMA Numbers ==
    /\ NumCars \in Nat /\ MaxServed \in Nat
    /\ Cars = 1 .. NumCars /\ Times = 0 .. NumCars + MaxServed
  BY CatalogAssumption DEF CatalogAssumption, Cars, Times

LEMMA IdleIsOK == RequestOK(Idle) /\ Idle.at = "idle"
  BY DEF RequestOK, Idle, At

LEMMA Rows ==
    ASSUME NEW row \in Row
    PROVE  /\ row.status \in CarStatuses /\ row.status # "absent" /\ row # NoCar
           /\ row = [owner |-> row.owner, status |-> row.status, created |-> row.created,
                     published |-> row.published, described |-> row.described,
                     photos |-> row.photos, price |-> row.price, vin |-> row.vin]
  BY DEF Row, CarStatuses, NoCar

LEMMA ExistsIsRow ==
    ASSUME CarsOK, NEW c \in Cars
    PROVE  Exists(c) <=> cars[c] \in Row
  BY Rows DEF CarsOK, Exists, NoCar

(* A row that keeps its place among the rows.                                 *)
LEMMA OneCar ==
    ASSUME CarsOK, NEW c \in Cars, NEW row \in Row, cars' = [cars EXCEPT ![c] = row]
    PROVE  CarsOK' /\ \A x \in Cars : cars'[x] = IF x = c THEN row ELSE cars[x]
<1>1. cars' \in [Cars -> {NoCar} \cup Row]
  BY DEF CarsOK
<1> QED
  BY <1>1 DEF CarsOK, NoCar, Row, Cars, Times, CarStatuses, NoVin

(* The dates survive when no car goes away, none changes its date and none    *)
(* that has no date is on sale.                                               *)
KeepsDates ==
    \A c \in Cars :
       /\ Exists(c) => Exists(c)' /\ (cars[c].published # 0 => cars'[c].published = cars[c].published)
       /\ OnSaleOrSold(cars'[c]) => cars'[c].published # 0

-----------------------------------------------------------------------------
(* A request that goes on, and the rows it leaves as they are.                *)
LEMMA GoesOn ==
    ASSUME RequestsOK, NEW r \in Requests, NEW q, RequestOK(q), request' = [request EXCEPT ![r] = q]
    PROVE  RequestsOK' /\ \A x \in Requests : request'[x] = IF x = r THEN q ELSE request[x]
  BY DEF RequestsOK, RequestOK, Cars, CarStatuses

LEMMA DatesGoOn ==
    ASSUME Types, Dates, KeepsDates, queued' = queued,
           \A x \in Requests : request'[x] = request[x] \/ Sound(x)'
    PROVE  Dates'
<1>1. \A c \in Cars' : OnSaleOrSold(cars'[c]) => cars'[c].published # 0
  BY DEF KeepsDates, Cars
<1>2. \A c \in queued' : Exists(c)' /\ cars'[c].published # 0
  BY DEF KeepsDates, Dates, Types
<1>3. ASSUME NEW x \in Requests, request'[x] = request[x] PROVE Sound(x)'
  <2>1. RequestOK(request[x]) /\ Sound(x)
    BY DEF Types, RequestsOK, Dates
  <2> QED
    BY <1>3, <2>1 DEF KeepsDates, Sound, RequestOK, Exists
<1> QED
  BY <1>1, <1>2, <1>3 DEF Dates, OnSaleOrSold

(* A step that leaves the table alone.                                        *)
LEMMA TableStays ==
    ASSUME Types, Dates, UNCHANGED cars
    PROVE  CarsOK' /\ KeepsDates
<1>1. CarsOK'
  BY DEF Types, CarsOK, NoCar, Row, Cars, Times, CarStatuses, NoVin
<1> QED
  BY <1>1 DEF Dates, KeepsDates, Exists

(* A step that writes one car: it keeps its date, or was not there.           *)
LEMMA OneCarChanges ==
    ASSUME Types, Dates, NEW c \in Cars, NEW row \in Row, cars' = [cars EXCEPT ![c] = row],
           Exists(c) /\ cars[c].published # 0 => row.published = cars[c].published,
           OnSaleOrSold(row) => row.published # 0
    PROVE  CarsOK' /\ KeepsDates /\ Exists(c)'
<1>1. CarsOK' /\ \A x \in Cars : cars'[x] = IF x = c THEN row ELSE cars[x]
  BY OneCar DEF Types
<1>2. row.status # "absent"
  BY Rows
<1>3. \A x \in Cars : OnSaleOrSold(cars[x]) => cars[x].published # 0
  BY DEF Dates
<1> QED
  BY <1>1, <1>2, <1>3 DEF KeepsDates, Exists

Good == Types /\ Dates

LEMMA GoodGoesOn ==
    ASSUME Good, CarsOK', KeepsDates, served' \in 0 .. MaxServed, queued' = queued,
           NEW r \in Requests, NEW q, RequestOK(q), request' = [request EXCEPT ![r] = q],
           Sound(r)'
    PROVE  Good' /\ KeepsDates
<1>1. RequestsOK' /\ \A x \in Requests : request'[x] = IF x = r THEN q ELSE request[x]
  BY GoesOn DEF Good, Types
<1>2. Types'
  BY <1>1 DEF Good, Types, Cars
<1>3. Dates'
  BY <1>1, DatesGoOn DEF Good
<1> QED
  BY <1>2, <1>3 DEF Good

LEMMA Waiting ==
    ASSUME Good, CarsOK', KeepsDates, served' \in 0 .. MaxServed, UNCHANGED <<queued, request>>
    PROVE  Good' /\ KeepsDates
<1>1. Dates'
  BY DatesGoOn DEF Good
<1>2. RequestsOK'
  BY DEF Good, Types, RequestsOK, RequestOK, Cars, CarStatuses
<1> QED
  BY <1>1, <1>2 DEF Good, Types, Cars

LEMMA Ready ==
    ASSUME RequestsOK, NEW r \in Requests, request' = [request EXCEPT ![r] = Idle]
    PROVE  RequestOK(Idle) /\ Sound(r)'
  BY IdleIsOK DEF RequestsOK, Sound

LEMMA Starting ==
    ASSUME served \in 0 .. MaxServed, Start
    PROVE  served' \in 0 .. MaxServed /\ Now' \in Times /\ Now' # 0
  BY Numbers DEF Start, Now

-----------------------------------------------------------------------------
(* Forms. *)

LEMMA FormSaved ==
    ASSUME Good, NEW r \in Requests, NEW c \in Cars, NEW form \in Forms, ThenPhotos(r, c, form),
           CarsOK', KeepsDates, Exists(c)', served' \in 0 .. MaxServed, UNCHANGED queued
    PROVE  Good' /\ KeepsDates
<1> DEFINE b == form.photos = "enough"
           q == WithPhotos(c, b)
<1>1. RequestOK(q) /\ q.at = "photos" /\ q.car = c
  <2>1. b \in BOOLEAN
    OBVIOUS
  <2> HIDE DEF b
  <2> QED
    BY <2>1 DEF RequestOK, WithPhotos
<1> HIDE DEF q
<1>2. CASE request' = [request EXCEPT ![r] = Idle]
  BY <1>2, Ready, GoodGoesOn, IdleIsOK DEF Good, Types
<1>3. CASE request' = [request EXCEPT ![r] = q]
  <2>1. request'[r] = q
    BY <1>3 DEF Good, Types, RequestsOK
  <2>2. Sound(r)'
    BY <1>1, <2>1 DEF Sound
  <2> QED
    BY <1>1, <1>3, <2>2, GoodGoesOn
<1> QED
  BY <1>2, <1>3 DEF ThenPhotos, q, b

LEMMA CreateKeeps ==
    ASSUME Good, NEW r \in Requests, NEW d \in Dealers, NEW form \in Forms, Create(r, d, form)
    PROVE  Good' /\ KeepsDates
<1>1. served' \in 0 .. MaxServed /\ Now' \in Times /\ UNCHANGED queued
  BY Starting DEF Create, Good, Types
<1>2. PICK c \in Cars :
         /\ ~Exists(c)
         /\ \/ UNCHANGED <<cars, request>>
            \/ InsertCar(c, d, form) /\ ThenPhotos(r, c, form)
  BY DEF Create
<1>3. CASE UNCHANGED <<cars, request>>
  BY <1>1, <1>3, TableStays, Waiting DEF Good
<1>4. CASE InsertCar(c, d, form) /\ ThenPhotos(r, c, form)
  <2> DEFINE row == [owner |-> d, status |-> "draft", created |-> Now', published |-> 0,
         described |-> form.described, photos |-> FALSE, price |-> form.price, vin |-> form.vin]
  <2>1. row \in Row
    <3>1. form \in CarForm
      BY CatalogAssumption DEF CatalogAssumption
    <3>2. form.described \in BOOLEAN /\ form.price \in Prices /\ form.vin \in Vins \cup {NoVin}
      BY <3>1 DEF CarForm
    <3>3. 0 \in Times /\ "draft" \in CarStatuses
      BY Numbers DEF CarStatuses
    <3> QED
      BY <1>1, <3>2, <3>3 DEF Row
  <2>2. cars' = [cars EXCEPT ![c] = row] /\ ~OnSaleOrSold(row)
    BY <1>4 DEF InsertCar, OnSaleOrSold
  <2> HIDE DEF row
  <2>3. CarsOK' /\ KeepsDates /\ Exists(c)'
    BY <1>2, <2>1, <2>2, OneCarChanges DEF Good
  <2> QED
    BY <1>1, <1>4, <2>3, FormSaved
<1> QED
  BY <1>2, <1>3, <1>4

LEMMA UpdateKeeps ==
    ASSUME Good, NEW r \in Requests, NEW d, NEW c \in Cars, NEW form \in Forms, Update(r, d, c, form)
    PROVE  Good' /\ KeepsDates
<1>1. served' \in 0 .. MaxServed /\ UNCHANGED queued /\ Exists(c)
  BY Starting DEF Update, Good, Types
<1>2. CASE UNCHANGED <<cars, request>>
  BY <1>1, <1>2, TableStays, Waiting DEF Good
<1>3. CASE UpdateCar(c, form) /\ ThenPhotos(r, c, form)
  <2> DEFINE row == [cars[c] EXCEPT !.described = form.described, !.price = form.price, !.vin = form.vin]
  <2>1. cars[c] \in Row
    BY <1>1, ExistsIsRow DEF Good, Types
  <2>2. row = [owner |-> cars[c].owner, status |-> cars[c].status, created |-> cars[c].created,
               published |-> cars[c].published, described |-> form.described,
               photos |-> cars[c].photos, price |-> form.price, vin |-> form.vin]
    <3> DEFINE old == cars[c]
               one == [old EXCEPT !.described = form.described]
               two == [one EXCEPT !.price = form.price]
    <3>1. old = [owner |-> old.owner, status |-> old.status, created |-> old.created,
                 published |-> old.published, described |-> old.described,
                 photos |-> old.photos, price |-> old.price, vin |-> old.vin]
      BY <2>1, Rows
    <3> HIDE DEF old
    <3>2. one = [owner |-> old.owner, status |-> old.status, created |-> old.created,
                 published |-> old.published, described |-> form.described,
                 photos |-> old.photos, price |-> old.price, vin |-> old.vin]
      BY <3>1
    <3> HIDE DEF one
    <3>3. two = [owner |-> old.owner, status |-> old.status, created |-> old.created,
                 published |-> old.published, described |-> form.described,
                 photos |-> old.photos, price |-> form.price, vin |-> old.vin]
      BY <3>2
    <3> HIDE DEF two
    <3>4. [two EXCEPT !.vin = form.vin]
            = [owner |-> old.owner, status |-> old.status, created |-> old.created,
               published |-> old.published, described |-> form.described,
               photos |-> old.photos, price |-> form.price, vin |-> form.vin]
      BY <3>3
    <3> QED
      BY <3>4 DEF old, one, two
  <2>3. cars' = [cars EXCEPT ![c] = row]
    <3>1. cars' = [cars EXCEPT ![c].described = form.described, ![c].price = form.price,
                               ![c].vin = form.vin]
      BY <1>3 DEF UpdateCar
    <3> QED
      BY <2>1, <3>1 DEF Good, Types, CarsOK
  <2> HIDE DEF row
  <2>4. row \in Row
    <3>1. form \in CarForm
      BY CatalogAssumption DEF CatalogAssumption
    <3>2. form.described \in BOOLEAN /\ form.price \in Prices /\ form.vin \in Vins \cup {NoVin}
      BY <3>1 DEF CarForm
    <3> QED
      BY <2>1, <2>2, <3>2 DEF Row
  <2>5. row.status = cars[c].status /\ row.published = cars[c].published
    BY <2>2
  <2>6. OnSaleOrSold(row) => row.published # 0
    BY <2>5 DEF Good, Dates, OnSaleOrSold
  <2>7. CarsOK' /\ KeepsDates /\ Exists(c)'
    BY <2>3, <2>4, <2>5, <2>6, OneCarChanges DEF Good
  <2> QED
    BY <1>1, <1>3, <2>7, FormSaved
<1> QED
  BY <1>2, <1>3 DEF Update

(* Another form's photos may turn out enough after all; nothing else of the   *)
(* requests in flight changes.                                                *)
LEMMA PhotosKeep ==
    ASSUME Good, NEW r \in Requests, ReplacePhotos(r)
    PROVE  Good' /\ KeepsDates
<1> DEFINE c == request[r].car
           row == [cars[c] EXCEPT !.photos = request[r].photos]
<1>1. RequestOK(request[r]) /\ request[r].at = "photos" /\ c \in Cars /\ Exists(c)
  BY DEF ReplacePhotos, Good, Types, RequestsOK, RequestOK, Dates, Sound
<1>2. cars[c] \in Row
  BY <1>1, ExistsIsRow DEF Good, Types
<1>3. cars' = [cars EXCEPT ![c] = row] /\ UNCHANGED <<queued, served>>
  BY DEF ReplacePhotos
<1>4. row \in Row /\ row.status = cars[c].status /\ row.published = cars[c].published
  <2> DEFINE p == request[r].photos
             old == cars[c]
  <2>1. p \in BOOLEAN
    BY <1>1 DEF RequestOK
  <2>2. old = [owner |-> old.owner, status |-> old.status, created |-> old.created,
               published |-> old.published, described |-> old.described,
               photos |-> old.photos, price |-> old.price, vin |-> old.vin]
    BY <1>2, Rows
  <2>3. row = [old EXCEPT !.photos = p] /\ old \in Row
    BY <1>2
  <2> HIDE DEF p, old, row
  <2>4. row = [owner |-> old.owner, status |-> old.status, created |-> old.created,
               published |-> old.published, described |-> old.described,
               photos |-> p, price |-> old.price, vin |-> old.vin]
    BY <2>2, <2>3
  <2>5. row \in Row
    BY <2>1, <2>3, <2>4 DEF Row
  <2> QED
    BY <2>4, <2>5 DEF old
<1>5. OnSaleOrSold(row) => row.published # 0
  BY <1>1, <1>4 DEF Good, Dates, OnSaleOrSold
<1> HIDE DEF c, row
<1>6. CarsOK' /\ KeepsDates
  BY <1>1, <1>3, <1>4, <1>5, OneCarChanges DEF Good
<1>7. ASSUME NEW x \in Requests
      PROVE  RequestOK(request'[x]) /\ Sound(x)'
  <2> DEFINE q == request[x]
             more == WithPhotos(q.car, TRUE)
  <2>1. PICK stays \in BOOLEAN : request' = [y \in Requests |->
             IF y = r THEN Idle
             ELSE IF stays /\ request[y].at = "photos" /\ request[y].car = request[r].car
             THEN WithPhotos(request[y].car, TRUE) ELSE request[y]]
    BY DEF ReplacePhotos
  <2>2. request'[x] \in {Idle, q} \/ (q.at = "photos" /\ request'[x] = more)
    BY <2>1
  <2>3. RequestOK(q) /\ Sound(x)
    BY DEF Good, Types, RequestsOK, Dates
  <2>4. q.at = "photos" => RequestOK(more) /\ more.at = q.at /\ more.car = q.car
    BY <2>3 DEF RequestOK, WithPhotos
  <2> HIDE DEF more
  <2>5. RequestOK(request'[x])
    BY <2>2, <2>3, <2>4, IdleIsOK
  <2>6. Sound(x)'
    BY <1>6, <2>2, <2>3, <2>4, IdleIsOK DEF Sound, KeepsDates, RequestOK, Exists
  <2> QED
    BY <2>5, <2>6
<1>8. RequestsOK'
  <2>1. DOMAIN request' = Requests
    BY DEF ReplacePhotos
  <2> QED
    BY <1>7, <2>1 DEF RequestsOK, RequestOK, Cars, CarStatuses
<1>9. Dates'
  BY <1>3, <1>6, <1>7, DatesGoOn DEF Good
<1> QED
  BY <1>3, <1>6, <1>8, <1>9 DEF Good, Types, Cars

-----------------------------------------------------------------------------
(* The status. *)

LEMMA ChangeKeeps ==
    ASSUME Good, NEW r \in Requests, NEW by, NEW c \in Cars, NEW to \in CarStatuses,
           ChangeStatus(r, by, c, to)
    PROVE  Good' /\ KeepsDates
<1> DEFINE q == [at |-> "status", car |-> c, to |-> to, photos |-> FALSE]
<1>1. RequestOK(q) /\ q.at = "status" /\ q.car = c /\ q.to = to
  BY DEF RequestOK
<1>2. /\ request' = [request EXCEPT ![r] = q]
      /\ served' \in 0 .. MaxServed /\ UNCHANGED <<cars, queued>> /\ Exists(c)
      /\ ValidTransition(cars[c].status, to)
  BY Starting DEF ChangeStatus, Good, Types
<1> HIDE DEF q
<1>3. CarsOK' /\ KeepsDates
  BY <1>2, TableStays DEF Good
<1>4. Sound(r)'
  <2>1. to \in {"reserved", "sold"} => cars[c].status \in {"active", "reserved"}
    BY <1>2 DEF ValidTransition
  <2>2. to \in {"reserved", "sold"} => cars[c].published # 0
    BY <2>1 DEF Good, Dates, OnSaleOrSold
  <2>3. request'[r] = q /\ Exists(c)' /\ cars'[c] = cars[c]
    BY <1>2 DEF Good, Types, RequestsOK, Exists
  <2> QED
    BY <1>1, <2>2, <2>3 DEF Sound
<1> QED
  BY <1>1, <1>2, <1>3, <1>4, GoodGoesOn

LEMMA SetStatusKeeps ==
    ASSUME Good, NEW r \in Requests, SetStatus(r)
    PROVE  Good' /\ KeepsDates
<1>0. PICK c : c = request[r].car
  OBVIOUS
<1> DEFINE q == request[r]
           d == Dated(cars[c], q.to, Now)
           row == [cars[c] EXCEPT !.status = q.to, !.published = d]
<1>1. /\ q.at = "status" /\ c \in Cars /\ Exists(c) /\ q.to \in CarStatuses
      /\ q.to \in {"reserved", "sold"} => cars[c].published # 0
  BY <1>0 DEF SetStatus, Good, Types, RequestsOK, RequestOK, Dates, Sound
<1>2. cars[c] \in Row /\ UNCHANGED <<queued, served>> /\ served' \in 0 .. MaxServed
  BY <1>1, ExistsIsRow DEF SetStatus, Good, Types
<1>3. d \in Times /\ (cars[c].published # 0 => d = cars[c].published) /\ (q.to = "active" => d # 0)
      /\ (q.to \in {"reserved", "sold"} => d # 0)
  <2>1. Now \in Times /\ Now # 0
    BY <1>1, Numbers DEF Now, Good, Types
  <2>2. cars[c].published \in Times
    BY <1>2 DEF Row
  <2> QED
    BY <1>1, <2>1, <2>2 DEF Dated
<1>4. CASE Done(r) /\ UNCHANGED cars
  <2>1. request' = [request EXCEPT ![r] = Idle]
    BY <1>4 DEF Done
  <2>2. RequestOK(Idle) /\ Sound(r)'
    BY <2>1, Ready DEF Good, Types
  <2>3. CarsOK' /\ KeepsDates
    BY <1>4, TableStays DEF Good
  <2> QED
    BY <1>2, <2>1, <2>2, <2>3, GoodGoesOn
<1>5. CASE /\ cars' = [cars EXCEPT ![c].status = q.to, ![c].published = d]
           /\ request' = [request EXCEPT ![r] = IF q.to = "active" THEN At("enqueue", c) ELSE Idle]
  <2> DEFINE old == cars[c]
             to == q.to
             one == [old EXCEPT !.status = to]
             next == IF to = "active" THEN At("enqueue", c) ELSE Idle
  <2>1. cars' = [cars EXCEPT ![c] = row]
    BY <1>1, <1>2, <1>5 DEF Good, Types, CarsOK
  <2>2. old = [owner |-> old.owner, status |-> old.status, created |-> old.created,
               published |-> old.published, described |-> old.described,
               photos |-> old.photos, price |-> old.price, vin |-> old.vin]
    BY <1>2, Rows
  <2>3. old \in Row /\ row = [one EXCEPT !.published = d] /\ to \in CarStatuses
    BY <1>1, <1>2
  <2>4. request' = [request EXCEPT ![r] = next] /\ RequestOK(next)
    <3>1. RequestOK(At("enqueue", c)) /\ RequestOK(Idle)
      BY <1>1, IdleIsOK DEF RequestOK, At
    <3> QED
      BY <1>5, <3>1
  <2>5. /\ next.at # "idle" => next.at = "enqueue" /\ next.car = c /\ to = "active"
    BY IdleIsOK DEF At
  <2>6. old.published # 0 => d = old.published
    BY <1>3
  <2>7. to \in {"active", "reserved", "sold"} => d # 0
    BY <1>3
  <2> HIDE DEF d, old, row, to, next
  <2>8. one = [owner |-> old.owner, status |-> to, created |-> old.created,
               published |-> old.published, described |-> old.described,
               photos |-> old.photos, price |-> old.price, vin |-> old.vin]
    BY <2>2
  <2> HIDE DEF one
  <2>9. row = [owner |-> old.owner, status |-> to, created |-> old.created,
               published |-> d, described |-> old.described,
               photos |-> old.photos, price |-> old.price, vin |-> old.vin]
    BY <2>3, <2>8
  <2>10. d \in Times /\ old \in Row /\ to \in CarStatuses
    BY <1>3, <2>3 DEF d
  <2>11. row \in Row
    BY <2>9, <2>10 DEF Row
  <2>12. OnSaleOrSold(row) => row.published # 0
    BY <2>7, <2>9 DEF OnSaleOrSold
  <2>13. Exists(c) /\ cars[c].published # 0 => row.published = cars[c].published
    BY <2>6, <2>9 DEF old
  <2>14. c \in Cars
    BY <1>1
  <2>15. CarsOK' /\ KeepsDates /\ Exists(c)'
    BY <2>1, <2>11, <2>12, <2>13, <2>14, OneCarChanges DEF Good
  <2>16. Sound(r)'
    <3>1. request'[r] = next
      BY <2>4 DEF Good, Types, RequestsOK
    <3>2. to = "active" => cars'[c].published # 0
      <4>1. cars'[c] = row
        BY <2>1, <2>14 DEF Good, Types, CarsOK
      <4>2. row.published = d
        BY <2>9
      <4> QED
        BY <2>7, <4>1, <4>2
    <3> QED
      BY <2>5, <2>15, <3>1, <3>2 DEF Sound
  <2> QED
    BY <1>2, <2>4, <2>15, <2>16, GoodGoesOn
<1> QED
  BY <1>0, <1>4, <1>5 DEF SetStatus

LEMMA EnqueueKeeps ==
    ASSUME Good, NEW r \in Requests, EnqueuePublished(r) \/ Abandon(r)
    PROVE  Good' /\ KeepsDates
<1>1. request' = [request EXCEPT ![r] = Idle] /\ UNCHANGED <<cars, served>>
  BY DEF EnqueuePublished, Abandon, Done
<1>2. RequestOK(Idle) /\ Sound(r)'
  BY <1>1, Ready DEF Good, Types
<1>3. CarsOK' /\ KeepsDates
  BY <1>1, TableStays DEF Good
<1>4. CASE UNCHANGED queued
  BY <1>1, <1>2, <1>3, <1>4, GoodGoesOn DEF Good, Types
<1>5. CASE EnqueuePublished(r)
  <2>1. queued' \subseteq queued \cup {request[r].car} /\ request[r].at = "enqueue"
    BY <1>5 DEF EnqueuePublished
  <2>2. request[r].car \in Cars /\ Exists(request[r].car) /\ cars[request[r].car].published # 0
    BY <2>1 DEF Good, Types, RequestsOK, RequestOK, Dates, Sound
  <2>3. \A c \in queued' : c \in Cars /\ Exists(c) /\ cars[c].published # 0
    BY <2>1, <2>2 DEF Good, Types, Dates
  <2>4. RequestsOK' /\ \A x \in Requests : request'[x] = IF x = r THEN Idle ELSE request[x]
    BY <1>1, <1>2, GoesOn DEF Good, Types
  <2>5. \A x \in Requests : Sound(x)'
    BY <1>1, <2>4, IdleIsOK DEF Good, Dates, Sound, Exists
  <2>6. Dates'
    BY <1>1, <2>3, <2>5 DEF Good, Dates, OnSaleOrSold, Exists, Cars
  <2> QED
    BY <1>1, <1>3, <2>3, <2>4, <2>6 DEF Good, Types, Cars
<1> QED
  BY <1>4, <1>5 DEF Abandon

LEMMA ManualKeeps ==
    ASSUME Good, NEW r \in Requests, NEW d, NEW c \in Cars, EnqueueManual(r, d, c)
    PROVE  Good' /\ KeepsDates
<1> DEFINE q == At("enqueue", c)
<1>1. RequestOK(q) /\ q.at = "enqueue" /\ q.car = c
  BY DEF RequestOK, At
<1>2. /\ request' = [request EXCEPT ![r] = q]
      /\ served' \in 0 .. MaxServed /\ UNCHANGED <<cars, queued>> /\ Exists(c)
      /\ cars[c].status = "active"
  BY Starting DEF EnqueueManual, Good, Types
<1> HIDE DEF q
<1>3. CarsOK' /\ KeepsDates
  BY <1>2, TableStays DEF Good
<1>4. Sound(r)'
  <2>1. cars[c].published # 0
    BY <1>2 DEF Good, Dates, OnSaleOrSold
  <2>2. request'[r] = q /\ Exists(c)' /\ cars'[c] = cars[c]
    BY <1>2 DEF Good, Types, RequestsOK, Exists
  <2> QED
    BY <1>1, <2>1, <2>2 DEF Sound
<1> QED
  BY <1>1, <1>2, <1>3, <1>4, GoodGoesOn

LEMMA FavoriteKeeps ==
    ASSUME Good, NEW r \in Requests, WriteFavorite(r) \/ \E c \in Cars : SetFavorite(r, c)
    PROVE  Good' /\ KeepsDates
<1>1. PICK q : /\ request' = [request EXCEPT ![r] = q] /\ RequestOK(q)
               /\ q.at = "idle" \/ (q.at = "favorite" /\ Exists(q.car))
               /\ served' \in 0 .. MaxServed /\ UNCHANGED <<cars, queued>>
  <2>1. ASSUME NEW c \in Cars
        PROVE  RequestOK(At("favorite", c)) /\ At("favorite", c).at = "favorite" /\ At("favorite", c).car = c
    BY DEF RequestOK, At
  <2>2. CASE WriteFavorite(r)
    BY <2>2, IdleIsOK DEF WriteFavorite, Done, Good, Types
  <2>3. CASE \E c \in Cars : SetFavorite(r, c)
    <3>1. PICK c \in Cars : SetFavorite(r, c)
      BY <2>3
    <3> QED
      BY <2>1, <3>1, Starting DEF SetFavorite, PublicList, Good, Types
  <2> QED
    BY <2>2, <2>3
<1>2. CarsOK' /\ KeepsDates
  BY <1>1, TableStays DEF Good
<1>3. Sound(r)'
  <2>1. request'[r] = q
    BY <1>1 DEF Good, Types, RequestsOK
  <2> QED
    BY <1>1, <2>1 DEF Sound, Exists
<1> QED
  BY <1>1, <1>2, <1>3, GoodGoesOn

LEMMA DeleteKeeps ==
    ASSUME Good, NEW d, NEW c \in Cars, Delete(d, c)
    PROVE  Good' /\ KeepsDates
<1> DEFINE row == [cars[c] EXCEPT !.status = "archived"]
<1>1. /\ served' \in 0 .. MaxServed /\ UNCHANGED <<queued, request>>
      /\ Exists(c) /\ cars' = [cars EXCEPT ![c] = row]
  BY Starting DEF Delete, Archive, Good, Types
<1>2. row \in Row /\ row.status = "archived" /\ row.published = cars[c].published
  <2> DEFINE old == cars[c]
  <2>1. old \in Row
    BY <1>1, ExistsIsRow DEF Good, Types
  <2>2. "archived" \in CarStatuses
    BY DEF CarStatuses
  <2> HIDE DEF old
  <2>3. [old EXCEPT !.status = "archived"] \in Row
    BY <2>1, <2>2 DEF Row
  <2>4. [old EXCEPT !.status = "archived"].status = "archived"
        /\ [old EXCEPT !.status = "archived"].published = old.published
    BY <2>1 DEF Row
  <2> QED
    BY <2>3, <2>4 DEF old
<1> HIDE DEF row
<1>3. CarsOK' /\ KeepsDates
  BY <1>1, <1>2, OneCarChanges DEF Good, OnSaleOrSold
<1> QED
  BY <1>1, <1>3, Waiting

-----------------------------------------------------------------------------
LEMMA GoodStep == Good /\ [Next]_vars => Good' /\ KeepsDates
<1> SUFFICES ASSUME Good, [Next]_vars PROVE Good' /\ KeepsDates
  OBVIOUS
<1>1. CASE UNCHANGED <<cars, queued, request, served>>
  BY <1>1, TableStays, Waiting DEF Good, Types
<1>2. ASSUME NEW r \in Requests, Managed(r) PROVE Good' /\ KeepsDates
  <2>1. ASSUME NEW c \in Cars, NEW by, NEW to \in CarStatuses, ChangeStatus(r, by, c, to)
        PROVE  Good' /\ KeepsDates
    BY <2>1, ChangeKeeps
  <2>2. ASSUME NEW c \in Cars, NEW approve \in BOOLEAN, ModerateCar(r, c, approve) PROVE Good' /\ KeepsDates
    BY <2>2, ChangeKeeps DEF ModerateCar, CarStatuses
  <2> QED
    BY <1>2, <2>1, <2>2, CreateKeeps, UpdateKeeps, PhotosKeep, SetStatusKeeps, EnqueueKeeps,
       ManualKeeps DEF Managed
<1>3. ASSUME NEW d \in Dealers, NEW c \in Cars, Delete(d, c) PROVE Good' /\ KeepsDates
  BY <1>3, DeleteKeeps
<1>4. ASSUME NEW r \in Requests, Marked(r) PROVE Good' /\ KeepsDates
  BY <1>4, FavoriteKeeps DEF Marked
<1>5. ASSUME NEW sort, NEW list, FirstPage(sort, list) PROVE Good' /\ KeepsDates
  BY <1>1, <1>5 DEF FirstPage, others
<1>6. CASE NextPage
  BY <1>1, <1>6 DEF NextPage, others
<1>7. CASE UNCHANGED vars
  BY <1>1, <1>7 DEF vars, others
<1> QED
  BY <1>2, <1>3, <1>4, <1>5, <1>6, <1>7 DEF Next

LEMMA AlwaysGood == Spec => []Good
<1>1. Init => Good
  <2> SUFFICES ASSUME Init PROVE Good
    OBVIOUS
  <2>1. ASSUME NEW c \in Cars
        PROVE  cars[c] \in {NoCar} \cup Row /\ (OnSaleOrSold(cars[c]) => cars[c].published # 0)
    <3>1. CASE cars[c] = NoCar
      <4>1. cars[c].status = "absent"
        BY <3>1 DEF NoCar
      <4> QED
        BY <3>1, <4>1 DEF OnSaleOrSold
    <3>2. CASE cars[c] \in FirstRows
      <4>1. cars[c] \in FirstRow
        BY <3>2, CatalogAssumption DEF CatalogAssumption
      <4>2. cars[c] \in Row
        BY <4>1 DEF FirstRow
      <4> DEFINE row == cars[c]
      <4>3. /\ row.status \in {"draft", "active"}
            /\ row.status = "active" => row.published # 0
        BY <4>1 DEF FirstRow
      <4> HIDE DEF row
      <4>4. OnSaleOrSold(row) => row.published # 0
        BY <4>3 DEF OnSaleOrSold
      <4> QED
        BY <4>2, <4>4 DEF row
    <3> QED
      BY <3>1, <3>2 DEF Init
  <2>2. CarsOK
    BY <2>1 DEF Init, CarsOK
  <2>3. RequestsOK /\ \A r \in Requests : Sound(r)
    BY IdleIsOK DEF Init, RequestsOK, Sound
  <2> QED
    BY <2>1, <2>2, <2>3, Numbers DEF Init, Good, Types, Dates
<1> QED
  BY <1>1, GoodStep, PTL DEF Spec

\* Whatever requests overlap, a car that visitors see, that was sold or that was
\* queued for the channels has a date of publication (SetStatus of
\* store/cars.go writes it once; nothing that judged an old copy undoes it).
THEOREM DatesOfPublication == Spec => []VisibleIsDated
<1>1. Good => VisibleIsDated
  BY DEF Good, Types, Dates, VisibleIsDated, Visible, PubliclyVisible, OnSaleOrSold
<1> QED
  BY <1>1, AlwaysGood, PTL

-----------------------------------------------------------------------------
(* Pages. A finite set with a strict order has a first element.               *)

LEMMA LeastNumber ==
    ASSUME NEW S \in SUBSET Nat, S # {}
    PROVE  \E m \in S : \A k \in S : m <= k
<1>1. PICK m \in S : \A k \in S : ~ (<<k, m>> \in OpToRel(<, Nat))
  BY NatLessThanWellFounded, WFMin, Zenon
<1>2. ASSUME NEW k \in S, k < m PROVE FALSE
  <2>1. <<k, m>> \in {p \in Nat \X Nat : p[1] < p[2]}
    BY <1>2
  <2>2. OpToRel(<, Nat) = {p \in Nat \X Nat : p[1] < p[2]}
    BY DEF OpToRel
  <2> QED
    BY <1>1, <2>1, <2>2, Zenon
<1> QED
  BY <1>2

LEMMA FirstElement ==
    ASSUME NEW T, IsFiniteSet(T), T # {}, NEW R,
           \A x \in T : <<x, x>> \notin R,
           \A x, y, z \in T : <<x, y>> \in R /\ <<y, z>> \in R => <<x, z>> \in R
    PROVE  \E m \in T : \A y \in T : <<y, m>> \notin R
<1> DEFINE Below(c) == {x \in T : <<x, c>> \in R}
           Ranks == {Cardinality(Below(c)) : c \in T}
<1>1. \A c : IsFiniteSet(Below(c)) /\ Cardinality(Below(c)) \in Nat
  BY FS_Subset, FS_CardinalityType
<1>2. PICK k \in Ranks : \A n \in Ranks : k <= n
  <2>1. Ranks \in SUBSET Nat /\ Ranks # {}
    <3> HIDE DEF Below
    <3> QED
      BY <1>1
  <2> HIDE DEF Ranks
  <2> QED
    BY <2>1, LeastNumber
<1>3. PICK m \in T : k = Cardinality(Below(m))
  BY <1>2
<1>4. ASSUME NEW y \in T, <<y, m>> \in R PROVE FALSE
  <2>1. Below(y) \subseteq Below(m)
    BY <1>4
  <2>2. Below(y) # Below(m)
    BY <1>4
  <2>3. Cardinality(Below(y)) <= k /\ Cardinality(Below(y)) # k
    BY <1>1, <1>3, <2>1, <2>2, FS_Subset
  <2>4. k <= Cardinality(Below(y))
    <3> HIDE DEF Below
    <3> QED
      BY <1>2
  <2>5. k \in Nat /\ Cardinality(Below(y)) \in Nat
    BY <1>1, <1>3
  <2> HIDE DEF Below
  <2> QED
    BY <2>3, <2>4, <2>5
<1> QED
  BY <1>4

(* The rows of a list have keys that can be compared.                         *)
LEMMA KeysAreNumbers ==
    ASSUME Good, NEW sort \in Sorts, NEW c \in Cars, Exists(c)
    PROVE  /\ SortKey(sort, c) \in Nat
           /\ sort = "price" => SortKey(sort, c) # 0
           /\ cars[c].published # 0 => SortKey(sort, c) # 0
<1>1. cars[c] \in Row
  BY ExistsIsRow DEF Good, Types
<1>2. cars[c].published \in Times /\ cars[c].price \in Prices
  BY <1>1 DEF Row
<1>3. cars[c].published \in Nat /\ cars[c].price \in Nat \ {0}
  BY <1>2, Numbers, CatalogAssumption DEF CatalogAssumption
<1> QED
  BY <1>3 DEF SortKey, Sorts

LEMMA RowsAreOrdered ==
    ASSUME Good, NEW sort \in Sorts, NEW rows \in SUBSET Cars, \A c \in rows : Exists(c)
    PROVE  /\ \A x \in rows : ~Before(sort, x, x)
           /\ \A x, y, z \in rows : Before(sort, x, y) /\ Before(sort, y, z) => Before(sort, x, z)
           /\ \A x, y \in rows : x = y \/ Before(sort, x, y) \/ Before(sort, y, x)
<1>1. \A x \in rows : SortKey(sort, x) \in Nat /\ x \in Nat
  BY KeysAreNumbers, Numbers
<1> QED
  BY <1>1 DEF Before, Sorts

(* A page that is not the last one ends with a row that stands before all the *)
(* rows that are left.                                                        *)
LEMMA PageEnds ==
    ASSUME Good, NEW sort \in Sorts, NEW rows \in SUBSET Cars, \A c \in rows : Exists(c),
           NEW page, page = {c \in rows : Cardinality({x \in rows : Before(sort, x, c)}) < PageLimit},
           page # rows,
           NEW last, last = CHOOSE c \in page : \A x \in page \ {c} : Before(sort, x, c)
    PROVE  last \in page /\ \A c \in rows \ page : Before(sort, last, c)
<1> DEFINE Sooner(c) == {x \in rows : Before(sort, x, c)}
           R == {p \in rows \X rows : Before(sort, p[1], p[2])}
           L == {p \in rows \X rows : Before(sort, p[2], p[1])}
<1>1. IsFiniteSet(rows)
  <2>1. IsFiniteSet(Cars)
    BY Numbers, FS_Interval
  <2> QED
    BY <2>1, FS_Subset
<1>2. \A c : IsFiniteSet(Sooner(c)) /\ Cardinality(Sooner(c)) \in Nat
  BY <1>1, FS_Subset, FS_CardinalityType
<1>3. page \subseteq rows /\ rows # {} /\ IsFiniteSet(page)
  BY <1>1, FS_Subset
<1>4. page # {}
  <2>1. PICK m \in rows : \A y \in rows : <<y, m>> \notin R
    <3>1. \A x \in rows : <<x, x>> \notin R
      BY RowsAreOrdered
    <3>2. \A x, y, z \in rows : <<x, y>> \in R /\ <<y, z>> \in R => <<x, z>> \in R
      BY RowsAreOrdered
    <3> HIDE DEF R
    <3> QED
      BY <1>1, <1>3, <3>1, <3>2, FirstElement
  <2>2. Sooner(m) = {}
    BY <2>1
  <2>3. Cardinality(Sooner(m)) = 0
    BY <2>2, FS_EmptySet
  <2>4. 0 < PageLimit
    BY CatalogAssumption DEF CatalogAssumption
  <2> QED
    BY <2>3, <2>4
<1>5. last \in page /\ \A x \in page \ {last} : Before(sort, x, last)
  <2>1. PICK m \in page : \A y \in page : <<y, m>> \notin L
    <3>1. \A x \in page : <<x, x>> \notin L
      BY <1>3, RowsAreOrdered
    <3>2. \A x, y, z \in page : <<x, y>> \in L /\ <<y, z>> \in L => <<x, z>> \in L
      BY <1>3, RowsAreOrdered
    <3> HIDE DEF L
    <3> QED
      BY <1>3, <1>4, <3>1, <3>2, FirstElement
  <2>2. \A x \in page \ {m} : Before(sort, x, m)
    BY <1>3, <2>1, RowsAreOrdered
  <2> QED
    BY <2>2
<1>6. ASSUME NEW c \in rows \ page PROVE Before(sort, last, c)
  <2>1. CASE Before(sort, c, last)
    <3>1. Sooner(c) \subseteq Sooner(last)
      BY <1>3, <1>5, <2>1, RowsAreOrdered
    <3>2. Cardinality(Sooner(c)) <= Cardinality(Sooner(last))
      <4>1. IsFiniteSet(Sooner(last)) /\ Sooner(c) \in SUBSET Sooner(last)
        BY <1>2, <3>1
      <4> HIDE DEF Sooner
      <4> QED
        BY <4>1, FS_Subset
    <3>3. Cardinality(Sooner(last)) < PageLimit /\ ~ (Cardinality(Sooner(c)) < PageLimit)
      BY <1>5, <1>6
    <3>4. PageLimit \in Nat
      BY CatalogAssumption DEF CatalogAssumption
    <3> HIDE DEF Sooner
    <3> QED
      BY <1>2, <3>2, <3>3, <3>4
  <2> QED
    BY <1>3, <1>5, <1>6, <2>1, RowsAreOrdered
<1> QED
  BY <1>5, <1>6

(* The rows that the next request for a page will find.                       *)
Ahead(c) == Matches(walk.list, c) /\ Beyond(walk.sort, c, walk.cursor)

(* What must be shown has been shown or is ahead.                             *)
WalkInv ==
    /\ walk.at = "done" => walk.must \subseteq walk.shown
    /\ walk.at = "more" =>
         /\ walk = [at |-> walk.at, sort |-> walk.sort, list |-> walk.list, cursor |-> walk.cursor,
                    shown |-> walk.shown, must |-> walk.must]
         /\ walk.sort \in Sorts /\ walk.must \subseteq Cars
         /\ \A c \in walk.must : c \in walk.shown \/ Ahead(c)

LEMMA MatchesExists ==
    ASSUME NEW list, NEW c, Matches(list, c)
    PROVE  Exists(c)
  BY DEF Matches, PublicList, FavoriteList, ModerationList, DealerList

(* What stands after the last row of a page and has a key is beyond its       *)
(* cursor.                                                                    *)
LEMMA CursorKeeps ==
    ASSUME Good, NEW sort \in Sorts, NEW last \in Cars, NEW c \in Cars, Exists(last), Exists(c),
           Before(sort, last, c), SortKey(sort, c) # 0
    PROVE  Beyond(sort, c, CursorOf(sort, last))
<1>1. /\ SortKey(sort, last) \in Nat /\ SortKey(sort, c) \in Nat
      /\ sort = "price" => SortKey(sort, last) # 0
  BY KeysAreNumbers
<1>2. last \in Nat /\ c \in Nat
  BY Numbers
<1>3. SortKey(sort, last) # 0
  BY <1>1 DEF Before, Sorts
<1> QED
  BY <1>1, <1>2, <1>3 DEF Before, Beyond, CursorOf, Sorts

LEMMA PageStep ==
    ASSUME Good, NEW sort \in Sorts, NEW list, NEW rows \in SUBSET Cars, NEW shown,
           NEW must \in SUBSET Cars, \A c \in rows : Matches(list, c),
           \A c \in must : c \in shown \/ (c \in rows /\ SortKey(sort, c) # 0),
           ReadPage(sort, list, rows, shown, must), UNCHANGED others
    PROVE  WalkInv'
<1> DEFINE page == {c \in rows : Cardinality({x \in rows : Before(sort, x, c)}) < PageLimit}
           last == CHOOSE c \in page : \A x \in page \ {c} : Before(sort, x, c)
           end == page = rows
           cursor == IF end THEN [key |-> 0, id |-> 0] ELSE CursorOf(sort, last)
           at == IF end THEN "done" ELSE "more"
<1>1. walk' = [at |-> at, sort |-> sort, list |-> list, cursor |-> cursor,
               shown |-> shown \cup page, must |-> must]
  BY DEF ReadPage
<1>2. page \subseteq rows
  OBVIOUS
<1>3. end => must \subseteq shown \cup page
  OBVIOUS
<1>4. \A c \in rows : Exists(c)
  BY MatchesExists
<1>5. ~end => \A c \in rows \ page : SortKey(sort, c) # 0 => Beyond(sort, c, cursor)
  <2> SUFFICES ASSUME ~end, NEW c \in rows \ page, SortKey(sort, c) # 0
               PROVE  Beyond(sort, c, cursor)
    OBVIOUS
  <2>1. cursor = CursorOf(sort, last)
    OBVIOUS
  <2>2. last \in page /\ Before(sort, last, c)
    BY <1>4, PageEnds
  <2> HIDE DEF last, cursor, page
  <2> QED
    BY <1>2, <1>4, <2>1, <2>2, CursorKeeps
<1>6. ~end => \A c \in must : c \in shown \cup page \/ (Matches(list, c) /\ Beyond(sort, c, cursor))
  <2> HIDE DEF page, cursor, end
  <2> QED
    BY <1>5
<1> HIDE DEF page, last, cursor, at
<1>7. /\ walk'.at = at /\ walk'.sort = sort /\ walk'.list = list /\ walk'.cursor = cursor
      /\ walk'.shown = shown \cup page /\ walk'.must = must
      /\ walk' = [at |-> walk'.at, sort |-> walk'.sort, list |-> walk'.list,
                  cursor |-> walk'.cursor, shown |-> walk'.shown, must |-> walk'.must]
  BY <1>1
<1>8. ASSUME NEW c \in Cars, Matches(list, c), Beyond(sort, c, cursor)
      PROVE  Ahead(c)'
  <2>1. UNCHANGED <<cars, favorites>>
    BY DEF others
  <2>2. Matches(walk.list, c)'
    BY <1>7, <1>8, <2>1
       DEF Matches, PublicList, FavoriteList, ModerationList, DealerList, Exists, Visible
  <2>3. Beyond(walk.sort, c, walk.cursor)'
    BY <1>7, <1>8, <2>1 DEF Beyond, SortKey
  <2> QED
    BY <2>2, <2>3 DEF Ahead
<1>9. walk'.at = "done" => end /\ walk'.must \subseteq walk'.shown
  BY <1>3, <1>7 DEF at
<1>10. walk'.at = "more" => \A c \in walk'.must : c \in walk'.shown \/ Ahead(c)'
  BY <1>6, <1>7, <1>8 DEF at
<1>11. walk'.must \in SUBSET Cars' /\ walk'.sort \in Sorts'
  BY <1>7 DEF Cars, Sorts
<1> QED
  BY <1>7, <1>9, <1>10, <1>11 DEF WalkInv

(* While the visitor reads a page, cars come, go and change; what stays in    *)
(* the list with its key stays ahead.                                         *)
LEMMA WalkGoesOn ==
    ASSUME Good, KeepsDates, WalkInv, KeepMust
    PROVE  WalkInv'
<1>1. CASE walk.at # "more" /\ UNCHANGED walk
  BY <1>1 DEF WalkInv
<1>2. CASE walk.at = "more"
  <2>1. PICK list \in {walk.list} :
           walk' = [walk EXCEPT !.must = {c \in @ :
                       /\ Matches(list, c)'
                       /\ walk.sort = "price" => cars'[c].price = cars[c].price}]
    BY <1>2 DEF KeepMust
  <2> DEFINE must == {c \in walk.must :
                       /\ Matches(list, c)'
                       /\ walk.sort = "price" => cars'[c].price = cars[c].price}
  <2>2. walk' = [walk EXCEPT !.must = must] /\ must \subseteq walk.must
    BY <2>1
  <2>3. walk = [at |-> walk.at, sort |-> walk.sort, list |-> walk.list, cursor |-> walk.cursor,
                shown |-> walk.shown, must |-> walk.must]
    BY <1>2 DEF WalkInv
  <2>4. \A c \in must : Matches(list, c)' /\ (walk.sort = "price" => cars'[c].price = cars[c].price)
    OBVIOUS
  <2> HIDE DEF must
  <2>5. /\ walk'.at = "more" /\ walk'.sort = walk.sort /\ walk'.list = list
        /\ walk'.cursor = walk.cursor /\ walk'.shown = walk.shown /\ walk'.must = must
        /\ walk' = [at |-> walk'.at, sort |-> walk'.sort, list |-> walk'.list,
                    cursor |-> walk'.cursor, shown |-> walk'.shown, must |-> walk'.must]
    BY <1>2, <2>1, <2>2, <2>3
  <2>6. ASSUME NEW c \in must, c \notin walk.shown
        PROVE  Ahead(c)'
    <3>1. c \in Cars /\ Ahead(c) /\ walk.sort \in Sorts
      BY <1>2, <2>2, <2>6 DEF WalkInv
    <3>2. Exists(c) /\ Beyond(walk.sort, c, walk.cursor)
      BY <3>1, MatchesExists DEF Ahead
    <3>3. Matches(walk.list, c)'
      BY <2>4, <2>5, <2>6
         DEF Matches, PublicList, FavoriteList, ModerationList, DealerList, Exists, Visible
    <3>4. walk.sort = "fresh" => cars[c].published # 0 /\ cars'[c].published = cars[c].published
      BY <3>1, <3>2 DEF KeepsDates, Beyond, SortKey
    <3>5. walk.sort # "fresh" => cars'[c].price = cars[c].price
      BY <2>4, <2>6, <3>1 DEF Sorts
    <3>6. Beyond(walk.sort, c, walk.cursor)'
      BY <2>5, <3>2, <3>4, <3>5 DEF Beyond, SortKey
    <3> QED
      BY <3>3, <3>6 DEF Ahead
  <2>7. walk'.must \in SUBSET Cars' /\ walk'.sort \in Sorts'
    BY <1>2, <2>2, <2>5 DEF WalkInv, Cars, Sorts
  <2> QED
    BY <2>5, <2>6, <2>7 DEF WalkInv
<1> QED
  BY <1>1, <1>2 DEF KeepMust

LEMMA WalkStep == Good /\ WalkInv /\ [Next]_vars => WalkInv'
<1> SUFFICES ASSUME Good, WalkInv, [Next]_vars PROVE WalkInv'
  OBVIOUS
<1>1. CASE KeepMust
  <2>1. KeepsDates
    BY GoodStep
  <2> QED
    BY <1>1, <2>1, WalkGoesOn
<1>2. ASSUME NEW sort \in Sorts, NEW list, FirstPage(sort, list) PROVE WalkInv'
  <2> DEFINE rows == {c \in Cars : Matches(list, c)}
             must == {c \in rows : cars[c].published # 0}
  <2>1. ReadPage(sort, list, rows, {}, must) /\ UNCHANGED others
    BY <1>2 DEF FirstPage
  <2>2. \A c \in must : c \in rows /\ SortKey(sort, c) # 0
    BY MatchesExists, KeysAreNumbers
  <2>3. rows \in SUBSET Cars /\ must \in SUBSET Cars /\ \A c \in rows : Matches(list, c)
    OBVIOUS
  <2> HIDE DEF rows, must
  <2> QED
    BY <2>1, <2>2, <2>3, PageStep
<1>3. CASE NextPage
  <2> DEFINE rows == {c \in Cars : Matches(walk.list, c) /\ Beyond(walk.sort, c, walk.cursor)}
  <2>1. ReadPage(walk.sort, walk.list, rows, walk.shown, walk.must) /\ UNCHANGED others
    BY <1>3 DEF NextPage
  <2>2. /\ walk.sort \in Sorts /\ walk.must \in SUBSET Cars
        /\ \A c \in walk.must : c \in walk.shown \/ Ahead(c)
    BY <1>3 DEF NextPage, WalkInv
  <2>3. \A c \in walk.must : c \in walk.shown \/ (c \in rows /\ SortKey(walk.sort, c) # 0)
    BY <2>2 DEF Ahead, Beyond
  <2>4. rows \in SUBSET Cars /\ \A c \in rows : Matches(walk.list, c)
    OBVIOUS
  <2> HIDE DEF rows
  <2> QED
    BY <2>1, <2>2, <2>3, <2>4, PageStep
<1>4. CASE UNCHANGED vars
  BY <1>4 DEF vars, others, WalkInv, Ahead, Matches, PublicList, FavoriteList, ModerationList,
              DealerList, Exists, Visible, Beyond, SortKey, Cars, Sorts
<1> QED
  BY <1>1, <1>2, <1>3, <1>4 DEF Next

\* A visitor who follows the cursors to the end has seen every published car
\* that was in the list all the time (cursorCondition and CursorOf of
\* store/cars.go), for any number of cars, any length of a page, and whatever
\* dealers and the administrator do between two pages.
THEOREM PagesMissNothing == Spec => []PagesCover
<1>1. Init => WalkInv
  BY DEF Init, WalkInv
<1>2. WalkInv => PagesCover
  BY DEF WalkInv, PagesCover
<1> QED
  BY <1>1, <1>2, WalkStep, AlwaysGood, PTL DEF Spec

-----------------------------------------------------------------------------
(* Types: what the visitor has marked and has been shown are cars.            *)

MarksOK == favorites \subseteq Cars

WalkOK ==
    /\ walk.at \in {"idle", "more", "done"}
    /\ walk.at # "idle" =>
         /\ walk = [at |-> walk.at, sort |-> walk.sort, list |-> walk.list, cursor |-> walk.cursor,
                    shown |-> walk.shown, must |-> walk.must]
         /\ walk.shown \subseteq Cars /\ walk.must \subseteq Cars

LEMMA MarksStep == Good /\ MarksOK /\ [Next]_vars => MarksOK'
<1> SUFFICES ASSUME Good, MarksOK, [Next]_vars PROVE MarksOK'
  OBVIOUS
<1>1. CASE UNCHANGED favorites
  BY <1>1 DEF MarksOK, Cars
<1>2. ASSUME NEW r \in Requests, Managed(r) PROVE UNCHANGED favorites
  BY <1>2 DEF Managed, Create, Update, ReplacePhotos, SetStatus, EnqueuePublished, Abandon,
              ChangeStatus, ModerateCar, EnqueueManual
<1>3. ASSUME NEW d \in Dealers, NEW c \in Cars, Delete(d, c) PROVE UNCHANGED favorites
  BY <1>3 DEF Delete
<1>4. ASSUME NEW r \in Requests, Marked(r) PROVE MarksOK'
  <2>1. CASE \E c \in Cars : SetFavorite(r, c)
    BY <1>1, <2>1 DEF SetFavorite
  <2>2. CASE WriteFavorite(r)
    <3>1. request[r].car \in Cars
      BY <1>4, <2>2 DEF WriteFavorite, Good, Types, RequestsOK, RequestOK
    <3> QED
      BY <2>2, <3>1 DEF WriteFavorite, MarksOK, Cars
  <2> QED
    BY <1>4, <2>1, <2>2 DEF Marked
<1>5. ASSUME NEW sort, NEW list, FirstPage(sort, list) PROVE UNCHANGED favorites
  BY <1>5 DEF FirstPage, others
<1>6. NextPage => UNCHANGED favorites
  BY DEF NextPage, others
<1>7. UNCHANGED vars => UNCHANGED favorites
  BY DEF vars, others
<1> QED
  BY <1>1, <1>2, <1>3, <1>4, <1>5, <1>6, <1>7 DEF Next

LEMMA PageIsOfCars ==
    ASSUME NEW sort, NEW list, NEW rows \in SUBSET Cars, NEW shown \in SUBSET Cars,
           NEW must \in SUBSET Cars, ReadPage(sort, list, rows, shown, must)
    PROVE  WalkOK'
<1> DEFINE page == {c \in rows : Cardinality({x \in rows : Before(sort, x, c)}) < PageLimit}
           last == CHOOSE c \in page : \A x \in page \ {c} : Before(sort, x, c)
           end == page = rows
           cursor == IF end THEN [key |-> 0, id |-> 0] ELSE CursorOf(sort, last)
           at == IF end THEN "done" ELSE "more"
<1>1. walk' = [at |-> at, sort |-> sort, list |-> list, cursor |-> cursor,
               shown |-> shown \cup page, must |-> must]
  BY DEF ReadPage
<1>2. at \in {"more", "done"} /\ shown \cup page \subseteq Cars
  OBVIOUS
<1> HIDE DEF page, last, cursor, at
<1> QED
  BY <1>1, <1>2 DEF WalkOK, Cars

LEMMA WalkTypeStep == WalkOK /\ [Next]_vars => WalkOK'
<1> SUFFICES ASSUME WalkOK, [Next]_vars PROVE WalkOK'
  OBVIOUS
<1>1. CASE KeepMust /\ walk.at = "more"
  <2>1. PICK must \in SUBSET walk.must : walk' = [walk EXCEPT !.must = must]
    BY <1>1 DEF KeepMust
  <2> QED
    BY <1>1, <2>1 DEF WalkOK, Cars
<1>2. CASE UNCHANGED walk
  BY <1>2 DEF WalkOK, Cars
<1>3. ASSUME NEW sort, NEW list, FirstPage(sort, list) PROVE WalkOK'
  BY <1>3, PageIsOfCars DEF FirstPage
<1>4. CASE NextPage
  BY <1>4, PageIsOfCars DEF NextPage, WalkOK
<1> QED
  BY <1>1, <1>2, <1>3, <1>4 DEF Next, KeepMust, vars

\* Whatever overlaps, the table holds rows of cars, a request in flight is
\* about a car that is there, and what a visitor marked, was shown or must be
\* shown are cars (the rows are only ever archived: Delete of store/cars.go).
THEOREM CatalogTyping == Spec => []TypeOK
<1>1. Init => MarksOK /\ WalkOK
  BY DEF Init, MarksOK, WalkOK
<1>2. Good /\ MarksOK /\ WalkOK => TypeOK
  BY DEF Good, Types, CarsOK, RequestsOK, RequestOK, Dates, Sound, MarksOK, WalkOK, TypeOK
<1> QED
  BY <1>1, <1>2, MarksStep, WalkTypeStep, AlwaysGood, PTL DEF Spec
=============================================================================
