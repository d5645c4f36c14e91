SPECIFICATION Spec
CONSTANTS
    Client = Client
    Admin = Admin
    d1 = d1
    own = own
    other = other
    Dealers = {d1}
    DealerOfDeal = d1
    NoDealer = NoDealer
    NoCar = NoCar
    Cars = {own, other}
    OwnerOf <- MCOwnerOf
    Requests = {r1, r2}
    MaxServed = 3
    DayLimit = 1
    Docs = {x1, x2}
    Batches = {2}
    Ratings = {2, 5}
    FirstStages = {6}
    FirstReviews <- MCFirstReviews
INVARIANTS CreatedIsConfirmed
CHECK_DEADLOCK FALSE
SYMMETRY Symmetry
