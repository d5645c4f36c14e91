SPECIFICATION Spec
CONSTANTS
    NumCars = 2
    Dealers = {d1}
    Admin = Admin
    Vins = {v1}
    Requests = {r1, r2}
    PageLimit = 1
    Prices = {1, 2}
    Forms <- MCForms
    FirstRows <- MCFirstRows
    MaxServed = 3
INVARIANTS TypeOK VisibleIsDated PagesCover
CHECK_DEADLOCK FALSE
SYMMETRY Symmetry
