CONSTANTS
    Dealers = {d1, d2, d3}
    NoDealer = NoDealer
    DealIds = {i1, i2, i3}
    NoDeal = NoDeal
    MaxActive = 2
    Addressees <- AnyAddressee
SPECIFICATION Spec
SYMMETRY Symmetry
INVARIANTS
    TypeOK
    ActiveBound
    ClaimMatchesDeal
