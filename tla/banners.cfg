CONSTANTS
    Workers = {w1, w2}
    MaxShown = 3
    MaxLost = 1
SPECIFICATION BannersSpec
SYMMETRY Symmetry
INVARIANTS
    BannersTypeOK
    CountsConserved
    ReportNeverExceeds
    EditedContentIsModerated
