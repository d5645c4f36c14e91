CONSTANTS
    Managers = {m1, m2}
    Docs <- OneDoc
    Currencies = {"rub"}
    RubRate <- MCRubRate
    Amounts = {1}
    Payments = {1}
    CreateStages <- EarlyAndLate
    UpdateForms <- OneForm
    MaxHistory = 4
SPECIFICATION Spec
SYMMETRY Symmetry
INVARIANTS
    TypeOK
    HistoryChains
    NoStageSkipped
    MilestonesMatchHistory
PROPERTIES
    StagePromise
