SPECIFICATION Spec
CONSTANTS
    PersonalSources <- OnePersonal
    CorpSources <- OneCorp
    Requests = {r1, r2}
    Sweeps = {w1}
    MaxEsi = 2
SYMMETRY Symmetry
INVARIANTS
    TypeOK
    CopiesAreBounded
    RefreshTakesEffect
PROPERTIES
    FailedFetchKeepsList
