SPECIFICATION Spec
CONSTANTS
    PersonalSources <- OnePersonal
    CorpSources <- OneCorp
    Requests = {r1, r2}
    Sweeps = {w1}
    MaxEsi = 2
INVARIANT
    ClearedIsGone
