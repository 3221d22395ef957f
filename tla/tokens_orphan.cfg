SPECIFICATION Spec
CONSTANTS
    Requests = {r1, r2}
    Corporation = Corporation
    NoCorporation = NoCorporation
    Rotates = FALSE
    MaxTokens = 3
SYMMETRY Symmetry
CHECK_DEADLOCK FALSE
INVARIANTS
    ConnectedHasCorporation
