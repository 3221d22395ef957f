SPECIFICATION Spec
CONSTANTS
    Requests = {r1, r2}
    Corporation = Corporation
    NoCorporation = NoCorporation
    Rotates = TRUE
    MaxTokens = 3
SYMMETRY Symmetry
CHECK_DEADLOCK FALSE
INVARIANTS
    TypeOK
    GrantsKeepTheirPlace
    SignedOutOnlyIfRefused
    StoredTokenHasSuccessor
PROPERTIES
    ClearedStaysCleared
