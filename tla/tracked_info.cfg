SPECIFICATION FairSpec
CONSTANTS
    Workers = {w1}
    Prefetch = 2
    Characters = {c1, c2}
    Corporation = Corporation
    PersonalKinds <- MCPersonalKinds
    CorpKinds <- MCCorpKinds
    Ttl <- MCTtl
    Period = 2
    CanRead = {c1}
    Unreachable = {}
    MaxFaults = 1
    MaxChanges = 1
INVARIANTS
    TypeOK
    ColdIsBounded
PROPERTIES
    JobsComeToAnEnd
