SPECIFICATION FairSpec
CONSTANTS
    Workers = {w1}
    Prefetch = 2
    Characters = {c1, c2}
    Corporation = Corporation
    PersonalKinds <- MCPersonalKinds
    CorpKinds <- MCCorpKinds
    Ttl <- MCTtl
    Period = 2
    CanRead = {c1, c2}
    Unreachable = {c1}
    MaxFaults = 0
    MaxChanges = 0
PROPERTIES
    GoodJobsAreDone
