SPECIFICATION FairSpec
CONSTANTS
    Fetchers <- MCFetchers
    Writers <- MCWriters
    Types <- MCTypes
    FetchPrefetch = 100
    WritePrefetch = 2
    MaxJobs = 2
    MaxVersion = 2
    MaxFaults = 1
INVARIANTS
    TypeOK
    IdleMeansFresh
PROPERTIES
    AtLeastOnce
    RefreshIsApplied
