SPECIFICATION Spec
CONSTANTS
    Holders = {p1, p2, p3}
    NumBatches = 2
    Dump = "dump2"
    OldDump = "dump1"
    Releases <- MCReleases
    Configs <- MCConfigs
    NoName = NoName
SYMMETRY Symmetry
INVARIANTS
    TypeOK
    RecordedIsInEffect
    ServingPodsAreMigrated
    NoDuplicateKey
PROPERTIES
    ServesWhatItConfigured
