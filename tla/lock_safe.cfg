SPECIFICATION FairSpec
CONSTANTS
    Holders = {h1, h2, h3}
    NoHolder = NoHolder
    Mongod = Mongod
    Ttl = 4
    WaitTimeout = 2
    PollInterval = 1
    MaxSkew = 1
    DelayBound = 1
    HoldBound = 2
    MaxCrashes = 1
    MaxStart = 1
    MaxTime = 11
INVARIANTS
    TypeOK
    MutualExclusion
    HolderOwnsLiveLock
    StartupIsBounded
PROPERTIES
    MutexSpec
    StaleLockGoes
    LiveLockIsKept
