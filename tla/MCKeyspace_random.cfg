\* Memory pressure under allkeys-random and allkeys-lru eviction.
CONSTANTS
    c1 = c1
    c2 = c2
    k1 = k1
    k2 = k2
    NoClient = NoClient
    Clients <- MCClients
    Keys <- MCKeys
    Workload <- WorkloadEvict
    EvictionPolicies = {"allkeys-random", "allkeys-lru"}
    MaxMemorySet = TRUE
    MapRaceThrows = TRUE
SPECIFICATION ServerSpec
CHECK_DEADLOCK FALSE
INVARIANT KeyspaceConsistent
INVARIANT MutualExclusion
PROPERTIES
    ImplementsKeyLockManager
