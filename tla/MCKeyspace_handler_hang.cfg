\* Memory pressure under noeviction, allkeys-lru and allkeys-random, and the
\* workloads that lock in conflicting orders, leak a lock, or evict from
\* inside SetValue: some connection never has its commands answered.
CONSTANTS
    c1 = c1
    c2 = c2
    k1 = k1
    k2 = k2
    NoClient = NoClient
    Clients <- MCClients
    Keys <- MCKeys
    Workload <- WorkloadHang
    EvictionPolicies = {"noeviction", "allkeys-lru", "allkeys-random"}
    MaxMemorySet = TRUE
    MapRaceThrows = FALSE
SPECIFICATION ServerSpec
CHECK_DEADLOCK FALSE
PROPERTY AllHandlersReturn
