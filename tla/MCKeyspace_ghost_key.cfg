CONSTANTS
    c1 = c1
    c2 = c2
    k1 = k1
    k2 = k2
    NoClient = NoClient
    Clients <- MCClients
    Keys <- MCKeys
    Workload <- WorkloadGhostKey
    EvictionPolicies = {"noeviction"}
    MaxMemorySet = TRUE
    MapRaceThrows = FALSE
SPECIFICATION ServerSpec
INVARIANT KeyspaceConsistent
