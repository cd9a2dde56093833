\* The legacy GET racing SET, the older SUNION of absent keys, and two
\* writers of different keys racing on the shared Go maps: the process dies.
CONSTANTS
    c1 = c1
    c2 = c2
    k1 = k1
    k2 = k2
    NoClient = NoClient
    Clients <- MCClients
    Keys <- MCKeys
    Workload <- WorkloadProcessDies
    EvictionPolicies = {"noeviction"}
    MaxMemorySet = FALSE
    MapRaceThrows = TRUE
SPECIFICATION ServerSpec
INVARIANT NoFatalError
