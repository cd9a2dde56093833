\* No memory limit (MaxMemory = 0): the lock protocol of the handlers alone.
CONSTANTS
    c1 = c1
    c2 = c2
    k1 = k1
    k2 = k2
    NoClient = NoClient
    Clients <- MCClients
    Keys <- MCKeys
    Workload <- WorkloadAll
    EvictionPolicies = {"noeviction"}
    MaxMemorySet = FALSE
    MapRaceThrows = FALSE
SPECIFICATION ServerSpec
INVARIANTS
    TypeOK
    KeyspaceConsistent
    MutualExclusion
    NoFatalError
PROPERTIES
    ImplementsKeyLockManager
    AllHandlersReturn
    SyncedWrites
