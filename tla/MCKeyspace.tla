---------------------------- MODULE MCKeyspace ----------------------------
(* Model-checking instance of Keyspace: two connections, two keys, and the  *)
(* command scripts each run sends.  A workload is a function from client to *)
(* the sequence of commands that connection sends.  Ops "set:..." are the   *)
(* older set module's handlers (SetModule.tla).                             *)
EXTENDS SetModule

CONSTANTS c1, c2, k1, k2

MCClients == {c1, c2}
MCKeys == {k1, k2}

\* A command: operation and its key arguments (values are abstracted).
Cm(op, ks) == [op |-> op, keys |-> ks]

\* No memory limit: every handler path but the memory-pressure ones.
\* Lock orders agree (SMOVE k1 k2 and SINTERSTORE k2 k1 both take k1 first),
\* and legacy GET only reads a key its own connection has SET.
WorkloadCore ==
    { [c \in {c1, c2} |-> IF c = c1
                          THEN <<Cm("SET", <<k1>>), Cm("GET", <<k1>>), Cm("HSET", <<k1>>)>>
                          ELSE <<Cm("SET", <<k1>>), Cm("HGET", <<k1>>), Cm("HGET", <<k2>>)>>],
      [c \in {c1, c2} |-> IF c = c1
                          THEN <<Cm("SADD", <<k1>>), Cm("SMOVE", <<k1, k2>>), Cm("SADD", <<k1>>)>>
                          ELSE <<Cm("HSET", <<k2>>), Cm("SINTERSTORE", <<k2, k1>>), Cm("SADD", <<k2>>)>>],
      [c \in {c1, c2} |-> IF c = c1
                          THEN <<Cm("SADD", <<k1>>), Cm("SADD", <<k2>>), Cm("SINTERSTORE", <<k1, k2>>)>>
                          ELSE <<Cm("HSET", <<k1>>), Cm("SMOVE", <<k2, k1>>), Cm("HGET", <<k1>>)>>] }

\* Two-client workload from the scripts of c1 and c2.
Scripts(s1, s2) == {[c \in {c1, c2} |-> IF c = c1 THEN s1 ELSE s2]}

\* The other hash, set and legacy handlers, racing writers of their keys.
\* Multi-key writers only read-lock their sources, so no two commands wait
\* on each other's write locks, and no source is created while a store
\* command read-locks it (see create_deadlock).
WorkloadHandlers ==
    Scripts(<<Cm("SADD", <<k1>>), Cm("SINTER", <<k1, k2>>), Cm("SUNION", <<k2, k1>>)>>,
            <<Cm("SADD", <<k2>>), Cm("SCARD", <<k2>>), Cm("SPOP", <<k2>>)>>)
    \cup
    Scripts(<<Cm("HSET", <<k1>>), Cm("SINTERCARD", <<k1>>), Cm("SDIFF", <<k1, k2>>)>>,
            <<Cm("SADD", <<k2>>), Cm("SDIFF", <<k2, k1>>), Cm("SUNIONSTORE", <<k2, k1>>)>>)
    \cup
    Scripts(<<Cm("HINCRBY", <<k1>>), Cm("HDEL", <<k1>>), Cm("HSTRLEN", <<k1>>)>>,
            <<Cm("HLEN", <<k1>>), Cm("HKEYS", <<k1>>), Cm("HVALS", <<k2>>)>>)
    \cup
    Scripts(<<Cm("SETNX", <<k1>>), Cm("MGET", <<k1, k2>>), Cm("HGETALL", <<k1>>)>>,
            <<Cm("SETNX", <<k1>>), Cm("HEXISTS", <<k1>>), Cm("HRANDFIELD", <<k2>>)>>)
    \cup
    Scripts(<<Cm("SADD", <<k1>>), Cm("SISMEMBER", <<k1>>), Cm("SMEMBERS", <<k1>>)>>,
            <<Cm("SMISMEMBER", <<k1>>), Cm("SRANDMEMBER", <<k1>>), Cm("SREM", <<k1>>)>>)
    \cup
    Scripts(<<Cm("SADD", <<k2>>), Cm("SDIFFSTORE", <<k1, k2>>)>>,
            <<Cm("SUNIONSTORE", <<k1, k2>>), Cm("SINTERSTORE", <<k1, k2>>)>>)

\* The older set module's handlers, racing each other and the newer ones;
\* lock orders agree (every store command and SMOVE takes k1 before k2 or
\* holds one key only), and every SUNION source list names a key its own
\* connection has created.
WorkloadSetModule ==
    Scripts(<<Cm("set:SADD", <<k1>>), Cm("set:SINTERSTORE", <<k2, k1>>), Cm("set:SUNION", <<k1, k2>>)>>,
            <<Cm("set:SADD", <<k2>>), Cm("set:SDIFF", <<k2, k1>>), Cm("set:SMOVE", <<k1, k2>>)>>)
    \cup
    Scripts(<<Cm("set:SADD", <<k2>>), Cm("set:SUNIONSTORE", <<k1, k2>>), Cm("set:SCARD", <<k1>>)>>,
            <<Cm("SADD", <<k1>>), Cm("set:SMISMEMBER", <<k1>>), Cm("set:SPOP", <<k1>>)>>)
    \cup
    Scripts(<<Cm("set:SADD", <<k1>>), Cm("set:SRANDMEMBER", <<k1>>), Cm("set:SREM", <<k1>>)>>,
            <<Cm("set:SINTER", <<k1, k2>>), Cm("set:SINTERCARD", <<k1>>), Cm("set:SDIFFSTORE", <<k2, k1>>)>>)
    \cup
    Scripts(<<Cm("set:SISMEMBER", <<k1>>), Cm("set:SMEMBERS", <<k1>>), Cm("HSET", <<k1>>)>>,
            <<Cm("HSET", <<k2>>), Cm("set:SDIFFSTORE", <<k1, k2>>), Cm("set:SMOVE", <<k2, k1>>)>>)

\* Every handler path that does not depend on memory pressure.
\* Start's restore from the AOF or a snapshot, one SetKeyDataFunc call per
\* key, before StartTCP accepts any connection.
WorkloadRestore == Scripts(<<Cm("RESTORE", <<k1>>), Cm("RESTORE", <<k2>>)>>, <<>>)

WorkloadAll == WorkloadCore \cup WorkloadHandlers \cup WorkloadSetModule \cup WorkloadRestore

\* Memory pressure under an eviction policy.
WorkloadEvict ==
    Scripts(<<Cm("HSET", <<k1>>), Cm("HGET", <<k1>>)>>,
            <<Cm("SADD", <<k2>>), Cm("SMOVE", <<k2, k1>>)>>)
    \cup WorkloadRestore

\* SMOVE k1 k2 against SMOVE k2 k1: source and destination locked in
\* command order.
WorkloadSmoveCross ==
    Scripts(<<Cm("SADD", <<k1>>), Cm("SMOVE", <<k1, k2>>)>>,
            <<Cm("SADD", <<k2>>), Cm("SMOVE", <<k2, k1>>)>>)
    \cup WorkloadRestore

\* SMOVE with the same key as source and destination.
WorkloadSmoveSame ==
    Scripts(<<Cm("SADD", <<k1>>), Cm("SMOVE", <<k1, k1>>)>>, <<>>)

\* SINTERSTORE naming one source twice, then a writer of that source.
WorkloadSinterDup ==
    Scripts(<<Cm("SADD", <<k1>>), Cm("SINTERSTORE", <<k2, k1, k1>>)>>,
            <<Cm("SADD", <<k1>>)>>)

\* SINTERSTORE whose destination is also a source.
WorkloadSinterDstSrc ==
    Scripts(<<Cm("SADD", <<k1>>), Cm("SINTERSTORE", <<k1, k1>>)>>, <<>>)

\* A single writer under memory pressure.
WorkloadOneHSET == Scripts(<<Cm("HSET", <<k1>>)>>, <<>>)

\* SADD creating a key, then SADD on it again.
WorkloadSaddTwice == Scripts(<<Cm("SADD", <<k1>>), Cm("SADD", <<k1>>)>>, <<>>)

\* Legacy SET of a new key under memory pressure.
WorkloadOneSET == Scripts(<<Cm("SET", <<k1>>)>>, <<>>)

\* Legacy GET of a key another connection is creating.
WorkloadGetRace == Scripts(<<Cm("GET", <<k1>>)>>, <<Cm("SET", <<k1>>)>>)

\* The older SUNION of keys that do not exist.
WorkloadSunionAbsent == Scripts(<<Cm("set:SUNION", <<k1, k2>>)>>, <<>>)

\* The ways found for the process to die: the GET race (a fatal RUnlock)
\* and the older SUNION's panic.
\* HSET of two different keys: each holds its own key's lock, and both
\* CreateKeyAndLock and SetValue write the shared maps.
WorkloadDistinctKeys == Scripts(<<Cm("HSET", <<k1>>)>>, <<Cm("HSET", <<k2>>)>>)

WorkloadProcessDies == WorkloadGetRace \cup WorkloadSunionAbsent \cup WorkloadDistinctKeys

\* SMOVE creating its destination while HSET is creating its source.
WorkloadCreateWhileLocked ==
    Scripts(<<Cm("SADD", <<k1>>), Cm("SMOVE", <<k1, k2>>)>>,
            <<Cm("HSET", <<k1>>)>>)

\* A command that locks a key it already holds: SMOVE k1 k1, or
\* SINTERSTORE with its destination among its sources.
WorkloadRelock == WorkloadSmoveSame \cup WorkloadSinterDstSrc

\* SDIFFSTORE creating its destination under memory pressure, then a
\* writer of the destination.
WorkloadStoreLeak ==
    Scripts(<<Cm("SUNIONSTORE", <<k2, k1>>), Cm("SDIFFSTORE", <<k1, k2>>), Cm("SADD", <<k1>>)>>, <<>>)

\* Lock-order inversions: two SMOVEs with swapped keys, a command that
\* relocks a key it holds, and CreateKeyAndLock spinning on a key while it
\* holds keyCreationLock.
WorkloadLockOrder ==
    WorkloadSmoveCross \cup WorkloadRelock \cup WorkloadCreateWhileLocked

\* Exit paths that keep a lock: a repeated SINTERSTORE source, SADD of a
\* new key whose SetValue fails, and SDIFFSTORE whose SetValue fails; each
\* is followed by a writer of that key.
WorkloadLockLeak == WorkloadSinterDup \cup WorkloadSaddTwice \cup WorkloadStoreLeak

\* The older SDIFFSTORE whose destination is one of its sources.
WorkloadSetDstSrc ==
    Scripts(<<Cm("set:SADD", <<k1>>), Cm("set:SDIFFSTORE", <<k1, k1>>)>>, <<>>)

\* Every way found for a handler never to return: lock-order inversions,
\* leaked locks, eviction under memory pressure from inside SetValue, and
\* the older store commands relocking a source.
WorkloadHang == WorkloadLockOrder \cup WorkloadLockLeak \cup WorkloadOneHSET \cup WorkloadSetDstSrc

\* The older SADD of a new key under memory pressure.
WorkloadOneSetSADD == Scripts(<<Cm("set:SADD", <<k1>>)>>, <<>>)

\* New keys written under memory pressure by HSET, legacy SET and the
\* older SADD.
\* SET on an absent key whose creation fails with OOM while another handler
\* creates the same key: SET's KeyUnlock (part_001:70) releases the creator's
\* write lock, and SET's next command write-locks the key beside it.
WorkloadSetUnlockRace ==
    Scripts(<<Cm("HSET", <<k2>>)>>, <<Cm("SET", <<k2>>), Cm("HSET", <<k2>>)>>)

WorkloadGhostKey == WorkloadOneHSET \cup WorkloadOneSET \cup WorkloadOneSetSADD \cup WorkloadRestore

====
