------------------------------ MODULE Keyspace ------------------------------
(***************************************************************************)
(* The concurrent keyspace of the server (src/server/keyspace.go): the map *)
(* of per-key sync.RWMutex values, the store, the key-creation mutex, the  *)
(* LRU/LFU cache mutex and the memory-pressure eviction reached from       *)
(* GetValue/SetValue, driven by connection goroutines that run command     *)
(* handlers (hash and set modules, and the legacy GET/SET plugin).         *)
(*                                                                         *)
(* Every lock call of the code is a spin on TryLock/TryRLock; a failed     *)
(* try changes nothing, so a try is modelled as a step that is enabled     *)
(* only when it succeeds or when the key is absent.  Handlers call the     *)
(* keyspace through a per-goroutine call stack (stack[c]), as the Go code  *)
(* calls its helpers; a frame holds the return label and the key argument. *)
(*                                                                         *)
(* Values are abstracted to their type tag ("string", "hash", "set"):      *)
(* the handlers branch on the type only.  Heap usage is read through       *)
(* runtime.ReadMemStats, which depends on every allocation of the process, *)
(* so each memory reading is a free choice when MaxMemory > 0.             *)
(***************************************************************************)
EXTENDS Integers, Sequences, FiniteSets, Bags

CONSTANTS
    Clients,        \* connection goroutines (handleConnection)
    Keys,           \* key names
    Workload,       \* set of functions: client -> sequence of commands it sends
    EvictionPolicies, \* the values of Config.EvictionPolicy a run may start with
    MaxMemorySet,   \* Config.MaxMemory > 0
    MapRaceThrows,  \* the Go runtime's check for concurrent map access fires
    NoClient        \* nobody holds a sync.Mutex

Policies == {"noeviction", "allkeys-lru", "allkeys-lfu", "allkeys-random",
             "volatile-lru", "volatile-lfu", "volatile-random", "volatile-ttl"}
Ops == {"SET", "SETNX", "GET", "MGET",
        "HSET", "HINCRBY", "HDEL", "HGET", "HSTRLEN", "HVALS", "HRANDFIELD",
        "HLEN", "HKEYS", "HGETALL", "HEXISTS",
        "SADD", "SCARD", "SISMEMBER", "SMEMBERS", "SMISMEMBER", "SPOP",
        "SRANDMEMBER", "SREM", "SINTER", "SINTERCARD", "SINTERSTORE",
        "SUNION", "SUNIONSTORE", "SDIFF", "SDIFFSTORE", "SMOVE", "RESTORE"}
Values == {"string", "hash", "set"}
Nil == "nil"

ASSUME EvictionPolicies \subseteq Policies /\ MaxMemorySet \in BOOLEAN /\ MapRaceThrows \in BOOLEAN
ASSUME NoClient \notin Clients

VARIABLES
    keyLocks,     \* keyLocks map: exists = entry present; w, r = RWMutex writer flag and reader count
    store,        \* store map, abstracted to the value's type
    creationLock, \* keyCreationLock holder
    cacheLock,    \* lruCache.mutex / lfuCache.mutex holder (one is in use per policy)
    fatal,        \* the process died: the Go runtime threw "sync: (R)Unlock of unlocked
                  \* RWMutex", or a handler panicked (nothing in src/ recovers)
    prog,         \* commands each connection sends
    policy,       \* Config.EvictionPolicy, fixed at start
    cur,          \* index of the command being handled
    pc,           \* program label of each goroutine
    stack,        \* call stack: frames [ret |-> label, k |-> key argument]
    rv,           \* value returned by the last call
    holds,        \* locks each goroutine believes it holds: set of <<key, "r"|"w">>
    locks,        \* multi-key handlers: the locks map (keys read-locked)
    seen,         \* multi-key handlers: keys of the locks map already read
    idx,          \* loops over a command's keys: position of the next key
    victim,       \* adjustMemoryUsage: key chosen for eviction
    writing       \* maps ("store", "keyLocks") each goroutine is in the middle of writing

\* Handler-local state that the keyspace calls leave alone.
locals == <<prog, policy, cur, locks, seen, idx>>
vars == <<keyLocks, store, creationLock, cacheLock, fatal, prog, policy, cur, pc,
          stack, rv, holds, locks, seen, idx, victim, writing>>

NoEntry  == [exists |-> FALSE, w |-> FALSE, r |-> 0]

Command == [op : Ops, keys : Seq(Keys)]

-----------------------------------------------------------------------------
(* Goroutine plumbing: labels, calls and returns.                          *)

Goto(c, l) == pc' = [pc EXCEPT ![c] = l]

Arg(c) == Head(stack[c]).k

\* Call proc with key argument k and value argument v; control comes back
\* at label ret.
CallWith(c, proc, k, v, ret) ==
    /\ pc' = [pc EXCEPT ![c] = proc]
    /\ stack' = [stack EXCEPT ![c] = <<[ret |-> ret, k |-> k, v |-> v]>> \o @]

Call(c, proc, k, ret) == CallWith(c, proc, k, Nil, ret)

ArgValue(c) == Head(stack[c]).v

\* Return value v to the caller.
Return(c, v) ==
    /\ pc' = [pc EXCEPT ![c] = Head(stack[c]).ret]
    /\ stack' = [stack EXCEPT ![c] = Tail(@)]
    /\ rv' = [rv EXCEPT ![c] = v]

\* Goroutine c is at label l; nothing runs after the runtime threw.
At(c, l) == ~fatal /\ pc[c] = l

Cmd(c) == prog[c][cur[c]]
Key(c, i) == Cmd(c).keys[i]

\* The handler returns its reply; the read loop takes the next message.
Reply(c) == Goto(c, "Next")

-----------------------------------------------------------------------------
(* The keyspace (src/server/keyspace.go).                                  *)

KeyExists(k) == keyLocks[k].exists

\* IsMaxMemoryExceeded / a HeapInuse reading: free when MaxMemory > 0.
MemoryReadings == IF MaxMemorySet THEN BOOLEAN ELSE {FALSE}

\* Mutation of KeyLock: TryLock that ignores the readers of the RWMutex.
KeyLockIgnoringReaders(c) ==
    LET k == Arg(c) IN
    /\ At(c, "KeyLock")
    /\ \/ /\ ~KeyExists(k)
          /\ Return(c, "notfound")
          /\ UNCHANGED <<keyLocks, holds>>
       \/ /\ KeyExists(k) /\ ~keyLocks[k].w
          /\ keyLocks' = [keyLocks EXCEPT ![k].w = TRUE]
          /\ holds' = [holds EXCEPT ![c] = @ \cup {<<k, "w">>}]
          /\ Return(c, "ok")
    /\ UNCHANGED <<store, creationLock, cacheLock, fatal, locals, victim>>

\* KeyLock: one successful TryLock, or the "key not found" return.
KeyLock(c) ==
    LET k == Arg(c) IN
    /\ At(c, "KeyLock")
    /\ \/ /\ ~KeyExists(k)
          /\ Return(c, "notfound")
          /\ UNCHANGED <<keyLocks, holds>>
       \/ /\ KeyExists(k) /\ ~keyLocks[k].w /\ keyLocks[k].r = 0
          /\ keyLocks' = [keyLocks EXCEPT ![k].w = TRUE]
          /\ holds' = [holds EXCEPT ![c] = @ \cup {<<k, "w">>}]
          /\ Return(c, "ok")
    /\ UNCHANGED <<store, creationLock, cacheLock, fatal, locals, victim>>

\* KeyRLock: one successful TryRLock, or the "key not found" return.
KeyRLock(c) ==
    LET k == Arg(c) IN
    /\ At(c, "KeyRLock")
    /\ \/ /\ ~KeyExists(k)
          /\ Return(c, "notfound")
          /\ UNCHANGED <<keyLocks, holds>>
       \/ /\ KeyExists(k) /\ ~keyLocks[k].w
          /\ keyLocks' = [keyLocks EXCEPT ![k].r = @ + 1]
          /\ holds' = [holds EXCEPT ![c] = @ \cup {<<k, "r">>}]
          /\ Return(c, "ok")
    /\ UNCHANGED <<store, creationLock, cacheLock, fatal, locals, victim>>

\* Mutation of Release: Unlock also takes one reader off the count.
ReleaseDecrementsReadersOnUnlock(c, W, R) ==
    LET bad == {k \in W : KeyExists(k) /\ ~keyLocks[k].w}
               \cup {k \in BagToSet(R) : KeyExists(k) /\ keyLocks[k].r < CopiesIn(k, R)}
    IN /\ keyLocks' = [k \in Keys |->
                         IF KeyExists(k) /\ k \notin bad
                         THEN [keyLocks[k] EXCEPT !.w = IF k \in W THEN FALSE ELSE @,
                                                  !.r = @ - CopiesIn(k, R) - (IF k \in W THEN 1 ELSE 0)]
                         ELSE keyLocks[k]]
       /\ fatal' = (fatal \/ bad # {})
       /\ holds' = [holds EXCEPT ![c] = @ \ ((W \X {"w"}) \cup (BagToSet(R) \X {"r"}))]

\* Mutation of Release: KeyUnlock/KeyRUnlock without the KeyExists test, so
\* a key with no entry is unlocked through a nil mutex.
ReleaseWithoutExistsCheck(c, W, R) ==
    LET bad == {k \in W : ~KeyExists(k) \/ ~keyLocks[k].w}
               \cup {k \in BagToSet(R) : ~KeyExists(k) \/ keyLocks[k].r < CopiesIn(k, R)}
    IN /\ keyLocks' = [k \in Keys |->
                         IF k \notin bad
                         THEN [keyLocks[k] EXCEPT !.w = IF k \in W THEN FALSE ELSE @,
                                                  !.r = @ - CopiesIn(k, R)]
                         ELSE keyLocks[k]]
       /\ fatal' = (fatal \/ bad # {})
       /\ holds' = [holds EXCEPT ![c] = @ \ ((W \X {"w"}) \cup (BagToSet(R) \X {"r"}))]

\* Release the write locks of the set W and the read locks of the bag R (a
\* key read-locked twice is RUnlocked twice): one Unlock or RUnlock per
\* copy, for keys that still have an entry (KeyUnlock/KeyRUnlock test
\* KeyExists first).  Unlock of a mutex that is not write-locked, and RUnlock
\* of one with no reader left, are fatal throws of the Go runtime.
Release(c, W, R) ==
    LET bad == {k \in W : KeyExists(k) /\ ~keyLocks[k].w}
               \cup {k \in BagToSet(R) : KeyExists(k) /\ keyLocks[k].r < CopiesIn(k, R)}
    IN /\ keyLocks' = [k \in Keys |->
                         IF KeyExists(k) /\ k \notin bad
                         THEN [keyLocks[k] EXCEPT !.w = IF k \in W THEN FALSE ELSE @,
                                                  !.r = @ - CopiesIn(k, R)]
                         ELSE keyLocks[k]]
       /\ fatal' = (fatal \/ bad # {})
       /\ holds' = [holds EXCEPT ![c] = @ \ ((W \X {"w"}) \cup (BagToSet(R) \X {"r"}))]

\* CreateKeyAndLock, first step: fail when memory is exceeded under noeviction.
CreateKeyAndLockCheckMemory(c) ==
    /\ At(c, "CreateKeyAndLock")
    /\ \E over \in MemoryReadings :
         IF over /\ policy = "noeviction"
         THEN Return(c, "oom")
         ELSE /\ Goto(c, "CreateKeyAndLockAcquire")
              /\ UNCHANGED <<stack, rv>>
    /\ UNCHANGED <<keyLocks, store, creationLock, cacheLock, fatal, holds, locals, victim>>

\* keyCreationLock.Lock(): blocks until the mutex is free.
CreateKeyAndLockAcquire(c) ==
    /\ At(c, "CreateKeyAndLockAcquire")
    /\ creationLock = NoClient
    /\ creationLock' = c
    /\ Goto(c, "CreateKeyAndLockInsert")
    /\ UNCHANGED <<keyLocks, store, cacheLock, fatal, stack, rv, holds, locals, victim>>

\* Mutation of CreateKeyAndLock: the new RWMutex is stored without Lock().
CreateKeyAndLockInsertUnlocked(c) ==
    LET k == Arg(c) IN
    /\ At(c, "CreateKeyAndLockInsert")
    /\ IF ~KeyExists(k)
       THEN /\ keyLocks' = [keyLocks EXCEPT ![k] = [exists |-> TRUE, w |-> FALSE, r |-> 0]]
            /\ holds' = [holds EXCEPT ![c] = @ \cup {<<k, "w">>}]
            /\ creationLock' = NoClient
            /\ Return(c, "ok")
       ELSE /\ Call(c, "KeyLock", k, "CreateKeyAndLockRelease")
            /\ UNCHANGED <<keyLocks, holds, creationLock, rv>>
    /\ UNCHANGED <<store, cacheLock, fatal, locals, victim>>

\* Mutation of CreateKeyAndLock: no KeyExists test under keyCreationLock, so
\* an existing key's RWMutex is replaced by a new locked one.
CreateKeyAndLockInsertOverwrite(c) ==
    LET k == Arg(c) IN
    /\ At(c, "CreateKeyAndLockInsert")
    /\ keyLocks' = [keyLocks EXCEPT ![k] = [exists |-> TRUE, w |-> TRUE, r |-> 0]]
    /\ holds' = [holds EXCEPT ![c] = @ \cup {<<k, "w">>}]
    /\ creationLock' = NoClient
    /\ Return(c, "ok")
    /\ UNCHANGED <<store, cacheLock, fatal, locals, victim>>

\* Insert a write-locked RWMutex for an absent key and return (the deferred
\* Unlock releases keyCreationLock); for a present key, KeyLock it while
\* still holding keyCreationLock.
CreateKeyAndLockInsert(c) ==
    LET k == Arg(c) IN
    /\ At(c, "CreateKeyAndLockInsert")
    /\ IF ~KeyExists(k)
       THEN /\ keyLocks' = [keyLocks EXCEPT ![k] = [exists |-> TRUE, w |-> TRUE, r |-> 0]]
            /\ holds' = [holds EXCEPT ![c] = @ \cup {<<k, "w">>}]
            /\ creationLock' = NoClient
            /\ Return(c, "ok")
       ELSE /\ Call(c, "KeyLock", k, "CreateKeyAndLockRelease")
            /\ UNCHANGED <<keyLocks, holds, creationLock, rv>>
    /\ UNCHANGED <<store, cacheLock, fatal, locals, victim>>

\* The deferred keyCreationLock.Unlock() after KeyLock returned.
CreateKeyAndLockRelease(c) ==
    /\ At(c, "CreateKeyAndLockRelease")
    /\ creationLock' = NoClient
    /\ Return(c, rv[c])
    /\ UNCHANGED <<keyLocks, store, cacheLock, fatal, holds, locals, victim>>

CreateKeyAndLock(c) ==
    \/ CreateKeyAndLockCheckMemory(c)
    \/ CreateKeyAndLockAcquire(c)
    \/ CreateKeyAndLockInsert(c)
    \/ CreateKeyAndLockRelease(c)

-----------------------------------------------------------------------------
(* Value access and memory pressure (keyspace.go GetValue, SetValue,       *)
(* updateKeyInCache, adjustMemoryUsage).                                   *)

\* Policies whose case in updateKeyInCache takes lfuCache.mutex or lruCache.mutex.
CachePolicies == {"allkeys-lfu", "allkeys-lru", "volatile-lfu", "volatile-lru"}

\* GetValue: updateKeyInCache first, then read store[key].
GetValue(c) ==
    /\ At(c, "GetValue")
    /\ Call(c, "updateKeyInCache", Arg(c), "GetValueRead")
    /\ UNCHANGED <<keyLocks, store, creationLock, cacheLock, fatal, rv, holds, locals, victim>>

GetValueRead(c) ==
    /\ At(c, "GetValueRead")
    /\ Return(c, store[Arg(c)])
    /\ UNCHANGED <<keyLocks, store, creationLock, cacheLock, fatal, holds, locals, victim>>

\* SetValue: refuse under noeviction when memory is exceeded; otherwise write
\* store[key] and call updateKeyInCache (its error is only logged).
SetValue(c) ==
    /\ At(c, "SetValue")
    /\ \E over \in MemoryReadings :
         IF over /\ policy = "noeviction"
         THEN /\ Return(c, "oom")
              /\ UNCHANGED store
         ELSE /\ store' = [store EXCEPT ![Arg(c)] = ArgValue(c)]
              /\ Call(c, "updateKeyInCache", Arg(c), "SetValueDone")
              /\ UNCHANGED rv
    /\ UNCHANGED <<keyLocks, creationLock, cacheLock, fatal, holds, locals, victim>>

\* SnapshotEngine.IncrementChangeCount in standalone mode, then return nil.
SetValueDone(c) ==
    /\ At(c, "SetValueDone")
    /\ Return(c, "ok")
    /\ UNCHANGED <<keyLocks, store, creationLock, cacheLock, fatal, holds, locals, victim>>

\* updateKeyInCache: nothing when MaxMemory = 0; under an LFU/LRU policy
\* lock the cache mutex (deferred Unlock) and Update the key; then call
\* adjustMemoryUsage with the mutex still held.
updateKeyInCache(c) ==
    /\ At(c, "updateKeyInCache")
    /\ \/ /\ ~MaxMemorySet
          /\ Return(c, "ok")
          /\ UNCHANGED cacheLock
       \/ /\ MaxMemorySet /\ policy \in CachePolicies
          /\ cacheLock = NoClient
          /\ cacheLock' = c
          /\ Call(c, "adjustMemoryUsage", Arg(c), "updateKeyInCacheDone")
          /\ UNCHANGED rv
       \/ /\ MaxMemorySet /\ policy \notin CachePolicies
          /\ Call(c, "adjustMemoryUsage", Arg(c), "updateKeyInCacheDone")
          /\ UNCHANGED <<rv, cacheLock>>
    /\ UNCHANGED <<keyLocks, store, creationLock, fatal, holds, locals, victim>>

\* The deferred cache-mutex Unlock, and the return of adjustMemoryUsage's error.
updateKeyInCacheDone(c) ==
    /\ At(c, "updateKeyInCacheDone")
    /\ cacheLock' = IF cacheLock = c THEN NoClient ELSE cacheLock
    /\ Return(c, rv[c])
    /\ UNCHANGED <<keyLocks, store, creationLock, fatal, holds, locals, victim>>

\* adjustMemoryUsage: return when the heap is below MaxMemory (before or after
\* the forced GC); otherwise branch on the policy.  Under an LFU/LRU policy
\* the function Locks the cache mutex that updateKeyInCache already holds:
\* sync.Mutex is not reentrant, so the goroutine stops at label
\* "adjustMemoryUsageLockCache" for good and the pop/evict loop after it
\* (keyspace.go:234-282) is never reached.  volatile-random finds keyExpiry
\* empty (no modelled command sets an expiry) and returns its error;
\* noeviction and volatile-ttl fall to the default case.
adjustMemoryUsage(c) ==
    /\ At(c, "adjustMemoryUsage")
    /\ \E over \in MemoryReadings :
         CASE ~over ->
                /\ Return(c, "ok")
           [] over /\ policy \in CachePolicies ->
                /\ Goto(c, "adjustMemoryUsageLockCache")
                /\ UNCHANGED <<stack, rv>>
           [] over /\ policy = "allkeys-random" ->
                /\ Goto(c, "adjustMemoryUsageRandom")
                /\ UNCHANGED <<stack, rv>>
           [] over /\ policy = "volatile-random" ->
                /\ Return(c, "err")
           [] over /\ policy \in {"noeviction", "volatile-ttl"} ->
                /\ Return(c, "ok")
    /\ UNCHANGED <<keyLocks, store, creationLock, cacheLock, fatal, holds, locals, victim>>

\* Mutation of adjustMemoryUsage: the random victim is deleted without KeyLock.
adjustMemoryUsageRandomWithoutLock(c) ==
    /\ At(c, "adjustMemoryUsageRandom")
    /\ IF \A k \in Keys : ~KeyExists(k)
       THEN /\ Return(c, "err")
            /\ UNCHANGED victim
       ELSE \E k \in {x \in Keys : KeyExists(x)} :
              /\ victim' = [victim EXCEPT ![c] = k]
              /\ Goto(c, "adjustMemoryUsageEvict")
              /\ UNCHANGED <<stack, rv>>
    /\ UNCHANGED <<keyLocks, store, creationLock, cacheLock, fatal, holds, locals>>

\* allkeys-random: error when keyLocks is empty; otherwise KeyLock a key
\* picked by rand.Intn over the map.
adjustMemoryUsageRandom(c) ==
    /\ At(c, "adjustMemoryUsageRandom")
    /\ IF \A k \in Keys : ~KeyExists(k)
       THEN /\ Return(c, "err")
            /\ UNCHANGED victim
       ELSE \E k \in {x \in Keys : KeyExists(x)} :
              /\ victim' = [victim EXCEPT ![c] = k]
              /\ Call(c, "KeyLock", k, "adjustMemoryUsageEvict")
              /\ UNCHANGED rv
    /\ UNCHANGED <<keyLocks, store, creationLock, cacheLock, fatal, holds, locals>>

\* Mutation of adjustMemoryUsage: delete(server.store, key) is missing.
adjustMemoryUsageEvictKeepsValue(c) ==
    LET k == victim[c] IN
    /\ At(c, "adjustMemoryUsageEvict")
    /\ IF rv[c] = "notfound"
       THEN /\ Return(c, "err")
            /\ UNCHANGED <<keyLocks, store, holds>>
       ELSE /\ keyLocks' = [keyLocks EXCEPT ![k] = NoEntry]
            /\ holds' = [holds EXCEPT ![c] = @ \ {<<k, "w">>}]
            /\ UNCHANGED store
            /\ \E over \in MemoryReadings :
                 IF over THEN /\ Goto(c, "adjustMemoryUsageRandom")
                              /\ UNCHANGED <<stack, rv>>
                         ELSE Return(c, "ok")
    /\ UNCHANGED <<creationLock, cacheLock, fatal, locals, victim>>

\* Delete the victim from keyLocks, store and keyExpiry (its mutex is dropped
\* while write-locked), GC, and stop once the heap is below MaxMemory.
adjustMemoryUsageEvict(c) ==
    LET k == victim[c] IN
    /\ At(c, "adjustMemoryUsageEvict")
    /\ IF rv[c] = "notfound"
       THEN /\ Return(c, "err")
            /\ UNCHANGED <<keyLocks, store, holds>>
       ELSE /\ keyLocks' = [keyLocks EXCEPT ![k] = NoEntry]
            /\ store' = [store EXCEPT ![k] = Nil]
            /\ holds' = [holds EXCEPT ![c] = @ \ {<<k, "w">>}]
            /\ \E over \in MemoryReadings :
                 IF over THEN /\ Goto(c, "adjustMemoryUsageRandom")
                              /\ UNCHANGED <<stack, rv>>
                         ELSE Return(c, "ok")
    /\ UNCHANGED <<creationLock, cacheLock, fatal, locals, victim>>

-----------------------------------------------------------------------------
(* Command handlers.  A handler's keyspace calls are Invoke steps; its     *)
(* returns are Finish steps, with the deferred KeyUnlock/KeyRUnlock calls  *)
(* that run on that return path done by the same step (Go runs a defer as  *)
(* part of the return).                                                    *)

\* Call a keyspace function; nothing else changes.
Invoke(c, proc, k, v, ret) ==
    /\ CallWith(c, proc, k, v, ret)
    /\ UNCHANGED <<keyLocks, store, creationLock, cacheLock, fatal, rv, holds, locals, victim>>

\* Return from the handler without unlocking.
Finish(c) ==
    /\ Reply(c)
    /\ UNCHANGED <<keyLocks, store, creationLock, cacheLock, fatal, stack, rv, holds, locals, victim>>

\* Return from the handler after the unlocks of the set W (write) and the
\* bag R (read).
UnlockBagAndFinish(c, W, R) ==
    /\ Release(c, W, R)
    /\ Reply(c)
    /\ UNCHANGED <<store, creationLock, cacheLock, stack, rv, locals, victim>>

\* The same, each key of the set R read-unlocked once.
UnlockAndFinish(c, W, R) ==
    /\ Release(c, W, SetToBag(R))
    /\ Reply(c)
    /\ UNCHANGED <<store, creationLock, cacheLock, stack, rv, locals, victim>>

\* Label s of handler op.
L(op, s) == op \o s

\* A step inside a handler that only moves it to label l.
GotoLocal(c, l) ==
    /\ Goto(c, l)
    /\ UNCHANGED <<keyLocks, store, creationLock, cacheLock, fatal, stack, rv, holds, locals, victim>>

\* Legacy SET (plugin handleSet): every error of CreateKeyAndLock and
\* SetValue is ignored; KeyUnlock follows SetValue on both paths.
SET(c) ==
    \/ /\ At(c, "SET")
       /\ IF ~KeyExists(Key(c, 1))
          THEN Invoke(c, "CreateKeyAndLock", Key(c, 1), Nil, "SETCreated")
          ELSE Invoke(c, "KeyLock", Key(c, 1), Nil, "SETLocked")
    \/ /\ At(c, "SETCreated")
       /\ Invoke(c, "SetValue", Key(c, 1), "string", "SETUnlock")
    \/ /\ At(c, "SETLocked")
       /\ IF rv[c] # "ok" THEN Finish(c)
          ELSE Invoke(c, "SetValue", Key(c, 1), "string", "SETUnlock")
    \/ /\ At(c, "SETUnlock")
       /\ UnlockAndFinish(c, {Key(c, 1)}, {})

\* The SetKeyDataFunc NewEchoVault gives the snapshot and AOF engines,
\* called for each key of a restored state: CreateKeyAndLock's error and
\* SetValue's are logged and ignored, then SetExpiry (touch false: only the
\* expiry map, not modelled) and KeyUnlock.  The value may be of any type.
SetKeyData(c) ==
    \/ /\ At(c, "RESTORE")
       /\ Invoke(c, "CreateKeyAndLock", Key(c, 1), Nil, "RESTORECreated")
    \/ /\ At(c, "RESTORECreated")
       /\ \E v \in Values : Invoke(c, "SetValue", Key(c, 1), v, "RESTOREUnlock")
    \/ /\ At(c, "RESTOREUnlock")
       /\ UnlockAndFinish(c, {Key(c, 1)}, {})

\* Legacy SETNX (handleSetNX): an existing key is refused; otherwise SET's
\* new-key path, errors ignored alike.
SETNX(c) ==
    /\ At(c, "SETNX")
    /\ IF KeyExists(Key(c, 1)) THEN Finish(c)
       ELSE Invoke(c, "CreateKeyAndLock", Key(c, 1), Nil, "SETCreated")

\* Legacy GET (handleGet): KeyRLock's error is ignored, so GetValue and
\* KeyRUnlock run whether or not the read lock was taken.
GET(c) ==
    \/ /\ At(c, "GET")
       /\ Invoke(c, "KeyRLock", Key(c, 1), Nil, "GETRead")
    \/ /\ At(c, "GETRead")
       /\ Invoke(c, "GetValue", Key(c, 1), Nil, "GETUnlock")
    \/ /\ At(c, "GETUnlock")
       /\ UnlockAndFinish(c, {}, {Key(c, 1)})

\* Legacy MGET (handleMGet): GET's steps for each key in turn; a value that
\* is not nil is read a second time to be formatted.
MGET(c) ==
    LET k == Key(c, idx[c]) IN
    \/ /\ At(c, "MGET")
       /\ IF idx[c] > Len(Cmd(c).keys) THEN Finish(c)
          ELSE Invoke(c, "KeyRLock", k, Nil, "MGETRead")
    \/ /\ At(c, "MGETRead")
       /\ Invoke(c, "GetValue", k, Nil, "MGETFormat")
    \/ /\ At(c, "MGETFormat")
       /\ IF rv[c] = Nil THEN GotoLocal(c, "MGETUnlock")
          ELSE Invoke(c, "GetValue", k, Nil, "MGETUnlock")
    \/ /\ At(c, "MGETUnlock")
       /\ Release(c, {}, SetToBag({k}))
       /\ idx' = [idx EXCEPT ![c] = @ + 1]
       /\ Goto(c, "MGET")
       /\ UNCHANGED <<store, creationLock, cacheLock, stack, rv, prog, policy, cur, locks, seen, victim>>

\* Single-key handlers that lock an existing key (read lock for mode "r",
\* write lock for "w"), read it with GetValue and return through the deferred
\* KeyRUnlock/KeyUnlock; an absent key is answered at once.  The type check
\* of the value only chooses the reply; SPOP, SRANDMEMBER and SREM change
\* the *Set that GetValue returned in place, with no SetValue.
LockAndRead(c, op, mode) ==
    LET k == Key(c, 1) IN
    \/ /\ At(c, op)
       /\ IF ~KeyExists(k) THEN Finish(c)
          ELSE Invoke(c, IF mode = "r" THEN "KeyRLock" ELSE "KeyLock", k, Nil, L(op, "Locked"))
    \/ /\ At(c, L(op, "Locked"))
       /\ IF rv[c] # "ok" THEN Finish(c)
          ELSE Invoke(c, "GetValue", k, Nil, L(op, "Unlock"))
    \/ /\ At(c, L(op, "Unlock"))
       /\ IF mode = "r" THEN UnlockAndFinish(c, {}, {k})
                        ELSE UnlockAndFinish(c, {k}, {})

HGET(c)        == LockAndRead(c, "HGET", "r")
HSTRLEN(c)     == LockAndRead(c, "HSTRLEN", "r")
HVALS(c)       == LockAndRead(c, "HVALS", "r")
HRANDFIELD(c)  == LockAndRead(c, "HRANDFIELD", "r")
HLEN(c)        == LockAndRead(c, "HLEN", "r")
HKEYS(c)       == LockAndRead(c, "HKEYS", "r")
HGETALL(c)     == LockAndRead(c, "HGETALL", "r")
HEXISTS(c)     == LockAndRead(c, "HEXISTS", "r")
SCARD(c)       == LockAndRead(c, "SCARD", "r")
SISMEMBER(c)   == LockAndRead(c, "SISMEMBER", "r")
SMEMBERS(c)    == LockAndRead(c, "SMEMBERS", "r")
SMISMEMBER(c)  == LockAndRead(c, "SMISMEMBER", "r")
SPOP(c)        == LockAndRead(c, "SPOP", "w")
SRANDMEMBER(c) == LockAndRead(c, "SRANDMEMBER", "w")
SREM(c)        == LockAndRead(c, "SREM", "w")

\* handleHSET, handleHINCRBY, handleHDEL: a new key is created and locked
\* (create) or answered at once; an existing key is locked and must hold a
\* hash, and for HINCRBY the field must hold a number or be unset (a free
\* choice: values are abstracted); then SetValue.  KeyUnlock is deferred as
\* soon as the lock is taken.
UpdateHash(c, op, create, numeric) ==
    LET k == Key(c, 1) IN
    \/ /\ At(c, op)
       /\ CASE KeyExists(k) -> Invoke(c, "KeyLock", k, Nil, L(op, "Locked"))
            [] create       -> Invoke(c, "CreateKeyAndLock", k, Nil, L(op, "Created"))
            [] OTHER        -> Finish(c)
    \/ /\ At(c, L(op, "Created"))
       /\ IF rv[c] # "ok" THEN Finish(c)
          ELSE Invoke(c, "SetValue", k, "hash", L(op, "Unlock"))
    \/ /\ At(c, L(op, "Locked"))
       /\ IF rv[c] # "ok" THEN Finish(c)
          ELSE Invoke(c, "GetValue", k, Nil, L(op, "Update"))
    \/ /\ At(c, L(op, "Update"))
       /\ \E fieldOk \in IF numeric THEN BOOLEAN ELSE {TRUE} :
            IF rv[c] # "hash" \/ ~fieldOk THEN UnlockAndFinish(c, {k}, {})
            ELSE Invoke(c, "SetValue", k, "hash", L(op, "Unlock"))
    \/ /\ At(c, L(op, "Unlock"))
       /\ UnlockAndFinish(c, {k}, {})

HSET(c)    == UpdateHash(c, "HSET", TRUE, FALSE)
HINCRBY(c) == UpdateHash(c, "HINCRBY", TRUE, TRUE)
HDEL(c)    == UpdateHash(c, "HDEL", FALSE, FALSE)

\* handleSADD: on the new-key path KeyUnlock is a plain call after SetValue,
\* so the early return on a SetValue error keeps the write lock; on the
\* existing-key path it is deferred.
SADD(c) ==
    \/ /\ At(c, "SADD")
       /\ IF ~KeyExists(Key(c, 1))
          THEN Invoke(c, "CreateKeyAndLock", Key(c, 1), Nil, "SADDCreated")
          ELSE Invoke(c, "KeyLock", Key(c, 1), Nil, "SADDLocked")
    \/ /\ At(c, "SADDCreated")
       /\ IF rv[c] # "ok" THEN Finish(c)
          ELSE Invoke(c, "SetValue", Key(c, 1), "set", "SADDStored")
    \/ /\ At(c, "SADDStored")
       /\ IF rv[c] # "ok" THEN Finish(c)
          ELSE UnlockAndFinish(c, {Key(c, 1)}, {})
    \/ /\ At(c, "SADDLocked")
       /\ IF rv[c] # "ok" THEN Finish(c)
          ELSE Invoke(c, "GetValue", Key(c, 1), Nil, "SADDAdd")
    \/ /\ At(c, "SADDAdd")
       /\ UnlockAndFinish(c, {Key(c, 1)}, {})

-----------------------------------------------------------------------------
(* Multi-key set handlers.  Their keys are <<destination, source...>> for   *)
(* the *STORE commands and <<source...>> otherwise; the sources are          *)
(* read-locked in command order and recorded in the `locks` map, whose keys *)
(* a deferred loop read-unlocks on every return.                           *)

\* Position of the first source of a command (the *STORE commands of this
\* module and of the older set module, SetModule.tla, name the destination
\* first).
FirstSource(op) ==
    IF op \in {"SINTERSTORE", "SUNIONSTORE", "SDIFFSTORE",
              "set:SINTERSTORE", "set:SUNIONSTORE", "set:SDIFFSTORE"} THEN 2 ELSE 1

\* The read locks the deferred calls release: one per key of the locks map
\* (a map: a source named twice is released once), and for SDIFF and
\* SDIFFSTORE the base set, whose KeyRUnlock is deferred before the map.
Deferred(c, op) ==
    SetToBag(locks[c]) (+) (IF op \in {"SDIFF", "SDIFFSTORE"}
                            THEN SetToBag({Key(c, FirstSource(op))}) ELSE EmptyBag)

\* Return from op, running its deferred read unlocks and a KeyUnlock of W.
ReturnUnlocking(c, op, W) == UnlockBagAndFinish(c, W, Deferred(c, op))

\* Move on to source idx + 1 with locks map m.
NextSource(c, loop, m) ==
    /\ idx' = [idx EXCEPT ![c] = @ + 1]
    /\ locks' = [locks EXCEPT ![c] = m]
    /\ Goto(c, loop)
    /\ UNCHANGED <<keyLocks, store, creationLock, cacheLock, fatal, prog, policy, cur, stack, rv, holds, seen, victim>>

\* The source loop at label loop: an absent source ends the command
\* (onAbsent = "return") or is skipped, and so is a failed KeyRLock
\* (onFail); a locked source enters the map.  After the last source, idx
\* rewinds to the source after the base and the handler goes on at next.
LockSources(c, op, loop, onAbsent, onFail, next) ==
    LET k == Key(c, idx[c]) IN
    \/ /\ At(c, loop)
       /\ CASE idx[c] > Len(Cmd(c).keys) ->
                 /\ idx' = [idx EXCEPT ![c] = FirstSource(op) + 1]
                 /\ Goto(c, next)
                 /\ UNCHANGED <<keyLocks, store, creationLock, cacheLock, fatal, prog, policy, cur,
                                stack, rv, holds, locks, seen, victim>>
            [] ~KeyExists(k) /\ onAbsent = "return" -> ReturnUnlocking(c, op, {})
            [] ~KeyExists(k) -> NextSource(c, loop, locks[c])
            [] OTHER -> Invoke(c, "KeyRLock", k, Nil, L(op, "Locked"))
    \/ /\ At(c, L(op, "Locked"))
       /\ CASE rv[c] = "ok"       -> NextSource(c, loop, locks[c] \cup {k})
            [] onFail = "return" -> ReturnUnlocking(c, op, {})
            [] OTHER             -> NextSource(c, loop, locks[c])

\* SINTER, SINTERCARD, SINTERSTORE, SUNION, SUNIONSTORE: GetValue each key
\* of the locks map, in map order (any order); a value that is not a set
\* ends the command.  Then go on at next.
ReadLocked(c, op, next) ==
    \/ /\ At(c, L(op, "Read"))
       /\ IF locks[c] \subseteq seen[c] THEN GotoLocal(c, next)
          ELSE \E k \in locks[c] \ seen[c] :
                 /\ seen' = [seen EXCEPT ![c] = @ \cup {k}]
                 /\ CallWith(c, "GetValue", k, Nil, L(op, "Check"))
                 /\ UNCHANGED <<keyLocks, store, creationLock, cacheLock, fatal, prog, policy, cur,
                                rv, holds, locks, idx, victim>>
    \/ /\ At(c, L(op, "Check"))
       /\ IF rv[c] # "set" THEN ReturnUnlocking(c, op, {})
          ELSE GotoLocal(c, L(op, "Read"))

\* SDIFF, SDIFFSTORE: GetValue every listed source after the base, whether
\* its read lock was taken or not; a value that is not a set is skipped.
ReadListed(c, op, next) ==
    /\ At(c, L(op, "Read"))
    /\ IF idx[c] > Len(Cmd(c).keys) THEN GotoLocal(c, next)
       ELSE /\ idx' = [idx EXCEPT ![c] = @ + 1]
            /\ CallWith(c, "GetValue", Key(c, idx[c]), Nil, L(op, "Read"))
            /\ UNCHANGED <<keyLocks, store, creationLock, cacheLock, fatal, prog, policy, cur,
                           rv, holds, locks, seen, victim>>

\* SDIFF, SDIFFSTORE: the base set must exist, is read-locked (its
\* KeyRUnlock deferred at once) and must hold a set; the source loop then
\* starts after it.
DiffBase(c, op) ==
    LET k == Key(c, FirstSource(op)) IN
    \/ /\ At(c, op)
       /\ IF ~KeyExists(k) THEN Finish(c)
          ELSE Invoke(c, "KeyRLock", k, Nil, L(op, "BaseLocked"))
    \/ /\ At(c, L(op, "BaseLocked"))
       /\ IF rv[c] # "ok" THEN Finish(c)
          ELSE Invoke(c, "GetValue", k, Nil, L(op, "BaseRead"))
    \/ /\ At(c, L(op, "BaseRead"))
       /\ IF rv[c] # "set" THEN UnlockAndFinish(c, {}, {k})
          ELSE GotoLocal(c, L(op, "Lock"))

\* Reply from a read-only multi-key command through its deferred unlocks.
ReplySources(c, op) ==
    /\ At(c, L(op, "Reply"))
    /\ ReturnUnlocking(c, op, {})

\* Mutation of the *STORE handlers: the destination is recorded in the
\* locks map, so the deferred loop also read-unlocks it.
StoreUnlockDestTwice(c, op) ==
    UnlockBagAndFinish(c, {Key(c, 1)}, Deferred(c, op) (+) SetToBag({Key(c, 1)}))

\* After a successful SetValue: KeyUnlock(destination), then the deferred
\* read unlocks.
StoreUnlock(c, op) == ReturnUnlocking(c, op, {Key(c, 1)})

\* SINTERSTORE, SDIFFSTORE, SUNIONSTORE: lock the destination (KeyLock if it
\* exists, else CreateKeyAndLock), then SetValue.  SUNIONSTORE defers its
\* KeyUnlock (deferDest); the others call it after a successful SetValue,
\* so their return on a SetValue error keeps the destination locked.
StoreDest(c, op, deferDest) ==
    LET dst == Key(c, 1) IN
    \/ /\ At(c, L(op, "Dest"))
       /\ IF KeyExists(dst)
          THEN Invoke(c, "KeyLock", dst, Nil, L(op, "Store"))
          ELSE Invoke(c, "CreateKeyAndLock", dst, Nil, L(op, "Store"))
    \/ /\ At(c, L(op, "Store"))
       /\ IF rv[c] # "ok" THEN ReturnUnlocking(c, op, {})
          ELSE Invoke(c, "SetValue", dst, "set", L(op, "Done"))
    \/ /\ At(c, L(op, "Done"))
       /\ IF rv[c] # "ok" /\ ~deferDest THEN ReturnUnlocking(c, op, {})
          ELSE StoreUnlock(c, op)

\* handleSINTER, handleSINTERCARD: an absent source or a failed KeyRLock
\* ends the command.
SINTER(c) ==
    \/ LockSources(c, "SINTER", "SINTER", "return", "return", "SINTERRead")
    \/ ReadLocked(c, "SINTER", "SINTERReply") \/ ReplySources(c, "SINTER")

SINTERCARD(c) ==
    \/ LockSources(c, "SINTERCARD", "SINTERCARD", "return", "return", "SINTERCARDRead")
    \/ ReadLocked(c, "SINTERCARD", "SINTERCARDReply") \/ ReplySources(c, "SINTERCARD")

\* handleSINTERSTORE: as SINTER, then the destination.
SINTERSTORE(c) ==
    \/ LockSources(c, "SINTERSTORE", "SINTERSTORE", "return", "return", "SINTERSTORERead")
    \/ ReadLocked(c, "SINTERSTORE", "SINTERSTOREDest") \/ StoreDest(c, "SINTERSTORE", FALSE)

\* handleSUNION: absent sources are skipped, a failed KeyRLock ends it.
SUNION(c) ==
    \/ LockSources(c, "SUNION", "SUNION", "skip", "return", "SUNIONRead")
    \/ ReadLocked(c, "SUNION", "SUNIONReply") \/ ReplySources(c, "SUNION")

\* handleSUNIONSTORE: as SUNION, then the destination, its unlock deferred.
SUNIONSTORE(c) ==
    \/ LockSources(c, "SUNIONSTORE", "SUNIONSTORE", "skip", "return", "SUNIONSTORERead")
    \/ ReadLocked(c, "SUNIONSTORE", "SUNIONSTOREDest") \/ StoreDest(c, "SUNIONSTORE", TRUE)

\* handleSDIFF: the base, then the other sources, skipping absent keys and
\* failed locks, then a read of every listed source.
SDIFF(c) ==
    \/ DiffBase(c, "SDIFF")
    \/ LockSources(c, "SDIFF", "SDIFFLock", "skip", "skip", "SDIFFRead")
    \/ ReadListed(c, "SDIFF", "SDIFFReply") \/ ReplySources(c, "SDIFF")

\* handleSDIFFSTORE: as SDIFF, then the destination.
SDIFFSTORE(c) ==
    \/ DiffBase(c, "SDIFFSTORE")
    \/ LockSources(c, "SDIFFSTORE", "SDIFFSTORELock", "skip", "skip", "SDIFFSTORERead")
    \/ ReadListed(c, "SDIFFSTORE", "SDIFFSTOREDest") \/ StoreDest(c, "SDIFFSTORE", FALSE)

\* handleSMOVE, keys <<source, destination>>: lock the source, check that it
\* is a set, then create-and-lock or lock the destination, in command order.
\* Both KeyUnlocks are deferred; the destination's is registered only once
\* its lock was taken.  The older set module's handleSMOVE has the same
\* steps (labels of handler op).
Move(c, op) ==
    LET src == Key(c, 1)
        dst == Key(c, 2)
    IN
    \/ /\ At(c, op)
       /\ IF ~KeyExists(src) THEN Finish(c)
          ELSE Invoke(c, "KeyLock", src, Nil, L(op, "SrcLocked"))
    \/ /\ At(c, L(op, "SrcLocked"))
       /\ IF rv[c] # "ok" THEN Finish(c)
          ELSE Invoke(c, "GetValue", src, Nil, L(op, "SrcRead"))
    \/ /\ At(c, L(op, "SrcRead"))
       /\ CASE rv[c] # "set"     -> UnlockAndFinish(c, {src}, {})
            [] ~KeyExists(dst)   -> Invoke(c, "CreateKeyAndLock", dst, Nil, L(op, "DstCreated"))
            [] OTHER             -> Invoke(c, "KeyLock", dst, Nil, L(op, "DstLocked"))
    \/ /\ At(c, L(op, "DstCreated"))
       /\ IF rv[c] # "ok" THEN UnlockAndFinish(c, {src}, {})
          ELSE Invoke(c, "SetValue", dst, "set", L(op, "Move"))
    \/ /\ At(c, L(op, "DstLocked"))
       /\ IF rv[c] # "ok" THEN UnlockAndFinish(c, {src}, {})
          ELSE Invoke(c, "GetValue", dst, Nil, L(op, "Move"))
    \/ /\ At(c, L(op, "Move"))
       /\ UnlockAndFinish(c, {src, dst}, {})

SMOVE(c) == Move(c, "SMOVE")

-----------------------------------------------------------------------------
(* The connection loop (echovault.go handleConnection): read the next       *)
(* command and run its handler, until the client has sent its last one.    *)

\* The first key a handler's loop visits: the first source, or for SDIFF and
\* SDIFFSTORE the source after the base.
StartIdx(op) == FirstSource(op) + (IF op \in {"SDIFF", "SDIFFSTORE"} THEN 1 ELSE 0)

\* Mutation of handleConnection: io.EOF does not end the read loop.
DispatchIgnoringEOF(c) ==
    /\ At(c, "Next")
    /\ IF cur[c] < Len(prog[c])
       THEN /\ cur' = [cur EXCEPT ![c] = @ + 1]
            /\ Goto(c, prog[c][cur[c] + 1].op)
            /\ locks' = [locks EXCEPT ![c] = {}]
            /\ seen' = [seen EXCEPT ![c] = {}]
            /\ idx' = [idx EXCEPT ![c] = StartIdx(prog[c][cur[c] + 1].op)]
       ELSE UNCHANGED <<pc, cur, locks, seen, idx>>
    /\ UNCHANGED <<keyLocks, store, creationLock, cacheLock, fatal, prog, policy, stack, rv, holds, victim>>

Dispatch(c) ==
    /\ At(c, "Next")
    /\ IF cur[c] < Len(prog[c])
       THEN /\ cur' = [cur EXCEPT ![c] = @ + 1]
            /\ Goto(c, prog[c][cur[c] + 1].op)
            /\ locks' = [locks EXCEPT ![c] = {}]
            /\ seen' = [seen EXCEPT ![c] = {}]
            /\ idx' = [idx EXCEPT ![c] = StartIdx(prog[c][cur[c] + 1].op)]
       ELSE /\ Goto(c, "Done")
            /\ UNCHANGED <<cur, locks, seen, idx>>
    /\ UNCHANGED <<keyLocks, store, creationLock, cacheLock, fatal, prog, policy, stack, rv, holds, victim>>

\* The keyspace functions a goroutine can be inside of.
Keyspace(c) ==
    \/ KeyLock(c) \/ KeyRLock(c) \/ CreateKeyAndLock(c)
    \/ GetValue(c) \/ GetValueRead(c) \/ SetValue(c) \/ SetValueDone(c)
    \/ updateKeyInCache(c) \/ updateKeyInCacheDone(c)
    \/ adjustMemoryUsage(c) \/ adjustMemoryUsageRandom(c) \/ adjustMemoryUsageEvict(c)

Handler(c) ==
    \/ SET(c) \/ SETNX(c) \/ GET(c) \/ MGET(c)
    \/ HSET(c) \/ HINCRBY(c) \/ HDEL(c)
    \/ HGET(c) \/ HSTRLEN(c) \/ HVALS(c) \/ HRANDFIELD(c) \/ HLEN(c) \/ HKEYS(c)
    \/ HGETALL(c) \/ HEXISTS(c)
    \/ SCARD(c) \/ SISMEMBER(c) \/ SMEMBERS(c) \/ SMISMEMBER(c)
    \/ SPOP(c) \/ SRANDMEMBER(c) \/ SREM(c) \/ SADD(c)
    \/ SINTER(c) \/ SINTERCARD(c) \/ SINTERSTORE(c) \/ SUNION(c) \/ SUNIONSTORE(c)
    \/ SDIFF(c) \/ SDIFFSTORE(c) \/ SMOVE(c)
    \/ SetKeyData(c)

\* One step of goroutine c, before its map writes are recorded.
GoroutineStep(c) == Dispatch(c) \/ Keyspace(c) \/ Handler(c)

\* The maps of Server that a step of c has just written, and is still inside
\* of until c's next step: SetValue's store[key] = value, CreateKeyAndLock's
\* keyLocks[key] = keyLock, and adjustMemoryUsage's deletes from both.  The
\* maps are plain Go maps, shared by goroutines holding different key locks.
MapsWritten(c) ==
    CASE pc[c] = "SetValue" /\ pc'[c] = "updateKeyInCache" -> {"store"}
      [] pc[c] = "CreateKeyAndLockInsert" /\ ~KeyExists(Arg(c)) -> {"keyLocks"}
      [] pc[c] = "adjustMemoryUsageEvict" /\ rv[c] # "notfound" -> {"keyLocks", "store"}
      [] OTHER -> {}

\* The maps the next step of c reads or writes: KeyLock and KeyRLock read
\* keyLocks[key], CreateKeyAndLock and the random eviction read and write
\* it, GetValue reads and SetValue writes store[key].  (The KeyExists calls
\* of the handlers read keyLocks too; they are left out, which only hides
\* throws.)
MapsAccessed(c) ==
    CASE pc[c] \in {"KeyLock", "KeyRLock", "CreateKeyAndLockInsert",
                    "adjustMemoryUsageRandom"} -> {"keyLocks"}
      [] pc[c] \in {"GetValueRead", "SetValue"} -> {"store"}
      [] pc[c] = "adjustMemoryUsageEvict" -> {"keyLocks", "store"}
      [] OTHER -> {}

\* Record the maps c's step writes, where the runtime's check is modelled.
\* CreateKeyAndLock writes keyLocks while holding keyCreationLock, so a
\* goroutine that takes that lock next has seen every such write finish.
TrackMapWrites(c) ==
    writing' = [d \in Clients |->
                  IF d = c THEN IF MapRaceThrows THEN MapsWritten(c) ELSE {}
                  ELSE IF creationLock' = c /\ creationLock # c
                       THEN writing[d] \ {"keyLocks"}
                       ELSE writing[d]]

\* One step of goroutine c.
Step(c) == GoroutineStep(c) /\ TrackMapWrites(c)

\* The Go runtime sees c access a map another goroutine is writing and
\* throws "concurrent map writes" (or "... read and map write"), which no
\* recover catches: the process exits.  The check is best effort, so a
\* schedule without it is c's ordinary step; the throw has no fairness.
ConcurrentMapAccess(c) ==
    /\ MapRaceThrows
    /\ ~fatal
    /\ \E d \in Clients \ {c} : MapsAccessed(c) \cap writing[d] # {}
    /\ fatal' = TRUE
    /\ UNCHANGED <<keyLocks, store, creationLock, cacheLock, prog, policy, cur, pc,
                   stack, rv, holds, locks, seen, idx, victim, writing>>

Init ==
    /\ keyLocks = [k \in Keys |-> NoEntry]
    /\ store = [k \in Keys |-> Nil]
    /\ creationLock = NoClient
    /\ cacheLock = NoClient
    /\ fatal = FALSE
    /\ prog \in Workload
    /\ policy \in EvictionPolicies
    /\ cur = [c \in Clients |-> 0]
    /\ pc = [c \in Clients |-> "Next"]
    /\ stack = [c \in Clients |-> <<>>]
    /\ rv = [c \in Clients |-> "ok"]
    /\ holds = [c \in Clients |-> {}]
    /\ locks = [c \in Clients |-> {}]
    /\ seen = [c \in Clients |-> {}]
    /\ idx = [c \in Clients |-> 2]
    /\ victim = [c \in Clients |-> CHOOSE k \in Keys : TRUE]
    /\ writing = [c \in Clients |-> {}]

\* Every connection has been served, or the process has died.
Terminated ==
    /\ (\A c \in Clients : pc[c] = "Done") \/ fatal
    /\ UNCHANGED vars

Next == (\E c \in Clients : Step(c) \/ ConcurrentMapAccess(c)) \/ Terminated

\* A goroutine that can run is eventually scheduled: the Go scheduler
\* preempts, and each spin-lock try is a fresh step.
Fairness == \A c \in Clients : WF_vars(Step(c))

Spec == Init /\ [][Next]_vars /\ Fairness

-----------------------------------------------------------------------------
(* Properties.                                                             *)

TypeOK ==
    /\ keyLocks \in [Keys -> [exists : BOOLEAN, w : BOOLEAN, r : Nat]]
    /\ store \in [Keys -> Values \cup {Nil}]
    /\ creationLock \in Clients \cup {NoClient}
    /\ cacheLock \in Clients \cup {NoClient}
    /\ fatal \in BOOLEAN
    /\ pc \in [Clients -> STRING]
    /\ holds \in [Clients -> SUBSET (Keys \X {"r", "w"})]
    /\ locks \in [Clients -> SUBSET Keys]
    /\ seen \in [Clients -> SUBSET Keys]
    /\ victim \in [Clients -> Keys]
    /\ writing \in [Clients -> SUBSET {"store", "keyLocks"}]
    /\ policy \in EvictionPolicies

\* Spec §8: outside a writer's critical section, a key has a lock entry
\* exactly when it has a value in the store.  Broken by handlers that create
\* and lock a key and then return on a SetValue error, or write a value for
\* a key whose CreateKeyAndLock failed.
KeyspaceConsistent ==
    \A k \in Keys : ~keyLocks[k].w => (keyLocks[k].exists <=> store[k] # Nil)

\* Spec §8: no two goroutines are ever inside the critical section of the
\* same key when one of them writes: a write lock a handler holds excludes
\* every other handler's lock on that key (KeyLock/KeyRLock/CreateKeyAndLock,
\* eviction deleting a key's mutex).
MutualExclusion ==
    \A c, d \in Clients : \A k \in Keys :
        c # d /\ <<k, "w">> \in holds[c] => <<k, "w">> \notin holds[d] /\ <<k, "r">> \notin holds[d]

\* The server process never dies: no KeyUnlock/KeyRUnlock reaches an
\* RWMutex that is not locked in that mode (the Go runtime throws), and no
\* handler panics (no goroutine of the server recovers, so the process exits).
NoFatalError == ~fatal

\* Every command a client sends is eventually answered: no handler stays
\* blocked on a key lock, the key-creation lock or the cache mutex.
AllHandlersReturn == \A c \in Clients : <>(pc[c] = "Done")

-----------------------------------------------------------------------------
(* Refinement of the abstract lock table (KeyLockManager).  The code keeps *)
(* only a writer flag and a reader count per RWMutex; the holders are the  *)
(* locks each goroutine's KeyLock/KeyRLock/CreateKeyAndLock calls returned *)
(* and its KeyUnlock/KeyRUnlock calls have not yet released (holds).       *)

\* The goroutine that holds k's write lock, if any.
WriteHolder(k) ==
    IF \E c \in Clients : <<k, "w">> \in holds[c]
    THEN CHOOSE c \in Clients : <<k, "w">> \in holds[c]
    ELSE NoClient

LockManager == INSTANCE KeyLockManager WITH
    exists  <- [k \in Keys |-> keyLocks[k].exists],
    writer  <- [k \in Keys |-> WriteHolder(k)],
    readers <- [k \in Keys |-> {c \in Clients : <<k, "r">> \in holds[c]}]

\* Spec §3/§4.1: every change the keyspace makes to its lock entries and to
\* who holds them is a step of the abstract per-key reader/writer lock:
\* a TryLock succeeds only when no goroutine holds the key, a TryRLock
\* only when none writes it, CreateKeyAndLock creates only an absent, free
\* key, and eviction deletes only a key its caller write-locked.  This ties
\* the RWMutex counters the code tests to the goroutines that hold them.
ImplementsKeyLockManager == LockManager!Spec

=============================================================================
