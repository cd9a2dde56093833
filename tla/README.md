# TLA+ models of the EchoVault keyspace

This directory holds TLA+ models of the concurrent core of the server in
`src/`. The core is the keyspace (`src/src/server/keyspace.go`) and the
command handlers that lock and change it. The handlers are the hash and set
modules in `src/internal/modules/hash/commands.go`, the older set module in
`src/src/modules/set/commands.go`, and the legacy GET/SET plugin in
`src/unnamed/part_001`. They run on connection goroutines started
by `handleConnection` (`src/src/echovault/echovault.go`).

## The system and how its parts interact

| Part | Source | State | Operations |
|---|---|---|---|
| Keyspace | `keyspace.go` | `keyLocks` (a `*sync.RWMutex` per key), `store`, `keyCreationLock`, `lruCache.mutex`/`lfuCache.mutex`, `keyExpiry`, the state-copy flags | KeyLock, KeyRLock, KeyUnlock, KeyRUnlock, KeyExists, CreateKeyAndLock, GetValue, SetValue, GetState, updateKeyInCache, adjustMemoryUsage |
| Memory check | `internal/utils.go` IsMaxMemoryExceeded | the Go heap | a reading of `HeapInuse` after an optional GC |
| Hash/set handlers | `hash/commands.go` | locals (the `locks` map of multi-key commands) | HSET, HGET, ..., SADD, SINTERSTORE, SMOVE, ... |
| Older set module | `modules/set/commands.go` | locals | SADD, SCARD, SDIFF, ..., SUNIONSTORE (16 handlers) |
| Legacy plugin | `unnamed/part_001` | none | SET, SETNX, MSET, GET, MGET |
| Connection loop | `echovault.go` handleConnection | the connection | read a message, run its handler, write the reply |
| Snapshot/AOF triggers | `unnamed/part_003`, `echovault.go` | in-progress flags | TakeSnapshot, RewriteAOF, Start/Finish |
| ACL | `modules/set/commant_test.go` (lines 786-1175), `acl/acl.go` | users, connections | SetUser, DeleteUser, AuthenticateConnection, AuthorizeConnection |

These parts interact in a few ways:

- **Locking and writing.** A handler tests `KeyExists`. It then locks the
  key, either with `KeyLock`/`KeyRLock` (a spin on `TryLock`/`TryRLock`) or
  with `CreateKeyAndLock` (which inserts a write-locked mutex under
  `keyCreationLock`). It reads and writes through `GetValue`/`SetValue`, and
  unlocks, usually in a `defer`.
- **Eviction.** Both `GetValue` and `SetValue` call `updateKeyInCache`.
  - Under an LRU/LFU policy it takes the cache mutex and, still holding it,
    calls `adjustMemoryUsage`.
  - Under `allkeys-random`, `adjustMemoryUsage` KeyLocks a random key and
    deletes it while the caller still holds its own key.
- **Spins.** Every lock call is a spin. Only the request context could end
  it, and no handler context is ever cancelled. A lock that is never
  released is therefore a permanent hang.

## Modules

### `Keyspace.tla`: the keyspace, its callers, and the connection loop

**State.**
- `keyLocks[k]` is `[exists, w, r]`: whether the map has an entry, whether
  the RWMutex is write-locked, and its reader count.
- `store[k]` holds the value's type tag (`"string"`, `"hash"`, `"set"`)
  or `"nil"`.
- `creationLock` and `cacheLock` hold the goroutine that owns the mutex.
- `fatal` records that the process died: the Go runtime threw on an
  unlock of an unlocked RWMutex, or a handler panicked (nothing in `src/`
  recovers). Nothing runs afterwards.
- `writing[c]` is the set of maps (`"store"`, `"keyLocks"`) goroutine `c`
  has just written and is taken to be still inside until its next step:
  SetValue's `store[key] = value` (keyspace.go:111), CreateKeyAndLock's
  `keyLocks[key] = keyLock` (:84) and eviction's deletes (:301-303). Both
  are plain Go maps shared by goroutines that hold different key locks.
  `ConcurrentMapAccess(c)` is the runtime's throw when `c`'s next step
  reads or writes a map another goroutine is writing (`MapsAccessed`); it
  has no fairness, because the runtime's check is best effort. A write
  under `keyCreationLock` is over once another goroutine takes that lock.
  The constant `MapRaceThrows` turns the check on: it is on in `random`
  and `process_dies` and off in the other runs, which therefore cover the
  executions in which the race goes undetected.

**How goroutines are modelled.** Every connection goroutine has:
- a program label `pc`;
- a call stack `stack` of frames `[ret, k, v]`;
- the last returned value `rv`.

Each keyspace function is one or more labelled actions, named after the
function. For example, `CreateKeyAndLockCheckMemory`,
`CreateKeyAndLockAcquire`, `CreateKeyAndLockInsert` and
`CreateKeyAndLockRelease` are the memory check, `keyCreationLock.Lock()`,
the insert (or the call to `KeyLock`) and the deferred Unlock. A handler is
one action per segment between its keyspace calls. A return path and the
deferred unlocks it runs are one step (`UnlockAndFinish`), because Go runs
the defers as part of the return. `holds[c]` records the locks goroutine `c`
believes it holds.

**What the model abstracts.**
- **Spins.** A `TryLock` that fails changes nothing. A lock call is
  therefore a step that is enabled only when it succeeds or when the key is
  absent, which is the "not found" return.
- **Memory readings.** `runtime.ReadMemStats` depends on every allocation in
  the process. Each memory reading (`MemoryReadings`) is therefore a free
  choice when MaxMemory > 0, and "not exceeded" when MaxMemory = 0. The
  first check in `adjustMemoryUsage` and its re-check after the GC collapse
  into one choice, because either one may say "below".
- **The cache mutex.** Under an LFU/LRU policy, `adjustMemoryUsage` locks
  the cache mutex that its caller already holds. The goroutine stops at
  label `adjustMemoryUsageLockCache`, which has no action. The pop/evict
  loop after it (keyspace.go 236-282) can never run.
- **Volatile policies.** No modelled command sets an expiry. So under
  `volatile-random` the `keyExpiry` map is empty and eviction returns its
  error.
- **Dispatch.** `Dispatch` is the read loop of `handleConnection`. A
  connection sends the commands of its script (`prog[c]`). At the end of the
  script (EOF) the goroutine is `"Done"`.

**Handler shapes.** The 31 handlers share a few shapes, each one operator:
- `LockAndRead(c, op, mode)`: the one-key readers (HGET ... SMISMEMBER,
  read lock) and one-key writers that only change the value in place
  (SPOP, SRANDMEMBER, SREM, write lock): test, lock, GetValue, unlock.
- `UpdateHash(c, op, create, numeric)`: HSET, HINCRBY (whose increment may
  fail to parse) and HDEL.
- `LockSources` / `ReadLocked` / `ReadListed` / `StoreDest`: the multi-key
  set commands. `LockSources` read-locks each source that exists. It ends
  with a return or a skip when a source is absent and when a lock fails,
  as each command does. `StoreDest` locks or creates the destination and
  writes it. `Deferred(c, op)` is the bag of read locks the command's
  defers will release (SDIFF/SDIFFSTORE also defer the base key's RUnlock,
  a second time).
- SET, SETNX, GET, MGET (legacy plugin), SADD and SMOVE have their own
  actions.
- `SetKeyData(c)` (op `RESTORE`): the callback NewEchoVault gives the AOF
  and snapshot engines for each restored key: CreateKeyAndLock and
  SetValue with their errors logged and ignored, then KeyUnlock (the
  expiry it sets is not modelled). One connection runs it for `k1` then
  `k2`, as restore runs in one goroutine before connections are accepted.

**Eviction policy.** `policy` is chosen in `Init` from `EvictionPolicies`
and never changes, as the server's configuration is fixed at start.

**Properties.**
- `TypeOK`: the type invariant.
- `KeyspaceConsistent`: spec.md §8 says an existing key has both a lock
  entry and a value. The model requires this of every key that is not
  write-locked, because a handler's critical section creates the entry
  before it writes the value.
- `MutualExclusion`: spec.md §8 says no two concurrent writers. Stated on
  `holds`: a write lock one goroutine holds excludes every lock that another
  goroutine holds on the same key.
- `NoFatalError`: the process never dies: no Unlock or RUnlock reaches an
  RWMutex that is not locked in that mode, and no handler panics.
- `AllHandlersReturn`: every connection eventually has all its commands
  answered.
- `SyncedWrites` (in `SetModule`): no command whose descriptor has Sync
  unset ever calls `SetValue`, so in cluster mode no write bypasses Raft.
- `ImplementsKeyLockManager`: `Keyspace` refines `KeyLockManager` (below).

### `SetModule.tla`: the older set module on the same keyspace

`SetModule` EXTENDS `Keyspace` and adds the 16 handlers of
`src/src/modules/set/commands.go` as further steps of the same connection
goroutines: `ServerStep(c) == Step(c) \/ HandleCommand(c)`, and
`ServerSpec` is the server with both modules loaded, which every
`MCKeyspace` run checks. A command of this module has the op `"set:"` and
its Redis name. The server type these handlers were written against is not
in the repository, so their calls are bound to `keyspace.go`; its
`SetValue` returns no error to them, so every SetValue result is ignored,
as the code ignores it. The handlers reuse Keyspace's shapes
(`LockAndRead`, `LockSources`, `ReadLocked`, `StoreDest`, `Move`) with the
older code's own choices: SDIFF and SDIFFSTORE skip non-set values
(`ReadLockedSkipping`), SDIFFSTORE returns before the destination when no
source is a set (`NoSets`), and SUNION/SUNIONSTORE take `sets[0]` of an
empty slice when no source exists, which panics (`UnionFirst`, `Panic`).

### `CommandTable.tla`: the command descriptors

Each module's `Commands()` returns a descriptor per command: its
categories, its `Sync` flag (spec.md §2: in cluster mode a write goes
through Raft only when Sync is set), and a key-extraction function.
`HashCommands` and `SetCommands` are the tables of
`internal/modules/hash/commands.go`; `SetModuleCommands` is the older set
module's, where every command has empty categories and each
`KeyExtractionFunc` is a closure testing `len(cmd)` and returning a slice
of it (`KeyFunc`, applied by `ExtractKeys`). Descriptions and handler
bindings are left out.

`SetModule` looks a handler's descriptor up by its Redis name
(`Descriptor`; the dispatcher `handleCommand` is not in the repository,
so this lookup is modelled from spec.md) and checks `SyncedWrites`: every
command that reaches `SetValue` has Sync set. `MCACL` builds its
older-module request from `SetModuleCommands`, so the ACL sees the
categories and keys the real table gives.

### `KeyLockManager.tla`: the abstract per-key lock table

The promise of spec.md §3 and §4.1, written without the code's mechanism:
per key, whether it `exists`, its `writer` and its set of `readers`. The
actions are `Create` (of an absent, free key, which leaves it write-locked),
`Lock`, `RLock`, `Unlock` (of some locks the caller holds, several at once as
a handler's defers run on return) and `Delete` (by the write-lock holder).

`Keyspace` instantiates it with `INSTANCE KeyLockManager WITH` the mapping
`exists <- keyLocks[k].exists`, `writer <- WriteHolder(k)` and
`readers <- {c : <<k, "r">> \in holds[c]}`. The code keeps only a writer
flag and a reader count per RWMutex; the refinement checks that the
counters its TryLock/TryRLock test always agree with the goroutines that hold
the key, through creation races and eviction. `ImplementsKeyLockManager`
(`LockManager!Spec`) is a property of the `core` and `random` runs.

### `Snapshot.tla`: snapshot and AOF triggers and `GetState`

**State.** The four `atomic.Bool` flags of the server
(`SnapshotInProgress`, `RewriteAOFInProgress`, `StateCopyInProgress`,
`StateMutationInProgress`), a program label per caller, and `version`,
the parity of store writes, so that a write during a copy is a visible
change.

**Actions.**
- `TakeSnapshot` and `RewriteAOF` (echovault.go) test their flag and either
  refuse or start the engine goroutine.
- `GetStateCheck`, `GetStateSet` and `GetStateCopy` are GetState's spin on
  the two flags, its separate `Store(true)`, and the copy followed by
  `Store(false)`.
- `SnapshotStart`/`SnapshotFinish` and `RewriteStart`/`RewriteFinish` are
  the engines. Their code is not in `src/`, so their steps follow spec.md
  §4.3-4.4; they call `StartSnapshot`/`FinishSnapshot` (with
  `SetLatestSnapshot`) and `StartRewriteAOF`/`FinishRewriteAOF`.
- `StoreWrite` is SetValue's `server.store[key] = value`. No handler looks
  at the copy or mutation flag, so a write is always enabled.

**Properties.**
- `AllPersistenceSettles`: every TakeSnapshot and RewriteAOF call is
  answered and the work it started ends.
- `CopyIsolated`: spec.md §4.1: at most one GetState copy at a time, and
  no store write during one.

### `ACL.tla` and `MCACL.tla`: users, connections, AUTH, SETUSER, DELUSER

The ACL type lives in `src/src/modules/set/commant_test.go` (lines 786-1175).
- **State.**
  - `users` is `acl.Users` (name to user record, `None` when unlisted).
  - `conns` is `acl.Connections`: whether the connection authenticated,
    and its user. The user is a pointer: `live` while the name is listed
    (later SETUSERs are seen), `frozen` (the removed object) afterwards.
  - `deadline` records the past read deadline DeleteUser sets.
  - `pc`/`req` are the connection goroutine's place and request.
  - `authUser` is AuthenticateConnection's local `user`: the pointer it
    found in `acl.Users`, live or frozen like a connection's (`Deref`).
  - `crashed` is a Go panic.
- **Actions.**
  - `Init` is `NewACL` with the default user only, its password the
    configured one when RequirePass is set.
  - `RegisterConnection` and the successful branch of `AuthCheck`
    start a write of `acl.Connections`
    (`Writing`), which `MapWriteDone` ends; `ConcurrentMapAccess` is the
    runtime's throw when a goroutine registers or is authorized while
    another is inside a write (it has no fairness: the runtime need not
    detect the race);
  - `ReadMessage` (a past deadline closes the
    connection);
  - `Decide`/`Denied`/`Command`: the dispatcher runs
    `AuthorizeConnection` and then the handler;
  - `AuthenticateConnection` is two steps, because nothing locks
    `acl.Users` between them. `AuthLookup` finds the user: `default`
    for AUTH with one argument, otherwise the named user, failing if it
    is not listed. `AuthCheck` then checks enabled, NoPassword and the
    password on the object found, and writes the connection's entry.
    A DeleteUser between the two steps freezes `authUser` but sets no
    deadline on this connection;
  - `SetUser`
    and `DeleteUser`, whose loop over the names is the recursive
    `DeleteLoop`: skip `default`, dereference the looked-up user (a nil
    one panics), set a past deadline on each of the user's connections,
    and filter the user out of a copy of `acl.Users` (`pending`).
    `DeleteUserStore` assigns the copy to `acl.Users` in a later step, as
    nothing locks the slice: a user SetUser appended in between is lost,
    and every pointer to a name no longer listed keeps the removed object
    (`Freeze`). SetUser's append is one step.
- **Properties.**
  - `DeleteUserRemovesNamed` (action property): the step that runs
    DeleteUser's loop, when it does not panic, leaves in `pending` every
    user except the listed names it was given, `default` excepted. It
    also sets a past read deadline on exactly the registered connections
    attached to those names. This compares the recursive `DeleteLoop`,
    whose user variable is carried from one name to the next, with a
    set-based reference.
  - `DeletedUserConnsClose`: a connection whose user is no longer listed
    is eventually closed (or the process crashed). This is violated when
    AUTH as that user is in progress at the deletion, and when the user
    is lost from the slice by DeleteUser's store racing SetUser's append.
  - `AuthorizeMatchesSpec`: every decision of `AuthorizeConnection`
    equals `SpecAuthorize`, spec.md §4.5's rule written as an operator
    (all categories, all keys).
  - `NoCrash`: the process never dies in the ACL, through the nil user
    of DeleteUser or a concurrent map access.

`MCACL` has two connections, users `d` (default), `u1`, `u2`, two
passwords, keys `k1`, `k2`, a channel, and thirteen requests: AUTH with the
password alone, AUTH as `u1` and as `u2`, GET, MGET of two keys, SET, SUBSCRIBE, the older module's SMEMBERS
(`OlderCmd` builds it from `SetModuleCommands`: its categories and the keys
its key-extraction closure returns), SETUSER of `u1` to a
reader or a disabled profile, SETUSER of `u2` to a reader (a new user
appended to `acl.Users`), and two DELUSERs (one naming `u1` and `u2`, one
naming `default` and `u1`).

### `MCKeyspace.tla`: model-checking instance

It has two connections `c1`, `c2` and two keys `k1`, `k2`, all model values.
The workloads are sets of scripts: each maps a connection to the commands
it sends. Each `.cfg` picks a workload, the eviction policy, and whether
MaxMemory > 0.

## Runs

| Run | Expect | Checks | What it shows |
|---|---|---|---|
| core | pass | TypeOK, KeyspaceConsistent, MutualExclusion, NoFatalError, AllHandlersReturn, ImplementsKeyLockManager, SyncedWrites | See note 1 below. |
| noeviction | violation | MutualExclusion | See note 4 below. |
| random | pass (no deadlock check) | KeyspaceConsistent, MutualExclusion, ImplementsKeyLockManager | Under allkeys-random or allkeys-lru, with a memory limit. Random eviction deletes a key's mutex from the map; LRU takes the cache mutex. Entries and values stay in step, writers stay exclusive, and each eviction is a `Delete` by the write-lock holder. The concurrent-map check is on: a run the runtime stops still satisfies them. |
| handler_hang | violation (no deadlock check) | AllHandlersReturn | See note 2 below. |
| ghost_key | violation | KeyspaceConsistent | See note 3 below. |
| process_dies | violation | NoFatalError | Two ways the process dies. Legacy GET ignores `KeyRLock`'s not-found error; if SET creates the key in between, GET's `KeyRUnlock` makes the runtime throw. The older module's SUNION (and SUNIONSTORE) of absent keys indexes `sets[0]` of an empty slice and panics; TLC reports this shorter trace. HSET k1 and HSET k2, under different key locks, write the one `store` map at once, which the runtime may answer with "concurrent map writes". |
| snapshot | pass | AllPersistenceSettles | Two snapshot and two rewrite calls, racing a writer, are all answered and every engine run finishes. |
| copy_race | violation | CopyIsolated | GetState's flag test and `Store(true)` are separate, and no writer yields to the copy flag: a write lands during a copy, and two copies can overlap. |
| acl | pass | DeleteUserRemovesNamed | Two connections authenticate, change and delete users, and the runtime's map-race check fires where it may. Each DELUSER that does not panic removes exactly the listed names it is given, except `default`, and sets deadlines on exactly their connections. |
| stale_auth | violation | DeletedUserConnsClose | A connection's AUTH as u1 looks up the user; the other connection's DELUSER u1 then sets deadlines only on connections already attached to u1; AUTH completes on the removed object. The connection is authenticated as a deleted user and is never closed. A second path: DELUSER u1 reads `acl.Users`, SETUSER u2 appends and AUTH u2 succeeds, then DELUSER stores its filtered copy and u2 is gone, with no deadline on its connection. |
| authorize | violation | AuthorizeMatchesSpec | The code's authorization refuses a command that spec.md §4.5 allows: after AUTH, the older set module's SMEMBERS (its descriptor has no categories) is refused; with categories it would allow a command if *any* category or key matches, where the spec asks for *all*. |
| acl_crash | violation | NoCrash | Two ways the ACL ends the process. `acl.Connections` is a Go map written by RegisterConnection and AUTH and read by every authorization, from all connection goroutines, with no lock: an access during another goroutine's write can make the runtime throw (TLC's trace: two connections registering at once). And `DELUSER` of a name that is not a user dereferences a nil user pointer. |

Notes on the longer rows:

1. **core.** No memory limit. Its nine scripts run every handler path that
   does not depend on memory pressure: type errors, absent keys, creation
   races, all 31 handlers, and the multi-key commands with lock orders that
   agree; four more scripts run the older set module's handlers against
   the same keys, and one runs the restore callback. Every command is
   answered, the safety properties hold, and every write has Sync set
   (`SyncedWrites`).
2. **handler_hang.** Workload `WorkloadHang`, under each eviction policy
   with a memory limit. Commands that wait forever on a lock:
   - `SMOVE k1 k2` racing `SMOVE k2 k1` (locks taken in command order, not
     the sorted order spec.md requires);
   - `SMOVE k k`, or SINTERSTORE with its destination among its sources,
     spins on its own lock;
   - `CreateKeyAndLock` spins in `KeyLock` while holding
     `keyCreationLock`, so an SMOVE holding that key and creating its
     destination blocks forever;
   - leaked locks: SINTERSTORE with a repeated source (its `locks` map
     collapses two read locks into one), SADD of a new key whose SetValue
     fails (its KeyUnlock is not deferred), SDIFFSTORE/SINTERSTORE whose
     SetValue on the destination fails; the next writer blocks forever;
   - the older module's SDIFFSTORE (and SINTERSTORE, SUNIONSTORE) with its
     destination among its sources write-locks a key it has read-locked;
   - eviction wedges: under LRU the first access that finds memory
     exceeded locks the cache mutex twice; under allkeys-random eviction
     from inside `SetValue` picks the caller's own locked key and spins.
3. **ghost_key.** Under noeviction, either handler can break the keyspace
   invariant when one memory check fails:
   - HSET can leave a lock entry with no value;
   - legacy SET can leave a value with no lock entry;
   - the older module's SADD of a new key ignores SetValue's failure and
     unlocks an entry that has no value;
   - the restore callback ignores CreateKeyAndLock's out-of-memory error
     and still stores the value, under a key with no lock entry.

4. **noeviction.** Workload `WorkloadSetUnlockRace`, under noeviction
   with a memory limit. c1's HSET k2 creates and write-locks k2. c2's
   legacy SET k2 found k2 absent, and its CreateKeyAndLock is refused for
   memory. SET ignores that error (part_001:68) and still calls KeyUnlock
   (line 70), which releases c1's write lock. c2's next command, HSET k2,
   then write-locks k2 while c1 still holds it: two writers. With no other
   holder, the same KeyUnlock unlocks an unlocked RWMutex and the runtime
   throws. Out-of-memory failures are explored only in violation runs
   (`ghost_key`, `handler_hang`, `noeviction`): every workload tried where
   one fails breaks some property.

Every property of a passing run has a mutant in `PROJECT.json`. A mutant is a
plausible bug in the mapped code, for example:
- TryLock that ignores readers;
- a created mutex stored without `Lock()`;
- eviction that forgets `delete(store, key)` or skips `KeyLock`;
- a store command that unlocks its destination twice;
- a read loop that ignores EOF;
- GetState that does not clear `StateCopyInProgress`.

With the mutant in place, the run's own configuration reports the property
violated.

The `random` and `handler_hang` runs set `CHECK_DEADLOCK FALSE` because the code
really does stop there: every write under pressure can self-deadlock, as
`handler_hang` shows. All other passing runs check for deadlock.

## Bounds and why they are enough

Two connections and two keys are the smallest setting for each of these bugs:
- the two-key lock-order cycle (SMOVE, and `CreateKeyAndLock` against a
  holder);
- a race between a reader and a creator;
- a writer blocked by another connection's leaked lock.

Scripts are two or three commands long. That is enough for a key to be
created, used by the other connection, and then re-locked. Values are type
tags, because handlers branch only on a value's type. The largest run
(`core`) has about 15,600 distinct states.

`MCSnapshot` has two snapshot callers, two rewrite callers and one writer:
two of each kind is what it takes for a second call to be refused or to
race the first, and a snapshot against a rewrite is what lets two
GetState copies meet. It has about 7,000 distinct states.

`MCACL` has two connections, enough for one to delete the user another
is logged in as; each connection sends requests until closed, and the
state space (about 1.4 million states, most of them the interleavings of
DeleteUser's pending copy) stays finite because `req` is reset after
each request.

## Fairness

`Fairness` is weak fairness on each goroutine's steps. The Go scheduler
preempts goroutines, so a goroutine that can run is eventually run. Every
TryLock retry is a fresh step, so a lock that stays free is eventually
taken. The scripts are finite, so every lock that is released stays free
once its holders have finished. Weak fairness is therefore enough, and it
is what the spinning code actually gets. The model assumes no fairness
among goroutines competing for a lock that is repeatedly taken and
released.

In `Snapshot`, `Fairness` is weak fairness on each caller's steps, for the
same reason. The writer gets no fairness: nothing requires a write ever to
happen.

In `ACL`, `Fairness` is weak fairness on each connection goroutine's
steps: its read loop runs whenever the scheduler runs it, and a past read
deadline makes the next read fail at once.

## Not modelled (yet), and why

- **Not yet modelled.**
  - The newer SDIFF and SDIFFSTORE call GetValue on sources they never
    locked (hash/commands.go:851, 910). The model reaches these reads,
    but no run states spec.md §2's rule that a handler locks every key
    it reads. spec.md's open questions already name this bug.
  - `SetKeyExpiry` and `RemoveKeyExpiry` (keyspace.go:131 and below) are
    not actions of the model: nothing under `src/` calls them, so no
    handler reaches them, and `keyExpiry` stays empty in every state the
    code can be in.
  - ACL: SetUser's `append` to `acl.Users` is one step, so a deletion
    undone by a racing append is not reached (the opposite lost update,
    and the `acl.Connections` map race, are modelled). SHA-256 passwords, channel and pattern rules and
    `UpdateUser`/`Normalise` are abstracted or not in `src/`.
  - The older set module's SDIFF takes `sets[0]`, the first key of the
    `locks` map's random iteration order, as the base of the difference;
    values are type tags, so the model does not tell which base was used.
  - Two concurrent AOF rewrites: listed as a hazard; no property states
    what the engine's log swap must preserve.
- **Out of scope.**
  - **AppendStore** (internal/modules/hash/commands.go 1706-1871). It is
    defined but never constructed or called in the repository; the
    server's AOF engine is the `aof` package, which is not in `src/`.
    Were it used, `Write` under strategy `always` would call `Sync` while
    holding `store.mut`, which `Sync` Locks again: a self-deadlock.
  - **The expired-key sweeper.** Its body is not in `src/`.
  - **The snapshot and AOF engines' file I/O.** Not in `src/`; the
    per-key restore callback they call is modelled (`SetKeyData`), the
    AOF replay through `handleCommand` is not.
  - **The Raft FSM and memberlist delegate.** The FSM and StableStore
    methods of `server/raft.go` are stubs. The delegate's `NotifyMsg`
    re-broadcasts a mutation on a follower and applies it on the leader;
    its broadcast queue and `applyMutate` are wired by server code that is
    not in the repository. Its two hazards are listed without a property:
    duplicate applies of a gossiped mutation, and mutations that circulate
    until dropped while there is no leader.
  - **`server/plugins/commands/setget/setget.go`.** The plugin written for
    an older server interface (one global `Lock` around `GetData` /
    `SetData`) that nothing in the repository implements. Each handler
    runs wholly under that lock, so there is nothing to interleave.
  - **A deletion undone by a racing DELUSER.** The ACL model reaches it
    (the later `DeleteUserStore` assigns a copy read before the earlier
    deletion), but no run states that an unlisted user stays unlisted.
  - **The RESP codec and the ping plugin.** They are pure formatting and
    have no shared state.
  - **The key-extraction functions of `etc/`, the list module and
    `utils.go`** (other than the older set module's, which `MCACL`
    uses). Nothing in the repository calls them, and the sorted-set
    handlers their tests name are absent.
  - **Where a descriptor's categories matter.** HDEL is categorised
    `read`, SCARD and SINTER `write`; `IsWriteCommand` decides by
    category, but the dispatcher and AOF append that would call it are
    not in `src/`, so this is a hazard without a run.
  - **`acl.go`'s own ACL.** Its connection methods are stubs returning
    nil. `NewACL` lists only the users of the ACL config file: the default
    user it builds is never added, and a configured `default` is replaced
    by `MergeUser`'s result, which `NormaliseUser` makes an empty User.
    Nothing in the repository wires this ACL to the server; the ACL
    modelled is the one of `commant_test.go`.
  - **`initialiseCaches`** (a hazard without a property). Start calls it after the TTL eviction
    goroutine is running, and in cluster mode only on the leader; the
    eviction package that would race it is not in `src/`.
  - **Map accesses by `KeyExists` in the handlers.** They read `keyLocks`
    too, but are not among `MapsAccessed`; leaving them out only hides
    throws.

## Plan

1. (done) `Keyspace` + `MCKeyspace`: locking, creation, values, eviction
   entry points, and all 31 hash, set and legacy handlers.
2. (done) `Snapshot`: TakeSnapshot, RewriteAOF, the in-progress flags and
   GetState.
3. (done) `KeyLockManager`: the abstract per-key reader/writer lock, which
   `Keyspace` refines.
4. Expiries, and `volatile-*` eviction with them, once a caller exists.
5. (done, partly) `ACL`: connections, AUTH, SETUSER, DELUSER, and
   AuthorizeConnection checked against spec.md §4.5's reference rule.
6. (done) The older set module (`src/src/modules/set/commands.go`).
7. (done) The ACL and keyspace map races as interleaved map writes.
