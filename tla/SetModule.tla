----------------------------- MODULE SetModule -----------------------------
(***************************************************************************)
(* The older set module (src/src/modules/set/commands.go) run against the   *)
(* same keyspace as the hash and set handlers of Keyspace.tla.  Its         *)
(* handlers call KeyExists, KeyLock, KeyRLock, CreateKeyAndLock, GetValue,  *)
(* SetValue, KeyUnlock and KeyRUnlock as the newer ones do; the server type *)
(* they were written against is not in the repository, so the calls are    *)
(* bound to keyspace.go.  Its SetValue returns no error to them: every      *)
(* result of SetValue is ignored here.  A command's op is "set:" and the    *)
(* Redis name; its keys are <<destination, source...>> for the *STORE        *)
(* commands and <<key...>> otherwise.                                       *)
(*                                                                          *)
(* ServerSpec is the server with both modules loaded: Keyspace's goroutine  *)
(* steps and the older handlers as further steps of the same goroutines.    *)
(***************************************************************************)
EXTENDS Keyspace, CommandTable

-----------------------------------------------------------------------------
(* Helpers the older multi-key handlers share.                              *)

\* A handler panics: Go runs the goroutine's deferred calls (here none holds
\* a lock) and, as nothing recovers, the process exits.
Panic(c) ==
    /\ fatal' = TRUE
    /\ UNCHANGED <<keyLocks, store, creationLock, cacheLock, prog, policy, cur, pc,
                   stack, rv, holds, locks, seen, idx, victim>>

\* SDIFF, SDIFFSTORE: GetValue each key of the locks map, in map order; a
\* value that is not a set is skipped (`continue`).  Then go on at next.
ReadLockedSkipping(c, op, next) ==
    /\ At(c, L(op, "Read"))
    /\ IF locks[c] \subseteq seen[c] THEN GotoLocal(c, next)
       ELSE \E k \in locks[c] \ seen[c] :
              /\ seen' = [seen EXCEPT ![c] = @ \cup {k}]
              /\ CallWith(c, "GetValue", k, Nil, L(op, "Read"))
              /\ UNCHANGED <<keyLocks, store, creationLock, cacheLock, fatal, prog, policy, cur,
                             rv, holds, locks, idx, victim>>

\* `sets` is empty: none of the locked keys holds a set.  The keys are still
\* read-locked, so their values are the ones GetValue returned.
NoSets(c) == \A k \in locks[c] : store[k] # "set"

\* SUNION, SUNIONSTORE: `sets[0].Union(sets[1:])` indexes an empty slice
\* when no source exists, and panics; otherwise go on at next.
UnionFirst(c, op, next) ==
    /\ At(c, L(op, "Union"))
    /\ IF locks[c] = {} THEN Panic(c) ELSE GotoLocal(c, next)

-----------------------------------------------------------------------------
(* The handlers.                                                            *)

\* handleSADD: a new key is created and locked, SetValue's result is not
\* looked at, and KeyUnlock follows; an existing key is locked, its
\* KeyUnlock deferred, and read.
handleSADD(c) ==
    LET k == Key(c, 1) IN
    \/ /\ At(c, "set:SADD")
       /\ IF ~KeyExists(k)
          THEN Invoke(c, "CreateKeyAndLock", k, Nil, "set:SADDCreated")
          ELSE Invoke(c, "KeyLock", k, Nil, "set:SADDLocked")
    \/ /\ At(c, "set:SADDCreated")
       /\ IF rv[c] # "ok" THEN Finish(c)
          ELSE Invoke(c, "SetValue", k, "set", "set:SADDUnlock")
    \/ /\ At(c, "set:SADDLocked")
       /\ IF rv[c] # "ok" THEN Finish(c)
          ELSE Invoke(c, "GetValue", k, Nil, "set:SADDUnlock")
    \/ /\ At(c, "set:SADDUnlock")
       /\ UnlockAndFinish(c, {k}, {})

handleSCARD(c)       == LockAndRead(c, "set:SCARD", "r")
handleSISMEMBER(c)   == LockAndRead(c, "set:SISMEMBER", "r")
handleSMEMBERS(c)    == LockAndRead(c, "set:SMEMBERS", "r")
handleSMISMEMBER(c)  == LockAndRead(c, "set:SMISMEMBER", "r")
handleSPOP(c)        == LockAndRead(c, "set:SPOP", "w")
handleSRANDMEMBER(c) == LockAndRead(c, "set:SRANDMEMBER", "w")
handleSREM(c)        == LockAndRead(c, "set:SREM", "w")

\* handleSDIFF: absent sources and failed KeyRLocks are skipped, the locked
\* ones read; "not enough sets" and the reply both return through the
\* deferred read unlocks.  (The base of the difference is sets[0], the
\* first key of the map's iteration order, not the first key named.)
handleSDIFF(c) ==
    \/ LockSources(c, "set:SDIFF", "set:SDIFF", "skip", "skip", "set:SDIFFRead")
    \/ ReadLockedSkipping(c, "set:SDIFF", "set:SDIFFReply")
    \/ ReplySources(c, "set:SDIFF")

\* handleSDIFFSTORE: as SDIFF; with no set among the sources it returns
\* before the destination, else KeyLock or CreateKeyAndLock it, SetValue
\* (result ignored) and KeyUnlock.
handleSDIFFSTORE(c) ==
    \/ LockSources(c, "set:SDIFFSTORE", "set:SDIFFSTORE", "skip", "skip", "set:SDIFFSTORERead")
    \/ ReadLockedSkipping(c, "set:SDIFFSTORE", "set:SDIFFSTORECount")
    \/ /\ At(c, "set:SDIFFSTORECount")
       /\ IF NoSets(c) THEN ReturnUnlocking(c, "set:SDIFFSTORE", {})
          ELSE GotoLocal(c, "set:SDIFFSTOREDest")
    \/ StoreDest(c, "set:SDIFFSTORE", TRUE)

\* handleSINTER, handleSINTERCARD: an absent source or a failed KeyRLock
\* ends the command; a value that is not a set ends it too.
handleSINTER(c) ==
    \/ LockSources(c, "set:SINTER", "set:SINTER", "return", "return", "set:SINTERRead")
    \/ ReadLocked(c, "set:SINTER", "set:SINTERReply") \/ ReplySources(c, "set:SINTER")

handleSINTERCARD(c) ==
    \/ LockSources(c, "set:SINTERCARD", "set:SINTERCARD", "return", "return", "set:SINTERCARDRead")
    \/ ReadLocked(c, "set:SINTERCARD", "set:SINTERCARDReply") \/ ReplySources(c, "set:SINTERCARD")

\* handleSINTERSTORE: as SINTER, then the destination, SetValue's result
\* ignored and KeyUnlock called after it.
handleSINTERSTORE(c) ==
    \/ LockSources(c, "set:SINTERSTORE", "set:SINTERSTORE", "return", "return", "set:SINTERSTORERead")
    \/ ReadLocked(c, "set:SINTERSTORE", "set:SINTERSTOREDest")
    \/ StoreDest(c, "set:SINTERSTORE", TRUE)

\* handleSUNION: absent sources are skipped, a failed KeyRLock or a value
\* that is not a set ends the command; then sets[0], which panics when no
\* source existed.
handleSUNION(c) ==
    \/ LockSources(c, "set:SUNION", "set:SUNION", "skip", "return", "set:SUNIONRead")
    \/ ReadLocked(c, "set:SUNION", "set:SUNIONUnion")
    \/ UnionFirst(c, "set:SUNION", "set:SUNIONReply")
    \/ ReplySources(c, "set:SUNION")

\* handleSUNIONSTORE: as SUNION, then the destination, its KeyUnlock deferred.
handleSUNIONSTORE(c) ==
    \/ LockSources(c, "set:SUNIONSTORE", "set:SUNIONSTORE", "skip", "return", "set:SUNIONSTORERead")
    \/ ReadLocked(c, "set:SUNIONSTORE", "set:SUNIONSTOREUnion")
    \/ UnionFirst(c, "set:SUNIONSTORE", "set:SUNIONSTOREDest")
    \/ StoreDest(c, "set:SUNIONSTORE", TRUE)

handleSMOVE(c) == Move(c, "set:SMOVE")

\* Plugin.HandleCommand: the handler of the command's name.
HandleCommand(c) ==
    \/ handleSADD(c) \/ handleSCARD(c) \/ handleSDIFF(c) \/ handleSDIFFSTORE(c)
    \/ handleSINTER(c) \/ handleSINTERCARD(c) \/ handleSINTERSTORE(c)
    \/ handleSISMEMBER(c) \/ handleSMEMBERS(c) \/ handleSMISMEMBER(c)
    \/ handleSMOVE(c) \/ handleSPOP(c) \/ handleSRANDMEMBER(c) \/ handleSREM(c)
    \/ handleSUNION(c) \/ handleSUNIONSTORE(c)

-----------------------------------------------------------------------------
(* The descriptors the dispatcher finds for the commands of the model.      *)

\* The registered name of each op of the hash and set modules.  The legacy
\* plugin's descriptors (part_001:248-263: get and mget, no categories) are
\* not looked up here; its handlers are dispatched by op directly.
RegisteredName ==
       "HSET" :> "hset" @@ "HINCRBY" :> "hincrby" @@ "HDEL" :> "hdel"
    @@ "HGET" :> "hget" @@ "HSTRLEN" :> "hstrlen" @@ "HVALS" :> "hvals"
    @@ "HRANDFIELD" :> "hrandfield" @@ "HLEN" :> "hlen" @@ "HKEYS" :> "hkeys"
    @@ "HGETALL" :> "hgetall" @@ "HEXISTS" :> "hexists"
    @@ "SADD" :> "sadd" @@ "SCARD" :> "scard" @@ "SISMEMBER" :> "sismember"
    @@ "SMEMBERS" :> "smembers" @@ "SMISMEMBER" :> "smismember" @@ "SPOP" :> "spop"
    @@ "SRANDMEMBER" :> "srandmember" @@ "SREM" :> "srem" @@ "SINTER" :> "sinter"
    @@ "SINTERCARD" :> "sintercard" @@ "SINTERSTORE" :> "sinterstore"
    @@ "SUNION" :> "sunion" @@ "SUNIONSTORE" :> "sunionstore" @@ "SDIFF" :> "sdiff"
    @@ "SDIFFSTORE" :> "sdiffstore" @@ "SMOVE" :> "smove"

\* The older module's ops carry the "set:" prefix.
OlderOp(op) == \E n \in DOMAIN RegisteredName : op = "set:" \o n

\* The dispatcher's lookup of the command descriptor by name.
Descriptor(op) ==
    IF OlderOp(op)
    THEN SetModuleCommands[RegisteredName[CHOOSE n \in DOMAIN RegisteredName : op = "set:" \o n]]
    ELSE (HashCommands @@ SetCommands)[RegisteredName[op]]

HasDescriptor(op) == OlderOp(op) \/ op \in DOMAIN RegisteredName

-----------------------------------------------------------------------------
(* The server with both command modules.                                    *)

ServerStep(c) == (GoroutineStep(c) \/ HandleCommand(c)) /\ TrackMapWrites(c)

ServerNext == (\E c \in Clients : ServerStep(c) \/ ConcurrentMapAccess(c)) \/ Terminated

\* As in Keyspace: every goroutine that can run is eventually scheduled.
ServerFairness == \A c \in Clients : WF_vars(ServerStep(c))

ServerSpec == Init /\ [][ServerNext]_vars /\ ServerFairness

-----------------------------------------------------------------------------
(* Properties of the server.                                                *)

\* Spec.md §2: in cluster mode a write command is submitted through Raft
\* only when its descriptor has Sync set, so every handler that writes the
\* store through SetValue must run a command registered with Sync: one
\* registered without it would change the node that took it and no other.
\* The handlers that call SetValue are modelled from their code; the flags
\* come from the modules' command tables.
SyncedWrites ==
    [][\A c \in Clients :
         /\ pc'[c] = "SetValue" /\ pc[c] # "SetValue"
         /\ HasDescriptor(Cmd(c).op)
         => Descriptor(Cmd(c).op).sync]_vars

=============================================================================
