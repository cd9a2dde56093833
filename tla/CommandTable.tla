---------------------------- MODULE CommandTable ----------------------------
(***************************************************************************)
(* The command descriptors the modules register with the server: for each *)
(* command its categories, its Sync flag (the command is submitted through *)
(* Raft in cluster mode) and, for the older set module, its key-extraction *)
(* closure.  Descriptions and handler bindings are left out: the handlers  *)
(* are modelled in Keyspace.tla and SetModule.tla under the Redis name.    *)
(* The category constants of pkg/constants are their names.                *)
(***************************************************************************)
EXTENDS Naturals, Sequences, TLC

\* Mutation of Desc: Sync taken from the write category instead of the
\* entry's own flag.
DescSyncFromCategory(cats, sync) == [categories |-> cats, sync |-> "write" \in cats]

\* One entry: Categories and Sync of an internal.Command.
Desc(cats, sync) == [categories |-> cats, sync |-> sync]

\* Commands() of the hash module.
HashCommands ==
       "hset"         :> Desc({"hash", "write", "fast"}, TRUE)
    @@ "hsetnx"       :> Desc({"hash", "write", "fast"}, TRUE)
    @@ "hget"         :> Desc({"hash", "read", "fast"}, FALSE)
    @@ "hstrlen"      :> Desc({"hash", "read", "fast"}, FALSE)
    @@ "hvals"        :> Desc({"hash", "read", "slow"}, FALSE)
    @@ "hrandfield"   :> Desc({"hash", "read", "slow"}, FALSE)
    @@ "hlen"         :> Desc({"hash", "read", "fast"}, FALSE)
    @@ "hkeys"        :> Desc({"hash", "read", "slow"}, FALSE)
    @@ "hincrbyfloat" :> Desc({"hash", "write", "fast"}, TRUE)
    @@ "hincrby"      :> Desc({"hash", "write", "fast"}, TRUE)
    @@ "hgetall"      :> Desc({"hash", "read", "slow"}, FALSE)
    @@ "hexists"      :> Desc({"hash", "read", "fast"}, FALSE)
    @@ "hdel"         :> Desc({"hash", "read", "fast"}, TRUE)

\* Commands() of the set module that sits beside the hash module.
SetCommands ==
       "sadd"        :> Desc({"set", "write", "fast"}, TRUE)
    @@ "scard"       :> Desc({"set", "write", "fast"}, FALSE)
    @@ "sdiff"       :> Desc({"set", "read", "slow"}, FALSE)
    @@ "sdiffstore"  :> Desc({"set", "write", "slow"}, TRUE)
    @@ "sinter"      :> Desc({"set", "write", "slow"}, FALSE)
    @@ "sintercard"  :> Desc({"set", "read", "slow"}, FALSE)
    @@ "sinterstore" :> Desc({"set", "write", "slow"}, TRUE)
    @@ "sismember"   :> Desc({"set", "read", "fast"}, FALSE)
    @@ "smembers"    :> Desc({"set", "read", "slow"}, FALSE)
    @@ "smismember"  :> Desc({"set", "read", "fast"}, FALSE)
    @@ "smove"       :> Desc({"set", "write", "fast"}, TRUE)
    @@ "spop"        :> Desc({"set", "write", "slow"}, TRUE)
    @@ "srandmember" :> Desc({"set", "read", "slow"}, FALSE)
    @@ "srem"        :> Desc({"set", "write", "fast"}, TRUE)
    @@ "sunion"      :> Desc({"set", "read", "slow"}, FALSE)
    @@ "sunionstore" :> Desc({"set", "write", "slow"}, TRUE)

-----------------------------------------------------------------------------
(* The older set module (src/src/modules/set/commands.go, NewModule): no  *)
(* command has a category, and each KeyExtractionFunc is a closure that   *)
(* tests the length of cmd and returns a slice of it.                      *)

\* A closure: `len(cmd) < n` (or `len(cmd) != n` when exact) is the error
\* test, and the keys are cmd[from:to] in Go's 0-based slicing, to = 0
\* standing for the end of cmd.
KeyFunc(exact, n, from, to) == [exact |-> exact, n |-> n, from |-> from, to |-> to]

\* Applying a closure to cmd: the error, or the slice of cmd it returns.
ExtractKeys(kf, cmd) ==
    IF IF kf.exact THEN Len(cmd) # kf.n ELSE Len(cmd) < kf.n
    THEN [ok |-> FALSE, keys |-> <<>>]
    ELSE [ok |-> TRUE,
          keys |-> SubSeq(cmd, kf.from + 1, IF kf.to = 0 THEN Len(cmd) ELSE kf.to)]

OneKey(exact, n) == KeyFunc(exact, n, 1, 2)   \* []string{cmd[1]}
AllKeys(n) == KeyFunc(FALSE, n, 1, 0)         \* cmd[1:]

\* A descriptor of the older module: Categories is []string{}.
OlderDesc(sync, kf) == [categories |-> {}, sync |-> sync, keyFunc |-> kf]

SetModuleCommands ==
       "sadd"        :> OlderDesc(TRUE, OneKey(FALSE, 3))
    @@ "scard"       :> OlderDesc(FALSE, OneKey(TRUE, 2))
    @@ "sdiff"       :> OlderDesc(FALSE, AllKeys(2))
    @@ "sdiffstore"  :> OlderDesc(TRUE, AllKeys(3))
    @@ "sinter"      :> OlderDesc(FALSE, AllKeys(2))
    @@ "sintercard"  :> OlderDesc(FALSE, AllKeys(2))
    @@ "sinterstore" :> OlderDesc(TRUE, AllKeys(3))
    @@ "sismember"   :> OlderDesc(FALSE, OneKey(FALSE, 3))
    @@ "smembers"    :> OlderDesc(FALSE, OneKey(TRUE, 2))
    @@ "smismember"  :> OlderDesc(FALSE, OneKey(FALSE, 3))
    @@ "smove"       :> OlderDesc(TRUE, KeyFunc(TRUE, 4, 1, 3))
    @@ "spop"        :> OlderDesc(TRUE, OneKey(FALSE, 2))
    @@ "srandmember" :> OlderDesc(FALSE, OneKey(FALSE, 2))
    @@ "srem"        :> OlderDesc(TRUE, OneKey(FALSE, 3))
    @@ "sunion"      :> OlderDesc(FALSE, AllKeys(2))
    @@ "sunionstore" :> OlderDesc(TRUE, AllKeys(3))

====
