--------------------------- MODULE KeyLockManager ---------------------------
(* What the keyspace promises the handlers about its per-key locks          *)
(* (spec.md §3 "Keyspace invariants", §4.1 lock / rlock / unlock / runlock / *)
(* create_and_lock / delete): a key that exists has one reader/writer lock; *)
(* a writer excludes every other holder; create_and_lock of an absent key   *)
(* leaves it write-locked by its creator; a key is deleted, lock and all,   *)
(* only by the holder of its write lock.  Each step is one lock operation   *)
(* of one goroutine; a return path may release several locks in one step,  *)
(* as a handler's deferred unlocks run together on return.                 *)
EXTENDS FiniteSets

CONSTANTS
    Clients,  \* goroutines that call the keyspace
    Keys,     \* key names
    NoClient  \* no goroutine

VARIABLES
    exists,   \* the key has a lock entry
    writer,   \* the goroutine holding the key's write lock, or NoClient
    readers   \* the goroutines holding a read lock on the key

vars == <<exists, writer, readers>>

Free(k) == writer[k] = NoClient /\ readers[k] = {}

Init ==
    /\ exists = [k \in Keys |-> FALSE]
    /\ writer = [k \in Keys |-> NoClient]
    /\ readers = [k \in Keys |-> {}]

\* create_and_lock of an absent key.
Create(c, k) ==
    /\ ~exists[k] /\ Free(k)
    /\ exists' = [exists EXCEPT ![k] = TRUE]
    /\ writer' = [writer EXCEPT ![k] = c]
    /\ UNCHANGED readers

\* lock: the key exists and nobody holds it.
Lock(c, k) ==
    /\ exists[k] /\ Free(k)
    /\ writer' = [writer EXCEPT ![k] = c]
    /\ UNCHANGED <<exists, readers>>

\* rlock: the key exists and has no writer.
RLock(c, k) ==
    /\ exists[k] /\ writer[k] = NoClient
    /\ readers' = [readers EXCEPT ![k] = @ \cup {c}]
    /\ UNCHANGED <<exists, writer>>

\* unlock / runlock of some of the locks c holds: the write locks of W and
\* the read locks of R.
Unlock(c, W, R) ==
    /\ W \cup R # {}
    /\ \A k \in W : writer[k] = c
    /\ \A k \in R : c \in readers[k]
    /\ writer' = [k \in Keys |-> IF k \in W THEN NoClient ELSE writer[k]]
    /\ readers' = [k \in Keys |-> IF k \in R THEN readers[k] \ {c} ELSE readers[k]]
    /\ UNCHANGED exists

\* delete: the holder of the write lock removes the key and its lock.
Delete(c, k) ==
    /\ writer[k] = c /\ readers[k] = {}
    /\ exists' = [exists EXCEPT ![k] = FALSE]
    /\ writer' = [writer EXCEPT ![k] = NoClient]
    /\ UNCHANGED readers

Next ==
    \E c \in Clients :
        \/ \E k \in Keys : Create(c, k) \/ Lock(c, k) \/ RLock(c, k) \/ Delete(c, k)
        \/ \E W, R \in SUBSET Keys : Unlock(c, W, R)

Spec == Init /\ [][Next]_vars

=============================================================================
