------------------------------ MODULE Snapshot ------------------------------
(* The persistence triggers of the server and the state copy they share.   *)
(*                                                                          *)
(* TakeSnapshot and RewriteAOF (echovault.go, part_003) test their          *)
(* in-progress flag and start a goroutine that runs the snapshot or AOF     *)
(* engine.  The engines set and clear the flags through StartSnapshot /     *)
(* FinishSnapshot and StartRewriteAOF / FinishRewriteAOF and take a copy of *)
(* the store with GetState (keyspace.go), which spins until neither a copy  *)
(* nor a mutation is in progress, then sets StateCopyInProgress, copies the *)
(* store map, and clears the flag.  Writers are handlers storing a value    *)
(* with SetValue.  The engines' own code is not in the repository: their    *)
(* steps follow spec.md §4.3-4.4.                                           *)
EXTENDS Naturals, FiniteSets

CONSTANTS
    SnapshotCallers, \* goroutines that call TakeSnapshot (SAVE, the snapshot timer)
    RewriteCallers,  \* goroutines that call RewriteAOF (BGREWRITEAOF)
    Writers          \* handler goroutines that write the store

Callers == SnapshotCallers \cup RewriteCallers

ASSUME SnapshotCallers \cap RewriteCallers = {}

VARIABLES
    snapshotInProgress,      \* SnapshotInProgress atomic.Bool
    rewriteAOFInProgress,    \* RewriteAOFInProgress atomic.Bool
    stateCopyInProgress,     \* StateCopyInProgress atomic.Bool
    stateMutationInProgress, \* StateMutationInProgress atomic.Bool
    pc,                      \* label of each caller and the goroutine it starts
    ret,                     \* where GetState returns to
    version                  \* parity of the number of store writes

vars == <<snapshotInProgress, rewriteAOFInProgress, stateCopyInProgress,
          stateMutationInProgress, pc, ret, version>>

flags == <<snapshotInProgress, rewriteAOFInProgress, stateCopyInProgress, stateMutationInProgress>>

Goto(p, l) == pc' = [pc EXCEPT ![p] = l]

-----------------------------------------------------------------------------
(* TakeSnapshot and RewriteAOF: the check, then `go func() {...}()`.        *)

\* TakeSnapshot: refuse while a snapshot is in progress; otherwise start the
\* goroutine that runs SnapshotEngine.TakeSnapshot and return nil.
TakeSnapshot(p) ==
    /\ pc[p] = "TakeSnapshot"
    /\ Goto(p, IF snapshotInProgress THEN "Refused" ELSE "SnapshotEngine")
    /\ UNCHANGED <<flags, ret, version>>

\* RewriteAOF: refuse while a rewrite is in progress; otherwise start the
\* goroutine that runs AOFEngine.RewriteLog and return nil.
RewriteAOF(p) ==
    /\ pc[p] = "RewriteAOF"
    /\ Goto(p, IF rewriteAOFInProgress THEN "Refused" ELSE "RewriteLog")
    /\ UNCHANGED <<flags, ret, version>>

-----------------------------------------------------------------------------
(* GetState (keyspace.go): the flag test and the flag store are separate   *)
(* atomic operations, and the copy ranges over the store map.              *)

\* The spin: leave the loop when neither flag is set.
GetStateCheck(p) ==
    /\ pc[p] = "GetState"
    /\ ~stateCopyInProgress /\ ~stateMutationInProgress
    /\ Goto(p, "GetStateSet")
    /\ UNCHANGED <<flags, ret, version>>

\* StateCopyInProgress.Store(true), then the copy starts.
GetStateSet(p) ==
    /\ pc[p] = "GetStateSet"
    /\ stateCopyInProgress' = TRUE
    /\ Goto(p, "GetStateCopy")
    /\ UNCHANGED <<snapshotInProgress, rewriteAOFInProgress, stateMutationInProgress, ret, version>>

\* Mutation of GetState: StateCopyInProgress is not cleared after the copy.
GetStateCopyKeepsFlag(p) ==
    /\ pc[p] = "GetStateCopy"
    /\ Goto(p, ret[p])
    /\ UNCHANGED <<flags, ret, version>>

\* The copy loop ends; StateCopyInProgress.Store(false); return the copy.
GetStateCopy(p) ==
    /\ pc[p] = "GetStateCopy"
    /\ stateCopyInProgress' = FALSE
    /\ Goto(p, ret[p])
    /\ UNCHANGED <<snapshotInProgress, rewriteAOFInProgress, stateMutationInProgress, ret, version>>

GetState(p) == GetStateCheck(p) \/ GetStateSet(p) \/ GetStateCopy(p)

\* Call GetState, coming back at label r.
CallGetState(p, r) ==
    /\ Goto(p, "GetState")
    /\ ret' = [ret EXCEPT ![p] = r]

-----------------------------------------------------------------------------
(* The engines (spec.md §4.3-4.4; not in the repository).                  *)

\* snapshot(): wait until no snapshot is in progress and set the flag
\* (StartSnapshot), then take the state copy.
SnapshotStart(p) ==
    /\ pc[p] = "SnapshotEngine"
    /\ ~snapshotInProgress
    /\ snapshotInProgress' = TRUE
    /\ CallGetState(p, "SnapshotSave")
    /\ UNCHANGED <<rewriteAOFInProgress, stateCopyInProgress, stateMutationInProgress, version>>

\* Write the snapshot file, SetLatestSnapshot, and FinishSnapshot.
SnapshotFinish(p) ==
    /\ pc[p] = "SnapshotSave"
    /\ snapshotInProgress' = FALSE
    /\ Goto(p, "Done")
    /\ UNCHANGED <<rewriteAOFInProgress, stateCopyInProgress, stateMutationInProgress, ret, version>>

\* rewrite(): StartRewriteAOF, then the state copy.
RewriteStart(p) ==
    /\ pc[p] = "RewriteLog"
    /\ rewriteAOFInProgress' = TRUE
    /\ CallGetState(p, "RewriteSave")
    /\ UNCHANGED <<snapshotInProgress, stateCopyInProgress, stateMutationInProgress, version>>

\* Write the compacted log, swap it in, and FinishRewriteAOF.
RewriteFinish(p) ==
    /\ pc[p] = "RewriteSave"
    /\ rewriteAOFInProgress' = FALSE
    /\ Goto(p, "Done")
    /\ UNCHANGED <<snapshotInProgress, stateCopyInProgress, stateMutationInProgress, ret, version>>

-----------------------------------------------------------------------------
(* Writers: SetValue's `server.store[key] = value`.  No handler reads or   *)
(* sets StateCopyInProgress or StateMutationInProgress.                    *)

StoreWrite(w) ==
    /\ version' = 1 - version
    /\ UNCHANGED <<flags, pc, ret>>

-----------------------------------------------------------------------------

Step(p) ==
    \/ TakeSnapshot(p) \/ RewriteAOF(p) \/ GetState(p)
    \/ SnapshotStart(p) \/ SnapshotFinish(p) \/ RewriteStart(p) \/ RewriteFinish(p)

Init ==
    /\ snapshotInProgress = FALSE
    /\ rewriteAOFInProgress = FALSE
    /\ stateCopyInProgress = FALSE
    /\ stateMutationInProgress = FALSE
    /\ pc = [p \in Callers |-> IF p \in SnapshotCallers THEN "TakeSnapshot" ELSE "RewriteAOF"]
    /\ ret = [p \in Callers |-> "Done"]
    /\ version = 0

\* Every call has been answered and every goroutine it started has ended.
Finished ==
    /\ \A p \in Callers : pc[p] \in {"Done", "Refused"}
    /\ UNCHANGED vars

Next == (\E p \in Callers : Step(p)) \/ (\E w \in Writers : StoreWrite(w)) \/ Finished

\* The Go scheduler runs every goroutine that can run; the GetState spin
\* re-tests the flags on every iteration.
Fairness == \A p \in Callers : WF_vars(Step(p))

Spec == Init /\ [][Next]_vars /\ Fairness

-----------------------------------------------------------------------------
(* Properties.                                                             *)

\* Every TakeSnapshot and RewriteAOF call is answered, and the snapshot or
\* rewrite it started runs to its end: no GetState spins forever on a copy
\* flag that nobody clears, and no engine waits forever on the snapshot flag.
AllPersistenceSettles == \A p \in Callers : <>(pc[p] \in {"Done", "Refused"})

\* Spec §4.1: GetState copies only while no other copy and no mutation is
\* in progress, and mutators yield while the copy flag is set.  So at most
\* one goroutine is inside GetState's copy loop, and no store write happens
\* while one is.
CopyIsolated ==
    /\ [](Cardinality({p \in Callers : pc[p] = "GetStateCopy"}) <= 1)
    /\ [][(\E p \in Callers : pc[p] = "GetStateCopy") => version' = version]_vars

=============================================================================
