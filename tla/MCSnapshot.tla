----------------------------- MODULE MCSnapshot -----------------------------
(* Model-checking instance of Snapshot: two TakeSnapshot callers, two      *)
(* RewriteAOF callers and one writer, all model values.                     *)
EXTENDS Snapshot

CONSTANTS s1, s2, a1, a2, w1

MCSnapshotCallers == {s1, s2}
MCRewriteCallers == {a1, a2}
MCWriters == {w1}

====
