\* GetState copies racing each other and a store write.
CONSTANTS
    s1 = s1
    s2 = s2
    a1 = a1
    a2 = a2
    w1 = w1
    SnapshotCallers <- MCSnapshotCallers
    RewriteCallers <- MCRewriteCallers
    Writers <- MCWriters
SPECIFICATION Spec
PROPERTY CopyIsolated
