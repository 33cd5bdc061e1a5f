\* A leader and a follower; two commands, a deadline and a snapshot.
SPECIFICATION Spec
CONSTANTS
    Job = {j1, j2}
    Node = {n1, n2}
    Leader = n1
    MaxRetry = 1
    BatchSize = 1
    ApplyCap = 1
    MaxLog = 2
    MaxSnap = 1
    MaxExpire = 1
INVARIANTS
    IndexConsistency
    KnowsWhatWasApplied
    SnapshotCoversCompacted
PROPERTIES
    NoRevival
    CommittedIsApplied
CHECK_DEADLOCK FALSE
