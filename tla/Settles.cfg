\* A running cluster, or a new KeyDBCluster with an invalid image, left alone
\* after at most one edit, a deletion, and one fault.
SPECIFICATION FairRunningOrInvalidSpec
CONSTANTS
    Mode = "multi-master"
    Replicas = 1
    Shards = 1
    ReplicasPerShard = 0
    a = a
    b = b
    c = c
    Images = {a, b, c}
    Broken = {}
    Invalid = {c}
    NoImage = NoImage
    Strategies = {"RollingUpdate"}
    MaxEdits = 1
    MaxDeletes = 1
    MaxFaults = 1
INVARIANTS
    InvalidSpecIsNeverApplied
PROPERTIES
    NothingIsBuiltForAGoneCluster
    Settles
CHECK_DEADLOCK FALSE
