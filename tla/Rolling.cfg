\* One RollingUpdate upgrade of a running cluster of two pods.
SPECIFICATION RunningSpec
CONSTANTS
    Mode = "multi-master"
    Replicas = 2
    Shards = 1
    ReplicasPerShard = 0
    a = a
    b = b
    c = c
    Images = {a, b}
    Broken = {}
    Invalid = {}
    NoImage = NoImage
    Strategies = {"RollingUpdate"}
    MaxEdits = 1
    MaxDeletes = 0
    MaxFaults = 0
SYMMETRY ImageSymmetry
INVARIANTS
    TypeOK
PROPERTIES
    CompletedMeansRolledOut
    ImplementsUpgradeLifecycle
CHECK_DEADLOCK FALSE
