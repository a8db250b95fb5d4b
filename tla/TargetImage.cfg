\* Two upgrades of a cluster of one pod.
SPECIFICATION RunningSpec
CONSTANTS
    Mode = "multi-master"
    Replicas = 1
    Shards = 1
    ReplicasPerShard = 0
    a = a
    b = b
    c = c
    Images = {a, b}
    Broken = {}
    Invalid = {}
    NoImage = NoImage
    Strategies = {"RollingUpdate"}
    MaxEdits = 2
    MaxDeletes = 0
    MaxFaults = 0
SYMMETRY ImageSymmetry
INVARIANTS
    TargetImageIsOfThisUpgrade
CHECK_DEADLOCK FALSE
