\* A new multi-master cluster of two pods.
SPECIFICATION Spec
CONSTANTS
    Mode = "multi-master"
    Replicas = 2
    Shards = 1
    ReplicasPerShard = 0
    a = a
    b = b
    c = c
    Images = {a}
    Broken = {}
    Invalid = {}
    NoImage = NoImage
    Strategies = {"RollingUpdate"}
    MaxEdits = 0
    MaxDeletes = 0
    MaxFaults = 0
SYMMETRY ImageSymmetry
PROPERTIES
    RunningMeansAllPodsAreReady
CHECK_DEADLOCK FALSE
