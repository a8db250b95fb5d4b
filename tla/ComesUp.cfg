\* A new KeyDBCluster in cluster mode: three masters.
SPECIFICATION FairSpec
CONSTANTS
    Mode = "cluster"
    Replicas = 1
    Shards = 3
    ReplicasPerShard = 0
    a = a
    b = b
    c = c
    Images = {a}
    Broken = {}
    Invalid = {}
    NoImage = NoImage
    Strategies = {"RollingUpdate"}
    MaxEdits = 0
    MaxDeletes = 0
    MaxFaults = 0
PROPERTIES
    EveryClusterComesUp
CHECK_DEADLOCK FALSE
