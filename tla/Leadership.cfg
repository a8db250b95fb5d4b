\* A new cluster, or one with an upgrade pending, and one change of leader with
\* a call under way, and perhaps a deletion.
SPECIFICATION OneTakeoverSpec
CONSTANTS
    Mode = "multi-master"
    Replicas = 1
    Shards = 1
    ReplicasPerShard = 0
    a = a
    b = b
    Images = {a, b}
    Broken = {}
    Invalid = {}
    NoImage = NoImage
    Strategies = {"RollingUpdate", "Recreate"}
    MaxEdits = 0
    MaxDeletes = 1
    MaxFaults = 0
PROPERTIES
    UserIntentIsKept
    CompletedMeansRolledOut
    ImplementsUpgradeLifecycle
CHECK_DEADLOCK FALSE
