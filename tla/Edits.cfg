\* Two edits, back to the first image or to the other strategy among them, while
\* upgrades run; one pod.
SPECIFICATION RunningSpec
CONSTANTS
    Mode = "multi-master"
    Replicas = 1
    Shards = 1
    ReplicasPerShard = 0
    a = a
    b = b
    c = c
    Images = {a, b}
    Broken = {}
    Invalid = {}
    NoImage = NoImage
    Strategies = {"RollingUpdate", "Recreate"}
    MaxEdits = 2
    MaxDeletes = 0
    MaxFaults = 0
SYMMETRY ImageSymmetry
PROPERTIES
    UserIntentIsKept
    DeletedPodsComeBackUpgraded
    CompletedMeansRolledOut
    ImplementsUpgradeLifecycle
CHECK_DEADLOCK FALSE
