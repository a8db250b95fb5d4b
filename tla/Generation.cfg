\* One KeyDBCluster of each spec, created, edited and deleted.
SPECIFICATION FairSpec
CONSTANTS
    Nil = Nil
    Specs <- AllSpecs
    EditedSpecs <- Edited
    Leftovers = {}
    MaxEdits = 1
    MaxIncarnations = 1
    MaxFaults = 0
INVARIANTS
    PodsFindWhatTheyNeed
    GeneratedChildrenFit
PROPERTIES
    ChildrenSettle
    ReconcileComesToRest
CHECK_DEADLOCK FALSE
