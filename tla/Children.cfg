\* Two KeyDBClusters of one name, one after the other, with a child that is there
\* from the start or one fault, and another controller.
SPECIFICATION FairSpec
CONSTANTS
    Nil = Nil
    Specs <- OneSpec
    EditedSpecs <- OneSpec
    Leftovers <- SomeLeftovers
    MaxEdits = 0
    MaxIncarnations = 2
    MaxFaults = 1
INVARIANTS
    TypeOK
PROPERTIES
    ForeignChildrenAreLeftAlone
    ChildrenAreBuiltForTheLiveCluster
    ImplementsOwnership
    ChildrenSettle
    ReconcileComesToRest
CHECK_DEADLOCK FALSE
