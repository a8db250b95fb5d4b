\* The type of the service is changed.
SPECIFICATION FairSpec
CONSTANTS
    Nil = Nil
    Specs <- OneSpec
    EditedSpecs <- WithNodePort
    Leftovers = {}
    MaxEdits = 1
    MaxIncarnations = 1
    MaxFaults = 0
PROPERTIES
    ServicesAreUpdated
CHECK_DEADLOCK FALSE
