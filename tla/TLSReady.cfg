\* The README's example with TLS.
SPECIFICATION FairSpec
CONSTANTS
    Nil = Nil
    Specs <- TLSExample
    EditedSpecs <- TLSExample
    Leftovers = {}
    MaxEdits = 0
    MaxIncarnations = 1
    MaxFaults = 0
INVARIANTS
    PodsCanBecomeReady
CHECK_DEADLOCK FALSE
