SPECIFICATION FairSpec
CONSTANTS
    MaxRows = 2
    MaxShards = 5
    e1 = e1
    e2 = e2
    Execs <- MCExecs
    Scenarios <- MCScenarios
INVARIANTS TypeOK SourceKept PlansAccounted SucceededExtracted WorkAccounted
PROPERTIES CancelLostToFold Settles
CHECK_DEADLOCK FALSE
