SPECIFICATION FairSpec
CONSTANTS
    Execs = {e1, e2}
    Pods <- const_Pods
    NoPod = NoPod
    MaxCancels = 1
    MaxFaults = 2
INVARIANTS TypeOK PodsAccounted SucceededPublished
PROPERTIES CancelOverwrittenOnlyBySave Settles
CHECK_DEADLOCK FALSE
