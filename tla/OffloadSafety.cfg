CONSTANTS
    None = None
    Jobs = {1, 2}
    Execs = {1, 2, 3}
    Scenarios <- Troubled
SPECIFICATION Spec
INVARIANTS TypeOK SucceededHasOutput OneRemotePerRun OrphanAccounted QuotaAccounted
CHECK_DEADLOCK FALSE
