CONSTANTS
    None = None
    Jobs = {1}
    Execs = {1, 2}
    Scenarios <- Calm
SPECIFICATION FairSpec
PROPERTY Settles
CHECK_DEADLOCK FALSE
