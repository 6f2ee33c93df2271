CONSTANTS
    None = None
    Jobs = {1}
    Execs = {1}
    Scenarios <- Calm
SPECIFICATION Spec
PROPERTY CancelSticks
CHECK_DEADLOCK FALSE
