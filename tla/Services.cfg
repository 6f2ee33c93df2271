SPECIFICATION ServicesSpec
CONSTANTS
    a = a
    b = b
    t1 = t1
    t2 = t2
    t3 = t3
    acme = acme
    other = other
    None = None
    Unset = Unset
    Threads = {t1, t2, t3}
    Procs = {a, b}
    ProcOf <- const_ProcOf
    Versions = {1, 2}
    MaxEntries = 1
    LargeFrom = 3
    MaxNodes = 3
    MaxEdges = 6
    Scenarios <- const_Scenarios
    orders = orders
    Garbled = Garbled
    Payloads <- const_Payloads
    Keys <- const_Keys
    MaxBytes = 2
    OutputCap = 3
    Renders <- const_Renders
    RenderScenarios <- const_RenderScenarios
INVARIANT ServicesSound
PROPERTY ServesContract
CHECK_DEADLOCK FALSE
