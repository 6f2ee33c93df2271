SPECIFICATION ProgramsSpec
CONSTANTS
    None = None
    p1 = p1
    p2 = p2
    x = x
    y = y
    Alien = Alien
    Built = Built
    Pods = {p1, p2}
    Required = {x, y}
    CaseFold <- const_CaseFold
    PodScenarios <- const_PodScenarios
    OutputCap = 1
    MaxWrites = 2
    Receipts <- const_Receipts
    Bodies <- const_Bodies
    DownloadCap = 2
    LogCap = 1
    MaxEvents = 5
    Hosts <- const_Hosts
    Files <- const_Files
    MaxChanges = 3
INVARIANTS ProgramsSound OutputsRight
CHECK_DEADLOCK FALSE
