SPECIFICATION Spec
CONSTANTS
    f = f
    r = r
    t1 = t1
    t2 = t2
    t3 = t3
    c1 = c1
    c2 = c2
    NoJob = NoJob
    NoTask = NoTask
    Jobs = {f}
    Tasks = {t1, t2}
    Previous <- OneFit
    Refusable = {}
    CleanupOps = {}
    MaxRetries = 1
    BatchSize = 1
    MaxFaults = 2
    MaxEarly = 0
SYMMETRY Perms
PROPERTY SucceededStable
