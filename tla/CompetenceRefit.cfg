SPECIFICATION Spec
CONSTANTS
    f = f
    r = r
    t1 = t1
    t2 = t2
    t3 = t3
    c1 = c1
    c2 = c2
    NoJob = NoJob
    NoTask = NoTask
    Jobs = {f, r}
    Tasks = {t1, t2, t3}
    Previous <- FitThenRefit
    Refusable = {}
    CleanupOps = {}
    MaxRetries = 0
    BatchSize = 1
    MaxFaults = 1
    MaxEarly = 0
SYMMETRY Perms
INVARIANTS RefitChain
