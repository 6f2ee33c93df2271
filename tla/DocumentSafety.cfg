SPECIFICATION FairSpec
CONSTANTS
    run1 = run1
    art1 = art1
    e1 = e1
    e2 = e2
    NoRow = NoRow
    Runs = {run1}
    Artifacts = {art1}
    ArtifactOf <- OneArtifact
    Stages = 3
    Lift = 1
    Execs = {e1, e2}
    MaxRequests = 1
    MaxFaults = 3
INVARIANTS TypeOK OneOwner RowsAgree SucceededComplete EscalationFollows AbandonedByCrash
PROPERTIES SucceededFinal Settles
CHECK_DEADLOCK FALSE
