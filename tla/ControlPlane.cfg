SPECIFICATION Spec
CONSTANTS
    s1 = s1
    s2 = s2
    NoSlug = NoSlug
    Workers = {w1, w2}
    Slugs <- const_Slugs
    Taken = s2
    Scenarios <- const_Scenarios
INVARIANTS ControlPlaneConsistent
PROPERTIES RemovesItsOwn
CHECK_DEADLOCK FALSE
