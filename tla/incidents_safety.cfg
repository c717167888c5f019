SPECIFICATION Spec
CONSTANTS
    Incidents = {i1}
    Seeded = {}
    SeedUser = alice
    Sessions = {s1, s2, s3}
    Workers = {w1}
    Titles = {t1, t2}
    NumRules = 2
    NumLoops = 1
    Resolvable <- MCResolvable
    HasPrimary = TRUE
    HasSecondary = TRUE
    None = None
    MaxFaults = 1
SYMMETRY Symmetry
INVARIANTS
    TimelineExplainsRow
    OpenAlertExplained
PROPERTY ImplementsContract
CHECK_DEADLOCK FALSE
