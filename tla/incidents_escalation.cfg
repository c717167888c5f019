SPECIFICATION FairSpec
CONSTANTS
    Incidents = {i1, i2}
    Seeded = {i2}
    SeedUser = alice
    Sessions = {s1}
    Workers = {w1, w2}
    Titles = {t1, t2}
    NumRules = 2
    NumLoops = 3
    Resolvable <- MCResolvable
    HasPrimary = TRUE
    HasSecondary = TRUE
    None = None
    MaxFaults = 1
INVARIANT EscalationAccount
PROPERTIES
    ImplementsContract
    SessionsEnd
    EscalatesToTheEnd
CHECK_DEADLOCK FALSE
