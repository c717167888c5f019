SPECIFICATION FairSpec
CONSTANTS
    Notifs = {e1, h1}
    Webhooks = {h1}
    Workers = {w1, w2}
    BatchLimit = 2
    MaxAttempts = 3
    None = None
    MaxFaults = 2
INVARIANTS
    ClaimExclusive
    AttemptsBounded
    OutcomeEarned
    AtMostOneLateMail
    OrphansBounded
    AuditIsHonest
    DeliveriesAreTold
PROPERTY SettledOrStranded
CHECK_DEADLOCK FALSE
