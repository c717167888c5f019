SPECIFICATION Spec
CONSTANTS
    Events = {"triggered", "acknowledged", "resolved"}
    Subscriptions = {"s1", "s2", "s3"}
    SubscribedTo <- MCSubscribedTo
    Changes = {"c1", "c2"}
    EventOf <- MCEventOf
    ServiceOf <- MCServiceOf
    Deletes = {d1, d2}
    None = None
SYMMETRY Symmetry
INVARIANTS
    DeliveriesKeepTheirSubscription
    SubscribersAreTold
    SomebodyMoves
