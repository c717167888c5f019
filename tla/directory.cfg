SPECIFICATION Spec
CONSTANTS
    Users = {u1, u2}
    Teams = {t1}
    Services = {s1}
    Requests = {r1, r2}
    None = None
    MaxKey = 2
SYMMETRY Symmetry
PROPERTIES
    DecidedOnTheTruth
    UpdatesCompose
