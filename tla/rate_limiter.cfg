SPECIFICATION Spec
CONSTANTS
    Clients = {c1, c2}
    Limit = 2
    Window = 2
    MaxTime = 4
    MaxRestarts = 1
    None = None
SYMMETRY Symmetry
INVARIANTS
    WindowBound
    RefusedOnlyWhenFull
