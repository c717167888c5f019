SPECIFICATION OnCallSpec
CONSTANTS
    a = a
    b = b
    c = c
    User = {a, b, c}
    Starts = {0, 2}
    TurnLengths = {1, 3}
    Rotations <- MCRotations
    Bounds = {0, 2, 4}
    MaxLayers = 2
    MaxOverrides = 2
    Horizon = 7
    Nobody = Nobody
INVARIANTS
    AsDocumented
    EqualTurns
PROPERTIES
    OverridesAreLocal
