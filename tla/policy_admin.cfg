SPECIFICATION Spec
CONSTANTS
    p = p
    s = s
    u = u
    v = v
    Request = {r1, r2, r3}
    Policy = {p}
    Schedule = {s}
    User = {u, v}
    RuleLists <- MCRuleLists
    LayerLists <- MCLayerLists
    MaxFaults = 1
    None = None
    Keep = Keep
SYMMETRY Symmetry
INVARIANTS
    ListsWhole
    OneListUnlessRaced
    ReferencesExist
    SomebodyMoves
PROPERTIES
    NobodyUnlessRaced
