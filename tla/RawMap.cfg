SPECIFICATION TableSpec
CONSTANTS
    Keys = {k1, k2, k3}
    Values = {v1, v2}
    NoEntry = NoEntry
    MaxSlots = 8
    MIN_CAPACITY = 4
SYMMETRY Symmetry
INVARIANTS Layout
PROPERTIES ImplementsBoundedMap
