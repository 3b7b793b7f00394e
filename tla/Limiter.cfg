SPECIFICATION Spec
CONSTANTS
    Keys = {k1, k2, k3}
    Calls = {c1, c2, c3, c4}
    Limit = 2
    Capacity = 2
    Window = 3
    MaxStall = 1
    MaxTime = 6
SYMMETRY LimiterSymmetry
INVARIANTS
    LimitHolds
    CapacityHolds
CHECK_DEADLOCK FALSE
