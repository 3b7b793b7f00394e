SPECIFICATION Spec
CONSTANTS
    Users = {u1}
    Attempts = {a1, a2, a3, a4}
    Handlers = {h1, h2}
    Capacity = 2
    TTL = 3
    MaxStall = 1
    MaxTime = 3
    Null = Null
SYMMETRY ConnectionSymmetry
INVARIANTS
    GrantedOnce
    OneAccountPerName
    PushedOutByYounger
