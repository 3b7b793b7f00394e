SPECIFICATION Spec
CONSTANTS
    Nonces = {n1, n2}
    Copies = {c1, c2, c3}
    Skew = 1
    Margin = 2
    MaxStall = 1
    MaxTime = 6
SYMMETRY NonceSymmetry
INVARIANTS
    AcceptedOnce
