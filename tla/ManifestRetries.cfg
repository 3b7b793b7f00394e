SPECIFICATION Spec
CONSTANTS
    Writes = {w1, w2, w3}
    Requests = {r1, r2, r3}
    Null = Null
SYMMETRY ManifestSymmetry
CHECK_DEADLOCK FALSE
INVARIANTS
    AcknowledgedIsStored
    ConflictIsReal
PROPERTIES
    ImplementsLog
