SPECIFICATION Spec
CONSTANTS
    a1 = a1
    a2 = a2
    d1 = d1
    d2 = d2
    d3 = d3
    Null = Null
    Devices = {d1, d2}
    Accounts = {a1}
    Owner <- OneAccount
    Blocks = {b1, b2}
    Uploads = {u1, u2}
    Cleanups = {j1}
    CleanupKinds = {"discard"}
    Quota = 2
    ReservationTTL = 1
    GracePeriod = 1
    ClaimLimit = 1
    BatchSize = 1
    MaxSession = 1
    MaxFaults = 1
    MaxStall = 2
    Horizon = 1
    MaxTime = 1
SYMMETRY FullSymmetry
INVARIANTS
    ReferencesNest
    UsedIsExact
    QuotaHonoured
    OwnedIsReferenced
PROPERTIES
    ImplementsLedger
    PresentStaysPresent
