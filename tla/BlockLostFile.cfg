SPECIFICATION Spec
CONSTANTS
    a1 = a1
    a2 = a2
    d1 = d1
    d2 = d2
    d3 = d3
    Null = Null
    Devices = {d1, d2}
    Accounts = {a1}
    Owner <- OneAccount
    Blocks = {b1}
    Uploads = {u1, u2}
    Cleanups = {j1}
    CleanupKinds = {"discard"}
    Quota = 1
    ReservationTTL = 1
    GracePeriod = 2
    ClaimLimit = 1
    BatchSize = 1
    MaxSession = 0
    MaxFaults = 0
    MaxStall = 0
    Horizon = 2
    MaxTime = 3
INVARIANTS
    ReferencedHasFile
