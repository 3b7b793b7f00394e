SPECIFICATION FairSpec
CONSTANTS
    a1 = a1
    a2 = a2
    d1 = d1
    d2 = d2
    d3 = d3
    Null = Null
    Devices = {d1, d3}
    Accounts = {a1, a2}
    Owner <- TwoAccounts
    Blocks = {b1}
    Uploads = {u1, u2}
    Cleanups = {j1}
    CleanupKinds = {"prune"}
    Quota = 1
    ReservationTTL = 1
    GracePeriod = 2
    ClaimLimit = 1
    BatchSize = 1
    MaxSession = 0
    MaxFaults = 1
    MaxStall = 1
    Horizon = 2
    MaxTime = 4
INVARIANTS
    TypeOK
    ClaimIsExclusive
    OrphansAreStamped
PROPERTIES
    ClaimSparesLiveFiles
    SweepSparesYoungFiles
    RevokedGainsNothing
    OrphanObjectsCollected
    OrphanFilesCollected
    ReservationsSettle
