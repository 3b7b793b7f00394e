SPECIFICATION EventsSpec
CONSTANTS
    a1 = a1
    d1 = d1
    d2 = d2
    d3 = d3
    Null = Null
    Devices = {d1, d2, d3}
    Accounts = {a1}
    Owner <- OneAccount
    Rank <- Ranks
    Macs = {m1}
    Handlers = {h1, h2}
    Kinds = {"generate", "redeem", "discard", "ticket"}
    Conns = {c1}
    Tickets = {t1}
    CodeTTL = 1
    TicketTTL = 1
    QueueSize = 1
    MaxSubs = 1
    MaxTime = 0
    Faults = FALSE
SYMMETRY EventSymmetry
CHECK_DEADLOCK FALSE
INVARIANTS
    EventsTypeOK
    DiscardReachesListeners
    MergeReachesListeners
