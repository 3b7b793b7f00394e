SPECIFICATION Spec
CONSTANTS
    a1 = a1
    d1 = d1
    d2 = d2
    d3 = d3
    Null = Null
    Devices = {d1, d2, d3}
    Accounts = {a1}
    Owner <- OneAccount
    Rank <- Ranks
    Macs = {m1, m2}
    Handlers = {h1, h2}
    Kinds = {"generate", "redeem", "revoke", "discard", "list"}
    CodeTTL = 1
    MaxTime = 1
SYMMETRY HandlerSymmetry
CHECK_DEADLOCK FALSE
INVARIANTS
    GroupsAreInhabited
    CodesFollowInviter
    ListingIsComplete
PROPERTIES
    RevisionTellsGrowth
