SPECIFICATION FilesSpec
CONSTANTS
    a1 = a1
    d1 = d1
    d2 = d2
    d3 = d3
    Null = Null
    Devices = {d1, d2}
    Accounts = {a1}
    Owner <- OneAccount
    Rank <- PairRanks
    Macs = {m1}
    Handlers = {h1, h2}
    Kinds = {"generate", "redeem", "read", "write", "erase", "discard", "revoke"}
    CodeTTL = 1
    MaxTime = 0
    Sessions = {s1}
    MaxWrites = 3
SYMMETRY HandlerSymmetry
CHECK_DEADLOCK FALSE
INVARIANTS
    FilesTypeOK
    FilesHaveGroups
    VersionsNameTexts
PROPERTIES
    OverwritesWhatWasRead
    MembersKeepFiles
