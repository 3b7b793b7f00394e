SPECIFICATION FairSpec
CONSTANTS
    Null = Null
    MaxRuns = 3
    MaxAlive = 2
    MaxRequests = 1
    MaxFaults = 1
CHECK_DEADLOCK FALSE
INVARIANTS
    OneInstance
    TokensSurvive
PROPERTIES
    SignalledExits
