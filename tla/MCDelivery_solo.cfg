CONSTANTS
    f1 = f1
    f2 = f2
    f3 = f3
    Findings = {f1, f2}
    Channels = {c1, c2}
    Workers = {w1}
    NoChannel = NoChannel
    NoFinding = NoFinding
    Confidence <- MCConfidence
    Held = {}
    Unreadable = {}
    Poison = {}
    Budget = 1
    TTL = 1
    Week = 1
    Considered = 2
    ReadLimit = 2
    MaxSpan = 1
    Horizon = 3
    MaxDue = 1
    MaxFaults = 1
    MaxMoves = 1
SPECIFICATION FairSpec
INVARIANTS KeepsTheCadence
PROPERTIES MovedBacklogStaysPut EveryFindingSettles
