CONSTANTS
    Runners = {r1}
    Notices = {n1, a1}
    Alarms = {a1}
    Refusable = {n1}
    Channels = {c1}
    None = None
    NoTarget = NoTarget
    ClaimTtl = 1
    MaxAttempts = 2
    MaxSpan = 1
    MaxFaults = 1
    MaxOutages = 1
    MaxMoves = 0
SPECIFICATION FairSpec
PROPERTIES NothingIsStranded
