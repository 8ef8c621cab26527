CONSTANTS
    Runners = {r1, r2}
    Notices = {n1}
    Alarms = {}
    Refusable = {n1}
    Channels = {c1, c2}
    None = None
    NoTarget = NoTarget
    ClaimTtl = 1
    MaxAttempts = 2
    MaxSpan = 1
    MaxFaults = 1
    MaxOutages = 1
    MaxMoves = 1
SPECIFICATION Spec
SYMMETRY Interchangeable
INVARIANTS PostsAreAccounted
PROPERTIES KeepsItsWord
