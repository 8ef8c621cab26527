CONSTANTS
    Pollers = {w1, w2}
    Garbled = {3}
    Late = {2}
    PageLimit = 1
    PageCap = 2
    FirstCap = 1
    Overlap = 0
    MaxPasses = 2
    MaxEvent = 4
    MaxConnects = 1
    MaxFaults = 1
SPECIFICATION FairSpec
INVARIANTS NothingIsPassedOver NoFalseDrain
PROPERTIES EveryEventIsStored
