CONSTANTS
    Pollers = {w1}
    Garbled = {}
    Late = {}
    PageLimit = 2
    PageCap = 2
    FirstCap = 1
    Overlap = 1
    MaxPasses = 2
    MaxEvent = 4
    MaxConnects = 1
    MaxFaults = 0
SPECIFICATION FairSpec
PROPERTIES BacklogDrains
