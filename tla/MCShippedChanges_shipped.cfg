CONSTANTS
    Workers = {w1, w2}
    MaxClocks = 2
    MaxFaults = 1
SPECIFICATION ShippedFairSpec
INVARIANTS ShippedTypeOK AnswersAreToWhatWasAsked
PROPERTIES OneEnd ReadOutWhenDue EveryChangeEnds
