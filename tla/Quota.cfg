SPECIFICATION FairSpec
CONSTANTS
    m1 = m1
    m2 = m2
    m3 = m3
    Msgs <- TwoMsgs
    Quota = 1
    MaxLines = 3
    MaxTries = 2
    Kinds = {"after", "before", "expunge", "trash"}
    SameSecond = FALSE
    MaxFaults = 1
    MaxUnseen = 1
CHECK_DEADLOCK FALSE
INVARIANTS
    TypeOK
PROPERTIES
    CountsExact
    DriftOnlyFromRaces
    DeliveryResumes
