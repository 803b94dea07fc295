SPECIFICATION Spec
CONSTANTS
    s1 = s1
    s2 = s2
    m1 = m1
    m2 = m2
    Sessions = {s1, s2}
    Msgs = {m1, m2}
    Order <- NameOrder
    MaxFaults = 1
    MaxRenames = 1
CONSTRAINT Few
SYMMETRY Symmetry
INVARIANTS
    UidlsKept
PROPERTIES
    RemovedAsAsked
