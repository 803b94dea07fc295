SPECIFICATION Spec
CONSTANTS
    m1 = m1
    m2 = m2
    m3 = m3
    s1 = s1
    s2 = s2
    s3 = s3
    Nobody = Nobody
    Order <- FileOrder
    Sessions = {s1, s2}
    Msgs = {m1, m2, m3}
    Kinds = {"select", "noop", "append"}
    Failures = {}
    Locks = TRUE
    Pop = TRUE
    InOrder = FALSE
    Ticks = TRUE
    Batch = 2
    MaxTime = 2
    MaxFailures = 0
    MaxRenames = 1
    MaxCrashes = 1
SYMMETRY Symmetry
INVARIANTS
    TypeOK
    NextUidAbove
PROPERTIES
    ImplementsUidSequence
    NoopMerges
