SPECIFICATION Spec
CONSTANTS
    m1 = m1
    m2 = m2
    m3 = m3
    s1 = s1
    s2 = s2
    s3 = s3
    Nobody = Nobody
    Order <- FileOrder
    Sessions = {s1, s2}
    Msgs = {m1, m2}
    Kinds = {"select", "examine", "noop", "append"}
    Failures = {}
    Locks = TRUE
    Pop = FALSE
    InOrder = TRUE
    Ticks = TRUE
    Batch = 2
    MaxTime = 1
    MaxFailures = 0
    MaxRenames = 0
    MaxCrashes = 0
SYMMETRY Symmetry
PROPERTIES
    NoopMerges
