SPECIFICATION Spec
CONSTANTS
    m1 = m1
    m2 = m2
    m3 = m3
    s1 = s1
    s2 = s2
    s3 = s3
    Nobody = Nobody
    Order <- FileOrder
    Sessions = {s1, s2}
    Msgs = {m1, m2}
    Kinds = {"select", "noop", "status"}
    Failures = {"create", "open", "write"}
    Locks = TRUE
    Pop = FALSE
    InOrder = TRUE
    Ticks = TRUE
    Batch = 1
    MaxTime = 2
    MaxFailures = 1
    MaxRenames = 0
    MaxCrashes = 1
SYMMETRY Symmetry
INVARIANTS
    MessageKeepsUid
    UidNextKept
