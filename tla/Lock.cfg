\* Three processes of two hosts; two may be killed anywhere, one
\* exits and its id is used again, and one reply to link() is lost.
SPECIFICATION FairSpec
CONSTANTS
    p1 = p1
    p2 = p2
    p3 = p3
    Nobody = Nobody
    Procs = {p1, p2, p3}
    Host <- TwoHosts
    MaxCrashes = 2
    MaxLosses = 1
    MaxExits = 1
    Brief = TRUE
    Prompt = TRUE
INVARIANTS
    TypeOK
    MutualExclusion
    HolderHasFile
PROPERTIES
    SomebodyLocks
