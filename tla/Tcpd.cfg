\* Three slots, two addresses of a netblock; failed forks, connections that
\* are gone when accepted, and an edit of the access file.
SPECIFICATION FairSpec
CONSTANTS
  p1 = p1
  p2 = p2
  p3 = p3
  a1 = a1
  a2 = a2
  Free = Free
  NProcs = 3
  Pids = {p1, p2, p3}
  Addrs = {a1, a2}
  Block <- Netblocks
  MaxPerIp <- Limits
  MaxPerC = 2
  MaxBacklog = 1
  MaxEdits = 1
  ForkFails = TRUE
  Aborts = TRUE
INVARIANTS TypeOK SlotsMatch LimitsKept HupNotLost
PROPERTIES ConnectionTaken
