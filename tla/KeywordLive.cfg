\* No lock, two chunks: a scan, STORE, maildirkw and APPEND; updates that
\* conflict are eventually acknowledged.
SPECIFICATION FairSpec
CONSTANTS
  m1 = m1
  m2 = m2
  s1 = s1
  s2 = s2
  w1 = w1
  w2 = w2
  w3 = w3
  a1 = a1
  a2 = a2
  Msgs = {m1, m2}
  Arriving = {m2}
  Scanners = {s1}
  Storers = {w1}
  Setters = {w3}
  Adders = {}
  Appenders = {w2}
  Locking = FALSE
  MaxUpdates = 2
  MaxTime = 1
  ChunkTicks = 1
  AgeTicks = 3
  MaxStall = 0
  MayExpunge = FALSE

INVARIANTS TypeOK NoLostUpdate
PROPERTY UpdatesEnd
