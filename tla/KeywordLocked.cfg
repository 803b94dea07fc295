\* Scans and maildirkw -l under the maildir lock, with crashes and aging.
SPECIFICATION Spec
CONSTANTS
  m1 = m1
  m2 = m2
  s1 = s1
  s2 = s2
  w1 = w1
  w2 = w2
  w3 = w3
  a1 = a1
  a2 = a2
  Msgs = {m1,m2}
  Arriving = {}
  Scanners = {s1}
  Storers = {}
  Setters = {}
  Adders = {a1,a2}
  Appenders = {}
  Locking = TRUE
  MaxUpdates = 2
  MaxTime = 5
  ChunkTicks = 1
  AgeTicks = 3
  MaxStall = 1
  MayExpunge = TRUE
INVARIANTS NoLostUpdate FreshLoad
PROPERTY AddSeesLatest
SYMMETRY Symmetry
