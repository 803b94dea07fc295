\* Two threads, two callers and three tasks.
SPECIFICATION FairSpec
CONSTANTS
  c1 = c1
  c2 = c2
  j1 = j1
  j2 = j2
  j3 = j3
  Nobody = Nobody
  NThreads = 2
  Callers = {c1, c2}
  Tasks = {j1, j2, j3}
INVARIANTS TypeOK CancelOnlyIdle WaitForAll
PROPERTIES MetadataStable ImplementsTaskPool TasksDone WaitReturns
