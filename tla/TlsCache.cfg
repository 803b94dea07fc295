SPECIFICATION Spec
CONSTANTS
  i1 = i1
  i2 = i2
  Junk = Junk
  FileSize = 14
  HdrSize = 2
  ObjSize = 1
  Lengths = {1, 2, 6}
  Ids = {i1}
  IntSize = 4
  SizeSize = 4
  MaxPops = 4
INVARIANTS TypeOK RemovedIfLarge
PROPERTIES ImplementsCache DropsForRoom
