SPECIFICATION FewFailures
CONSTANTS
  w1 = w1
  w2 = w2
  c1 = c1
  c2 = c2
  Worker = {w1, w2}
  Signer = {c1, c2}
  NoWorker = NoWorker
  Ahead <- Apart
  MaxWithout = 2
  MaxAge = 2
  MaxEntries = 3
  MaxFailures = 1
  MaxTime = 3
INVARIANTS
  TypeOK
  StreamTellsTheChain
  HashSealsHistory
  CheckpointsAreSpaced
PROPERTIES
  KeepsTheLog
  DueIsCheckpointed
