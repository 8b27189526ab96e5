SPECIFICATION FewDeaths
CONSTANTS
  w1 = w1
  w2 = w2
  Worker = {w1, w2}
  NoWorker = NoWorker
  LeaseMs = 1
  ExecLeaseMs = 1
  Skew <- OneBehind
  MaxEdits = 0
  MaxTime = 1
  MaxDeaths = 1
PROPERTIES
  VerifyingSettles
