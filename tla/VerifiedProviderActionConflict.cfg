SPECIFICATION AnyDeaths
CONSTANTS
  w1 = w1
  w2 = w2
  Worker = {w1}
  NoWorker = NoWorker
  LeaseMs = 1
  ExecLeaseMs = 1
  Skew <- NoSkew
  MaxEdits = 1
  MaxTime = 1
  MaxDeaths = 0
INVARIANTS
  RecordStaysReadable
