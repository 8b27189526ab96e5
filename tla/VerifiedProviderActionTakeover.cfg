SPECIFICATION AnyDeaths
CONSTANTS
  w1 = w1
  w2 = w2
  Worker = {w1, w2}
  NoWorker = NoWorker
  LeaseMs = 2
  ExecLeaseMs = 2
  Skew <- Apart
  MaxEdits = 1
  MaxTime = 3
  MaxDeaths = 0
INVARIANTS
  TypeOK
  NoForeignOverwrite
  StoresAgree
PROPERTIES
  RecordIsFinal
  ImplementsEffectOnce
