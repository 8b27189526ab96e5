SPECIFICATION FairSpec
CONSTANTS
  e1 = e1
  e2 = e2
  w1 = w1
  w2 = w2
  Execution = {e1, e2}
  Worker = {w1}
  NoExecution = NoExecution
  NoWorker = NoWorker
  OpOf <- OwnOperations
  KeyOf <- OneKey
  NonceOf <- OwnNonces
  GrantFrom <- FromStart
  GrantUntil <- NeverExpires
  LeaseMs = 1
  Skew <- NoSkew
  ApiSkew = 0
  MaxTime = 2
PROPERTIES
  ExpiredIsRecovered
