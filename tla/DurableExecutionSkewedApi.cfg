SPECIFICATION FairSpec
CONSTANTS
  e1 = e1
  e2 = e2
  w1 = w1
  w2 = w2
  Execution = {e1}
  Worker = {w1}
  NoExecution = NoExecution
  NoWorker = NoWorker
  OpOf <- OneOperation
  KeyOf <- OwnKeys
  NonceOf <- OwnNonces
  GrantFrom <- FromStart
  GrantUntil <- NeverExpires
  LeaseMs = 2
  Skew <- FirstLeads
  ApiSkew = 1
  MaxTime = 5
PROPERTIES
  ExpiredIsRecovered
