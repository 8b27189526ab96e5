SPECIFICATION Spec
CONSTANTS
  e1 = e1
  e2 = e2
  w1 = w1
  w2 = w2
  Execution = {e1, e2}
  Worker = {w1, w2}
  NoExecution = NoExecution
  NoWorker = NoWorker
  OpOf <- OneOperation
  KeyOf <- OwnKeys
  NonceOf <- OwnNonces
  GrantFrom <- FromStart
  GrantUntil <- SecondExpires
  LeaseMs = 2
  Skew <- SecondLags
  ApiSkew = 0
  MaxTime = 3
INVARIANTS
  TypeOK
  AtMostOneCall
  ClaimableIsUntouched
  OutcomeIsHonest
  DispatchHoldsReservations
  OutboxTellsTheRow
  Fenced
PROPERTIES
  ImplementsEffectOnce
  LiveLeaseIsExclusive
  RowMovesForward
