SPECIFICATION MCSpec
CONSTANTS
  p1 = p1
  p2 = p2
  r1 = r1
  r2 = r2
  Nil = Off
  Plane = {p1, p2}
  Release = {r1, r2}
  Digest = {"d1"}
  Binding = {"b"}
  MaxRevision = 3
  Off = Off
  Refused = Refused
SYMMETRY Interchangeable
INVARIANTS
  AllTypesOK
  DeploymentsAreSound
  StudioIsSound
  QuotaIsSound
  MoneyIsSound
  AuthorityIsSound
  ApplicationsAreSound
PROPERTIES
  PlaneSpec
  StepsAreSound
\* A process whose calls have been answered may stop.
CHECK_DEADLOCK FALSE
