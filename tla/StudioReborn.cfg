SPECIFICATION Spec
CONSTANTS
  Nil = Nil
  Author = {p1, p2}
  Document = {"x", "y"}
  Publishable = {"x", "y"}
  MaxVersion = 3
  MaxBirths = 2
  MaxTime = 0
INVARIANTS
  PublicationIsItsRevision
CHECK_DEADLOCK FALSE
