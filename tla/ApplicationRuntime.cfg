SPECIFICATION MCSpec
CONSTANTS
  p1 = p1
  p2 = p2
  c1 = c1
  c2 = c2
  s1 = s1
  u1 = u1
  u2 = u2
  r1 = r1
  r2 = r2
  t1 = t1
  e1 = e1
  j1 = j1
  Nil = Nil
  Caller = {p1, p2}
  RunCaller = {c1, c2}
  RunId = {r1}
  Scope = "here"
  Resolution = {"x", "foreign", "bare"}
  ScopeOf <- Here
  Declares <- OneFlow
  Wait <- EitherWait
  MaxRunRevision = 5
  TaskId = {t1}
  User = {u1, u2}
  Result = {"done"}
  Timing <- Timings
  Skew <- NoSkew
  MaxRevision = 4
  MaxTime = 2
SYMMETRY Interchangeable
INVARIANTS
  AllTypesOK
  RunsAreSound
  TasksAreSound
  EventsAreSound
  JobsAreSound
  ExperiencesAreSound
PROPERTIES
  EndsAreFinal
\* A caller whose services have all answered may stop.
CHECK_DEADLOCK FALSE
