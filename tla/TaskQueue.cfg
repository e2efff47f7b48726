SPECIFICATION Spec
CONSTANTS
  t1 = t1
  t2 = t2
  p1 = p1
  Task = {t1, t2}
  Profile = {p1}
  profile_ref <- MCProfileRef
  max_attempts = 1
  Owner = {o1, o2}
  Attempt = {a1}
  Client = {c1}
  Landing = {}
  Preparable = {}
  Reports <- FormReports
  NoTask = NoTask
  NoOwner = NoOwner
  NoAttempt = NoAttempt
SYMMETRY Symmetric
INVARIANTS
  TypeOK
  ProtectedNeverRuns
PROPERTIES
  HumanBoundaryHolds
  ReconciliationSticks
  NoSilentChange
CHECK_DEADLOCK FALSE
