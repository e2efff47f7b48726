SPECIFICATION Spec
CONSTANTS
  t1 = t1
  t2 = t2
  p1 = p1
  Task = {t1, t2}
  Profile = {p1}
  profile_ref <- MCProfileRef
  max_attempts = 2
  Owner = {o1, o2}
  Attempt = {a1, a2}
  Client = {}
  Landing = {t2}
  Preparable = {t1}
  Reports <- SessionReports
  NoTask = NoTask
  NoOwner = NoOwner
  NoAttempt = NoAttempt
SYMMETRY Symmetric
INVARIANTS
  NoReplay
PROPERTIES
  ImplementsSiteAccess
CHECK_DEADLOCK FALSE
