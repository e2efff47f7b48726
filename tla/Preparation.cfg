CONSTANTS
  n1 = n1  n2 = n2  t1 = t1  t2 = t2
  Nonce = {n1, n2}
  Task = {t1, t2}
  Plan <- MCPlan
  HasResume = TRUE
  MaxVersion = 1
  MaxMishaps = 1
  NoNonce = NoNonce
  Foreign = Foreign
SPECIFICATION Spec
INVARIANTS TypeOK JournalsTellTheTruth OneLateEffect SendIsConfirmed ClosedIsSettled
PROPERTY ImplementsOneShot
SYMMETRY Symmetry
CHECK_DEADLOCK FALSE
