SPECIFICATION Spec
CONSTANTS
  Client = {c1, c2}
  Task = {t1}
  Landing = {t1}
  MaxVersions = 3
  Fragile = {2}
  UpdateLeft = {"checking", "updating"}
  NoClient = NoClient
SYMMETRY Symmetric
INVARIANT TypeOK
PROPERTIES
  TasksBindTheSelected
  NoFactLost
  StopIsFinal
  LateDecisionsUndoNoRun
