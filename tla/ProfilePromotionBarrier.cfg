SPECIFICATION Spec
CONSTANTS
  Task = {t1, t2}
  Handler = {h1}
  Worker = worker
  MaxAnswers = 2
  MaxCrashes = 1
  NoTask = NoTask
SYMMETRY Symmetric
INVARIANT BarrierHasWork
