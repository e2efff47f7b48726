SPECIFICATION Spec
CONSTANTS
  NoTask = NoTask
  NoCode = NoCode
  Task = {t1}
  Code = {c1, c2}
  Sender = {thread}
  Modes = {"live", "isolated"}
  MaxAttempts = 2
SYMMETRY CodeSymmetry
INVARIANT TypeOK
INVARIANT OneSmsPerConsent
INVARIANT CodeOfCurrentAttempt
INVARIANT CodeIsFresh
INVARIANT CodeIsNoticed
