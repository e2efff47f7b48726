SPECIFICATION Spec
CONSTANTS
  NoTask = NoTask
  NoCode = NoCode
  Task = {t1}
  Code = {c1}
  Sender = {thread}
  Modes = {"live"}
  MaxAttempts = 2
PROPERTY AuthorizedResendProceeds
