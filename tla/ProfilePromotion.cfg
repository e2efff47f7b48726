SPECIFICATION FairSpec
CONSTANTS
  Task = {t1, t2}
  Handler = {h1}
  Worker = worker
  MaxAnswers = 2
  MaxCrashes = 1
  NoTask = NoTask
INVARIANTS
  TypeOK
  NoStaleReader
  AppliedIsWritten
  NewestAnswerWins
PROPERTY AnswerReachesProfile
