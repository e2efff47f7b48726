SPECIFICATION Spec
CONSTANTS
  Form <- MCForm
  Child <- MCChild
  File <- MCFile
  Open <- MCOpen
  MaxRuns = 2
  MaxRevision = 4
  MaxMishaps = 2
INVARIANTS TypeOK ReturnedIsObserved ReadyIsTheDraft HumanSeesTheDraft
PROPERTIES NoWriteAfterDoubt ImplementsHumanReview
CHECK_DEADLOCK FALSE
