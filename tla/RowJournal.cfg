SPECIFICATION Spec
CONSTANTS
  Process = {p1, p2}
  Action = {x1, x2, x3}
  NoAction = NoAction
  a = a
  b = b
  Record = {a, b}
  Wish <- WishMC
  NoWish = NoWish
  MaxRevision = 4
SYMMETRY AllSymmetry
CHECK_DEADLOCK FALSE
INVARIANT TypeOK
PROPERTY ImplementsSharedDraft
