SPECIFICATION Spec
CONSTANTS
  Hand = {h1}
  Window = {w1, w2}
  Daemon = {d1, d2}
  Key = {k1, k2}
  NoKey = NoKey
  Nobody = Nobody
  Empty = Empty
  Foreign = Foreign
  MaxBundle = 2
  MaxWrites = 2
  MaxMishaps = 1
SYMMETRY MCSymmetry
INVARIANTS TypeOK ProvenJournal OneInitialization
PROPERTIES ReportsAreTrue
CHECK_DEADLOCK FALSE
