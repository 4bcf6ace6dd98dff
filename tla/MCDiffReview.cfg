SPECIFICATION Spec
CONSTANTS
  Threads = {t1, t2}
  Files = {f1, f2}
  Quoted = {f2}
  MaxTurns = 2
  MaxRows = 2
  Gone = Gone
SYMMETRY ThreadsAreAlike
INVARIANTS
  CommittedMeansReviewed
PROPERTIES
  RejectedIsRestored
  SubsetIsAtomic
CHECK_DEADLOCK FALSE
