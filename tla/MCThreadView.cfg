SPECIFICATION Spec
CONSTANTS
  Threads = {t1, t2}
  Gates = {g1}
  NoThread = NoThread
  MaxLength = 2
  MaxWrites = 2
  MaxCalls = 2
  MaxLate = 1
  MaxFaults = 1
SYMMETRY ThreadsAreAlike
INVARIANTS
  ChatOfSelected
  NothingHeardIsMissed
  
