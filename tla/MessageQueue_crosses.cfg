SPECIFICATION Spec
CONSTANTS
  Threads = {t1, t2}
  Items = {i1, i2, i3}
  NoThread = NoThread
  Begun = t1
  AnswersFirst = TRUE
  MaxReads = 1
  MaxUpsets = 1
INVARIANTS
  StaysWithItsThread
