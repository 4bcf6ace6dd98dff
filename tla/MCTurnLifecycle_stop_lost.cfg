SPECIFICATION Spec
CONSTANTS
  t1 = t1
  t2 = t2
  p1 = p1
  r1 = r1
  r2 = r2
  Projects = {p1}
  Threads = {t1, t2}
  Home <- HomeShared
  Requests = {r1}
  Free = Free
  NoThread = NoThread
  Unborn = Unborn
  Deleted = Deleted
INVARIANT StopReachesTheTurn
