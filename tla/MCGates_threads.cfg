SPECIFICATION SpecTimers
CONSTANTS
  t1 = t1
  t2 = t2
  c1 = c1
  c2 = c2
  c3 = c3
  Threads = {t1, t2}
  Calls = {c1, c2}
  Owner <- TwoOwners
  Tool <- Shells
  Patches = {}
  MaxPosts = 1
  Deleted = Deleted
PROPERTIES
  AllowNeedsConsent
  HooksAreAnswered
