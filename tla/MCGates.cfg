SPECIFICATION Spec
CONSTANTS
  t1 = t1
  t2 = t2
  c1 = c1
  c2 = c2
  c3 = c3
  Threads = {t1}
  Calls = {c1, c2, c3}
  Owner <- OneOwner
  Tool <- Mixed
  Patches = {q1}
  MaxPosts = 1
  Deleted = Deleted
INVARIANTS
  CardsAreAnswerable
  ReplyMatchesRow
PROPERTIES
  DecisionIsFinal
  RunningOnlyWithoutCards
  TurnEndAnswersAll
