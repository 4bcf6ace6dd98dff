SPECIFICATION SpecHandler
CONSTANTS
  r1 = r1
  r2 = r2
  c1 = c1
  c2 = c2
  c3 = c3
  Requests = {r1, r2}
  Batches = {r1}
  Children = {c1, c2, c3}
  Of <- TwoAndOne
  Files = {f1}
  MaxTurns = 2
  Committed = Committed
  Parent = Parent
  Missing = Missing
INVARIANTS
  ConflictsStayResolvable
PROPERTIES
  ServedInOrder
  RunSettlesOnce
  MergeLosesNoWork
  MergeNeverGuesses
  RequestsAreAnswered
