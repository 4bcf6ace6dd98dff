SPECIFICATION Spec
CONSTANTS
  r1 = r1
  r2 = r2
  c1 = c1
  c2 = c2
  c3 = c3
  Requests = {r1, r2}
  Batches = {}
  Children = {c1, c2}
  Of <- OneEach
  Files = {f1}
  MaxTurns = 2
  Committed = Committed
  Parent = Parent
  Missing = Missing
INVARIANT OneWriterPerTree
