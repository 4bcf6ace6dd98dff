SPECIFICATION Spec
CONSTANTS
  Mcps = {m}
  Vcs = {v}
  Flows = {f1, f2}
  Uses = {u1}
  MaxCallbacks = 2
INVARIANTS
  ConnectedHasTokens
  DisconnectHolds
PROPERTIES
  RefusalEnds
