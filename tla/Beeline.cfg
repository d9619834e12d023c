CONSTANTS
  c1 = c1
  c2 = c2
  n1 = n1
  n2 = n2
  h1 = h1
  W = 8
  Hash = {3}
  Goroutine = {g1, g2}
  Client = {c1, c2}
  ZeroClient = ZeroClient
  Config <- MCConfig
  Plan <- MCPlan
  NoHook = NoHook
  None = None
  MaxTraces = 2
  MaxCalls = 4

SPECIFICATION Spec
SYMMETRY Symmetry
INVARIANT TypeOK
INVARIANT EventsNamed
INVARIANT FlushDelivers
INVARIANT RelatedDecisions
INVARIANT LabelsRestored
CHECK_DEADLOCK FALSE
