CONSTANTS
  Requests = {r1}
  p1 = p1
  Paths = {p1, p2}
  NoPath = NoPath
  g1 = g1
  Given = {g1}
  Default = Default
  Built = Built
  None = None
  Setups <- AllSetups
  MaxPaths = 1
  AgentCap = 2
SPECIFICATION Spec
CHECK_DEADLOCK FALSE
INVARIANT ClosingCutsNothing
