CONSTANTS
  Requests = {r1, r2}
  p1 = p1
  Paths = {p1, p2}
  NoPath = NoPath
  g1 = g1
  Given = {g1, g2}
  Default = Default
  Built = Built
  None = None
  Setups <- AllSetups
  MaxPaths = 1
  AgentCap = 2
SPECIFICATION FairSpec
CHECK_DEADLOCK FALSE
INVARIANTS TypeOK CallersDispatcherUntouched NoAgentForgotten DownLeavesNoStream
PROPERTIES ServedByOpenDispatcher AbandonedStreamsHoldNothingUp
