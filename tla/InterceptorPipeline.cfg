CONSTANTS
  Instances = {axiosRef, child}
  Calls = {c1}
  Handlers <- SomeHandlers
  MaxUses = 2
  MaxNatives = 1
SPECIFICATION FairSpec
CHECK_DEADLOCK FALSE
INVARIANTS TypeOK IdsStayStable RunsInAxiosOrder RunsWhatWasInForce
PROPERTIES DispatchedThroughCurrent NothingRunsAfterLeaving EveryoneIsTold
