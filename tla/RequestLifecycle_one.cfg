CONSTANTS
  Requests = {r1}
  s1 = s1
  Signals = {s1}
  NoSignal = NoSignal
  MaxRedirectCap = 2
  Configs <- AllEntries
SPECIFICATION FairSpec
CHECK_DEADLOCK FALSE
INVARIANTS NothingOutlivesRequest DeliveredStreamCancellable DeliveredStreamUndisturbed CauseIsTold
PROPERTIES NothingSentAfterAbort RequestEnds ImplementsCall
