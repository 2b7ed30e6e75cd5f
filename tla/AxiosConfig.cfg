CONSTANTS
  Requests <- SomeRequests
  MaxAttempts = 3
  MaxEdits = 1
  NewValues <- SomeValues
  NewData <- ReplacedData
SPECIFICATION Spec
CHECK_DEADLOCK FALSE
INVARIANTS ConfigShowsWhatWasSent ReplayRepeatsTheRequest ResubscriptionStartsFresh BodyKeepsItsLabel
