CONSTANTS
  HighWater = 1
  Inflation = 2
  Sizes = {2}
  Confs <- SomeConfs
SPECIFICATION FairSpec
CHECK_DEADLOCK FALSE
PROPERTY LeftBodyIsReleased
