SPECIFICATION Spec
CONSTANTS
  WeightVT = 60
  WeightOTX = 40
  Threshold = 60
  TtlMalicious = 24
  TtlClean = 6
  RetryInterval = 1
  ReviewInterval = 30
  Horizon = 70
CHECK_DEADLOCK FALSE
INVARIANTS TypeOK OutageRetryBound OutageNeverCloses
 
