CONSTANTS
  Consumers = {"c1", "c2"}
  Services = {"s1"}
  Requests = {"r1", "r2"}
  Traces <- MCTraces
  Segments <- MCSegments
  Batches <- MCBatches
  LimitPerService = 1
  LimitPerRequest = 2
  Thresholds <- MCThresholds
  MaxUpdates = 0
  None = None
SPECIFICATION Spec
INVARIANT FlushesAllErrors
CHECK_DEADLOCK FALSE
