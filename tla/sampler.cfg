CONSTANTS
  Consumers = {"c1", "c2"}
  Services = {"s1"}
  Requests = {"r1", "r2"}
  Traces <- MCTraces
  Segments <- MCSegments
  Batches <- MCBatches
  LimitPerService = 1
  LimitPerRequest = 2
  Thresholds <- MCThresholds
  MaxUpdates = 1
  None = None
SPECIFICATION FairSpec
INVARIANTS TypeOK SampledOnce FlushedInFull TracesSettled
PROPERTIES UsesRegistries QueuedTraceLeaves
CHECK_DEADLOCK FALSE
