CONSTANTS
  Items <- MCItems
  Latency <- MCLatency
  Limits <- MCLimits
SPECIFICATION Spec
INVARIANTS TypeOK HeapOrdered
PROPERTY ImplementsTraceQueue
CHECK_DEADLOCK FALSE
