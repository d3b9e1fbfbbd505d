CONSTANTS
  root1 = root1
  root2 = root2
  inner = inner
  other = other
  stray = stray
  single = single
  Spans <- MCSpans
  Data <- MCData
  Batches <- MCBatches
  SpanAttributes <- MCSpanAttributes
  Consumers = {c1, c2}
  SampleTypes = {"slow"}
  MaxUpdates = 1
  NoService = NoService
  Absent = Absent
  NoValue = NoValue
SPECIFICATION FairSpec
INVARIANTS TypeOK
PROPERTIES OnlyEarlierRootsLost SpanEnrichedByOneConfig CapturedAsExported
           ShutdownEndsLoops
CHECK_DEADLOCK FALSE
