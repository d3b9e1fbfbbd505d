CONSTANTS
  c1 = c1
  c2 = c2
  r1 = r1
  r2 = r2
  r3 = r3
  Flusher = Flusher
  None = None
  Callers <- MCCallers
  Requests <- MCRequests
  LimitPerService = 2
  MaxClears = 2
SPECIFICATION FairSpec
INVARIANTS TypeOK CountIsSize
PROPERTIES SamplerStable ImplementsRegistry CallReturns
