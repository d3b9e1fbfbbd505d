CONSTANTS
  Entities = {"e1", "e2"}
  Requests = {"r"}
  AnyRequest = ""
  Tables <- MCTables
  Defaults = {3, 4}
  FirstServed <- MCFirstServed
  FirstDefault = 3
  Callers = {"c"}
  f1 = f1
  f2 = f2
  Fetches <- MCFetches
  MaxChanges = 1
  None = None
SPECIFICATION FairSpec
INVARIANTS TypeOK ThresholdsOfEntity AnswerFromItsTime
PROPERTIES ThresholdsCatchUp
