SPECIFICATION Spec
CONSTANTS
  Callers = {c1}
  Contexts = {home}
  Limit = 1
  LabelSets <- MCLabelSets
  FirstLabels = "method"
  MaxCalls = 1
  MaxExpiries = 0
  MaxUpdates = 1
  None = None
INVARIANTS
  NoLabelPanic
CHECK_DEADLOCK FALSE
