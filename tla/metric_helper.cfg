SPECIFICATION Spec
CONSTANTS
  Callers = {c1, c2}
  Contexts = {home, cart}
  Limit = 1
  LabelSets <- MCLabelSets
  FirstLabels = "method"
  MaxCalls = 2
  MaxExpiries = 1
  MaxUpdates = 2
  None = None
INVARIANTS
  TypeOK
  LabelsFitUnlessUpdated
  SeriesKnown
  ObservationsServed
  CurrentRegistryServed
  FatalOnlyWhenOvertaken
SYMMETRY MCSymmetry
CHECK_DEADLOCK FALSE
