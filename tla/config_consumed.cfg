CONSTANTS
  good = good
  better = better
  bad = bad
  empty = empty
  labels1 = labels1
  labels2 = labels2
  badLabels = badLabels
  Configs <- MCConfigs
  Local <- MCLocal
  BadRules <- MCBadRules
  BadLabels <- MCBadLabels
  Empty = empty
  MaxChanges = 2
  None = None
SPECIFICATION Spec
PROPERTIES AcceptedOnlyWhenConsumed
CHECK_DEADLOCK FALSE
