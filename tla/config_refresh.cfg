CONSTANTS
  good = good
  better = better
  bad = bad
  empty = empty
  labels1 = labels1
  labels2 = labels2
  badLabels = badLabels
  Configs <- MCConfigsWithBadLabels
  Local <- MCLocal
  BadRules <- MCBadRules
  BadLabels <- MCBadLabels
  Empty = empty
  MaxChanges = 2
  None = None
SPECIFICATION FairSpec
INVARIANTS TypeOK RefusedIsRetried AcceptedIsLive
           SpanAttributesApplied
PROPERTIES ServedGoesLive UpdatesStop
CHECK_DEADLOCK FALSE
