\* Two ticks of silence tolerated, one period in each fault timer, a limit of
\* one bad reading with the counter saturating above it.
CONSTANTS
  LinkTimeout = 1
  FaultPeriods = 1
  BadLimits = {1}
  DefaultBadLimit = 1
  MaxBad = 2
  MaxDuty = 1
SPECIFICATION Spec
INVARIANTS
  TypeOK
  HeatingIsSafe
  StatusIsNotLost
PROPERTIES
  FaultIsAcknowledgedOrLatched
  ImplementsInterlock
