SPECIFICATION Spec

CONSTANTS
  Bodies <- MCBodies
  Resume <- FromNowOrResumed
  MaxTime = 4
  MaxFailures = 7

INVARIANTS
  TypeOK
  BackoffCountsFailures

PROPERTIES
  NoGapNoRepeat
  EveryEventHandedOn
