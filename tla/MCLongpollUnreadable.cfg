SPECIFICATION Spec

CONSTANTS
  Bodies <- MCBodies
  Resume <- FromNowOrResumed
  MaxTime = 4
  MaxFailures = 7

PROPERTY
  UnreadableIsSkipped
