SPECIFICATION Spec

CONSTANTS
  u1 = u1
  Users <- MCUsers
  Replies <- MCReplies
  MaxEvents = 1
  StoppedBy = "close"

INVARIANT
  ClientOutlivesUse
