SPECIFICATION Spec

CONSTANTS
  u1 = u1
  Users <- MCUsers
  Replies <- MCReplies
  MaxEvents = 2
  StoppedBy = "destroyed"

INVARIANTS
  TypeOK
  EndHasReason
  RunDrains
  NothingFreedInUse

PROPERTIES
  NothingAcceptedAfterErrorsEnd
  StreamsAreStreams
  StopEndsWorker
  RunComesBack
