SPECIFICATION Spec

CONSTANTS
  Calls <- MCCalls
  MaxAttempts = 3
  MaxRotations = 2
  MaxRequests = 3
  Stamps <- MCStamps

INVARIANTS
  TypeOK
  FormAsAsked
  RetriesAskTheSame
