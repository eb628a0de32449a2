SPECIFICATION FairSpec

CONSTANTS
  Operations <- AllOperations
  MaxAttemptsValues <- MCMaxAttempts
  BodySize = 2
  MaxRedirects = 1
  RedirectsAfterWork = FALSE
  Answers <- MCAnswers

INVARIANTS
  TypeOK
  BilledAtMostOnce
  GivesUpOnlyWhenItMust
  FailedBeforeUploadIsTrue
  EventsPaired
  PaidResultReturned

PROPERTY
  CallReturns
