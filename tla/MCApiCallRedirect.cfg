SPECIFICATION Spec

CONSTANTS
  Operations <- AllOperations
  MaxAttemptsValues <- MCMaxAttempts
  BodySize = 2
  MaxRedirects = 1
  RedirectsAfterWork = TRUE
  Answers <- MCAnswers

INVARIANT
  EarlyCodesAreEarly
