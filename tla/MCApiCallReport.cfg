SPECIFICATION Spec

CONSTANTS
  Operations <- AllOperations
  MaxAttemptsValues <- MCMaxAttempts
  BodySize = 2
  MaxRedirects = 1
  RedirectsAfterWork = FALSE
  Answers <- MCAnswers

INVARIANT
  EveryCallReported
