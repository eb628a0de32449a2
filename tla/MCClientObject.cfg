SPECIFICATION ClientSpec

CONSTANTS
  w1 = w1
  w2 = w2
  c1 = c1
  c2 = c2
  b1 = b1
  b2 = b2
  Nobody = Nobody
  Rotators <- MCRotators
  Callers <- MCCallers
  Builders <- MCBuilders
  Owner = b1
  Kinds <- MCKinds
  MaxRotations = 2
  MaxFailures = 1

SYMMETRY MCSymmetry

INVARIANTS
  ClientTypeOK
  CopiesAgree
  NoStaleToken
  InitOnceBeforeUse
  ReferencesStay
