SPECIFICATION Spec

CONSTANT
  MaxLen = 200

INVARIANTS
  TypeOK
  CopiesFit
  EverythingHashed
