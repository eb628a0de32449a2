SPECIFICATION Spec

CONSTANTS
  LongLimit = 8
  IntLimit = 4
  NotFinite = NotFinite
  Bodies <- MCBodies

INVARIANTS
  TypeOK
  EverySongOnceInOrder
  ReadAsSent
  NeverContradictsItsText
  AnchoredByItsChunk
  LinksFound
