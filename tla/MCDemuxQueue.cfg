SPECIFICATION Spec

CONSTANTS
  c1 = c1
  c2 = c2
  c3 = c3
  user = user
  worker = worker
  Consumers <- MCConsumers
  Closers <- MCClosers
  MaxPush = 3

INVARIANTS
  TypeOK
  NoWakeupLost
  EachOnceInOrder

PROPERTIES
  ImplementsStream
