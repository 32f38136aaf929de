CONSTANTS
  w1 = w1
  w2 = w2
  s1 = s1
  s2 = s2
  Writers = {w1}
  NoWriter = NoWriter
  Streams = {s1, s2}
  Commands <- LifecycleCommands
SPECIFICATION Spec
INVARIANTS
  TypeOK
  NoTornBatch
  AckedIsDurable
PROPERTIES
  LedgerOnlyGrows
  GroupAllOrNothing
