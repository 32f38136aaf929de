CONSTANTS
  w1 = w1
  w2 = w2
  s1 = s1
  s2 = s2
  Writers = {w1, w2}
  NoWriter = NoWriter
  Streams = {s1, s2}
  Commands <- RacingCommands
SPECIFICATION Spec
SYMMETRY Symmetry
INVARIANTS
  NumberingContiguous
  ReadsWereCurrent
  AtMostOncePerKey
PROPERTIES
  ImplementsLedger
