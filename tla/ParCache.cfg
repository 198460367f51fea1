CONSTANTS
  Callers = {c1, c2, c3}
  Keys = {k1}
  Values = {v1, v2}
  Nil = nil
  MayPanic = {k1}
SPECIFICATION FairSpec
CHECK_DEADLOCK FALSE
INVARIANTS
  NoRacyRead
PROPERTIES
  Implements
  CallsReturn
