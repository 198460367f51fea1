CONSTANTS
  Goroutines = {g, h, i}
  Processes = {P, Q}
  g = g
  h = h
  i = i
  P = P
  Q = Q
  None = none
  Systems <- Kinds
  Byte = {0, 1}
  MaxLen = 2
  Inputs <- Texts
  Transforms <- Changes
  Budgets <- Work
SPECIFICATION Spec
INVARIANTS
  TypeOK
  Exclusive
PROPERTIES
  Implements
  CallsEnd
CHECK_DEADLOCK FALSE
