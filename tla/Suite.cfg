CONSTANTS
  Clients = {c, d}
  c = c
  d = d
  Versions = {1, 2, 3}
  Releases = {1, 2}
  Pseudo = {3}
  Short <- Hashes
  Revisions <- Asked
  Plans <- AllPlans
  MaxFiles = 3
SPECIFICATION Spec
INVARIANTS
  StillThere
  Cleaned
  ServedRight
PROPERTIES
  ScriptsEnd
CHECK_DEADLOCK FALSE
