CONSTANTS
  Procs = {p, q}
  Actions = {a}
  Outputs = {o, z}
  o = o
  z = z
  Size <- SizeOf
  NoFile = none
  MtimeInterval = 2
  TrimInterval = 2
  TrimLimit = 1
  MaxTime = 4
  Runs <- AllKindsOfRuns
SPECIFICATION Spec
INVARIANTS
  TypeOK
  IndexHonest
  PutRepairs
PROPERTIES
  TrimSpares
