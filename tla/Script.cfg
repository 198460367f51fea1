CONSTANTS
  MaxLines = 5
  MaxProcs = 2
  Names = {"n"}
  Runs <- AllKindsOfRuns
SPECIFICATION FairSpec
INVARIANTS
  NoOrphans
  UniqueNames
  InputOnce
  OutputComplete
  FailedPhasesShown
  QuietPhases
  VerdictFaithful
  SkipChecksStatus
  UpdatesNotLost
PROPERTIES
  Unwinds
  DeadlineEnds
