CONSTANTS
  Calls <- AllCalls
SPECIFICATION FairSpec
INVARIANTS
  Attribution
  HonestError
  NoHelperLeak
PROPERTIES
  DeadlineEnforced
  ExitReported
