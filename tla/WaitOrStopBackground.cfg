CONSTANTS
  Calls <- BackgroundCalls
SPECIFICATION FairSpec
PROPERTIES
  EscalatesToKill
