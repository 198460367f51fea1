CONSTANTS
  MaxLines = 5
  MaxProcs = 2
  Names = {"n"}
  Runs <- LogRuns
SPECIFICATION Spec
PROPERTY ContinuesVerbose
