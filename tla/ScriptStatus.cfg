CONSTANTS
  MaxLines = 5
  MaxProcs = 2
  Names = {"n"}
  Runs <- WaitRuns
SPECIFICATION Spec
INVARIANT StatusChecked
