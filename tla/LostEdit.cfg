\* Three calls of two runs on one path.
SPECIFICATION WorkspaceSpec
CONSTANTS
  MaxCalls = 3
  Runs = {"r", "s"}
  MaxRuns = 1
PROPERTY OneWriterPerDigest
CHECK_DEADLOCK FALSE
