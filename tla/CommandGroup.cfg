\* A command that may start one process.
SPECIFICATION CommandSpec
CONSTANTS
  Children = {"child"}
  Limit = 1
  MaxOutput = 1
  MaxCancels = 0
INVARIANT GroupIsCleaned
CHECK_DEADLOCK FALSE
