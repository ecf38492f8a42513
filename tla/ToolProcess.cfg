\* Two tasks that share a client; a child that may be started twice.
SPECIFICATION Spec
CONSTANTS
  Tasks = {"t", "u"}
  Attempts = 1
  MaxProcesses = 2
  MaxOps = 2
  MaxFaults = 1
INVARIANTS
  ReplyIsOwn
  MutationRunsOnce
PROPERTIES
  OperationsEnd
CHECK_DEADLOCK FALSE
