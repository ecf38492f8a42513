\* Two processes on one store, each with its own Session object.  The compaction of
\* a session with one file, two calls and one approval.
SPECIFICATION MCSpec
CONSTANTS
  Threads = {"p", "q"}
  Objects = {"p", "q"}
  Object <- Owned
  Refreshing = {"p", "q"}
  MaxEvents = 4
  Paths = {1}
  Capacity = 6
  Target = 5
  TailBudget = 3
  StateLimit = 2
  FieldLimit = 2
  LargeCalls = {1}
  MaxTurns = 4
  MaxEntries = 8
  MaxCalls = 2
  MaxApprovals = 1
INVARIANTS
  CurrentViewIsComplete
  RollingStateIsExact
  ExchangesStayWhole
PROPERTIES
  ImplementsLog
  ApprovalsGoLast
\* A log may be full.
CHECK_DEADLOCK FALSE
