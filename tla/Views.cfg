\* Four tasks in up to three levels, and one crash.  A client with two sessions, one of
\* them opened while it is written to.  Three file tool calls of two runs on one path.
SPECIFICATION MCSpec
CONSTANTS
  Capabilities = {"fs.read"}
  MaxBudget = 1
  MaxDepth = 2
  MaxChildren = 2
  MaxTasks = 4
  MaxCrashes = 1
  Sessions = {"s", "t"}
  Opened = "s"
  PageSize = 2
  MaxStored = 5
  MaxForeign = 1
  MaxLoads = 3
  MaxFailures = 1
  MaxCalls = 3
  Runs = {"r", "s"}
  MaxRuns = 1
INVARIANTS
  RestoreAccepts
  ClosedTaskHasNoActiveChild
  TranscriptIsPrefix
  QuietViewIsCurrent
PROPERTIES
  InterruptStopsChildren
  NewestLoadIsShown
  EditsAreKept
\* The client waits for its user, and the calls may be used up.
CHECK_DEADLOCK FALSE
