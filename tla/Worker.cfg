\* Two sessions, two run ids, two pool threads.  A run and up to two children.
SPECIFICATION MCSpec
CONSTANTS
  Sessions = {s1, s2}
  RunIds = {r1, r2}
  None = None
  MaxWorkers = 2
  MaxFrames = 3
  Tools = {"read", "bash", "task"}
  Authority = {"read", "exec", "spawn"}
  Requests = {{"read", "spawn"}}
  MaxDepth = 1
  MaxChildren = 1
  MaxToolCalls = 1
  MaxTurns = 2
  ChildTurns = 1
  MaxCalls = 1
  ChildCalls = 2
  MaxRuns = 2
INVARIANTS
  OneForegroundRunPerSession
  AbandonIsExclusive
  CleanExitReportsAll
  BudgetHolds
  AuthorityNarrows
  TreeIsNested
PROPERTIES
  StreamEndStopsWorker
  CancelStopsTree
\* The process may have exited, and the bounds may be exhausted.
CHECK_DEADLOCK FALSE
