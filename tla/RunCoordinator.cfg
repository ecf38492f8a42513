\* One run, two turns, expiring approvals: every step of the coordinator but the
\* ones of capability leases, and cancellation under the fairness of the loop.
SPECIFICATION FairSpec
CONSTANTS
  Tools = {"read", "bash"}
  Caps <- MCCaps
  Mutating = {"bash"}
  ConcurrencySafe = {"read"}
  RequireLease = FALSE
  Runs = {r1}
  NoRun = NoRun
  NoTool = NoTool
  MaxTurns = 2
  ApprovalsExpire = TRUE
  MaxCalls = 2
  MaxApprovals = 1
  MaxCrashes = 1
INVARIANTS
  NoReplay
  StoppedRunIsSettled
  TurnBudgetHolds
PROPERTIES
  TerminalRunIsFinal
  CancelStopsRun
\* Every run may have ended.
CHECK_DEADLOCK FALSE
