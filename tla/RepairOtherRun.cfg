\* Two runs of one session: one is suspended when the other repairs.
SPECIFICATION Spec
CONSTANTS
  Tools = {"bash"}
  Caps <- MCCaps
  Mutating = {"bash"}
  ConcurrencySafe = {}
  RequireLease = FALSE
  Runs = {r1, r2}
  NoRun = NoRun
  NoTool = NoTool
  MaxTurns = 2
  ApprovalsExpire = FALSE
  MaxCalls = 2
  MaxApprovals = 2
  MaxCrashes = 0
INVARIANTS
  SuspendedCallsStayOpen
CHECK_DEADLOCK FALSE
