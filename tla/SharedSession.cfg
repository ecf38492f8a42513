\* Two runs of one session under require_capability_lease.
SPECIFICATION Spec
CONSTANTS
  Tools = {"bash"}
  Caps <- MCCaps
  Mutating = {"bash"}
  ConcurrencySafe = {}
  RequireLease = TRUE
  Runs = {r1, r2}
  NoRun = NoRun
  NoTool = NoTool
  MaxTurns = 1
  ApprovalsExpire = FALSE
  MaxCalls = 2
  MaxApprovals = 2
  MaxCrashes = 1
SYMMETRY RunSymmetry
INVARIANTS
  PrivilegedNeedsGrant
  OneShotIsSpent
\* Every run may have ended.
CHECK_DEADLOCK FALSE
