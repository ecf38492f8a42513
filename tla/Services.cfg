\* Each part of MCServices on an instance of its own.
SPECIFICATION Spec
CONSTANTS
  Indexes = {0, 1}
  MaxWire = 5
  MaxRequests = 2
  Turns = {1, 2}
  EventKinds = {"text", "internal"}
  MaxTurnEvents = 2
  Hooks <- HookKinds
  Emitters = {"t"}
  MaxHooks = 3
  MaxEmits = 2
  Documents = {"a", "b", "c"}
  Name <- SkillName
  Version <- SkillVersion
  Dirs = {"user", "work", "package"}
  ScopeOf <- SkillScope
  Shipped <- SkillShipped
  Requesters = {"q"}
  SkillRuns = {"r"}
  MaxEdits = 3
  MaxDecisions = 2
  Contents = {"x"}
  Policies <- ScopePolicies
  Lifetimes = {1, 9}
  Forever = 9
  Agents = {"a", "b"}
  AccessOf <- AgentAccess
  MaxClock = 1
  MaxOps = 3
  MaxFaults = 1
  Fingerprints = {"f", "g"}
  Place <- FactPlace
  Callers = {"a", "b"}
  Granted <- CallerGrants
  MaxRecords = 3
  MaxSinkFaults = 1
  Manifests = {"m", "n", "o"}
  Identity <- PluginIdentity
  Pin <- PluginPin
  Asks <- PluginAsks
  Compatible <- PluginFits
  Codes = {"x", "y"}
  Roots = {"left", "right"}
  Hosts = {"h"}
  HostAllows <- HostPolicies
  MaxPluginEdits = 3
  MaxVerdicts = 2
  Children = {"child"}
  Limit = 1
  MaxOutput = 2
  MaxCancels = 2
INVARIANTS
  RecordedIsShown
  FinishedTurnIsWhole
  MutationIsGoverned
  LoadedWasTrusted
  PutIsReadable
  AuditAccountsForMemory
  PluginRunsAsTrusted
  ResultIsWhole
  LeaderIsStopped
PROPERTIES
  ImplementsChunks
\* Every part is bounded, and ends.
CHECK_DEADLOCK FALSE
