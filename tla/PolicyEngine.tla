---------------------------- MODULE PolicyEngine ----------------------------
(***************************************************************************)
(* The permission decision of policy/engine.py, as a function of what the  *)
(* tool is (ToolSpec) and of what the run already holds: its active        *)
(* capability leases and its active approval grants.  The decision is pure;*)
(* RunCoordinator evaluates it on the projection of the session's events.  *)
(***************************************************************************)
CONSTANTS Tools,          \* names of the registered tools
          Caps,           \* Caps[t]: required_capabilities of tool t
          Mutating,       \* the tools whose spec says mutates
          ConcurrencySafe,\* the tools whose spec says concurrency_safe
          RequireLease    \* require_capability_lease of the run

\* The capability that makes a tool a process execution.
ProcessExec == "process.exec"

ASSUME ToolsAssumption ==
    /\ Mutating \subseteq Tools
    /\ ConcurrencySafe \subseteq Tools
    /\ RequireLease \in BOOLEAN

Executing == {t \in Tools : ProcessExec \in Caps[t]}

\* Tools the default policy never allows on its own.
Privileged == Mutating \cup Executing

Effects == {"allow", "ask"}
Rules == {"lease_required", "approval.granted", "lease_granted",
          "requires_approval", "read_only"}

Decision(e, r) == [effect |-> e, rule |-> r]

(***************************************************************************)
(* PermissionContext.has_capabilities: one single lease of the run must    *)
(* grant every required capability.  leased is the set of tools for whose  *)
(* capabilities the run holds an active lease.                             *)
(***************************************************************************)
HasCapabilities(t, leased) ==
    \/ Caps[t] = {}
    \/ \E l \in leased : Caps[t] \subseteq Caps[l]

\* DefaultPolicyEngine.evaluate: a chain of early returns, the first match decides.
Evaluate(t, leased, approved) ==
    IF RequireLease /\ ~HasCapabilities(t, leased)
    THEN Decision("ask", "lease_required")
    ELSE IF t \in Privileged /\ t \in approved
    THEN Decision("allow", "approval.granted")
    ELSE IF RequireLease /\ t \in Privileged /\ Caps[t] # {}
    THEN Decision("allow", "lease_granted")
    ELSE IF t \in Privileged
    THEN Decision("ask", "requires_approval")
    ELSE Decision("allow", "read_only")

=============================================================================
