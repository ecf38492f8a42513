--------------------------- MODULE RunCoordinator ---------------------------
(***************************************************************************)
(* The life of the runs of one session: runtime/coordinator.py over the    *)
(* projections of sessions/session.py and policy/leases.py.                *)
(*                                                                         *)
(* Durable state is what the code reads back from the event log; volatile  *)
(* state is what lives in the coroutine of RunCoordinator.run and is lost  *)
(* when the process dies.  One run of a session executes at a time (the    *)
(* worker's RunSupervisor); approvals may be resolved from outside at any  *)
(* moment.  A step is what the coroutine does between two awaits that can  *)
(* really suspend, cut further wherever a crash between two appends to     *)
(* the store can be told from a crash before both.                         *)
(***************************************************************************)
EXTENDS Integers, PolicyEngine

CONSTANTS Runs,          \* run ids
          NoRun,         \* not a run id
          NoTool,        \* not a tool name
          MaxTurns,      \* max_turns of every run
          ApprovalsExpire, \* approval_ttl_seconds is not None
          MaxCalls,      \* bound: tool calls a session may hold
          MaxApprovals,  \* bound: approval requests a session may hold
          MaxCrashes     \* bound: process deaths

ASSUME CoordinatorAssumption ==
    /\ NoRun \notin Runs
    /\ NoTool \notin Tools
    /\ MaxTurns \in Nat \ {0}
    /\ ApprovalsExpire \in BOOLEAN
    /\ MaxCalls \in Nat
    /\ MaxApprovals \in Nat
    /\ MaxCrashes \in Nat

\* Call ids, numbered in the order in which assistant messages propose them.
Calls == 1 .. MaxCalls

\* Approval ids, numbered in the order of their approval.requested events.
Approvals == 1 .. MaxApprovals

VARIABLES
    \* ---- durable: projections of the event log
    life,       \* last lifecycle event of each run
    pending,    \* pending_tool_call_ids of the last run.suspended of each run
    usage,      \* number of model.usage events of each run
    ncalls,     \* calls proposed so far are 1 .. ncalls
    owner,      \* run that proposed the call
    tool,       \* tool the call names
    result,     \* "none", "open" or the kind of its tool.result
    napprovals, \* approvals requested so far are 1 .. napprovals
    approval,   \* the AuthorizationState entry of each approval
    ngrants,    \* approvals granted so far, for the order of grants
    leases,     \* active capability leases, <<run, tool whose caps are leased>>
    \* ---- volatile: the executing coroutine
    exec,       \* the run being executed
    phase,      \* where the coroutine stands
    mach,       \* RunStateMachine.state
    queue,      \* calls of the current batch without a committed result
    inline,     \* allow_inline_approval of the current batch
    task,       \* state of the dispatch coroutine of each call
    rule,       \* rule_id of the last policy decision of each call
    turns,      \* the loop's turn counter
    retryUsed,  \* provider_context_retry_used
    exit,       \* outcome the unwinding coroutine will record
    cancel,     \* the run's cancel event is set
    \* ---- history, read by properties only
    execs,      \* how often the tool of a call was started
    usedBy,     \* calls started on the sole authority of a one-shot grant
    crashes     \* process deaths so far

durable == <<life, pending, usage, ncalls, owner, tool, result,
             napprovals, approval, ngrants, leases>>
volatile == <<exec, phase, mach, queue, inline, task, rule, turns,
              retryUsed, exit, cancel>>
history == <<execs, usedBy, crashes>>
vars == <<life, pending, usage, ncalls, owner, tool, result,
          napprovals, approval, ngrants, leases,
          exec, phase, mach, queue, inline, task, rule, turns,
          retryUsed, exit, cancel, execs, usedBy, crashes>>

transcript == <<usage, ncalls, owner, tool>>
authority == <<napprovals, approval, ngrants, leases>>
loop == <<turns, retryUsed>>
-----------------------------------------------------------------------------
(***************************************************************************)
(* The run state machine and the lifecycle events.                         *)
(***************************************************************************)
TerminalStates == {"completed", "failed", "interrupted", "cancelled"}
RunStates == {"created", "running", "waiting_tool", "waiting_approval"}
                 \cup TerminalStates

\* _TRANSITIONS
Transitions ==
    [s \in RunStates |->
        CASE s = "created"
                 -> {"running", "interrupted", "cancelled", "failed"}
          [] s = "running"
                 -> {"waiting_tool"} \cup TerminalStates
          [] s = "waiting_tool"
                 -> {"running", "waiting_approval"} \cup TerminalStates
          [] s = "waiting_approval"
                 -> {"running", "waiting_tool"} \cup TerminalStates
          [] s \in TerminalStates -> {}]

CanTransition(target) == target \in Transitions[mach]

Lifecycle == {"none", "started", "resumed", "suspended"} \cup TerminalStates

\* _NON_RESUMABLE_RUN_EVENTS
NonResumable == {"completed", "failed", "cancelled"}

Phases == {"off", "opened", "loop", "compile", "compacting", "model", "shrinking",
           "tools", "complete", "unwinding", "unwound"}

\* Where the coroutine awaits a token count or a summary of the provider and does
\* not look at the cancel event: before a request, and after one that was too long.
Unheard == {"compacting", "shrinking"}

\* How a dispatch coroutine can end: with a result, _RunSuspended or an error.
Results == {"ok", "error", "denied"}
Outcomes == Results \cup {"suspend", "raise"}
TaskStates == {"idle", "ready", "asking", "retry", "started", "running"}
                 \cup Outcomes
-----------------------------------------------------------------------------
(***************************************************************************)
(* Projections of the event log.                                           *)
(***************************************************************************)

\* find_orphan_tool_calls: calls without a result, of every run of the session.
OpenCalls == {c \in Calls : result[c] = "open"}

\* Mutant: a suspension that a later event superseded is still honoured.
StaleSuspendedCalls(r) == pending[r]

\* _suspended_tool_call_ids: only if the last lifecycle event suspended the run.
SuspendedCalls(r) == IF life[r] = "suspended" THEN pending[r] ELSE {}

NoApproval == [call |-> 0, status |-> "free", expired |-> FALSE, rank |-> 0]

\* AuthorizationState.pending_approval: unresolved and within its TTL.
PendingActive(a) == approval[a].status = "pending" /\ ~approval[a].expired

\* The grants of active_approvals that cover tool t in run r: the scope of an
\* approval is the name of the tool whose call asked for it.
ActiveGrants(r, t) ==
    {a \in 1 .. napprovals :
        /\ approval[a].status \in {"granted", "once"}
        /\ ~approval[a].expired
        /\ owner[approval[a].call] = r
        /\ tool[approval[a].call] = t}

ApprovedTools(r) == {t \in Tools : ActiveGrants(r, t) # {}}

LeasedTools(r) == {t \in Tools : <<r, t>> \in leases}

ApprovalsFor(c) == {a \in 1 .. napprovals : approval[a].call = c}

\* _approval_was_denied_for_call: the latest request of this call was denied.
DeniedForCall(c) ==
    \E a \in ApprovalsFor(c) :
        /\ \A b \in ApprovalsFor(c) : b <= a
        /\ approval[a].status = "denied"

\* _pending_approval_for_call
PendingFor(c) == {a \in ApprovalsFor(c) : PendingActive(a)}

\* consumable_approval: the earliest active one-shot grant for the tool.
Consumable(r, t) ==
    {a \in ActiveGrants(r, t) :
        /\ approval[a].status = "once"
        /\ \A b \in ActiveGrants(r, t) :
              approval[b].status = "once" => approval[a].rank <= approval[b].rank}

\* Mutant: the authorization of the session, not of the run, is consulted.
SessionDecision(c) ==
    Evaluate(tool[c], UNION {LeasedTools(r) : r \in Runs},
             UNION {ApprovedTools(r) : r \in Runs})

\* The decision _dispatch obtains for call c of the executing run.
PolicyDecision(c) ==
    Evaluate(tool[c], LeasedTools(exec), ApprovedTools(exec))

\* _is_parallelizable
Parallelizable(c) ==
    /\ tool[c] \in ConcurrencySafe \ Mutating
    /\ ~(RequireLease /\ Caps[tool[c]] # {})

First(S) == {c \in S : \A d \in S : c <= d}

\* _parallel_group: the leading parallelizable calls, or the first call alone.
ParallelGroup ==
    LET prefix == {c \in queue : \A d \in queue : d <= c => Parallelizable(d)}
    IN  IF prefix = {} THEN First(queue) ELSE prefix

\* The calls whose dispatch coroutines are gathered now.
Group == {c \in queue : task[c] # "idle"}
-----------------------------------------------------------------------------
(***************************************************************************)
(* Building blocks of the actions.                                         *)
(***************************************************************************)
Idle == [c \in Calls |-> "idle"]

\* The volatile state of a process that executes no run.
Off ==
    /\ exec' = NoRun
    /\ phase' = "off"
    /\ mach' = "created"
    /\ queue' = {}
    /\ inline' = FALSE
    /\ task' = Idle
    /\ rule' = [c \in Calls |-> "read_only"]
    /\ turns' = 0
    /\ retryUsed' = FALSE
    /\ exit' = "failed"
    /\ cancel' = FALSE

\* An exception leaves the coroutine: the tasks of the current group are lost.
Unwind(outcome) ==
    /\ phase' = "unwinding"
    /\ exit' = outcome
    /\ task' = Idle
    /\ UNCHANGED <<exec, mach, queue, inline, rule, turns, retryUsed, cancel>>

\* repair_orphan_tool_calls: one message with an error result per orphan.
RepairExcept(kept) ==
    result' = [c \in Calls |->
                  IF c \in OpenCalls \ kept THEN "recovered" ELSE result[c]]

\* _transition at a place where the machine is known to allow the target.
To(target) == CanTransition(target) /\ mach' = target
-----------------------------------------------------------------------------
Init ==
    /\ life = [r \in Runs |-> "none"]
    /\ pending = [r \in Runs |-> {}]
    /\ usage = [r \in Runs |-> 0]
    /\ ncalls = 0
    /\ owner = [c \in Calls |-> NoRun]
    /\ tool = [c \in Calls |-> NoTool]
    /\ result = [c \in Calls |-> "none"]
    /\ napprovals = 0
    /\ approval = [a \in Approvals |-> NoApproval]
    /\ ngrants = 0
    /\ leases = {}
    /\ exec = NoRun
    /\ phase = "off"
    /\ mach = "created"
    /\ queue = {}
    /\ inline = FALSE
    /\ task = Idle
    /\ rule = [c \in Calls |-> "read_only"]
    /\ turns = 0
    /\ retryUsed = FALSE
    /\ exit = "failed"
    /\ cancel = FALSE
    /\ execs = [c \in Calls |-> 0]
    /\ usedBy = [a \in Approvals |-> {}]
    /\ crashes = 0
-----------------------------------------------------------------------------
\* Mutant: a cancelled or failed run may be opened again.
OpenStopped(r) ==
    /\ exec = NoRun
    /\ life[r] # "completed"
    /\ life' = [life EXCEPT ![r] = IF @ = "none" THEN "started" ELSE "resumed"]
    /\ exec' = r
    /\ phase' = "opened"
    /\ mach' = "created"
    /\ queue' = SuspendedCalls(r)
    /\ UNCHANGED <<pending, transcript, result, authority, inline, task, rule,
                   loop, exit, cancel, history>>

\* What resume() and run() ask of the log before they open a run: an unknown run is
\* new, a suspended, interrupted or crashed one continues with its configuration.
Resumable(r) == life[r] \notin NonResumable

(***************************************************************************)
(* Opening a run: run() with a new id, run() with a known id, or resume(). *)
(* A run.suspended record is read before run.resumed supersedes it.        *)
(***************************************************************************)
Open(r) ==
    /\ exec = NoRun
    /\ Resumable(r)
    /\ life' = [life EXCEPT ![r] = IF @ = "none" THEN "started" ELSE "resumed"]
    /\ exec' = r
    /\ phase' = "opened"
    /\ mach' = "created"
    /\ queue' = SuspendedCalls(r)
    /\ UNCHANGED <<pending, transcript, result, authority, inline, task, rule,
                   loop, exit, cancel, history>>

\* The run.started hook fails: the run fails before its first transition.
OpenHookFails ==
    /\ phase = "opened"
    /\ Unwind("failed")
    /\ UNCHANGED <<durable, history>>

\* Mutant: every coroutine counts its turns from zero.
SetupResetsTurns ==
    /\ phase = "opened"
    /\ To("running")
    /\ RepairExcept(queue)
    /\ turns' = 0
    /\ retryUsed' = FALSE
    /\ phase' = "loop"
    /\ UNCHANGED <<life, pending, transcript, authority, exec, queue, inline,
                   task, rule, exit, cancel, history>>

\* Transition to RUNNING, repair of lost calls, and the turn count the loop
\* derives from the log.
Setup ==
    /\ phase = "opened"
    /\ To("running")
    /\ RepairExcept(queue)
    /\ turns' = usage[exec]
    /\ retryUsed' = FALSE
    /\ phase' = "loop"
    /\ UNCHANGED <<life, pending, transcript, authority, exec, queue, inline,
                   task, rule, exit, cancel, history>>
-----------------------------------------------------------------------------
(***************************************************************************)
(* The model loop.                                                         *)
(***************************************************************************)

\* _check_cancel at the top of the loop, of a group, or await_cancelable.
LoopCancelled ==
    /\ phase \in {"loop", "model"}
    /\ cancel
    /\ Unwind("interrupted")
    /\ UNCHANGED <<durable, history>>

\* Calls left by a suspension are executed before the model is asked again.
LoopPending ==
    /\ phase = "loop"
    /\ ~cancel
    /\ queue # {}
    /\ To("waiting_tool")
    /\ phase' = "tools"
    /\ inline' = FALSE
    /\ UNCHANGED <<durable, exec, queue, task, rule, loop, exit, cancel, history>>

\* Nothing is pending: on to the next turn.
LoopTurn ==
    /\ phase = "loop"
    /\ ~cancel
    /\ queue = {}
    /\ phase' = "compile"
    /\ UNCHANGED <<durable, exec, mach, queue, inline, task, rule, loop, exit, cancel,
                   history>>

\* TurnLimitExceeded
LoopTurnLimit ==
    /\ phase = "compile"
    /\ turns >= MaxTurns
    /\ Unwind("failed")
    /\ UNCHANGED <<durable, history>>

\* The context is compiled and measured.  A context that fits by its estimate is
\* persisted and the provider asked; an exact count and a compaction wait for the
\* provider first; a failing section or store fails the run.
LoopCompile ==
    /\ phase = "compile"
    /\ turns < MaxTurns
    /\ \/ /\ phase' \in {"model", "compacting"}
          /\ UNCHANGED <<exec, mach, queue, inline, task, rule, loop, exit, cancel>>
       \/ Unwind("failed")
    /\ UNCHANGED <<durable, history>>

\* The provider has counted, or summarized: the context is persisted and the request
\* sent, or a context that cannot be reduced fails the run.
Compacted ==
    /\ phase = "compacting"
    /\ \/ /\ phase' = "model"
          /\ UNCHANGED <<exec, mach, queue, inline, task, rule, loop, exit, cancel>>
       \/ Unwind("failed")
    /\ UNCHANGED <<durable, history>>

\* ProviderContextLengthError: compact and try again, once per coroutine.
ProviderContextLength ==
    /\ phase = "model"
    /\ IF retryUsed
       THEN Unwind("failed")
       ELSE /\ retryUsed' = TRUE
            /\ phase' = "shrinking"
            /\ UNCHANGED <<exec, mach, queue, inline, task, rule, turns, exit, cancel>>
    /\ UNCHANGED <<durable, history>>

\* The compaction after a context-length error is done: back to the top of the loop.
Shrunk ==
    /\ phase = "shrinking"
    /\ \/ /\ phase' = "loop"
          /\ UNCHANGED <<exec, mach, queue, inline, task, rule, loop, exit, cancel>>
       \/ Unwind("failed")
    /\ UNCHANGED <<durable, history>>

\* Provider failure, protocol violation, hook failure, or a second call id of
\* the same name: nothing of the response was appended.
ProviderFails ==
    /\ phase = "model"
    /\ Unwind("failed")
    /\ UNCHANGED <<durable, history>>

\* The final answer: model.usage and the assistant message in one append.
RespondFinal ==
    /\ phase = "model"
    /\ usage' = [usage EXCEPT ![exec] = @ + 1]
    /\ turns' = turns + 1
    /\ phase' = "complete"
    /\ UNCHANGED <<life, pending, ncalls, owner, tool, result, authority, exec,
                   mach, queue, inline, task, rule, retryUsed, exit, cancel, history>>

\* An answer that proposes calls: the calls are durable before any executes.
RespondCalls(last) ==
    LET new == (ncalls + 1) .. last IN
    /\ phase = "model"
    /\ usage' = [usage EXCEPT ![exec] = @ + 1]
    /\ turns' = turns + 1
    /\ ncalls' = last
    /\ owner' = [c \in Calls |-> IF c \in new THEN exec ELSE owner[c]]
    /\ \E names \in [new -> Tools] :
          tool' = [c \in Calls |-> IF c \in new THEN names[c] ELSE tool[c]]
    /\ result' = [c \in Calls |-> IF c \in new THEN "open" ELSE result[c]]
    /\ To("waiting_tool")
    /\ queue' = new
    /\ inline' = TRUE
    /\ phase' = "tools"
    /\ UNCHANGED <<life, pending, authority, exec, task, rule, retryUsed, exit,
                   cancel, history>>
-----------------------------------------------------------------------------
(***************************************************************************)
(* Executing a batch of calls, group by group.                             *)
(***************************************************************************)

\* _execute_tool_calls gathers the dispatch coroutines of the next group.
StartGroup ==
    /\ phase = "tools"
    /\ queue # {}
    /\ Group = {}
    /\ ~cancel
    /\ task' = [c \in Calls |-> IF c \in ParallelGroup THEN "ready" ELSE task[c]]
    /\ UNCHANGED <<durable, exec, phase, mach, queue, inline, rule, loop, exit,
                   cancel, history>>

\* Mutant: the cancel event is only seen between groups.
CancelBetweenGroups ==
    /\ phase = "tools"
    /\ cancel
    /\ queue # {} /\ Group = {}
    /\ Unwind("interrupted")
    /\ UNCHANGED <<durable, history>>

\* The cancel event is seen between groups, or by an await_cancelable of a task.
ToolsCancelled ==
    /\ phase = "tools"
    /\ cancel
    /\ \/ queue # {} /\ Group = {}
       \/ \E c \in Group : task[c] \in {"asking", "started", "running"}
    /\ Unwind("interrupted")
    /\ UNCHANGED <<durable, history>>

\* A step of one dispatch coroutine that only moves the coroutine.
TaskTo(c, state) ==
    /\ task' = [task EXCEPT ![c] = state]
    /\ UNCHANGED <<exec, phase, queue, inline, loop, exit, cancel>>

\* Unknown tool, invalid input, failed preparation or a DENY decision give an
\* error result; a failing policy.decided hook is an exception of the call.
Refuse(c) ==
    /\ task[c] \in {"ready", "retry"}
    /\ \E outcome \in {"error", "raise"} : TaskTo(c, outcome)
    /\ UNCHANGED <<durable, mach, rule, history>>

\* ALLOW: the decision is final although the grant is spent only afterwards.
Allow(c) ==
    LET d == PolicyDecision(c)
        grants == ActiveGrants(exec, tool[c])
    IN
    /\ task[c] \in {"ready", "retry"}
    /\ d.effect = "allow"
    /\ TaskTo(c, "started")
    /\ rule' = [rule EXCEPT ![c] = d.rule]
    /\ usedBy' = [a \in Approvals |->
                     IF /\ d.rule = "approval.granted"
                        /\ grants = {a}
                        /\ approval[a].status = "once"
                     THEN usedBy[a] \cup {c} ELSE usedBy[a]]
    /\ UNCHANGED <<durable, mach, execs, crashes>>

\* ASK again after a granted approval: reported as a denied result.
AskIneffective(c) ==
    /\ task[c] = "retry"
    /\ PolicyDecision(c).effect = "ask"
    /\ TaskTo(c, "denied")
    /\ UNCHANGED <<durable, mach, rule, history>>

\* ASK for a call whose latest approval was denied out of band.
AskDenied(c) ==
    /\ task[c] = "ready"
    /\ PolicyDecision(c).effect = "ask"
    /\ DeniedForCall(c)
    /\ TaskTo(c, "denied")
    /\ UNCHANGED <<durable, mach, rule, history>>

\* request_approval, unless an approval is still pending for this very call.
RequestOrReuse(c) ==
    IF PendingFor(c) # {}
    THEN UNCHANGED <<napprovals, approval>>
    ELSE /\ napprovals < MaxApprovals
         /\ napprovals' = napprovals + 1
         /\ approval' = [approval EXCEPT ![napprovals + 1] =
                            [NoApproval EXCEPT !.call = c, !.status = "pending"]]

\* ASK: the request is durable, then the machine moves to WAITING_APPROVAL.  The
\* call suspends, or waits for the injected resolver if the batch allows it.  A
\* second call of a parallel group cannot make the transition: an exception.
Ask(c) ==
    LET d == PolicyDecision(c) IN
    /\ task[c] = "ready"
    /\ d.effect = "ask"
    /\ ~DeniedForCall(c)
    /\ RequestOrReuse(c)
    /\ rule' = [rule EXCEPT ![c] = d.rule]
    /\ IF CanTransition("waiting_approval")
       THEN /\ mach' = "waiting_approval"
            /\ TaskTo(c, IF inline THEN "asking" ELSE "suspend")
       ELSE /\ mach' = mach
            /\ TaskTo(c, "raise")
    /\ UNCHANGED <<life, pending, transcript, result, ngrants, leases, history>>

\* The resolver defers: the run will suspend.
ResolverDefers(c) ==
    /\ task[c] = "asking"
    /\ TaskTo(c, "suspend")
    /\ UNCHANGED <<durable, mach, rule, history>>

\* resolve_approval of a pending approval, granted for the run or for one call.
Resolve(a, status) ==
    /\ PendingActive(a)
    /\ approval' = [approval EXCEPT ![a] =
                       [@ EXCEPT !.status = status,
                                 !.rank = IF status = "denied" THEN 0 ELSE ngrants + 1]]
    /\ ngrants' = IF status = "denied" THEN ngrants ELSE ngrants + 1

\* The resolver answers while the approval is still pending; a grant of a lease
\* request also issues the lease.
ResolverAnswers(c, status) ==
    /\ task[c] = "asking"
    /\ \E a \in PendingFor(c) : Resolve(a, status)
    /\ To("waiting_tool")
    /\ TaskTo(c, IF status = "denied" THEN "denied" ELSE "retry")
    /\ leases' = IF status # "denied" /\ rule[c] = "lease_required"
                 THEN leases \cup {<<exec, tool[c]>>} ELSE leases
    /\ UNCHANGED <<life, pending, transcript, result, napprovals, rule, history>>

\* The resolver answers too late: the approval expired or was resolved outside.
ResolverTooLate(c) ==
    /\ task[c] = "asking"
    /\ PendingFor(c) = {}
    /\ TaskTo(c, "raise")
    /\ UNCHANGED <<durable, mach, rule, history>>

\* The tool begins to execute: from here on its side effects may have happened.
RunTool(c) ==
    /\ task[c] = "started"
    /\ TaskTo(c, "running")
    /\ execs' = [execs EXCEPT ![c] = @ + 1]
    /\ UNCHANGED <<durable, mach, rule, usedBy, crashes>>

\* Mutant: nothing spends the grant.
ConsumeNothing(c) == approval' = approval

\* _consume_one_shot: spend the grant that the decision relied on.
ConsumeOneShot(c) ==
    approval' =
        [a \in Approvals |->
            IF rule[c] = "approval.granted" /\ a \in Consumable(exec, tool[c])
            THEN [approval[a] EXCEPT !.status = "consumed"] ELSE approval[a]]

\* The tool returns, fails, times out, or its before hook keeps it from running.
ToolReturns(c) ==
    /\ \/ task[c] = "running" /\ \E outcome \in {"ok", "error"} : TaskTo(c, outcome)
       \/ task[c] = "started" /\ TaskTo(c, "error")
    /\ ConsumeOneShot(c)
    /\ UNCHANGED <<life, pending, transcript, result, napprovals, ngrants, leases,
                   mach, rule, history>>
-----------------------------------------------------------------------------
(***************************************************************************)
(* The outcomes of a group are processed in call order once all are in.    *)
(***************************************************************************)
Gathered == Group # {} /\ \A c \in Group : task[c] \in Outcomes

\* The result message of the next call is appended.  The session refuses a
\* second result of the same call, which then fails the run.
CommitResult(c) ==
    /\ phase = "tools"
    /\ Gathered
    /\ c \in First(queue)
    /\ task[c] \in Results
    /\ IF result[c] = "open"
       THEN /\ result' = [result EXCEPT ![c] = task[c]]
            /\ queue' = queue \ {c}
            /\ task' = [task EXCEPT ![c] = "idle"]
            /\ UNCHANGED <<exec, phase, mach, inline, rule, loop, exit, cancel>>
       ELSE /\ result' = result
            /\ Unwind("failed")
    /\ UNCHANGED <<life, pending, transcript, authority, history>>

\* A captured exception is raised again in call order.
CommitRaise(c) ==
    /\ phase = "tools"
    /\ Gathered
    /\ c \in First(queue)
    /\ task[c] = "raise"
    /\ Unwind("failed")
    /\ UNCHANGED <<durable, history>>

\* run.suspended records every call from the suspended one onwards; the
\* coroutine ends without a terminal event.
Suspend(c) ==
    /\ phase = "tools"
    /\ Gathered
    /\ c \in First(queue)
    /\ task[c] = "suspend"
    /\ life' = [life EXCEPT ![exec] = "suspended"]
    /\ pending' = [pending EXCEPT ![exec] = queue]
    /\ Off
    /\ UNCHANGED <<transcript, result, authority, history>>

\* All calls have results: back to RUNNING and to the top of the loop, or, after the
\* calls of a suspension, straight to the next turn.
ToolsDone ==
    /\ phase = "tools"
    /\ queue = {}
    /\ To("running")
    /\ phase' = IF inline THEN "loop" ELSE "compile"
    /\ UNCHANGED <<durable, exec, queue, inline, task, rule, loop, exit, cancel,
                   history>>
-----------------------------------------------------------------------------
(***************************************************************************)
(* Ending a run.                                                           *)
(***************************************************************************)

\* _finish: the last transition and the terminal event in one append.
Finish(terminal) ==
    /\ CanTransition(terminal)
    /\ life' = [life EXCEPT ![exec] = terminal]
    /\ Off
    /\ UNCHANGED <<pending, transcript, authority, history>>

Complete ==
    /\ phase = "complete"
    /\ Finish("completed")
    /\ UNCHANGED result

\* Mutant: an interrupted run is not repaired.
UnwindWithoutRepair ==
    /\ phase = "unwinding"
    /\ phase' = "unwound"
    /\ UNCHANGED <<life, pending, transcript, result, authority, exec, mach, queue,
                   inline, task, rule, loop, exit, cancel, history>>

\* _repair_after_interrupt closes every orphan of the session.
RepairAfterInterrupt ==
    /\ phase = "unwinding"
    /\ RepairExcept({})
    /\ phase' = "unwound"
    /\ UNCHANGED <<life, pending, transcript, authority, exec, mach, queue,
                   inline, task, rule, loop, exit, cancel, history>>

FinishUnwound ==
    /\ phase = "unwound"
    /\ Finish(exit)
    /\ UNCHANGED result

\* abandon() of a run that is not executing.
Abandon(r) ==
    /\ exec = NoRun
    /\ life[r] \notin {"none"} \cup TerminalStates
    /\ life' = [life EXCEPT ![r] = "cancelled"]
    /\ IF life[r] = "suspended" THEN RepairExcept({}) ELSE result' = result
    /\ UNCHANGED <<pending, transcript, authority, volatile, history>>

\* The process dies between the two appends of abandon: the calls of the suspended
\* run are closed, and the run is still suspended.
AbandonDies(r) ==
    /\ exec = NoRun
    /\ life[r] = "suspended"
    /\ crashes < MaxCrashes
    /\ crashes' = crashes + 1
    /\ RepairExcept({})
    /\ UNCHANGED <<life, pending, transcript, authority, volatile, execs, usedBy>>
-----------------------------------------------------------------------------
(***************************************************************************)
(* The environment: the client, time, and the death of the process.        *)
(***************************************************************************)

\* run.cancel of the executing run.
RequestCancel ==
    /\ exec # NoRun
    /\ ~cancel
    /\ cancel' = TRUE
    /\ UNCHANGED <<durable, exec, phase, mach, queue, inline, task, rule, loop,
                   exit, history>>

\* approval.resolve by the client, at any moment and for any run.
ResolveOutside(a, status) ==
    /\ Resolve(a, status)
    /\ UNCHANGED <<life, pending, transcript, result, napprovals, leases,
                   volatile, history>>

\* The TTL of an approval ends, whether it is pending or granted.
ExpireApproval(a) ==
    /\ ApprovalsExpire
    /\ approval[a].status \in {"pending", "granted", "once"}
    /\ ~approval[a].expired
    /\ approval' = [approval EXCEPT ![a].expired = TRUE]
    /\ UNCHANGED <<life, pending, transcript, result, napprovals, ngrants, leases,
                   volatile, history>>

\* The TTL of a lease ends, or its owner revokes it.
ExpireLease(l) ==
    /\ l \in leases
    /\ leases' = leases \ {l}
    /\ UNCHANGED <<life, pending, transcript, result, napprovals, approval, ngrants,
                   volatile, history>>

\* The process dies while a run executes; a new one starts from the log.
Crash ==
    /\ exec # NoRun
    /\ crashes < MaxCrashes
    /\ crashes' = crashes + 1
    /\ Off
    /\ UNCHANGED <<durable, execs, usedBy>>
-----------------------------------------------------------------------------
Grants == {"granted", "once", "denied"}

\* Steps of the dispatch coroutine of one call.
TaskStep(c) ==
    \/ Refuse(c) \/ Allow(c) \/ AskIneffective(c) \/ AskDenied(c) \/ Ask(c)
    \/ ResolverTooLate(c) \/ RunTool(c) \/ ToolReturns(c)

\* Answers of the injected approval resolver.
ResolverStep(c) ==
    \/ ResolverDefers(c)
    \/ \E status \in Grants : ResolverAnswers(c, status)

\* Steps the coroutine of the executing run takes by itself.
RunStep ==
    \/ OpenHookFails \/ Setup
    \/ LoopCancelled \/ LoopPending \/ LoopTurn \/ LoopTurnLimit \/ LoopCompile
    \/ StartGroup \/ ToolsCancelled \/ ToolsDone
    \/ \E c \in Calls : TaskStep(c) \/ CommitResult(c) \/ CommitRaise(c) \/ Suspend(c)
    \/ Complete \/ RepairAfterInterrupt \/ FinishUnwound

\* Steps that wait for the model provider.
ProviderStep ==
    \/ Compacted \/ Shrunk
    \/ ProviderContextLength \/ ProviderFails \/ RespondFinal
    \/ \E last \in (ncalls + 1) .. MaxCalls : RespondCalls(last)

ClientStep ==
    \/ \E r \in Runs : Open(r) \/ Abandon(r)
    \/ RequestCancel
    \/ \E a \in Approvals, status \in Grants : ResolveOutside(a, status)

Environment ==
    \/ \E c \in Calls : ResolverStep(c)
    \/ \E a \in Approvals : ExpireApproval(a)
    \/ \E l \in leases : ExpireLease(l)
    \/ Crash
    \/ \E r \in Runs : AbandonDies(r)

Next == RunStep \/ ProviderStep \/ ClientStep \/ Environment

Spec == Init /\ [][Next]_vars

\* Scheduling: the event loop runs every enabled step of the coroutine, hooks and
\* tools end by their timeouts.  Nothing is assumed of provider, resolver, client:
\* an answer, a token count or a summary of the provider may never come.
FairSpec == Spec /\ WF_vars(RunStep)
-----------------------------------------------------------------------------
(***************************************************************************)
(* Properties.                                                             *)
(***************************************************************************)
ApprovalStatus == {"free", "pending", "granted", "once", "denied", "consumed"}

ApprovalRecord ==
    [call : Calls \cup {0},
     status : ApprovalStatus,
     expired : BOOLEAN,
     rank : Nat]

\* Every variable keeps its type; a dispatch coroutine exists only for a call that
\* is queued in the batch being executed.
TypeOK ==
    /\ life \in [Runs -> Lifecycle]
    /\ pending \in [Runs -> SUBSET Calls]
    /\ usage \in [Runs -> Nat]
    /\ ncalls \in 0 .. MaxCalls
    /\ owner \in [Calls -> Runs \cup {NoRun}]
    /\ tool \in [Calls -> Tools \cup {NoTool}]
    /\ result \in [Calls -> {"none", "open", "recovered"} \cup Results]
    /\ napprovals \in 0 .. MaxApprovals
    /\ approval \in [Approvals -> ApprovalRecord]
    /\ ngrants \in Nat
    /\ leases \subseteq Runs \X (Tools \cup {NoTool})
    /\ exec \in Runs \cup {NoRun}
    /\ phase \in Phases
    /\ exec = NoRun <=> phase = "off"
    /\ mach \in RunStates
    /\ queue \subseteq Calls
    /\ inline \in BOOLEAN
    /\ task \in [Calls -> TaskStates]
    /\ \A c \in Calls : task[c] # "idle" => phase = "tools" /\ c \in queue
    /\ rule \in [Calls -> Rules]
    /\ turns \in Nat
    /\ retryUsed \in BOOLEAN
    /\ exit \in {"failed", "interrupted"}
    /\ cancel \in BOOLEAN
    /\ execs \in [Calls -> Nat]
    /\ usedBy \in [Approvals -> SUBSET Calls]
    /\ crashes \in 0 .. MaxCrashes

\* No tool call is ever started twice, whatever is suspended, cancelled, resumed,
\* abandoned or lost in a crash: "restart repairs orphaned calls without blindly
\* replaying unknown side effects" (ARCHITECTURE.md, durable invariant 5).
NoReplay == \A c \in Calls : execs[c] <= 1

\* A run that run() has ended left no call open, and a suspended one only calls
\* that were never started and that its run.suspended event names: every executed
\* call has its durable result when the run stops (durable invariant 2).
StoppedRunIsSettled ==
    \A c \in 1 .. ncalls :
        /\ life[owner[c]] \in {"completed", "failed", "interrupted"} => result[c] # "open"
        /\ life[owner[c]] = "suspended" /\ result[c] = "open" =>
              c \in pending[owner[c]] /\ execs[c] = 0

\* The turn budget is one budget for the whole run: suspending, crashing and
\* resuming do not renew it ("a suspended/resumed run cannot reset the budget").
TurnBudgetHolds == \A r \in Runs : usage[r] <= MaxTurns

\* A one-shot grant that was the sole authority for a call is spent by the time
\* that call has a result of its own, so the next call of the tool asks again.
OneShotIsSpent ==
    \A a \in Approvals : \A c \in usedBy[a] :
        result[c] \in {"ok", "error"} =>
            approval[a].status = "consumed" \/ approval[a].expired

\* A completed, failed or cancelled run never has another lifecycle event, and no
\* call of it is started any more.
TerminalRunIsFinal ==
    [][\A r \in Runs : life[r] \in NonResumable =>
          /\ life'[r] = life[r]
          /\ \A c \in Calls : owner[c] = r => execs'[c] = execs[c]]_vars

\* A privileged tool only ever starts in a run in which the owner of the session
\* granted an approval for that very tool: a grant never serves another run.
PrivilegedNeedsGrant ==
    \A c \in 1 .. ncalls :
        execs[c] > 0 /\ tool[c] \in Privileged =>
            \E a \in 1 .. napprovals :
                /\ owner[approval[a].call] = owner[c]
                /\ tool[approval[a].call] = tool[c]
                /\ approval[a].status \in {"granted", "once", "consumed"}

\* A cancelled run stops, whatever the provider, the resolver or a tool is doing,
\* for every long await of the coroutine also waits for the cancel event - except the
\* awaits of a token count and of a compaction summary: it stops unless the provider
\* is silent in one of these.
CancelStopsRun ==
    \A r \in Runs : (exec = r /\ cancel) ~> (exec # r \/ [](phase \in Unheard))
-----------------------------------------------------------------------------
(***************************************************************************)
(* What the repository says of suspended runs, and the code does not keep. *)
(***************************************************************************)

\* repair_orphan_tool_calls: "a run waiting for an approval has not lost its
\* execution state and must still be executable after resume".
SuspendedCallsStayOpen ==
    \A r \in Runs : life[r] = "suspended" =>
        \A c \in pending[r] : result[c] = "open"
=============================================================================
