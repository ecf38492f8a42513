------------------------ MODULE RunCoordinator_proofs ------------------------
(***************************************************************************)
(* Proofs about RunCoordinator for any runs, tools and bounds: types, the  *)
(* turn budget, the finality of terminal runs, that a privileged tool      *)
(* starts only on a grant of its own run and spends one that was good for  *)
(* one call, and, if no parallel tool can ask, that no call is replayed    *)
(* and stopped runs are settled.                                           *)
(***************************************************************************)
EXTENDS RunCoordinator, TLAPS

\* The phases in which queue holds the calls the coroutine still has to execute.
Live == {"opened", "loop", "compile", "compacting", "model", "shrinking", "tools", "complete"}

\* States of a dispatch coroutine that has not started its tool.
Unstarted == {"idle", "ready", "asking", "retry", "started", "suspend"}

(***************************************************************************)
(* The inductive invariants.  Each of the three groups is inductive over   *)
(* the ones above it.                                                      *)
(***************************************************************************)

\* The loop's counter is the durable count, checked before the model is asked.
Budget ==
    /\ TurnBudgetHolds
    /\ phase \in Live \ {"opened"} => turns = usage[exec]
    /\ phase \in {"compacting", "model"} => turns < MaxTurns

\* Who owns what: calls, queues and records of suspensions belong to their run,
\* and the executing run is the one whose last event opened it.
Ownership ==
    /\ exec # NoRun => life[exec] \in {"started", "resumed"}
    /\ \A c \in Calls : c > ncalls =>
          owner[c] = NoRun /\ execs[c] = 0 /\ result[c] = "none"
    /\ \A c \in Calls : c <= ncalls => owner[c] \in Runs /\ result[c] # "none"
    /\ \A c \in queue : c <= ncalls /\ owner[c] = exec
    /\ \A r \in Runs : \A c \in pending[r] : c <= ncalls /\ owner[c] = r
    /\ phase \in {"off", "compile", "compacting", "model", "shrinking", "complete"} => queue = {}

\* What was started once is not waiting to be started again.
NotWaiting ==
    /\ phase \in Live => \A c \in queue : task[c] \in Unstarted => execs[c] = 0
    /\ \A r \in Runs : life[r] = "suspended" => \A c \in pending[r] : execs[c] = 0

\* A call that asks is alone in its group.
AskersAlone ==
    /\ \A c, d \in queue :
          task[c] # "idle" /\ task[d] # "idle" /\ c # d => Parallelizable(c)
    /\ \A c \in queue : task[c] \in {"asking", "suspend"} => ~Parallelizable(c)

\* Open calls are accounted for by the executing run or by a suspension.
OpenAccounted ==
    /\ phase \in Live \ {"opened"} => OpenCalls \subseteq queue
    /\ phase = "unwound" => OpenCalls = {}
    /\ StoppedRunIsSettled

Settlement == NotWaiting /\ NoReplay /\ AskersAlone /\ OpenAccounted

\* No tool that may run in a parallel group can need an approval.  It holds for
\* the tools of the Coding Agent; a tool of an MCP server may break it.
ParallelToolsNeverAsk == (ConcurrencySafe \ Mutating) \cap Executing = {}
-----------------------------------------------------------------------------
USE CoordinatorAssumption, ToolsAssumption DEF Calls, Approvals

LEMMA InitType == Init => TypeOK
<1> SUFFICES ASSUME Init PROVE TypeOK
  OBVIOUS
<1>1. NoApproval \in ApprovalRecord
  BY DEF NoApproval, ApprovalRecord, ApprovalStatus
<1>2. approval \in [Approvals -> ApprovalRecord]
  BY <1>1 DEF Init
<1>3. /\ ncalls \in 0 .. MaxCalls
      /\ napprovals \in 0 .. MaxApprovals
      /\ crashes \in 0 .. MaxCrashes
  BY DEF Init
<1> QED
  BY <1>2, <1>3 DEF Init, TypeOK, Idle, Lifecycle, TerminalStates, Results, Phases, RunStates,
                    TaskStates, Outcomes, Rules

\* Resolving or expiring an approval keeps it an approval record.
LEMMA ApprovalUpdates ==
    ASSUME NEW x \in ApprovalRecord
    PROVE  /\ [x EXCEPT !.expired = TRUE] \in ApprovalRecord
           /\ [x EXCEPT !.status = "consumed"] \in ApprovalRecord
           /\ \A st \in Grants, n \in Nat :
                 [x EXCEPT !.status = st, !.rank = n] \in ApprovalRecord
           /\ \A c \in Calls :
                 [NoApproval EXCEPT !.call = c, !.status = "pending"] \in ApprovalRecord
BY DEF ApprovalRecord, ApprovalStatus, Grants, NoApproval

LEMMA ResolveType ==
    ASSUME TypeOK, NEW a \in Approvals, NEW st \in Grants, Resolve(a, st)
    PROVE  ngrants' \in Nat /\ approval' \in [Approvals -> ApprovalRecord]
<1>1. ngrants' \in Nat /\ (IF st = "denied" THEN 0 ELSE ngrants + 1) \in Nat
  BY DEF TypeOK, Resolve
<1>2. approval[a] \in ApprovalRecord
  BY DEF TypeOK
<1> DEFINE x == [approval[a] EXCEPT !.status = st,
                                   !.rank = IF st = "denied" THEN 0 ELSE ngrants + 1]
<1>3. x \in ApprovalRecord
  BY <1>1, <1>2, ApprovalUpdates
<1>4. approval' = [approval EXCEPT ![a] = x]
  BY DEF Resolve
<1> HIDE DEF x
<1> QED
  BY <1>1, <1>3, <1>4 DEF TypeOK

\* The decision of the policy is one of its effects under one of its rules.
LEMMA DecisionType ==
    ASSUME NEW c \in Calls
    PROVE  PolicyDecision(c).effect \in Effects /\ PolicyDecision(c).rule \in Rules
BY DEF PolicyDecision, Evaluate, Decision, Effects, Rules

\* An exception that leaves the coroutine keeps the types.
LEMMA UnwindType ==
    ASSUME TypeOK, phase # "off", NEW outcome \in {"failed", "interrupted"},
           Unwind(outcome), UNCHANGED <<durable, history>>
    PROVE  TypeOK'
<1>1. task' = Idle /\ task' \in [Calls -> TaskStates]
  BY DEF Unwind, Idle, TaskStates
<1>2. \A c \in Calls : task'[c] = "idle"
  BY <1>1 DEF Idle
<1>3. /\ phase' = "unwinding" /\ exit' = outcome
      /\ UNCHANGED <<exec, mach, queue, inline, rule, turns, retryUsed, cancel>>
  BY DEF Unwind
<1>4. UNCHANGED <<life, pending, usage, ncalls, owner, tool, result, napprovals, approval,
                  ngrants, leases, execs, usedBy, crashes>>
  BY DEF durable, history
<1> HIDE DEF Idle
<1> QED
  BY <1>1, <1>2, <1>3, <1>4 DEF TypeOK, Phases

\* A coroutine that ends leaves the types of the volatile state as in Init.
LEMMA OffType ==
    ASSUME TypeOK, Off, life' \in [Runs -> Lifecycle], pending' \in [Runs -> SUBSET Calls],
           crashes' \in 0 .. MaxCrashes,
           UNCHANGED <<transcript, result, authority, execs, usedBy>>
    PROVE  TypeOK'
<1>1. task' \in [Calls -> TaskStates] /\ \A c \in Calls : task'[c] = "idle"
  BY DEF Off, Idle, TaskStates
<1>2. rule' \in [Calls -> Rules]
  BY DEF Off, Rules
<1>3. /\ exec' = NoRun /\ phase' = "off" /\ mach' = "created" /\ queue' = {}
      /\ inline' = FALSE /\ turns' = 0 /\ retryUsed' = FALSE /\ exit' = "failed"
      /\ cancel' = FALSE
  BY DEF Off
<1>4. UNCHANGED <<usage, ncalls, owner, tool, result, napprovals, approval, ngrants, leases,
                  execs, usedBy>>
  BY DEF transcript, authority
<1> QED
  BY <1>1, <1>2, <1>3, <1>4 DEF TypeOK, Phases, RunStates, TerminalStates

\* A dispatch coroutine that only moves keeps the types.
LEMMA MoveType ==
    ASSUME TypeOK, NEW c \in Calls, task[c] # "idle", NEW s \in TaskStates, TaskTo(c, s),
           UNCHANGED <<durable, mach, rule, history>>
    PROVE  TypeOK'
<1>1. task' \in [Calls -> TaskStates]
  BY DEF TypeOK, TaskTo
<1>2. /\ UNCHANGED <<life, pending, usage, ncalls, owner, tool, result, napprovals, approval,
                     ngrants, leases>>
      /\ UNCHANGED <<exec, phase, mach, queue, inline, rule, turns, retryUsed, exit, cancel>>
      /\ UNCHANGED <<execs, usedBy, crashes>>
  BY DEF TaskTo, durable, history, loop
<1>3. \A d \in Calls : task'[d] # "idle" => phase' = "tools" /\ d \in queue'
  BY <1>2 DEF TypeOK, TaskTo
<1> QED
  BY <1>1, <1>2, <1>3 DEF TypeOK

LEMMA NextType == TypeOK /\ [Next]_vars => TypeOK'
<1> SUFFICES ASSUME TypeOK, [Next]_vars PROVE TypeOK'
  OBVIOUS
<1> USE DEF TypeOK, durable, volatile, history, transcript, authority, loop,
            Lifecycle, Results, Phases, RunStates, TerminalStates, TaskStates, Outcomes
<1>1. CASE OpenHookFails
  BY <1>1, UnwindType DEF OpenHookFails
<1>2. CASE Setup
  BY <1>2 DEF Setup, To, RepairExcept
<1>3. CASE LoopCancelled
  BY <1>3, UnwindType DEF LoopCancelled
<1>4. CASE LoopPending
  BY <1>4 DEF LoopPending, To
<1>38. CASE LoopTurn
  BY <1>38 DEF LoopTurn
<1>5. CASE LoopTurnLimit
  BY <1>5, UnwindType DEF LoopTurnLimit
<1>6. CASE LoopCompile
  <2>1. CASE Unwind("failed")
    BY <1>6, <2>1, UnwindType DEF LoopCompile
  <2>2. CASE phase' \in {"model", "compacting"}
    <3>1. UNCHANGED <<durable, exec, mach, queue, inline, task, rule, loop, exit, cancel, history>>
      BY <1>6, <2>2 DEF LoopCompile, Unwind
    <3> QED
      BY <1>6, <2>2, <3>1 DEF LoopCompile
  <2> QED
    BY <1>6, <2>1, <2>2 DEF LoopCompile
<1>7. CASE StartGroup
  <2>1. ParallelGroup \subseteq queue
    BY DEF ParallelGroup, First
  <2> QED
    BY <1>7, <2>1 DEF StartGroup
<1>8. CASE ToolsCancelled
  BY <1>8, UnwindType DEF ToolsCancelled
<1>9. CASE ToolsDone
  BY <1>9 DEF ToolsDone, To
<1>10. CASE Complete
  <2>1. life' \in [Runs -> Lifecycle]
    BY <1>10 DEF Complete, Finish
  <2> QED
    BY <1>10, <2>1, OffType DEF Complete, Finish
<1>11. CASE RepairAfterInterrupt
  BY <1>11 DEF RepairAfterInterrupt, RepairExcept
<1>12. CASE FinishUnwound
  <2>1. life' \in [Runs -> Lifecycle]
    BY <1>12 DEF FinishUnwound, Finish
  <2> QED
    BY <1>12, <2>1, OffType DEF FinishUnwound, Finish
<1>13. CASE ProviderContextLength
  <2>1. CASE Unwind("failed")
    BY <1>13, <2>1, UnwindType DEF ProviderContextLength
  <2>2. CASE ~Unwind("failed")
    BY <1>13, <2>2 DEF ProviderContextLength
  <2> QED
    BY <2>1, <2>2
<1>40. CASE Compacted
  <2>1. CASE ~Unwind("failed")
    BY <1>40, <2>1 DEF Compacted
  <2> QED
    BY <1>40, <2>1, UnwindType DEF Compacted
<1>41. CASE Shrunk
  <2>1. CASE ~Unwind("failed")
    BY <1>41, <2>1 DEF Shrunk
  <2> QED
    BY <1>41, <2>1, UnwindType DEF Shrunk
<1>14. CASE ProviderFails
  BY <1>14, UnwindType DEF ProviderFails
<1>15. CASE RespondFinal
  BY <1>15 DEF RespondFinal
<1>16. CASE RequestCancel
  BY <1>16 DEF RequestCancel
<1>17. CASE Crash
  <2>1. crashes' \in 0 .. MaxCrashes
    BY <1>17 DEF Crash
  <2> QED
    BY <1>17, <2>1, OffType DEF Crash
<1>18. ASSUME NEW r \in Runs, Open(r) PROVE TypeOK'
  BY <1>18 DEF Open, SuspendedCalls
<1>19. ASSUME NEW r \in Runs, Abandon(r) PROVE TypeOK'
  <2>1. result' \in [Calls -> {"none", "open", "recovered"} \cup Results]
    BY <1>19 DEF Abandon, RepairExcept
  <2>2. life' \in [Runs -> Lifecycle]
    BY <1>19 DEF Abandon
  <2>3. UNCHANGED <<pending, transcript, authority, volatile, history>>
    BY <1>19 DEF Abandon
  <2> QED
    BY <2>1, <2>2, <2>3
<1>39. ASSUME NEW r \in Runs, AbandonDies(r) PROVE TypeOK'
  <2>1. result' \in [Calls -> {"none", "open", "recovered"} \cup Results]
    BY <1>39 DEF AbandonDies, RepairExcept
  <2>2. crashes' \in 0 .. MaxCrashes
    BY <1>39 DEF AbandonDies
  <2>3. UNCHANGED <<life, pending, transcript, authority, volatile, execs, usedBy>>
    BY <1>39 DEF AbandonDies
  <2> QED
    BY <2>1, <2>2, <2>3
<1>20. ASSUME NEW a \in Approvals, NEW st \in Grants, ResolveOutside(a, st) PROVE TypeOK'
  <2>1. ngrants' \in Nat /\ approval' \in [Approvals -> ApprovalRecord]
    BY <1>20, ResolveType DEF ResolveOutside
  <2> QED
    BY <1>20, <2>1 DEF ResolveOutside
<1>21. ASSUME NEW a \in Approvals, ExpireApproval(a) PROVE TypeOK'
  <2>1. approval[a] \in ApprovalRecord
    OBVIOUS
  <2>2. approval' \in [Approvals -> ApprovalRecord]
    BY <1>21, <2>1, ApprovalUpdates DEF ExpireApproval
  <2> QED
    BY <1>21, <2>2, SMTT(40) DEF ExpireApproval
<1>22. ASSUME NEW l \in leases, ExpireLease(l) PROVE TypeOK'
  BY <1>22 DEF ExpireLease
<1>23. ASSUME NEW last \in (ncalls + 1) .. MaxCalls, RespondCalls(last) PROVE TypeOK'
  BY <1>23 DEF RespondCalls, To
<1>24. ASSUME NEW c \in Calls, Refuse(c) PROVE TypeOK'
  <2>1. task[c] # "idle" /\ UNCHANGED <<durable, mach, rule, history>>
    BY <1>24 DEF Refuse
  <2>2. PICK s \in TaskStates : TaskTo(c, s)
    BY <1>24 DEF Refuse
  <2> QED
    BY <2>1, <2>2, MoveType
<1>25. ASSUME NEW c \in Calls, Allow(c) PROVE TypeOK'
  <2>1. /\ task' \in [Calls -> TaskStates]
        /\ \A d \in Calls : task'[d] # "idle" => task[d] # "idle"
    BY <1>25 DEF Allow, TaskTo
  <2>2. rule' \in [Calls -> Rules] /\ usedBy' \in [Approvals -> SUBSET Calls]
    BY <1>25, DecisionType DEF Allow
  <2>3. UNCHANGED <<durable, exec, phase, mach, queue, inline, loop, exit, cancel, execs, crashes>>
    BY <1>25 DEF Allow, TaskTo
  <2> QED
    BY <2>1, <2>2, <2>3, SMTT(30)
<1>26. ASSUME NEW c \in Calls, AskIneffective(c) PROVE TypeOK'
  <2>1. task[c] # "idle" /\ UNCHANGED <<durable, mach, rule, history>>
    BY <1>26 DEF AskIneffective
  <2>2. PICK s \in TaskStates : TaskTo(c, s)
    BY <1>26 DEF AskIneffective
  <2> QED
    BY <2>1, <2>2, MoveType
<1>27. ASSUME NEW c \in Calls, AskDenied(c) PROVE TypeOK'
  <2>1. task[c] # "idle" /\ UNCHANGED <<durable, mach, rule, history>>
    BY <1>27 DEF AskDenied
  <2>2. PICK s \in TaskStates : TaskTo(c, s)
    BY <1>27 DEF AskDenied
  <2> QED
    BY <2>1, <2>2, MoveType
<1>28. ASSUME NEW c \in Calls, Ask(c) PROVE TypeOK'
  <2>1. napprovals' \in 0 .. MaxApprovals
    BY <1>28 DEF Ask, RequestOrReuse
  <2>2. approval' \in [Approvals -> ApprovalRecord]
    <3>1. CASE PendingFor(c) # {}
      BY <1>28, <3>1 DEF Ask, RequestOrReuse
    <3>2. CASE PendingFor(c) = {}
      <4> DEFINE x == [NoApproval EXCEPT !.call = c, !.status = "pending"]
      <4>1. x \in ApprovalRecord
        BY DEF ApprovalRecord, ApprovalStatus, NoApproval
      <4>2. approval' = [approval EXCEPT ![napprovals + 1] = x]
        BY <1>28, <3>2 DEF Ask, RequestOrReuse
      <4> HIDE DEF x
      <4> QED
        BY <4>1, <4>2
    <3> QED
      BY <3>1, <3>2
  <2>3. PolicyDecision(c).rule \in Rules
    BY DecisionType
  <2>4. rule' \in [Calls -> Rules]
    BY <1>28, <2>3 DEF Ask
  <2>5. task' \in [Calls -> TaskStates] /\ mach' \in RunStates
    BY <1>28 DEF Ask, TaskTo
  <2>6. UNCHANGED <<exec, phase, queue, inline, loop, exit, cancel>>
    BY <1>28 DEF Ask, TaskTo
  <2>7. UNCHANGED <<life, pending, transcript, result, ngrants, leases, history>>
    BY <1>28 DEF Ask
  <2>8. \A d \in Calls : task'[d] # "idle" => task[d] # "idle"
    BY <1>28 DEF Ask, TaskTo
  <2>9. \A d \in Calls : task'[d] # "idle" => phase' = "tools" /\ d \in queue'
    BY <2>6, <2>8
  <2>10. /\ UNCHANGED <<life, pending, usage, ncalls, owner, tool, result, ngrants, leases>>
         /\ UNCHANGED <<exec, phase, queue, inline, turns, retryUsed, exit, cancel>>
         /\ UNCHANGED <<execs, usedBy, crashes>>
    BY <2>6, <2>7
  <2> HIDE DEF Phases, RunStates, Lifecycle, TaskStates, Results, Outcomes, TerminalStates
  <2> QED
    BY <2>1, <2>2, <2>4, <2>5, <2>9, <2>10
<1>29. ASSUME NEW c \in Calls, ResolverTooLate(c) PROVE TypeOK'
  <2>1. task[c] # "idle" /\ UNCHANGED <<durable, mach, rule, history>>
    BY <1>29 DEF ResolverTooLate
  <2>2. PICK s \in TaskStates : TaskTo(c, s)
    BY <1>29 DEF ResolverTooLate
  <2> QED
    BY <2>1, <2>2, MoveType
<1>30. ASSUME NEW c \in Calls, RunTool(c) PROVE TypeOK'
  <2>1. execs' \in [Calls -> Nat]
    BY <1>30 DEF RunTool
  <2> QED
    BY <1>30, <2>1 DEF RunTool, TaskTo
<1>31. ASSUME NEW c \in Calls, ToolReturns(c) PROVE TypeOK'
  <2>1. \A a \in Approvals : [approval[a] EXCEPT !.status = "consumed"] \in ApprovalRecord
    BY ApprovalUpdates
  <2>2. approval' \in [Approvals -> ApprovalRecord]
    BY <1>31, <2>1 DEF ToolReturns, ConsumeOneShot
  <2>3. task' \in [Calls -> TaskStates]
    BY <1>31 DEF ToolReturns, TaskTo
  <2>4. UNCHANGED <<exec, phase, queue, inline, loop, exit, cancel>>
    BY <1>31 DEF ToolReturns, TaskTo
  <2>5. UNCHANGED <<life, pending, transcript, result, napprovals, ngrants, leases,
                    mach, rule, history>>
    BY <1>31 DEF ToolReturns
  <2>6. \A d \in Calls : task'[d] # "idle" => task[d] # "idle"
    BY <1>31 DEF ToolReturns, TaskTo
  <2> QED
    BY <2>2, <2>3, <2>4, <2>5, <2>6
<1>32. ASSUME NEW c \in Calls, CommitResult(c) PROVE TypeOK'
  <2>1. result' \in [Calls -> {"none", "open", "recovered"} \cup Results]
    BY <1>32 DEF CommitResult
  <2>2. task' \in [Calls -> TaskStates]
    BY <1>32 DEF CommitResult, Unwind, Idle
  <2>3. \A d \in Calls : task'[d] # "idle" => phase' = "tools" /\ d \in queue'
    BY <1>32 DEF CommitResult, Unwind, Idle
  <2>4. /\ queue' \subseteq Calls
        /\ phase' \in Phases \ {"off"}
        /\ exit' \in {"failed", "interrupted"}
    BY <1>32 DEF CommitResult, Unwind
  <2>5. UNCHANGED <<exec, mach, inline, rule, loop, cancel, life, pending, transcript,
                    authority, history>>
    BY <1>32 DEF CommitResult, Unwind
  <2>6. phase = "tools"
    BY <1>32 DEF CommitResult
  <2> QED
    BY <2>1, <2>2, <2>3, <2>4, <2>5, <2>6
<1>33. ASSUME NEW c \in Calls, CommitRaise(c) PROVE TypeOK'
  BY <1>33, UnwindType DEF CommitRaise
<1>34. ASSUME NEW c \in Calls, Suspend(c) PROVE TypeOK'
  <2>1. life' \in [Runs -> Lifecycle] /\ pending' \in [Runs -> SUBSET Calls]
    BY <1>34 DEF Suspend
  <2> QED
    BY <1>34, <2>1, OffType DEF Suspend
<1>35. ASSUME NEW c \in Calls, ResolverDefers(c) PROVE TypeOK'
  <2>1. task[c] # "idle" /\ UNCHANGED <<durable, mach, rule, history>>
    BY <1>35 DEF ResolverDefers
  <2>2. PICK s \in TaskStates : TaskTo(c, s)
    BY <1>35 DEF ResolverDefers
  <2> QED
    BY <2>1, <2>2, MoveType
<1>36. ASSUME NEW c \in Calls, NEW st \in Grants, ResolverAnswers(c, st) PROVE TypeOK'
  <2>1. PICK a \in Approvals : Resolve(a, st)
    BY <1>36 DEF ResolverAnswers, PendingFor, ApprovalsFor
  <2>2. ngrants' \in Nat /\ approval' \in [Approvals -> ApprovalRecord]
    BY <2>1, ResolveType
  <2>3. leases' \subseteq Runs \X (Tools \cup {NoTool})
    <3>1. exec \in Runs
      BY <1>36 DEF ResolverAnswers
    <3> QED
      BY <1>36, <3>1 DEF ResolverAnswers
  <2> QED
    BY <1>36, <2>2, <2>3 DEF ResolverAnswers, TaskTo, To
<1>37. CASE UNCHANGED vars
  BY <1>37 DEF vars
<1> QED
  BY <1>1, <1>2, <1>3, <1>4, <1>5, <1>6, <1>7, <1>8, <1>9, <1>10, <1>11, <1>12, <1>13, <1>14, <1>15, <1>16, <1>17, <1>18, <1>19, <1>20, <1>21, <1>22, <1>23, <1>24, <1>25, <1>26, <1>27, <1>28, <1>29, <1>30, <1>31, <1>32, <1>33, <1>34, <1>35, <1>36, <1>37, <1>38, <1>39, <1>40, <1>41 DEF Next, RunStep, TaskStep, ResolverStep, ProviderStep, ClientStep, Environment

\* Every reachable state of every instance is well typed.
THEOREM TypeCorrect == Spec => []TypeOK
BY InitType, NextType, PTL DEF Spec
-----------------------------------------------------------------------------
(***************************************************************************)
(* The kinds of steps.  Most actions fall into three kinds that the proofs *)
(* below treat once.                                                       *)
(***************************************************************************)

\* Clients, resolvers and clocks that touch only approvals, leases and cancel.
Quiet == UNCHANGED <<life, pending, usage, ncalls, owner, tool, result, exec, phase,
                     queue, task, turns, execs>>

\* An exception leaves the coroutine.
Raises ==
    /\ phase # "off"
    /\ phase' = "unwinding"
    /\ task' = Idle
    /\ UNCHANGED <<life, pending, usage, ncalls, owner, tool, result, exec, queue,
                   turns, execs>>

\* A dispatch coroutine moves without starting its tool.
Moves(c, s) ==
    /\ task[c] # "idle"
    /\ s # "idle"
    /\ s \in Unstarted => task[c] \in Unstarted
    /\ s \in {"asking", "suspend"} =>
          task[c] = "asking" \/ PolicyDecision(c).effect = "ask"
    /\ task' = [task EXCEPT ![c] = s]
    /\ UNCHANGED <<life, pending, usage, ncalls, owner, tool, result, exec, phase,
                   queue, turns, execs>>

\* A result is appended for the first call of the queue.
Commits(c) ==
    /\ phase = "tools"
    /\ c \in queue
    /\ result' = [result EXCEPT ![c] = task[c]]
    /\ task[c] \in Results
    /\ queue' = queue \ {c}
    /\ task' = [task EXCEPT ![c] = "idle"]
    /\ UNCHANGED <<life, pending, usage, ncalls, owner, tool, exec, phase, turns, execs>>

\* The loop goes on to its next turn, asks the model, or returns to its top after a
\* context-length error.
Loops(from, to) ==
    /\ phase = from
    /\ phase' = to
    /\ UNCHANGED <<life, pending, usage, ncalls, owner, tool, result, exec, queue, task,
                   turns, execs>>

\* The model is asked, or the provider is to count or to summarize first.
Asks ==
    \/ (Loops("compile", "compacting") \/ Loops("compile", "model")) /\ turns < MaxTurns
    \/ Loops("compacting", "model")

\* A request that was too long leads back to the top of the loop.
Shrinks == Loops("model", "shrinking") \/ Loops("shrinking", "loop")

Kinds ==
    \/ Quiet
    \/ Raises
    \/ \E c \in Calls, s \in TaskStates : Moves(c, s)
    \/ \E c \in Calls : Commits(c) \/ RunTool(c) \/ Suspend(c)
    \/ Loops("loop", "compile") /\ queue = {}
    \/ Asks
    \/ Shrinks
    \/ Setup \/ LoopPending \/ StartGroup \/ ToolsDone \/ RespondFinal
    \/ \E last \in (ncalls + 1) .. MaxCalls : RespondCalls(last)
    \/ Complete \/ RepairAfterInterrupt \/ FinishUnwound \/ Crash
    \/ \E r \in Runs : Open(r) \/ Abandon(r) \/ AbandonDies(r)

LEMMA StepKinds == ASSUME TypeOK, [Next]_vars PROVE Kinds
<1> USE DEF durable, volatile, history, transcript, authority, loop
<1>1. CASE OpenHookFails \/ LoopCancelled \/ LoopTurnLimit \/ ProviderFails \/ ToolsCancelled
  <2>1. Raises
    BY <1>1 DEF OpenHookFails, LoopCancelled, LoopTurnLimit, ProviderFails, ToolsCancelled,
                Unwind, Raises
  <2> QED
    BY <2>1 DEF Kinds
<1>2. CASE LoopCompile
  <2>1. Raises \/ ((Loops("compile", "compacting") \/ Loops("compile", "model")) /\ turns < MaxTurns)
    BY <1>2 DEF LoopCompile, Unwind, Raises, Loops
  <2> QED
    BY <2>1 DEF Kinds, Asks
<1>12. CASE Compacted
  <2>1. Raises \/ Loops("compacting", "model")
    BY <1>12 DEF Compacted, Unwind, Raises, Loops
  <2> QED
    BY <2>1 DEF Kinds, Asks
<1>13. CASE Shrunk
  <2>1. Raises \/ Loops("shrinking", "loop")
    BY <1>13 DEF Shrunk, Unwind, Raises, Loops
  <2> QED
    BY <2>1 DEF Kinds, Shrinks
<1>3. CASE ProviderContextLength
  <2>1. Raises \/ Loops("model", "shrinking")
    BY <1>3 DEF ProviderContextLength, Unwind, Raises, Loops
  <2> QED
    BY <2>1 DEF Kinds, Shrinks
<1>11. CASE LoopTurn
  <2>1. Loops("loop", "compile") /\ queue = {}
    BY <1>11 DEF LoopTurn, Loops
  <2> QED
    BY <2>1 DEF Kinds
<1>4. ASSUME NEW c \in Calls, TaskStep(c) PROVE Kinds
  <2>1. CASE RunTool(c)
    BY <2>1 DEF Kinds
  <2>2. CASE Refuse(c)
    <3>1. PICK s \in {"error", "raise"} : TaskTo(c, s)
      BY <2>2 DEF Refuse
    <3>2. Moves(c, s)
      BY <2>2, <3>1 DEF Refuse, TaskTo, Moves, Unstarted
    <3> QED
      BY <3>2 DEF Kinds, TaskStates, Outcomes, Results
  <2>3. CASE Allow(c)
    <3>1. Moves(c, "started")
      BY <2>3 DEF Allow, TaskTo, Moves, Unstarted
    <3> QED
      BY <3>1 DEF Kinds, TaskStates
  <2>4. CASE AskIneffective(c) \/ AskDenied(c)
    <3>1. Moves(c, "denied")
      BY <2>4 DEF AskIneffective, AskDenied, TaskTo, Moves, Unstarted
    <3> QED
      BY <3>1 DEF Kinds, TaskStates, Outcomes, Results
  <2>5. CASE Ask(c)
    <3>1. PICK s \in {"asking", "suspend", "raise"} : TaskTo(c, s)
      BY <2>5 DEF Ask
    <3>2. Moves(c, s)
      BY <2>5, <3>1 DEF Ask, TaskTo, Moves, Unstarted
    <3> QED
      BY <3>2 DEF Kinds, TaskStates, Outcomes
  <2>6. CASE ResolverTooLate(c)
    <3>1. Moves(c, "raise")
      BY <2>6 DEF ResolverTooLate, TaskTo, Moves, Unstarted
    <3> QED
      BY <3>1 DEF Kinds, TaskStates, Outcomes
  <2>7. CASE ToolReturns(c)
    <3>1. PICK s \in {"ok", "error"} : TaskTo(c, s)
      BY <2>7 DEF ToolReturns
    <3>2. Moves(c, s)
      BY <2>7, <3>1 DEF ToolReturns, TaskTo, Moves, Unstarted
    <3> QED
      BY <3>2 DEF Kinds, TaskStates, Outcomes, Results
  <2> QED
    BY <1>4, <2>1, <2>2, <2>3, <2>4, <2>5, <2>6, <2>7 DEF TaskStep
<1>5. ASSUME NEW c \in Calls, ResolverStep(c) PROVE Kinds
  <2>1. CASE ResolverDefers(c)
    <3>1. Moves(c, "suspend")
      BY <2>1 DEF ResolverDefers, TaskTo, Moves, Unstarted
    <3> QED
      BY <3>1 DEF Kinds, TaskStates, Outcomes
  <2>2. ASSUME NEW st \in Grants, ResolverAnswers(c, st) PROVE Kinds
    <3>1. PICK s \in {"denied", "retry"} : TaskTo(c, s)
      BY <2>2 DEF ResolverAnswers
    <3>2. Moves(c, s)
      BY <2>2, <3>1 DEF ResolverAnswers, TaskTo, Moves, Unstarted
    <3> QED
      BY <3>2 DEF Kinds, TaskStates, Outcomes, Results
  <2> QED
    BY <1>5, <2>1, <2>2 DEF ResolverStep
<1>6. ASSUME NEW c \in Calls, CommitResult(c) PROVE Kinds
  <2>1. Raises \/ Commits(c)
    BY <1>6 DEF CommitResult, First, Unwind, Raises, Commits
  <2> QED
    BY <2>1 DEF Kinds
<1>7. ASSUME NEW c \in Calls, CommitRaise(c) PROVE Kinds
  <2>1. Raises
    BY <1>7 DEF CommitRaise, Unwind, Raises
  <2> QED
    BY <2>1 DEF Kinds
<1>8. ASSUME NEW a \in Approvals, ExpireApproval(a) \/ \E st \in Grants : ResolveOutside(a, st)
      PROVE Kinds
  <2>1. Quiet
    BY <1>8 DEF ExpireApproval, ResolveOutside, Quiet
  <2> QED
    BY <2>1 DEF Kinds
<1>9. CASE RequestCancel \/ (\E l \in leases : ExpireLease(l)) \/ UNCHANGED vars
  <2>1. Quiet
    BY <1>9 DEF RequestCancel, ExpireLease, Quiet, vars
  <2> QED
    BY <2>1 DEF Kinds
<1>10. CASE Setup \/ LoopPending \/ StartGroup \/ ToolsDone \/ RespondFinal \/ Complete
            \/ RepairAfterInterrupt \/ FinishUnwound \/ Crash
            \/ (\E c \in Calls : Suspend(c))
            \/ (\E last \in (ncalls + 1) .. MaxCalls : RespondCalls(last))
            \/ (\E r \in Runs : Open(r) \/ Abandon(r) \/ AbandonDies(r))
  BY <1>10 DEF Kinds
<1> QED
  BY <1>1, <1>2, <1>3, <1>4, <1>5, <1>6, <1>7, <1>8, <1>9, <1>10, <1>11, <1>12, <1>13
     DEF Next, RunStep, ProviderStep, ClientStep, Environment
-----------------------------------------------------------------------------
(***************************************************************************)
(* The turn budget.                                                        *)
(***************************************************************************)
LEMMA InitBudget == Init => Budget
BY DEF Init, Budget, Live, TurnBudgetHolds

LEMMA NextBudget == TypeOK /\ Budget /\ [Next]_vars => Budget'
<1> SUFFICES ASSUME TypeOK, Budget, [Next]_vars PROVE Budget'
  OBVIOUS
<1> USE DEF TypeOK, Budget, Live, TurnBudgetHolds, durable, volatile, transcript, loop
<1>1. CASE Quiet \/ Raises
  BY <1>1 DEF Quiet, Raises
<1>2. ASSUME NEW c \in Calls, NEW s \in TaskStates, Moves(c, s) PROVE Budget'
  BY <1>2 DEF Moves
<1>3. ASSUME NEW c \in Calls, Commits(c) \/ RunTool(c) \/ Suspend(c) PROVE Budget'
  BY <1>3 DEF Commits, RunTool, TaskTo, Suspend, Off
<1>4. CASE Asks
  BY <1>4 DEF Loops, Asks
<1>5. CASE Shrinks \/ Loops("loop", "compile")
  BY <1>5 DEF Loops, Asks, Shrinks
<1>6. CASE Setup \/ LoopPending \/ StartGroup \/ ToolsDone
  BY <1>6 DEF Setup, LoopPending, StartGroup, ToolsDone
<1>7. CASE RespondFinal
  BY <1>7 DEF RespondFinal
<1>8. ASSUME NEW last \in (ncalls + 1) .. MaxCalls, RespondCalls(last) PROVE Budget'
  BY <1>8 DEF RespondCalls
<1>9. CASE Complete \/ RepairAfterInterrupt \/ FinishUnwound \/ Crash
  BY <1>9 DEF Complete, RepairAfterInterrupt, FinishUnwound, Finish, Crash, Off
<1>10. ASSUME NEW r \in Runs, Open(r) \/ Abandon(r) \/ AbandonDies(r) PROVE Budget'
  BY <1>10 DEF Open, Abandon, AbandonDies
<1> HIDE DEF TypeOK
<1> QED
  BY StepKinds, <1>1, <1>2, <1>3, <1>4, <1>5, <1>6, <1>7, <1>8, <1>9, <1>10 DEF Kinds

\* No run ever has more durable model turns than its budget, over all the
\* suspensions, crashes and resumptions of the run.
THEOREM TurnBudgetCorrect == Spec => []TurnBudgetHolds
<1>1. TypeOK /\ Budget /\ [Next]_vars => (TypeOK /\ Budget)'
  BY NextType, NextBudget
<1>2. Budget => TurnBudgetHolds
  BY DEF Budget
<1> QED
  BY InitType, InitBudget, <1>1, <1>2, PTL DEF Spec
-----------------------------------------------------------------------------
(***************************************************************************)
(* Ownership, and the finality of terminal runs.                           *)
(***************************************************************************)
LEMMA InitOwnership == Init => Ownership
BY DEF Init, Ownership

LEMMA NextOwnership == TypeOK /\ Ownership /\ [Next]_vars => Ownership'
<1> SUFFICES ASSUME TypeOK, Ownership, [Next]_vars PROVE Ownership'
  OBVIOUS
<1> USE DEF Ownership, durable, volatile, transcript, history
<1>1. CASE Quiet \/ Raises
  <2>1. CASE Quiet
    BY <2>1 DEF Quiet
  <2>2. CASE Raises
    BY <2>2 DEF Raises
  <2> QED
    BY <1>1, <2>1, <2>2
<1>2. ASSUME NEW c \in Calls, NEW s \in TaskStates, Moves(c, s) PROVE Ownership'
  BY <1>2 DEF Moves
<1>3. ASSUME NEW c \in Calls, Commits(c) PROVE Ownership'
  BY <1>3 DEF TypeOK, Commits, Results
<1>4. ASSUME NEW c \in Calls, RunTool(c) PROVE Ownership'
  BY <1>4 DEF TypeOK, RunTool, TaskTo
<1>5. ASSUME NEW c \in Calls, Suspend(c) PROVE Ownership'
  BY <1>5 DEF TypeOK, Suspend, Off
<1>6. CASE (Loops("loop", "compile") /\ queue = {}) \/ Asks
           \/ Shrinks
  <2>1. CASE Loops("loop", "compile") /\ queue = {}
    BY <2>1 DEF Loops, Asks, Shrinks
  <2>2. CASE Asks \/ Shrinks
    BY <2>2 DEF Loops, Asks, Shrinks
  <2> QED
    BY <1>6, <2>1, <2>2
<1>7. CASE Setup
  BY <1>7 DEF TypeOK, Setup, RepairExcept, OpenCalls
<1>8. CASE LoopPending \/ StartGroup \/ ToolsDone
  <2>1. CASE LoopPending
    BY <2>1 DEF LoopPending
  <2>2. CASE StartGroup
    BY <2>2 DEF StartGroup
  <2>3. CASE ToolsDone
    BY <2>3 DEF ToolsDone
  <2> QED
    BY <1>8, <2>1, <2>2, <2>3
<1>9. CASE RespondFinal
  BY <1>9 DEF TypeOK, RespondFinal
<1>10. ASSUME NEW last \in (ncalls + 1) .. MaxCalls, RespondCalls(last) PROVE Ownership'
  BY <1>10, SMTT(30) DEF TypeOK, RespondCalls
<1>11. CASE Complete \/ FinishUnwound \/ Crash
  BY <1>11, SMTT(30) DEF TypeOK, Complete, FinishUnwound, Finish, Crash, Off
<1>12. CASE RepairAfterInterrupt
  BY <1>12 DEF TypeOK, RepairAfterInterrupt, RepairExcept, OpenCalls
<1>13. ASSUME NEW r \in Runs, Open(r) PROVE Ownership'
  BY <1>13 DEF TypeOK, Open, SuspendedCalls
<1>14. ASSUME NEW r \in Runs, Abandon(r) \/ AbandonDies(r) PROVE Ownership'
  <2>1. CASE Abandon(r)
    BY <2>1 DEF TypeOK, Abandon, RepairExcept, OpenCalls
  <2>2. CASE AbandonDies(r)
    BY <2>2 DEF TypeOK, AbandonDies, RepairExcept, OpenCalls
  <2> QED
    BY <1>14, <2>1, <2>2
<1> QED
  BY StepKinds, <1>1, <1>2, <1>3, <1>4, <1>5, <1>6, <1>7, <1>8, <1>9, <1>10, <1>11, <1>12,
     <1>13, <1>14 DEF Kinds

\* The step condition of TerminalRunIsFinal.
Final(r) ==
    life[r] \in NonResumable =>
        /\ life'[r] = life[r]
        /\ \A c \in Calls : owner[c] = r => execs'[c] = execs[c]

LEMMA StepIsFinal == TypeOK /\ Ownership /\ [Next]_vars => \A r \in Runs : Final(r)
<1> SUFFICES ASSUME TypeOK, Ownership, [Next]_vars, NEW r \in Runs PROVE Final(r)
  OBVIOUS
<1> USE DEF Final, durable, volatile, transcript, history
<1>1. exec \in Runs => life[exec] \notin NonResumable
  BY DEF Ownership, NonResumable
<1>2. CASE Quiet \/ Raises
  BY <1>2 DEF Quiet, Raises
<1>3. ASSUME NEW c \in Calls, NEW s \in TaskStates, Moves(c, s) PROVE Final(r)
  BY <1>3 DEF Moves
<1>4. ASSUME NEW c \in Calls, Commits(c) PROVE Final(r)
  BY <1>4 DEF Commits
<1>5. ASSUME NEW c \in Calls, RunTool(c) PROVE Final(r)
  <2>1. c \in queue /\ phase = "tools"
    BY <1>5 DEF RunTool, TypeOK
  <2>2. owner[c] = exec /\ exec # NoRun
    BY <2>1 DEF Ownership, TypeOK
  <2> QED
    BY <1>1, <1>5, <2>2 DEF RunTool, TypeOK
<1>6. ASSUME NEW c \in Calls, Suspend(c) PROVE Final(r)
  BY <1>1, <1>6 DEF Suspend, TypeOK
<1>7. CASE Loops("loop", "compile") \/ Asks \/ Shrinks
  BY <1>7 DEF Loops, Asks, Shrinks
<1>8. CASE Setup \/ LoopPending \/ StartGroup \/ ToolsDone \/ RespondFinal \/ RepairAfterInterrupt
  BY <1>8 DEF Setup, LoopPending, StartGroup, ToolsDone, RespondFinal, RepairAfterInterrupt
<1>9. ASSUME NEW last \in (ncalls + 1) .. MaxCalls, RespondCalls(last) PROVE Final(r)
  BY <1>9 DEF RespondCalls
<1>10. CASE Complete \/ FinishUnwound
  BY <1>1, <1>10 DEF Complete, FinishUnwound, Finish, TypeOK
<1>11. CASE Crash
  BY <1>11 DEF Crash
<1>12. ASSUME NEW q \in Runs, Open(q) \/ Abandon(q) \/ AbandonDies(q) PROVE Final(r)
  BY <1>12 DEF Open, Resumable, Abandon, AbandonDies, NonResumable, TerminalStates, TypeOK
<1> QED
  BY StepKinds, <1>2, <1>3, <1>4, <1>5, <1>6, <1>7, <1>8, <1>9, <1>10, <1>11, <1>12 DEF Kinds

\* A completed, failed or cancelled run never has another lifecycle event and
\* never starts a tool again.
THEOREM TerminalFinalCorrect == Spec => TerminalRunIsFinal
<1>1. TypeOK /\ Ownership /\ [Next]_vars => (TypeOK /\ Ownership)'
  BY NextType, NextOwnership
<1>2. TypeOK /\ Ownership /\ [Next]_vars =>
        [\A r \in Runs : life[r] \in NonResumable =>
           /\ life'[r] = life[r]
           /\ \A c \in Calls : owner[c] = r => execs'[c] = execs[c]]_vars
  BY StepIsFinal DEF Final
<1> QED
  BY InitType, InitOwnership, <1>1, <1>2, PTL DEF Spec, TerminalRunIsFinal
-----------------------------------------------------------------------------
(***************************************************************************)
(* Authority: a privileged tool is started on a grant of its own run.      *)
(***************************************************************************)
GrantKinds == {"granted", "once", "consumed"}

\* Somebody granted an approval for tool t in run r.
WasGranted(r, t) ==
    \E a \in 1 .. napprovals :
        /\ owner[approval[a].call] = r
        /\ tool[approval[a].call] = t
        /\ approval[a].status \in GrantKinds

\* The tool of the call executes, or the decision to start it has been taken.
Begun(c) == execs[c] > 0 \/ task[c] \in {"started", "running"}

Authorized ==
    /\ \A a \in 1 .. napprovals : approval[a].call \in 1 .. ncalls
    /\ \A l \in leases : WasGranted(l[1], l[2])
    /\ \A c \in 1 .. ncalls : Begun(c) /\ tool[c] \in Privileged => WasGranted(owner[c], tool[c])

\* No lease that was granted for one tool covers a privileged other one.  It holds
\* whenever leases are not required, the default of the run options.
LeasesCoverOneTool ==
    RequireLease =>
        \A t \in Privileged, l \in Tools : Caps[t] # {} /\ Caps[t] \subseteq Caps[l] => l = t

LEMMA InitAuthorized == Init => Authorized
BY DEF Init, Authorized

\* Calls keep their run and their tool.
LEMMA CallsStay ==
    ASSUME TypeOK, [Next]_vars
    PROVE  /\ ncalls <= ncalls' /\ ncalls \in Nat /\ ncalls' \in Nat
           /\ \A c \in 1 .. ncalls : owner'[c] = owner[c] /\ tool'[c] = tool[c]
<1> USE DEF durable, volatile, transcript, history
<1>1. CASE UNCHANGED <<ncalls, owner, tool>>
  BY <1>1 DEF TypeOK
<1>2. ASSUME NEW last \in (ncalls + 1) .. MaxCalls, RespondCalls(last)
      PROVE  /\ ncalls <= ncalls' /\ ncalls \in Nat /\ ncalls' \in Nat
             /\ \A c \in 1 .. ncalls : owner'[c] = owner[c] /\ tool'[c] = tool[c]
  BY <1>2 DEF TypeOK, RespondCalls
<1>3. UNCHANGED <<ncalls, owner, tool>> \/ \E last \in (ncalls + 1) .. MaxCalls : RespondCalls(last)
  BY StepKinds DEF Kinds, Quiet, Raises, Moves, Commits, RunTool, Suspend, Loops, Asks, Shrinks, Setup,
     LoopPending, StartGroup, ToolsDone, RespondFinal, Complete, RepairAfterInterrupt,
     FinishUnwound, Finish, Crash, Open, Abandon, AbandonDies
<1> QED
  BY <1>1, <1>2, <1>3

\* An approval stays the one of its call, and what was granted stays granted or spent.
ApprovalsStay ==
    /\ napprovals <= napprovals'
    /\ \A a \in 1 .. napprovals :
          /\ approval'[a].call = approval[a].call
          /\ approval[a].status \in GrantKinds => approval'[a].status \in GrantKinds
    /\ \A a \in 1 .. napprovals' : a \notin 1 .. napprovals => approval'[a].call \in queue

\* A resolution answers a pending approval, which is granted by all but a denial.
LEMMA Resolved ==
    ASSUME TypeOK, NEW a \in Approvals, NEW st \in Grants, Resolve(a, st), napprovals' = napprovals
    PROVE  ApprovalsStay /\ (st # "denied" => approval'[a].status \in GrantKinds)
<1>1. /\ approval \in [Approvals -> ApprovalRecord] /\ approval[a].status = "pending"
      /\ approval' = [approval EXCEPT ![a] =
            [@ EXCEPT !.status = st, !.rank = IF st = "denied" THEN 0 ELSE ngrants + 1]]
      /\ 1 .. napprovals \subseteq Approvals
  BY DEF TypeOK, Resolve, PendingActive
<1>2. /\ approval'[a].status = st /\ approval'[a].call = approval[a].call
      /\ \A b \in Approvals \ {a} : approval'[b] = approval[b]
  BY <1>1 DEF ApprovalRecord
<1>3. st # "denied" => st \in GrantKinds
  BY DEF Grants, GrantKinds
<1>4. napprovals \in Nat
  BY DEF TypeOK
<1> QED
  BY <1>1, <1>2, <1>3, <1>4 DEF ApprovalsStay, GrantKinds

LEMMA ApprovalsMove == ASSUME TypeOK, [Next]_vars PROVE ApprovalsStay
<1> USE DEF durable, volatile, transcript, authority, history
<1>0. /\ napprovals \in Nat /\ 1 .. napprovals \subseteq Approvals
      /\ approval \in [Approvals -> ApprovalRecord]
  BY DEF TypeOK
<1>1. CASE UNCHANGED <<napprovals, approval>>
  BY <1>0, <1>1 DEF ApprovalsStay
<1>2. ASSUME NEW c \in Calls, Ask(c) PROVE ApprovalsStay
  <2>1. c \in queue
    BY <1>2 DEF TypeOK, Ask
  <2>2. CASE UNCHANGED <<napprovals, approval>>
    BY <1>1, <2>2
  <2>3. CASE /\ napprovals < MaxApprovals /\ napprovals' = napprovals + 1
             /\ approval' = [approval EXCEPT ![napprovals + 1] =
                                [NoApproval EXCEPT !.call = c, !.status = "pending"]]
    <3>1. napprovals + 1 \in Approvals
      BY <1>0, <2>3
    <3>2. /\ approval'[napprovals + 1].call = c
          /\ \A a \in 1 .. napprovals : approval'[a] = approval[a]
      BY <1>0, <2>3, <3>1 DEF NoApproval
    <3>3. \A a \in 1 .. napprovals' : a \notin 1 .. napprovals => a = napprovals + 1
      BY <1>0, <2>3
    <3> QED
      BY <1>0, <2>1, <2>3, <3>2, <3>3 DEF ApprovalsStay
  <2> QED
    BY <1>2, <2>2, <2>3 DEF Ask, RequestOrReuse
<1>3. ASSUME NEW c \in Calls, NEW st \in Grants, ResolverAnswers(c, st) PROVE ApprovalsStay
  <2>1. PICK a \in PendingFor(c) : Resolve(a, st)
    BY <1>3 DEF ResolverAnswers
  <2>2. a \in Approvals /\ napprovals' = napprovals
    BY <1>0, <1>3, <2>1 DEF PendingFor, ApprovalsFor, ResolverAnswers
  <2> QED
    BY <2>1, <2>2, Resolved
<1>4. ASSUME NEW a \in Approvals, NEW st \in Grants, ResolveOutside(a, st) PROVE ApprovalsStay
  BY <1>4, Resolved DEF ResolveOutside
<1>5. ASSUME NEW c \in Calls, ToolReturns(c) PROVE ApprovalsStay
  <2>1. /\ napprovals' = napprovals
        /\ approval' =
              [a \in Approvals |->
                  IF rule[c] = "approval.granted" /\ a \in Consumable(exec, tool[c])
                  THEN [approval[a] EXCEPT !.status = "consumed"] ELSE approval[a]]
    BY <1>5 DEF ToolReturns, ConsumeOneShot
  <2>2. ASSUME NEW a \in Approvals
        PROVE  /\ approval'[a].call = approval[a].call
               /\ approval'[a].status \in {approval[a].status, "consumed"}
    BY <1>0, <2>1 DEF ApprovalRecord
  <2> QED
    BY <1>0, <2>1, <2>2 DEF ApprovalsStay, GrantKinds
<1>6. ASSUME NEW a \in Approvals, ExpireApproval(a) PROVE ApprovalsStay
  <2>1. napprovals' = napprovals /\ approval' = [approval EXCEPT ![a].expired = TRUE]
    BY <1>6 DEF ExpireApproval
  <2>2. \A b \in Approvals : /\ approval'[b].call = approval[b].call
                             /\ approval'[b].status = approval[b].status
    BY <1>0, <2>1 DEF ApprovalRecord
  <2> QED
    BY <1>0, <2>1, <2>2 DEF ApprovalsStay
<1>7. CASE RunStep /\ ~\E c \in Calls : Ask(c) \/ ToolReturns(c)
  BY <1>1, <1>7 DEF RunStep, OpenHookFails, Setup, LoopCancelled, LoopPending, LoopTurn,
     LoopTurnLimit, LoopCompile, StartGroup, ToolsCancelled, ToolsDone, TaskStep, Refuse, Allow,
     AskIneffective, AskDenied, ResolverTooLate, RunTool, CommitResult, CommitRaise, Suspend,
     Complete, RepairAfterInterrupt, FinishUnwound, Finish
<1>8. CASE ProviderStep
  BY <1>1, <1>8 DEF ProviderStep, Compacted, Shrunk,
     ProviderContextLength, ProviderFails, RespondFinal, RespondCalls
<1>9. CASE ClientStep
  BY <1>1, <1>4, <1>9 DEF ClientStep, Open, Abandon, RequestCancel
<1>10. CASE Environment
  BY <1>1, <1>3, <1>6, <1>10 DEF Environment, ResolverStep, ResolverDefers, ExpireLease, Crash,
     AbandonDies
<1>11. CASE UNCHANGED vars
  BY <1>1, <1>11 DEF vars
<1> QED
  BY <1>2, <1>5, <1>7, <1>8, <1>9, <1>10, <1>11 DEF Next, RunStep, TaskStep

\* A tool is only started after a decision to allow it.
LEMMA BegunByAllow ==
    ASSUME TypeOK, [Next]_vars, NEW c \in Calls, Begun(c)'
    PROVE  Begun(c) \/ Allow(c)
<1> USE DEF durable, volatile, history, TaskTo
<1>1. CASE UNCHANGED <<task, execs>>
  BY <1>1 DEF Begun
<1>2. ASSUME task' = Idle, execs' = execs PROVE Begun(c)
  BY <1>2 DEF Begun, Idle
<1>3. ASSUME NEW d \in Calls, NEW s \in TaskStates \ {"started", "running"},
             task' = [task EXCEPT ![d] = s], execs' = execs
      PROVE  Begun(c)
  BY <1>3 DEF Begun, TypeOK
<1>4. ASSUME NEW d \in Calls, Allow(d) PROVE Begun(c) \/ Allow(c)
  BY <1>4 DEF Begun, TypeOK, Allow
<1>5. ASSUME NEW d \in Calls, RunTool(d) PROVE Begun(c)
  BY <1>5 DEF Begun, TypeOK, RunTool
<1>6. CASE StartGroup
  BY <1>6 DEF Begun, StartGroup
<1>7. ASSUME NEW d \in Calls,
             \/ Refuse(d) \/ AskIneffective(d) \/ AskDenied(d) \/ Ask(d) \/ ResolverTooLate(d)
             \/ ToolReturns(d) \/ ResolverDefers(d) \/ \E st \in Grants : ResolverAnswers(d, st)
      PROVE  Begun(c)
  <2>1. execs' = execs
    BY <1>7 DEF Refuse, AskIneffective, AskDenied, Ask, ResolverTooLate, ToolReturns,
       ResolverDefers, ResolverAnswers
  <2>2. \E s \in {"error", "raise", "denied", "asking", "suspend", "retry", "ok"} :
           task' = [task EXCEPT ![d] = s]
    BY <1>7 DEF Refuse, AskIneffective, AskDenied, Ask, ResolverTooLate, ToolReturns,
       ResolverDefers, ResolverAnswers
  <2> QED
    BY <1>3, <2>1, <2>2 DEF TaskStates, Outcomes, Results
<1>8. ASSUME NEW d \in Calls, CommitResult(d) \/ CommitRaise(d) \/ Suspend(d) PROVE Begun(c)
  <2>1. /\ execs' = execs
        /\ task' = Idle \/ task' = [task EXCEPT ![d] = "idle"]
    BY <1>8 DEF CommitResult, CommitRaise, Suspend, Unwind, Off
  <2>2. "idle" \in TaskStates \ {"started", "running"}
    BY DEF TaskStates
  <2>3. CASE task' = [task EXCEPT ![d] = "idle"]
    BY <1>3, <2>1, <2>2, <2>3
  <2>4. CASE task' = Idle
    BY <1>2, <2>1, <2>4
  <2> QED
    BY <2>1, <2>3, <2>4
<1>9. CASE OpenHookFails \/ Setup \/ LoopCancelled \/ LoopPending \/ LoopTurn \/ LoopTurnLimit
  BY <1>1, <1>2, <1>9 DEF OpenHookFails, Setup, LoopCancelled, LoopPending, LoopTurn,
     LoopTurnLimit, Unwind
<1>10. CASE LoopCompile \/ ToolsCancelled \/ ToolsDone \/ Complete \/ RepairAfterInterrupt
            \/ FinishUnwound
  BY <1>1, <1>2, <1>10 DEF LoopCompile, ToolsCancelled, ToolsDone, Complete,
     RepairAfterInterrupt, FinishUnwound, Finish, Unwind, Off
<1>11. CASE ProviderStep
  BY <1>1, <1>2, <1>11 DEF ProviderStep, Compacted, Shrunk,
     ProviderContextLength, ProviderFails, RespondFinal,
     RespondCalls, Unwind
<1>12. CASE ClientStep
  BY <1>1, <1>12 DEF ClientStep, Open, Abandon, RequestCancel, ResolveOutside
<1>13. CASE Environment /\ ~\E d \in Calls : ResolverStep(d)
  BY <1>1, <1>2, <1>13 DEF Environment, ExpireApproval, ExpireLease, Crash, AbandonDies, Off
<1>14. CASE UNCHANGED vars
  BY <1>1, <1>14 DEF vars
<1> QED
  BY <1>4, <1>5, <1>6, <1>7, <1>8, <1>9, <1>10, <1>11, <1>12, <1>13, <1>14
     DEF Next, RunStep, TaskStep, Environment, ResolverStep

\* A lease is issued only by the answer to a request of the run for that tool.
LEMMA LeaseByAnswer ==
    ASSUME TypeOK, [Next]_vars
    PROVE  \/ leases' \subseteq leases
           \/ \E c \in queue : /\ leases' \subseteq leases \cup {<<exec, tool[c]>>}
                               /\ c \in Calls /\ ncalls' = ncalls /\ napprovals' = napprovals
                               /\ \E a \in ApprovalsFor(c) : approval'[a].status \in GrantKinds
<1> USE DEF durable, volatile, transcript, authority, history
<1>1. ASSUME NEW c \in Calls, NEW st \in Grants, ResolverAnswers(c, st), ~(leases' \subseteq leases)
      PROVE  /\ c \in queue /\ leases' \subseteq leases \cup {<<exec, tool[c]>>}
             /\ ncalls' = ncalls /\ napprovals' = napprovals
             /\ \E a \in ApprovalsFor(c) : approval'[a].status \in GrantKinds
  <2>1. PICK a \in PendingFor(c) : Resolve(a, st)
    BY <1>1 DEF ResolverAnswers
  <2>2. /\ leases' = leases \cup {<<exec, tool[c]>>} /\ st # "denied"
        /\ ncalls' = ncalls /\ napprovals' = napprovals /\ c \in queue
    BY <1>1 DEF ResolverAnswers, TypeOK
  <2>3. a \in ApprovalsFor(c) /\ a \in Approvals
    BY <2>1 DEF PendingFor, ApprovalsFor, TypeOK
  <2> QED
    BY <2>1, <2>2, <2>3, Resolved
<1>2. CASE RunStep
  BY <1>2 DEF RunStep, OpenHookFails, Setup, LoopCancelled, LoopPending, LoopTurn, LoopTurnLimit,
     LoopCompile, StartGroup, ToolsCancelled, ToolsDone, TaskStep, Refuse, Allow, AskIneffective,
     AskDenied, Ask, ResolverTooLate, RunTool, ToolReturns, CommitResult, CommitRaise, Suspend,
     Complete, RepairAfterInterrupt, FinishUnwound, Finish
<1>3. CASE ProviderStep
  BY <1>3 DEF ProviderStep, Compacted, Shrunk,
     ProviderContextLength, ProviderFails, RespondFinal, RespondCalls
<1>4. CASE ClientStep
  BY <1>4 DEF ClientStep, Open, Abandon, RequestCancel, ResolveOutside
<1>5. CASE Environment
  BY <1>1, <1>5 DEF Environment, ResolverStep, ResolverDefers, ExpireApproval, ExpireLease, Crash,
     AbandonDies
<1>6. CASE UNCHANGED vars
  BY <1>6 DEF vars
<1> QED
  BY <1>2, <1>3, <1>4, <1>5, <1>6 DEF Next

\* The policy allows a privileged tool on a grant for it, or on a lease that covers it.
LEMMA AllowedByGrant ==
    ASSUME LeasesCoverOneTool, TypeOK, Ownership, Authorized, NEW c \in Calls, Allow(c),
           tool[c] \in Privileged
    PROVE  WasGranted(owner[c], tool[c])
<1>1. owner[c] = exec /\ PolicyDecision(c).effect = "allow"
  BY DEF Allow, TypeOK, Ownership
<1>2. tool[c] \in ApprovedTools(exec) \/
      (RequireLease /\ Caps[tool[c]] # {} /\ HasCapabilities(tool[c], LeasedTools(exec)))
  BY <1>1 DEF PolicyDecision, Evaluate, Decision
<1>3. CASE tool[c] \in ApprovedTools(exec)
  <2>1. PICK a \in 1 .. napprovals :
           /\ approval[a].status \in {"granted", "once"}
           /\ owner[approval[a].call] = exec
           /\ tool[approval[a].call] = tool[c]
    BY <1>3 DEF ApprovedTools, ActiveGrants
  <2> QED
    BY <1>1, <2>1 DEF WasGranted, GrantKinds
<1>4. CASE RequireLease /\ Caps[tool[c]] # {} /\ HasCapabilities(tool[c], LeasedTools(exec))
  <2>1. PICK l \in LeasedTools(exec) : Caps[tool[c]] \subseteq Caps[l]
    BY <1>4 DEF HasCapabilities
  <2>2. l = tool[c] /\ <<exec, l>> \in leases
    BY <1>4, <2>1 DEF LeasesCoverOneTool, LeasedTools
  <2> QED
    BY <1>1, <2>2 DEF Authorized
<1> QED
  BY <1>2, <1>3, <1>4

LEMMA NextAuthorized ==
    ASSUME LeasesCoverOneTool, TypeOK, Ownership, Authorized, [Next]_vars, TypeOK'
    PROVE  Authorized'
<1>1. /\ ncalls <= ncalls' /\ ncalls \in Nat /\ ncalls' \in Nat
      /\ \A c \in 1 .. ncalls : owner'[c] = owner[c] /\ tool'[c] = tool[c]
  BY CallsStay
<1>2. ApprovalsStay /\ napprovals \in Nat /\ napprovals' \in Nat
  <2>1. ApprovalsStay
    BY ApprovalsMove
  <2>2. napprovals \in Nat /\ napprovals' \in Nat
    BY DEF TypeOK
  <2> QED
    BY <2>1, <2>2
<1>3. ASSUME NEW r, NEW t, WasGranted(r, t) PROVE WasGranted(r, t)'
  <2>1. PICK a \in 1 .. napprovals :
           /\ owner[approval[a].call] = r /\ tool[approval[a].call] = t
           /\ approval[a].status \in GrantKinds
    BY <1>3 DEF WasGranted
  <2>2. approval[a].call \in 1 .. ncalls
    BY DEF Authorized
  <2>3. /\ a \in 1 .. napprovals' /\ approval'[a].call = approval[a].call
        /\ approval'[a].status \in GrantKinds
    BY <1>2, <2>1 DEF ApprovalsStay
  <2> QED
    BY <1>1, <2>1, <2>2, <2>3 DEF WasGranted
<1>4. \A a \in 1 .. napprovals' : approval'[a].call \in 1 .. ncalls'
  <2>1. \A c \in queue : c \in 1 .. ncalls
    BY DEF TypeOK, Ownership
  <2> QED
    BY <1>1, <1>2, <2>1 DEF ApprovalsStay, Authorized
<1>5. ASSUME NEW l \in leases' PROVE WasGranted(l[1], l[2])'
  <2>1. CASE l \in leases
    BY <1>3, <2>1 DEF Authorized
  <2>2. CASE l \notin leases
    <3>1. PICK c \in queue :
             /\ l = <<exec, tool[c]>> /\ napprovals' = napprovals
             /\ \E a \in ApprovalsFor(c) : approval'[a].status \in GrantKinds
      BY <2>2, LeaseByAnswer
    <3>2. PICK a \in 1 .. napprovals' :
             approval[a].call = c /\ approval'[a].status \in GrantKinds
      BY <3>1 DEF ApprovalsFor
    <3>3. c \in 1 .. ncalls /\ owner[c] = exec
      BY DEF TypeOK, Ownership
    <3>4. approval'[a].call = c
      BY <1>2, <3>1, <3>2 DEF ApprovalsStay
    <3>5. owner'[approval'[a].call] = exec /\ tool'[approval'[a].call] = tool[c]
      BY <1>1, <3>3, <3>4
    <3> QED
      BY <3>1, <3>2, <3>5 DEF WasGranted
  <2> QED
    BY <2>1, <2>2
<1>6. ASSUME NEW c \in 1 .. ncalls', Begun(c)', tool'[c] \in Privileged
      PROVE  WasGranted(owner[c], tool[c])'
  <2>1. c \in Calls
    BY DEF TypeOK
  <2>2. Begun(c) \/ Allow(c)
    BY <1>6, <2>1, BegunByAllow
  <2>3. c \in 1 .. ncalls
    <3>1. CASE Begun(c)
      <4>1. execs[c] \in Nat /\ (task[c] # "idle" => c \in queue)
        BY <2>1 DEF TypeOK
      <4>2. execs[c] > 0 \/ task[c] # "idle"
        BY <3>1 DEF Begun
      <4>3. (c > ncalls => execs[c] = 0) /\ (c \in queue => c <= ncalls)
        BY <2>1 DEF Ownership
      <4> QED
        BY <1>1, <2>1, <4>1, <4>2, <4>3
    <3>2. CASE Allow(c)
      BY <2>1, <3>2 DEF Allow, Ownership, TypeOK
    <3> QED
      BY <2>2, <3>1, <3>2
  <2>4. owner'[c] = owner[c] /\ tool'[c] = tool[c]
    BY <1>1, <2>3
  <2>5. WasGranted(owner[c], tool[c])
    BY <1>6, <2>1, <2>2, <2>3, <2>4, AllowedByGrant DEF Authorized
  <2>6. \E a \in 1 .. napprovals' : /\ owner'[approval'[a].call] = owner[c]
                                    /\ tool'[approval'[a].call] = tool[c]
                                    /\ approval'[a].status \in GrantKinds
    BY <1>3, <2>5 DEF WasGranted
  <2>7. \E a \in 1 .. napprovals' : /\ owner'[approval'[a].call] = owner'[c]
                                    /\ tool'[approval'[a].call] = tool'[c]
                                    /\ approval'[a].status \in GrantKinds
    BY <2>4, <2>6
  <2> QED
    BY <2>7 DEF WasGranted
<1> QED
  BY <1>4, <1>5, <1>6, SMTT(60) DEF Authorized

\* A grant or a lease serves the run whose call asked for it, and the tool it was asked
\* for: no privileged tool starts in a run without a grant of its own.
THEOREM PrivilegedGrantCorrect ==
    ASSUME LeasesCoverOneTool
    PROVE  Spec => []PrivilegedNeedsGrant
<1>1. TypeOK /\ Ownership /\ Authorized /\ [Next]_vars => (TypeOK /\ Ownership /\ Authorized)'
  BY NextType, NextOwnership, NextAuthorized
<1>2. TypeOK /\ Authorized => PrivilegedNeedsGrant
  BY DEF TypeOK, Authorized, Begun, WasGranted, GrantKinds, PrivilegedNeedsGrant
<1> QED
  BY InitType, InitOwnership, InitAuthorized, <1>1, <1>2, PTL DEF Spec
-----------------------------------------------------------------------------
(***************************************************************************)
(* One-shot grants: what a call was started on is spent with its result.   *)
(***************************************************************************)

\* The grant has been used up, or its time has passed.
Spent(a) == approval[a].status = "consumed" \/ approval[a].expired

\* Calls that still need a result of their own have none.
Undone ==
    /\ phase \in Live => \A c \in queue : result[c] \notin Results
    /\ \A r \in Runs : life[r] = "suspended" => \A c \in pending[r] : result[c] \notin Results

\* A one-shot grant that call c was started on and that is still good: no other grant
\* is due before it, and c is executing, or was lost and will never be resumed.
InUse(a, c) ==
    /\ result[c] \notin {"ok", "error"}
    /\ \A b \in ActiveGrants(owner[c], tool[c]) :
          approval[b].status = "once" => approval[a].rank <= approval[b].rank
    /\ phase \in Live /\ c \in queue =>
          task[c] \in {"started", "running"} /\ rule[c] = "approval.granted"
    /\ \A r \in Runs : life[r] = "suspended" => c \notin pending[r]

Serves(a, c) ==
    /\ a <= napprovals /\ c <= ncalls
    /\ approval[a].status \in {"once", "consumed"}
    /\ owner[approval[a].call] = owner[c] /\ tool[approval[a].call] = tool[c]
    /\ ~Spent(a) => InUse(a, c)

OneShots ==
    /\ \A a \in 1 .. napprovals : approval[a].call \in 1 .. ncalls /\ approval[a].rank <= ngrants
    /\ Undone
    /\ \A a \in Approvals : \A c \in usedBy[a] : Serves(a, c)

LEMMA InitOneShots == Init => OneShots
BY DEF Init, OneShots, Undone

\* What a step may do to approvals: the rank of a grant is new, a one-shot grant stays
\* one until it is spent, and a spent one stays spent.
GrantsMove ==
    /\ ngrants <= ngrants'
    /\ \A a \in 1 .. napprovals' : approval'[a].rank <= ngrants'
    /\ \A a \in 1 .. napprovals : approval[a].status \in {"once", "consumed"} =>
          /\ approval'[a].status \in {"once", "consumed"}
          /\ approval'[a].rank = approval[a].rank
          /\ Spent(a) => Spent(a)'
    /\ \A b \in 1 .. napprovals' : approval'[b].status = "once" /\ ~approval'[b].expired =>
          \/ /\ b \in 1 .. napprovals
             /\ approval[b].status = "once" /\ ~approval[b].expired
             /\ approval'[b].rank = approval[b].rank
          \/ approval'[b].rank > ngrants

LEMMA ResolvedRank ==
    ASSUME TypeOK, OneShots, NEW a \in Approvals, NEW st \in Grants, Resolve(a, st),
           napprovals' = napprovals
    PROVE  GrantsMove
<1>1. /\ approval \in [Approvals -> ApprovalRecord] /\ approval[a].status = "pending"
      /\ approval' = [approval EXCEPT ![a] =
            [@ EXCEPT !.status = st, !.rank = IF st = "denied" THEN 0 ELSE ngrants + 1]]
      /\ ngrants' = IF st = "denied" THEN ngrants ELSE ngrants + 1
      /\ 1 .. napprovals \subseteq Approvals
      /\ ngrants \in Nat
  BY DEF TypeOK, Resolve, PendingActive
<1>2. /\ approval'[a].status = st
      /\ approval'[a].rank = IF st = "denied" THEN 0 ELSE ngrants + 1
      /\ \A b \in Approvals \ {a} : approval'[b] = approval[b]
  BY <1>1 DEF ApprovalRecord
<1>3. \A b \in 1 .. napprovals : approval[b].rank <= ngrants /\ approval[b].rank \in Nat
  BY <1>1 DEF OneShots, ApprovalRecord
<1>4. ngrants <= ngrants' /\ ngrants' \in Nat
  BY <1>1
<1>5. \A b \in 1 .. napprovals' : approval'[b].rank <= ngrants'
  BY <1>1, <1>2, <1>3, <1>4
<1>6. \A b \in 1 .. napprovals : approval[b].status \in {"once", "consumed"} => b # a
  BY <1>1
<1> QED
  BY <1>1, <1>2, <1>4, <1>5, <1>6 DEF GrantsMove, Spent, Grants

LEMMA GrantsMoveStep == ASSUME TypeOK, OneShots, [Next]_vars PROVE GrantsMove
<1> USE DEF durable, volatile, transcript, authority, history
<1>0. /\ napprovals \in Nat /\ 1 .. napprovals \subseteq Approvals /\ ngrants \in Nat
      /\ approval \in [Approvals -> ApprovalRecord]
      /\ \A a \in 1 .. napprovals : approval[a].rank <= ngrants
  BY DEF TypeOK, OneShots
<1>1. CASE UNCHANGED <<napprovals, approval, ngrants>>
  BY <1>0, <1>1 DEF GrantsMove, Spent
<1>2. ASSUME NEW c \in Calls, Ask(c) PROVE GrantsMove
  <2>1. ngrants' = ngrants
    BY <1>2 DEF Ask
  <2>2. CASE UNCHANGED <<napprovals, approval>>
    BY <1>1, <2>1, <2>2
  <2>3. CASE /\ napprovals < MaxApprovals /\ napprovals' = napprovals + 1
             /\ approval' = [approval EXCEPT ![napprovals + 1] =
                                [NoApproval EXCEPT !.call = c, !.status = "pending"]]
    <3>1. napprovals + 1 \in Approvals
      BY <1>0, <2>3
    <3>2. /\ approval'[napprovals + 1].status = "pending" /\ approval'[napprovals + 1].rank = 0
          /\ \A a \in 1 .. napprovals : approval'[a] = approval[a]
      BY <1>0, <2>3, <3>1 DEF NoApproval
    <3>3. \A a \in 1 .. napprovals' : a \notin 1 .. napprovals => a = napprovals + 1
      BY <1>0, <2>3
    <3> QED
      BY <1>0, <2>1, <2>3, <3>2, <3>3 DEF GrantsMove, Spent
  <2> QED
    BY <1>2, <2>2, <2>3 DEF Ask, RequestOrReuse
<1>3. ASSUME NEW c \in Calls, NEW st \in Grants, ResolverAnswers(c, st) PROVE GrantsMove
  <2>1. PICK a \in PendingFor(c) : Resolve(a, st)
    BY <1>3 DEF ResolverAnswers
  <2>2. a \in Approvals /\ napprovals' = napprovals
    BY <1>0, <1>3, <2>1 DEF PendingFor, ApprovalsFor, ResolverAnswers
  <2> QED
    BY <2>1, <2>2, ResolvedRank
<1>4. ASSUME NEW a \in Approvals, NEW st \in Grants, ResolveOutside(a, st) PROVE GrantsMove
  BY <1>4, ResolvedRank DEF ResolveOutside
<1>5. ASSUME NEW c \in Calls, ToolReturns(c) PROVE GrantsMove
  <2>1. /\ napprovals' = napprovals /\ ngrants' = ngrants
        /\ approval' =
              [a \in Approvals |->
                  IF rule[c] = "approval.granted" /\ a \in Consumable(exec, tool[c])
                  THEN [approval[a] EXCEPT !.status = "consumed"] ELSE approval[a]]
    BY <1>5 DEF ToolReturns, ConsumeOneShot
  <2>2. ASSUME NEW a \in Approvals
        PROVE  /\ approval'[a].rank = approval[a].rank
               /\ approval'[a].expired = approval[a].expired
               /\ approval'[a].status \in {approval[a].status, "consumed"}
    BY <1>0, <2>1 DEF ApprovalRecord
  <2> QED
    BY <1>0, <2>1, <2>2 DEF GrantsMove, Spent
<1>6. ASSUME NEW a \in Approvals, ExpireApproval(a) PROVE GrantsMove
  <2>1. /\ napprovals' = napprovals /\ ngrants' = ngrants
        /\ approval' = [approval EXCEPT ![a].expired = TRUE]
    BY <1>6 DEF ExpireApproval
  <2>2. \A b \in Approvals : /\ approval'[b].rank = approval[b].rank
                             /\ approval'[b].status = approval[b].status
                             /\ approval[b].expired => approval'[b].expired
    BY <1>0, <2>1 DEF ApprovalRecord
  <2> QED
    BY <1>0, <2>1, <2>2 DEF GrantsMove, Spent
<1>7. CASE RunStep /\ ~\E c \in Calls : Ask(c) \/ ToolReturns(c)
  BY <1>1, <1>7 DEF RunStep, OpenHookFails, Setup, LoopCancelled, LoopPending, LoopTurn,
     LoopTurnLimit, LoopCompile, StartGroup, ToolsCancelled, ToolsDone, TaskStep, Refuse, Allow,
     AskIneffective, AskDenied, ResolverTooLate, RunTool, CommitResult, CommitRaise, Suspend,
     Complete, RepairAfterInterrupt, FinishUnwound, Finish
<1>8. CASE ProviderStep
  BY <1>1, <1>8 DEF ProviderStep, Compacted, Shrunk,
     ProviderContextLength, ProviderFails, RespondFinal, RespondCalls
<1>9. CASE ClientStep
  BY <1>1, <1>4, <1>9 DEF ClientStep, Open, Abandon, RequestCancel
<1>10. CASE Environment
  BY <1>1, <1>3, <1>6, <1>10 DEF Environment, ResolverStep, ResolverDefers, ExpireLease, Crash,
     AbandonDies
<1>11. CASE UNCHANGED vars
  BY <1>1, <1>11 DEF vars
<1> QED
  BY <1>2, <1>5, <1>7, <1>8, <1>9, <1>10, <1>11 DEF Next, RunStep, TaskStep

\* What is queued was queued before, is new, or comes from a suspension; and a
\* suspension records what was queued once all of the group have ended.
QueueMoves ==
    /\ phase' \in Live => \A c \in queue' :
          \/ c \in queue /\ phase \in Live
          \/ c \notin 1 .. ncalls /\ result'[c] = "open"
          \/ \E r \in Runs : life[r] = "suspended" /\ c \in pending[r]
    /\ \A r \in Runs : life'[r] = "suspended" =>
          \/ life[r] = "suspended" /\ pending'[r] = pending[r]
          \/ phase = "tools" /\ pending'[r] = queue /\ Gathered

LEMMA QueueMovesStep == ASSUME TypeOK, Ownership, [Next]_vars PROVE QueueMoves
<1> USE DEF durable, volatile, transcript, history, Live, QueueMoves
<1>1. CASE Quiet \/ Raises
  BY <1>1 DEF Quiet, Raises
<1>2. ASSUME NEW c \in Calls, NEW s \in TaskStates, Moves(c, s) PROVE QueueMoves
  BY <1>2 DEF Moves
<1>3. ASSUME NEW c \in Calls, Commits(c) \/ RunTool(c) PROVE QueueMoves
  BY <1>3 DEF Commits, RunTool, TaskTo
<1>4. ASSUME NEW c \in Calls, Suspend(c) PROVE QueueMoves
  BY <1>4 DEF Suspend, Off, TypeOK
<1>5. CASE Loops("loop", "compile") \/ Asks \/ Shrinks
  BY <1>5 DEF Loops, Asks, Shrinks
<1>6. CASE Setup \/ LoopPending \/ StartGroup \/ ToolsDone \/ RespondFinal
  BY <1>6 DEF Setup, LoopPending, StartGroup, ToolsDone, RespondFinal
<1>7. ASSUME NEW last \in (ncalls + 1) .. MaxCalls, RespondCalls(last) PROVE QueueMoves
  BY <1>7 DEF RespondCalls, TypeOK
<1>8. CASE Complete \/ FinishUnwound \/ Crash
  BY <1>8 DEF Complete, FinishUnwound, Finish, Crash, Off, TypeOK
<1>9. CASE RepairAfterInterrupt
  BY <1>9 DEF RepairAfterInterrupt
<1>10. ASSUME NEW r \in Runs, Open(r) PROVE QueueMoves
  BY <1>10 DEF Open, SuspendedCalls, TypeOK
<1>11. ASSUME NEW r \in Runs, Abandon(r) \/ AbandonDies(r) PROVE QueueMoves
  BY <1>11 DEF Abandon, AbandonDies, TypeOK
<1> QED
  BY StepKinds, <1>1, <1>2, <1>3, <1>4, <1>5, <1>6, <1>7, <1>8, <1>9, <1>10, <1>11 DEF Kinds

\* A call gets a result of its own only from the commit of what its task returned.
ResultMoves ==
    \A c \in Calls : result'[c] \in Results /\ result'[c] # result[c] =>
        /\ phase = "tools" /\ c \in queue /\ task[c] \in Results /\ result'[c] = task[c]
        /\ queue' = queue \ {c} /\ exec' = exec /\ UNCHANGED <<life, pending>>

LEMMA ResultMovesStep == ASSUME TypeOK, [Next]_vars PROVE ResultMoves
<1> USE DEF durable, volatile, transcript, history, ResultMoves
<1>1. CASE result' = result
  BY <1>1
<1>2. ASSUME NEW c \in Calls, Commits(c) PROVE ResultMoves
  BY <1>2 DEF Commits, TypeOK
<1>3. ASSUME NEW last \in (ncalls + 1) .. MaxCalls, RespondCalls(last) PROVE ResultMoves
  BY <1>3 DEF RespondCalls, Results
<1>4. ASSUME NEW kept, RepairExcept(kept) PROVE ResultMoves
  BY <1>4 DEF RepairExcept, Results
<1>5. CASE Setup \/ RepairAfterInterrupt
  BY <1>4, <1>5 DEF Setup, RepairAfterInterrupt
<1>6. ASSUME NEW r \in Runs, Abandon(r) \/ AbandonDies(r) PROVE ResultMoves
  BY <1>1, <1>4, <1>6 DEF Abandon, AbandonDies
<1>7. CASE Kinds /\ ~(\E c \in Calls : Commits(c)) /\ ~Setup /\ ~RepairAfterInterrupt
           /\ ~(\E last \in (ncalls + 1) .. MaxCalls : RespondCalls(last))
           /\ ~(\E r \in Runs : Abandon(r) \/ AbandonDies(r))
  BY <1>1, <1>7 DEF Kinds, Quiet, Raises, Moves, RunTool, Suspend, Loops, Asks, Shrinks, LoopPending,
     StartGroup, ToolsDone, RespondFinal, Complete, FinishUnwound, Finish, Crash, Open
<1> QED
  BY StepKinds, <1>2, <1>3, <1>5, <1>6, <1>7

LEMMA NextUndone == ASSUME TypeOK, Ownership, Undone, [Next]_vars PROVE Undone'
<1>1. QueueMoves /\ ResultMoves
  BY QueueMovesStep, ResultMovesStep
<1>2. TypeOK'
  BY NextType
<1>3. ASSUME phase' \in Live, NEW c \in queue' PROVE result'[c] \notin Results
  <2>1. c \in Calls
    BY <1>2 DEF TypeOK
  <2>2. CASE c \notin 1 .. ncalls /\ result'[c] = "open"
    BY <2>2 DEF Results
  <2>3. result[c] \notin Results \/ (c \notin 1 .. ncalls /\ result'[c] = "open")
    BY <1>1, <1>3 DEF QueueMoves, Undone
  <2> QED
    BY <1>1, <1>3, <2>1, <2>2, <2>3 DEF ResultMoves
<1>4. ASSUME NEW r \in Runs, life'[r] = "suspended", NEW c \in pending'[r]
      PROVE  result'[c] \notin Results
  <2>1. c \in Calls
    BY <1>2 DEF TypeOK
  <2>2. CASE life[r] = "suspended" /\ pending'[r] = pending[r]
    <3>1. result[c] \notin Results /\ c <= ncalls /\ owner[c] = r
      BY <1>4, <2>2 DEF Undone, Ownership
    <3>2. SUFFICES ASSUME result'[c] \in Results PROVE FALSE
      OBVIOUS
    <3>3. c \in queue /\ phase = "tools"
      BY <1>1, <2>1, <3>1, <3>2 DEF ResultMoves
    <3>4. owner[c] = exec /\ exec \in Runs
      BY <3>3 DEF Ownership, TypeOK
    <3> QED
      BY <2>2, <3>1, <3>4 DEF Ownership
  <2>3. CASE phase = "tools" /\ pending'[r] = queue /\ Gathered /\ life[r] # "suspended"
    <3>1. result[c] \notin Results
      BY <1>4, <2>3 DEF Undone, Live
    <3> QED
      BY <1>1, <1>4, <2>1, <2>3, <3>1 DEF ResultMoves
  <2>4. CASE phase = "tools" /\ pending'[r] = queue /\ Gathered /\ life[r] = "suspended"
    <3>1. result[c] \notin Results
      BY <1>4, <2>4 DEF Undone, Live
    <3>2. SUFFICES ASSUME result'[c] \in Results PROVE FALSE
      OBVIOUS
    <3>3. pending' = pending
      BY <1>1, <2>1, <3>1, <3>2 DEF ResultMoves
    <3>4. c \in queue /\ owner[c] = exec /\ exec # NoRun /\ owner[c] = r
      BY <1>4, <2>4, <3>3 DEF Ownership, TypeOK
    <3> QED
      BY <2>4, <3>4 DEF Ownership
  <2> QED
    BY <1>1, <1>4, <2>2, <2>3, <2>4 DEF QueueMoves
<1> QED
  BY <1>3, <1>4 DEF Undone

\* A call whose tool was let in stays so, under the same rule, until it returns or
\* is lost with its group.
LEMMA StartedStays ==
    ASSUME TypeOK, [Next]_vars, NEW c \in Calls, task[c] \in {"started", "running"}
    PROVE  \/ task'[c] \in {"started", "running"} /\ rule'[c] = rule[c]
           \/ ToolReturns(c)
           \/ phase' \notin Live
<1> USE DEF durable, volatile, history, TaskTo
<1>0. phase = "tools" /\ c \in queue /\ c \in Group
  BY DEF TypeOK, Group
<1>1. CASE UNCHANGED <<task, rule>>
  BY <1>1
<1>2. CASE phase' \notin Live
  BY <1>2
<1>3. CASE OpenHookFails \/ Setup \/ LoopCancelled \/ LoopPending \/ LoopTurn \/ LoopTurnLimit
           \/ LoopCompile \/ Complete \/ RepairAfterInterrupt \/ FinishUnwound \/ ProviderStep
  BY <1>0, <1>3 DEF OpenHookFails, Setup, LoopCancelled, LoopPending, LoopTurn, LoopTurnLimit,
     LoopCompile, Complete, RepairAfterInterrupt, FinishUnwound, ProviderStep, Compacted, Shrunk,
     ProviderContextLength, ProviderFails, RespondFinal, RespondCalls, Unwind, Live
<1>4. CASE StartGroup
  BY <1>0, <1>4 DEF StartGroup
<1>5. CASE ToolsCancelled
  BY <1>2, <1>5 DEF ToolsCancelled, Unwind, Live
<1>6. CASE ToolsDone
  BY <1>0, <1>6 DEF ToolsDone
<1>7. ASSUME NEW d \in Calls, TaskStep(d), ~ToolReturns(c)
      PROVE  task'[c] \in {"started", "running"} /\ rule'[c] = rule[c]
  BY <1>7 DEF TaskStep, Refuse, Allow, AskIneffective, AskDenied, Ask, ResolverTooLate, RunTool,
     ToolReturns, TypeOK
<1>8. ASSUME NEW d \in Calls, CommitResult(d) \/ CommitRaise(d) \/ Suspend(d)
      PROVE  phase' \notin Live
  BY <1>0, <1>8 DEF CommitResult, CommitRaise, Suspend, Gathered, Outcomes, Results
<1>9. ASSUME NEW d \in Calls, ResolverStep(d)
      PROVE  task'[c] \in {"started", "running"} /\ rule'[c] = rule[c]
  BY <1>9 DEF ResolverStep, ResolverDefers, ResolverAnswers, TypeOK
<1>10. CASE ClientStep
  BY <1>0, <1>1, <1>10 DEF ClientStep, Open, Abandon, RequestCancel, ResolveOutside, TypeOK
<1>11. CASE Environment /\ ~\E d \in Calls : ResolverStep(d)
  BY <1>1, <1>2, <1>11 DEF Environment, ExpireApproval, ExpireLease, Crash, AbandonDies, Off, Live
<1>12. CASE UNCHANGED vars
  BY <1>1, <1>12 DEF vars
<1> QED
  BY <1>3, <1>4, <1>5, <1>6, <1>7, <1>8, <1>9, <1>10, <1>11, <1>12
     DEF Next, RunStep, Environment

\* A call relies on a one-shot grant if it was let in on no other authority.
LEMMA UsedByMoves ==
    ASSUME TypeOK, [Next]_vars, NEW a \in Approvals, NEW c \in usedBy'[a]
    PROVE  \/ c \in usedBy[a]
           \/ /\ c \in Calls /\ Allow(c) /\ PolicyDecision(c).rule = "approval.granted"
              /\ ActiveGrants(exec, tool[c]) = {a} /\ approval[a].status = "once"
<1> USE DEF durable, volatile, history
<1>1. CASE usedBy' = usedBy
  BY <1>1
<1>2. ASSUME NEW d \in Calls, Allow(d)
      PROVE  \/ c \in usedBy[a]
             \/ /\ c = d /\ PolicyDecision(c).rule = "approval.granted"
                /\ ActiveGrants(exec, tool[c]) = {a} /\ approval[a].status = "once"
  BY <1>2 DEF Allow, TypeOK
<1>3. CASE RunStep /\ ~\E d \in Calls : Allow(d)
  BY <1>1, <1>3 DEF RunStep, OpenHookFails, Setup, LoopCancelled, LoopPending, LoopTurn,
     LoopTurnLimit, LoopCompile, StartGroup, ToolsCancelled, ToolsDone, TaskStep, Refuse, Ask,
     AskIneffective, AskDenied, ResolverTooLate, RunTool, ToolReturns, CommitResult, CommitRaise,
     Suspend, Complete, RepairAfterInterrupt, FinishUnwound, Finish
<1>4. CASE ProviderStep \/ ClientStep
  BY <1>1, <1>4 DEF ProviderStep, Compacted, Shrunk,
     ProviderContextLength, ProviderFails, RespondFinal, RespondCalls,
     ClientStep, Open, Abandon, RequestCancel, ResolveOutside
<1>5. CASE Environment
  BY <1>1, <1>5 DEF Environment, ResolverStep, ResolverDefers, ResolverAnswers, ExpireApproval,
     ExpireLease, Crash, AbandonDies
<1>6. CASE UNCHANGED vars
  BY <1>1, <1>6 DEF vars
<1> QED
  BY <1>2, <1>3, <1>4, <1>5, <1>6 DEF Next, RunStep, TaskStep

\* A tool that returns spends the grant it was let in on.
LEMMA ReturnSpends ==
    ASSUME TypeOK, Ownership, NEW a \in Approvals, NEW c \in Calls, Serves(a, c), ~Spent(a),
           phase = "tools", c \in queue, ToolReturns(c)
    PROVE  Spent(a)'
<1>1. InUse(a, c) /\ owner[c] = exec /\ approval[a].status = "once" /\ ~approval[a].expired
  BY DEF Serves, Ownership, Spent
<1>2. a \in ActiveGrants(exec, tool[c])
  BY <1>1 DEF Serves, ActiveGrants, TypeOK
<1>3. a \in Consumable(exec, tool[c])
  BY <1>1, <1>2 DEF InUse, Consumable
<1>4. rule[c] = "approval.granted"
  BY <1>1 DEF InUse, Live
<1>5. approval'[a] = [approval[a] EXCEPT !.status = "consumed"]
  BY <1>3, <1>4 DEF ToolReturns, ConsumeOneShot
<1>6. approval[a] \in ApprovalRecord
  BY DEF TypeOK
<1> QED
  BY <1>5, <1>6 DEF Spent, ApprovalRecord

LEMMA OldServes ==
    ASSUME TypeOK, Ownership, OneShots, [Next]_vars,
           NEW a \in Approvals, NEW c \in usedBy[a]
    PROVE  Serves(a, c)'
<1>1. GrantsMove /\ ApprovalsStay /\ QueueMoves /\ ResultMoves /\ TypeOK'
  BY GrantsMoveStep, ApprovalsMove, QueueMovesStep, ResultMovesStep, NextType
<1>2. /\ ncalls <= ncalls' /\ ncalls \in Nat /\ ncalls' \in Nat
      /\ \A d \in 1 .. ncalls : owner'[d] = owner[d] /\ tool'[d] = tool[d]
  BY CallsStay
<1>3. Serves(a, c) /\ c \in Calls /\ c \in 1 .. ncalls /\ a \in 1 .. napprovals
  BY DEF OneShots, TypeOK, Serves
<1>4. /\ napprovals \in Nat /\ napprovals' \in Nat /\ ngrants \in Nat
      /\ approval \in [Approvals -> ApprovalRecord]
      /\ approval' \in [Approvals -> ApprovalRecord]
      /\ 1 .. napprovals \subseteq Approvals /\ 1 .. napprovals' \subseteq Approvals
  <2>1. napprovals \in 0 .. MaxApprovals /\ napprovals' \in 0 .. MaxApprovals
    BY <1>1 DEF TypeOK
  <2>2. /\ approval \in [Approvals -> ApprovalRecord] /\ ngrants \in Nat
        /\ approval' \in [Approvals -> ApprovalRecord]
    BY <1>1 DEF TypeOK
  <2> QED
    BY <2>1, <2>2
<1>5. \A b \in 1 .. napprovals : /\ approval'[b].call = approval[b].call
                                 /\ owner'[approval'[b].call] = owner[approval[b].call]
                                 /\ tool'[approval'[b].call] = tool[approval[b].call]
  BY <1>1, <1>2 DEF ApprovalsStay, OneShots
<1>6. owner'[c] = owner[c] /\ tool'[c] = tool[c]
  BY <1>2, <1>3
<1>7. /\ approval'[a].status \in {"once", "consumed"} /\ approval'[a].rank = approval[a].rank
      /\ Spent(a) => Spent(a)'
  BY <1>1, <1>3 DEF Serves, GrantsMove
<1>8. ASSUME ~Spent(a)' PROVE InUse(a, c)'
  <2>1. InUse(a, c) /\ ~Spent(a)
    BY <1>3, <1>7, <1>8 DEF Serves
  <2>2. phase \in Live /\ c \in queue => task[c] \in {"started", "running"} /\ phase = "tools"
    BY <1>3, <2>1 DEF InUse, TypeOK
  <2>3. result'[c] \notin {"ok", "error"}
    <3>1. SUFFICES ASSUME result'[c] \in {"ok", "error"} PROVE FALSE
      OBVIOUS
    <3>2. phase = "tools" /\ c \in queue /\ task[c] \in Results
      BY <1>1, <1>3, <2>1, <3>1 DEF ResultMoves, InUse, Results
    <3> QED
      BY <2>2, <3>2 DEF Live, Results
  <2>4. ASSUME NEW b \in ActiveGrants(owner[c], tool[c])', approval'[b].status = "once"
        PROVE  approval'[a].rank <= approval'[b].rank
    <3>1. /\ b \in 1 .. napprovals' /\ ~approval'[b].expired
          /\ owner'[approval'[b].call] = owner[c] /\ tool'[approval'[b].call] = tool[c]
      BY <1>6, <2>4 DEF ActiveGrants
    <3>2. CASE /\ b \in 1 .. napprovals
               /\ approval[b].status = "once" /\ ~approval[b].expired
               /\ approval'[b].rank = approval[b].rank
      <4>1. b \in ActiveGrants(owner[c], tool[c])
        BY <1>5, <3>1, <3>2 DEF ActiveGrants
      <4> QED
        BY <1>7, <2>1, <3>2, <4>1 DEF InUse
    <3>3. CASE approval'[b].rank > ngrants
      <4>1. approval[a].rank <= ngrants
        BY <1>3 DEF OneShots
      <4>2. approval[a].rank \in Nat /\ approval'[b].rank \in Nat
        BY <1>3, <1>4, <3>1 DEF ApprovalRecord
      <4> QED
        BY <1>4, <1>7, <3>3, <4>1, <4>2
    <3> QED
      BY <1>1, <2>4, <3>1, <3>2, <3>3 DEF GrantsMove
  <2>5. ASSUME phase' \in Live, c \in queue'
        PROVE  task'[c] \in {"started", "running"} /\ rule'[c] = "approval.granted"
    <3>1. phase \in Live /\ c \in queue
      BY <1>1, <1>3, <2>1, <2>5 DEF QueueMoves, InUse
    <3>2. task[c] \in {"started", "running"} /\ phase = "tools" /\ rule[c] = "approval.granted"
      BY <2>1, <2>2, <3>1 DEF InUse
    <3>3. ~ToolReturns(c)
      BY <1>3, <1>8, <2>1, <3>1, <3>2, ReturnSpends
    <3> QED
      BY <1>3, <2>5, <3>2, <3>3, StartedStays
  <2>6. ASSUME NEW r \in Runs, life'[r] = "suspended" PROVE c \notin pending'[r]
    <3>1. CASE life[r] = "suspended" /\ pending'[r] = pending[r]
      BY <2>1, <3>1 DEF InUse
    <3>2. CASE phase = "tools" /\ pending'[r] = queue /\ Gathered
      <4>1. c \in queue => task[c] \in {"started", "running"} /\ task[c] \in Outcomes
        BY <1>3, <2>2, <3>2 DEF Gathered, Group, Live
      <4> QED
        BY <3>2, <4>1 DEF Outcomes, Results
    <3> QED
      BY <1>1, <2>6, <3>1, <3>2 DEF QueueMoves
  <2> QED
    BY <2>3, <2>4, <2>5, <2>6 DEF InUse
<1>9. a <= napprovals' /\ c <= ncalls'
  BY <1>1, <1>2, <1>3, <1>4 DEF ApprovalsStay
<1>10. /\ owner'[approval'[a].call] = owner'[c] /\ tool'[approval'[a].call] = tool'[c]
  BY <1>3, <1>5, <1>6 DEF Serves
<1> QED
  BY <1>7, <1>8, <1>9, <1>10 DEF Serves

LEMMA NewServes ==
    ASSUME TypeOK, Ownership, OneShots, NEW a \in Approvals, NEW c \in Calls, Allow(c),
           PolicyDecision(c).rule = "approval.granted",
           ActiveGrants(exec, tool[c]) = {a}, approval[a].status = "once"
    PROVE  Serves(a, c)'
<1> USE DEF durable, transcript, authority
<1>1. /\ UNCHANGED <<life, pending, ncalls, owner, tool, result, napprovals, approval>>
      /\ UNCHANGED <<exec, phase, queue>>
      /\ task'[c] = "started" /\ rule'[c] = "approval.granted"
  BY DEF Allow, TaskTo, TypeOK
<1>2. phase = "tools" /\ c \in queue /\ owner[c] = exec /\ c <= ncalls /\ exec # NoRun
  BY DEF Allow, TypeOK, Ownership
<1>3. a \in 1 .. napprovals /\ owner[approval[a].call] = exec /\ tool[approval[a].call] = tool[c]
  BY DEF ActiveGrants
<1>4. result[c] \notin {"ok", "error"}
  BY <1>2 DEF OneShots, Undone, Live, Results
<1>5. \A r \in Runs : life[r] = "suspended" => c \notin pending[r]
  BY <1>2 DEF Ownership
<1>6. approval[a].rank \in Nat
  BY DEF TypeOK, ApprovalRecord
<1>7. ActiveGrants(owner[c], tool[c])' = {a}
  BY <1>1, <1>2 DEF ActiveGrants
<1>8. InUse(a, c)'
  BY <1>1, <1>4, <1>5, <1>6, <1>7 DEF InUse
<1> QED
  BY <1>1, <1>2, <1>3, <1>8 DEF Serves

LEMMA NextOneShots == ASSUME TypeOK, Ownership, OneShots, [Next]_vars PROVE OneShots'
<1>1. GrantsMove /\ ApprovalsStay /\ TypeOK'
  BY GrantsMoveStep, ApprovalsMove, NextType
<1>2. Undone'
  BY NextUndone DEF OneShots
<1>3. \A a \in 1 .. napprovals' : approval'[a].call \in 1 .. ncalls'
  <2>1. /\ ncalls <= ncalls' /\ ncalls \in Nat /\ ncalls' \in Nat
    BY CallsStay
  <2>2. \A c \in queue : c \in 1 .. ncalls
    BY DEF TypeOK, Ownership
  <2> QED
    BY <1>1, <2>1, <2>2 DEF ApprovalsStay, OneShots
<1>4. ASSUME NEW a \in Approvals, NEW c \in usedBy'[a] PROVE Serves(a, c)'
  <2>1. CASE c \in usedBy[a]
    BY <2>1, OldServes
  <2>2. CASE c \notin usedBy[a]
    BY <1>4, <2>2, UsedByMoves, NewServes
  <2> QED
    BY <2>1, <2>2
<1> QED
  BY <1>1, <1>2, <1>3, <1>4 DEF OneShots, GrantsMove

\* A one-shot grant that a call was started on and that no other grant stood in for is
\* spent or expired once the call has a result of its own: also across suspensions,
\* crashes and cancellations, and whatever else is granted meanwhile.
THEOREM OneShotCorrect == Spec => []OneShotIsSpent
<1>1. TypeOK /\ Ownership /\ OneShots /\ [Next]_vars => (TypeOK /\ Ownership /\ OneShots)'
  BY NextType, NextOwnership, NextOneShots
<1>2. OneShots => OneShotIsSpent
  BY DEF OneShots, Serves, InUse, Spent, OneShotIsSpent
<1> QED
  BY InitType, InitOwnership, InitOneShots, <1>1, <1>2, PTL DEF Spec
-----------------------------------------------------------------------------
(***************************************************************************)
(* Settlement: nothing is replayed and nothing is left open.               *)
(***************************************************************************)
LEMMA InitSettlement == Init => Settlement
BY DEF Init, Settlement, NotWaiting, NoReplay, AskersAlone, OpenAccounted, StoppedRunIsSettled,
       Idle, OpenCalls, Live

\* A call that the policy answers with ASK is never part of a parallel group.
LEMMA AskingIsNotParallel ==
    ASSUME ParallelToolsNeverAsk, TypeOK, NEW c \in Calls, PolicyDecision(c).effect = "ask"
    PROVE  ~Parallelizable(c)
BY DEF ParallelToolsNeverAsk, PolicyDecision, Evaluate, Decision, HasCapabilities,
       Parallelizable, Privileged, Executing

LEMMA NextNotWaiting ==
    TypeOK /\ Ownership /\ Settlement /\ [Next]_vars => NotWaiting' /\ NoReplay'
<1> SUFFICES ASSUME TypeOK, Ownership, Settlement, [Next]_vars PROVE NotWaiting' /\ NoReplay'
  OBVIOUS
<1> USE DEF NotWaiting, NoReplay, Live, durable, volatile, transcript, history
<1>0. NotWaiting /\ NoReplay
  BY DEF Settlement
<1>1. CASE Quiet
  BY <1>0, <1>1 DEF Quiet
<1>2. CASE Raises
  BY <1>0, <1>2 DEF Raises
<1>3. ASSUME NEW c \in Calls, NEW s \in TaskStates, Moves(c, s) PROVE NotWaiting' /\ NoReplay'
  BY <1>0, <1>3 DEF Moves, TypeOK
<1>4. ASSUME NEW c \in Calls, Commits(c) PROVE NotWaiting' /\ NoReplay'
  BY <1>0, <1>4 DEF Commits, TypeOK
<1>5. ASSUME NEW c \in Calls, RunTool(c) PROVE NotWaiting' /\ NoReplay'
  <2>1. c \in queue /\ phase = "tools" /\ exec \in Runs
    BY <1>5 DEF RunTool, TypeOK
  <2>2. execs[c] = 0
    BY <1>0, <1>5, <2>1 DEF RunTool, Unstarted
  <2>3. execs' = [execs EXCEPT ![c] = 1] /\ task' = [task EXCEPT ![c] = "running"]
    BY <1>5, <2>2 DEF RunTool, TaskTo, TypeOK
  <2>4. \A r \in Runs : life[r] = "suspended" => c \notin pending[r]
    BY <2>1 DEF Ownership
  <2>5. UNCHANGED <<life, pending, queue, phase>>
    BY <1>5 DEF RunTool, TaskTo
  <2> QED
    BY <1>0, <2>1, <2>3, <2>4, <2>5 DEF Unstarted, TypeOK
<1>6. ASSUME NEW c \in Calls, Suspend(c) PROVE NotWaiting' /\ NoReplay'
  <2>1. c \in queue /\ phase = "tools" /\ task[c] = "suspend"
    BY <1>6 DEF Suspend, First
  <2>2. \A d \in queue : d # c => task[d] = "idle"
    BY <2>1 DEF Settlement, AskersAlone, TypeOK
  <2>3. \A d \in queue : execs[d] = 0
    BY <1>0, <2>1, <2>2 DEF Unstarted
  <2> QED
    BY <1>0, <1>6, <2>3 DEF Suspend, Off, TypeOK
<1>7. CASE Loops("loop", "compile") \/ Asks \/ Shrinks
  BY <1>0, <1>7 DEF Loops, Asks, Shrinks
<1>8. CASE Setup
  BY <1>0, <1>8 DEF Setup
<1>9. CASE LoopPending
  BY <1>0, <1>9 DEF LoopPending
<1>10. CASE StartGroup
  BY <1>0, <1>10 DEF StartGroup, Group, Unstarted, TypeOK
<1>11. CASE ToolsDone
  BY <1>0, <1>11 DEF ToolsDone
<1>12. CASE RespondFinal
  BY <1>0, <1>12 DEF RespondFinal
<1>13. ASSUME NEW last \in (ncalls + 1) .. MaxCalls, RespondCalls(last)
       PROVE NotWaiting' /\ NoReplay'
  <2>1. queue' = (ncalls + 1) .. last /\ UNCHANGED <<life, pending, execs, task>>
    BY <1>13 DEF RespondCalls
  <2>2. \A c \in queue' : execs[c] = 0
    BY <2>1 DEF Ownership, TypeOK
  <2> QED
    BY <1>0, <2>1, <2>2
<1>14. CASE Complete \/ FinishUnwound
  BY <1>0, <1>14 DEF Complete, FinishUnwound, Finish, Off, TypeOK
<1>15. CASE RepairAfterInterrupt
  BY <1>0, <1>15 DEF RepairAfterInterrupt
<1>16. CASE Crash
  BY <1>0, <1>16 DEF Crash, Off
<1>17. ASSUME NEW r \in Runs, Open(r) PROVE NotWaiting' /\ NoReplay'
  BY <1>0, <1>17 DEF Open, SuspendedCalls, TypeOK
<1>18. ASSUME NEW r \in Runs, Abandon(r) \/ AbandonDies(r) PROVE NotWaiting' /\ NoReplay'
  BY <1>0, <1>18 DEF Abandon, AbandonDies, TypeOK
<1> QED
  BY StepKinds, <1>1, <1>2, <1>3, <1>4, <1>5, <1>6, <1>7, <1>8, <1>9, <1>10, <1>11, <1>12,
     <1>13, <1>14, <1>15, <1>16, <1>17, <1>18 DEF Kinds

LEMMA NextAskersAlone ==
    ASSUME ParallelToolsNeverAsk
    PROVE  TypeOK /\ Ownership /\ Settlement /\ [Next]_vars => AskersAlone'
<1> SUFFICES ASSUME TypeOK, Ownership, Settlement, [Next]_vars PROVE AskersAlone'
  OBVIOUS
<1> USE DEF AskersAlone, Parallelizable, durable, volatile, transcript, history
<1>0. AskersAlone
  BY DEF Settlement
<1>1. ASSUME UNCHANGED <<queue, task, tool>> PROVE AskersAlone'
  BY <1>0, <1>1
<1>2. ASSUME \A c \in Calls : task'[c] = "idle", queue' \subseteq Calls PROVE AskersAlone'
  BY <1>2
<1>3. ASSUME phase # "tools", UNCHANGED task, queue' \subseteq Calls PROVE AskersAlone'
  BY <1>2, <1>3 DEF TypeOK
<1>4. CASE Quiet \/ Setup \/ LoopPending \/ ToolsDone \/ RespondFinal \/ RepairAfterInterrupt
           \/ Loops("loop", "compile") \/ Asks \/ Shrinks
  BY <1>1, <1>4 DEF Quiet, Setup, LoopPending, ToolsDone, RespondFinal, RepairAfterInterrupt,
                    Loops, Asks, Shrinks
<1>5. CASE Raises \/ Complete \/ FinishUnwound \/ Crash \/ \E c \in Calls : Suspend(c)
  <2>1. task' = Idle /\ queue' \subseteq Calls
    BY <1>5 DEF Raises, Complete, FinishUnwound, Finish, Crash, Suspend, Off, TypeOK
  <2> QED
    BY <1>2, <2>1 DEF Idle
<1>6. ASSUME NEW c \in Calls, NEW s \in TaskStates, Moves(c, s) PROVE AskersAlone'
  <2>1. /\ \A d \in queue : task'[d] # "idle" <=> task[d] # "idle"
        /\ UNCHANGED <<queue, tool>>
    BY <1>6 DEF Moves, TypeOK
  <2>2. c \in queue
    BY <1>6 DEF Moves, TypeOK
  <2>3. task'[c] \in {"asking", "suspend"} => ~Parallelizable(c)
    BY <1>0, <1>6, <2>2, AskingIsNotParallel DEF Moves, TypeOK
  <2>4. \A d \in queue : d # c => task'[d] = task[d]
    BY <1>6 DEF Moves, TypeOK
  <2> QED
    BY <1>0, <2>1, <2>3, <2>4
<1>7. ASSUME NEW c \in Calls, Commits(c) PROVE AskersAlone'
  BY <1>0, <1>7 DEF Commits, TypeOK
<1>8. ASSUME NEW c \in Calls, RunTool(c) PROVE AskersAlone'
  BY <1>0, <1>8 DEF RunTool, TaskTo, TypeOK
<1>9. CASE StartGroup
  <2>1. \A c \in queue : task'[c] = IF c \in ParallelGroup THEN "ready" ELSE "idle"
    BY <1>9 DEF StartGroup, Group, TypeOK
  <2>2. \A c, d \in ParallelGroup : c # d => Parallelizable(c)
    <3> DEFINE prefix == {c \in queue : \A d \in queue : d <= c => Parallelizable(d)}
    <3>1. CASE prefix = {}
      <4>1. ParallelGroup = First(queue)
        BY <3>1 DEF ParallelGroup
      <4>2. \A c, d \in First(queue) : c = d
        BY DEF First, TypeOK
      <4> QED
        BY <4>1, <4>2
    <3>2. CASE prefix # {}
      <4>1. ParallelGroup = prefix
        BY <3>2 DEF ParallelGroup
      <4>2. \A c \in queue : c <= c
        BY DEF TypeOK
      <4> QED
        BY <4>1, <4>2
    <3> QED
      BY <3>1, <3>2
  <2>3. UNCHANGED <<queue, tool>>
    BY <1>9 DEF StartGroup
  <2> QED
    BY <2>1, <2>2, <2>3
<1>10. ASSUME NEW last \in (ncalls + 1) .. MaxCalls, RespondCalls(last) PROVE AskersAlone'
  <2>1. queue' = (ncalls + 1) .. last /\ UNCHANGED task /\ phase = "model"
    BY <1>10 DEF RespondCalls
  <2>2. queue' \subseteq Calls
    BY <2>1 DEF TypeOK
  <2> QED
    BY <1>3, <2>1, <2>2
<1>11. ASSUME NEW r \in Runs, Open(r) PROVE AskersAlone'
  <2>1. UNCHANGED task /\ phase = "off" /\ queue' \subseteq Calls
    BY <1>11 DEF Open, SuspendedCalls, TypeOK
  <2> QED
    BY <1>3, <2>1
<1>12. ASSUME NEW r \in Runs, Abandon(r) \/ AbandonDies(r) PROVE AskersAlone'
  BY <1>1, <1>12 DEF Abandon, AbandonDies
<1> QED
  BY StepKinds, <1>4, <1>5, <1>6, <1>7, <1>8, <1>9, <1>10, <1>11, <1>12 DEF Kinds

LEMMA NextOpenAccounted ==
    TypeOK /\ Ownership /\ Settlement /\ [Next]_vars => OpenAccounted'
<1> SUFFICES ASSUME TypeOK, Ownership, Settlement, [Next]_vars PROVE OpenAccounted'
  OBVIOUS
<1> USE DEF OpenAccounted, StoppedRunIsSettled, OpenCalls, Live,
            durable, volatile, transcript, history
<1>0. OpenAccounted /\ NotWaiting
  BY DEF Settlement
<1>a. \A d \in 1 .. ncalls : d \in Calls
  BY DEF TypeOK
<1>1. CASE Quiet
  BY <1>0, <1>1 DEF Quiet
<1>2. CASE Raises
  BY <1>0, <1>2 DEF Raises
<1>3. ASSUME NEW c \in Calls, NEW s \in TaskStates, Moves(c, s) PROVE OpenAccounted'
  BY <1>0, <1>3 DEF Moves
<1>4. ASSUME NEW c \in Calls, Commits(c) PROVE OpenAccounted'
  BY <1>0, <1>4 DEF Commits, Results, TypeOK
<1>5. ASSUME NEW c \in Calls, RunTool(c) PROVE OpenAccounted'
  <2>1. c \in queue /\ phase = "tools" /\ exec \in Runs
    BY <1>5 DEF RunTool, TypeOK
  <2>2. owner[c] = exec /\ life[exec] # "suspended"
    BY <2>1 DEF Ownership, TypeOK
  <2>3. \A d \in Calls : d # c => execs'[d] = execs[d]
    BY <1>5 DEF RunTool, TypeOK
  <2>4. UNCHANGED <<life, pending, ncalls, owner, result, phase, queue>>
    BY <1>5 DEF RunTool, TaskTo
  <2> QED
    BY <1>0, <2>2, <2>3, <2>4 DEF TypeOK
<1>6. ASSUME NEW c \in Calls, Suspend(c) PROVE OpenAccounted'
  <2>1. c \in queue /\ phase = "tools" /\ task[c] = "suspend" /\ exec \in Runs
    BY <1>6 DEF Suspend, First, TypeOK
  <2>2. \A d \in queue : d # c => task[d] = "idle"
    BY <2>1 DEF Settlement, AskersAlone, TypeOK
  <2>3. \A d \in queue : execs[d] = 0
    BY <1>0, <2>1, <2>2 DEF Unstarted, NotWaiting
  <2>4. OpenCalls \subseteq queue
    BY <1>0, <2>1
  <2>5. /\ life' = [life EXCEPT ![exec] = "suspended"]
        /\ pending' = [pending EXCEPT ![exec] = queue]
        /\ phase' = "off"
        /\ UNCHANGED <<ncalls, owner, result, execs>>
    BY <1>6 DEF Suspend, Off
  <2>6. \A d \in 1 .. ncalls : owner[d] \in Runs
    BY DEF Ownership, TypeOK
  <2>7. \A d \in 1 .. ncalls :
          /\ owner[d] # exec => UNCHANGED <<life[owner[d]], pending[owner[d]]>>
          /\ owner[d] = exec => life'[owner[d]] = "suspended" /\ pending'[owner[d]] = queue
    BY <2>1, <2>5, <2>6 DEF TypeOK
  <2> QED
    BY <1>0, <1>a, <2>3, <2>4, <2>5, <2>7
<1>7. CASE Loops("loop", "compile") \/ Asks \/ Shrinks
  BY <1>0, <1>7 DEF Loops, Asks, Shrinks
<1>8. CASE Setup
  BY <1>0, <1>8 DEF Setup, RepairExcept, TypeOK
<1>9. CASE LoopPending \/ StartGroup \/ ToolsDone
  BY <1>0, <1>9 DEF LoopPending, StartGroup, ToolsDone
<1>10. CASE RespondFinal
  BY <1>0, <1>10 DEF RespondFinal
<1>11. ASSUME NEW last \in (ncalls + 1) .. MaxCalls, RespondCalls(last) PROVE OpenAccounted'
  BY <1>0, <1>11 DEF RespondCalls, Ownership, TypeOK
<1>12. CASE Complete
  <2>1. OpenCalls = {} /\ exec \in Runs
    BY <1>0, <1>12 DEF Complete, Ownership, TypeOK
  <2>2. UNCHANGED <<result, ncalls, owner, execs>> /\ phase' = "off"
    BY <1>12 DEF Complete, Finish, Off
  <2>3. \A d \in 1 .. ncalls : result'[d] # "open"
    BY <1>a, <2>1, <2>2
  <2> QED
    BY <2>2, <2>3
<1>13. CASE FinishUnwound
  <2>1. OpenCalls = {} /\ exec \in Runs
    BY <1>0, <1>13 DEF FinishUnwound, TypeOK
  <2>2. UNCHANGED <<result, ncalls, owner, execs>> /\ phase' = "off"
    BY <1>13 DEF FinishUnwound, Finish, Off
  <2>3. \A d \in 1 .. ncalls : result'[d] # "open"
    BY <1>a, <2>1, <2>2
  <2> QED
    BY <2>2, <2>3
<1>14. CASE RepairAfterInterrupt
  BY <1>0, <1>14 DEF RepairAfterInterrupt, RepairExcept, TypeOK
<1>15. CASE Crash
  BY <1>0, <1>15 DEF Crash, Off
<1>16. ASSUME NEW r \in Runs, Open(r) PROVE OpenAccounted'
  BY <1>0, <1>16 DEF Open, Ownership, TypeOK
<1>17. ASSUME NEW r \in Runs, Abandon(r) \/ AbandonDies(r) PROVE OpenAccounted'
  <2>1. exec = NoRun /\ phase = "off"
    BY <1>17 DEF Abandon, AbandonDies, TypeOK
  <2>2. UNCHANGED <<pending, ncalls, owner, execs, phase, queue>>
    BY <1>17 DEF Abandon, AbandonDies
  <2>3. \A d \in Calls : result'[d] = "open" => result[d] = "open"
    BY <1>17 DEF Abandon, AbandonDies, RepairExcept, TypeOK
  <2>4. \A q \in Runs : life'[q] = life[q] \/ life'[q] = "cancelled"
    BY <1>17 DEF Abandon, AbandonDies, TypeOK
  <2>5. \A d \in 1 .. ncalls : owner[d] \in Runs
    BY <1>a DEF Ownership
  <2>6. StoppedRunIsSettled'
    BY <1>0, <1>a, <2>2, <2>3, <2>4, <2>5
  <2> QED
    BY <2>1, <2>2, <2>6
<1> QED
  BY StepKinds, <1>1, <1>2, <1>3, <1>4, <1>5, <1>6, <1>7, <1>8, <1>9, <1>10, <1>11, <1>12,
     <1>13, <1>14, <1>15, <1>16, <1>17 DEF Kinds

LEMMA SettlementInvariant ==
    ASSUME ParallelToolsNeverAsk
    PROVE  Spec => []Settlement
<1> DEFINE Inv == TypeOK /\ Ownership /\ Settlement
<1>1. Init => Inv
  BY InitType, InitOwnership, InitSettlement
<1>2. Inv /\ [Next]_vars => Inv'
  BY NextType, NextOwnership, NextNotWaiting, NextAskersAlone, NextOpenAccounted DEF Settlement
<1>3. Inv => Settlement
  OBVIOUS
<1> QED
  BY <1>1, <1>2, <1>3, PTL DEF Spec

\* If no parallel tool can ask, no call is started twice over all suspensions,
\* cancellations, crashes and resumptions of its run.
THEOREM NoReplayCorrect ==
    ASSUME ParallelToolsNeverAsk
    PROVE  Spec => []NoReplay
<1>1. Settlement => NoReplay
  BY DEF Settlement
<1> QED
  BY <1>1, SettlementInvariant, PTL

\* If no parallel tool can ask, a run that has stopped has no open call but the
\* unstarted ones that its run.suspended event names.
THEOREM StoppedRunCorrect ==
    ASSUME ParallelToolsNeverAsk
    PROVE  Spec => []StoppedRunIsSettled
<1>1. Settlement => StoppedRunIsSettled
  BY DEF Settlement, OpenAccounted
<1> QED
  BY <1>1, SettlementInvariant, PTL
=============================================================================
