------------------------------ MODULE Subagents ------------------------------
(***************************************************************************)
(* Delegation: one run of the coding agent, the child runs its task tool   *)
(* starts, and what each of them may do.  The top run is started by a      *)
(* client; a child is started inside a call of the task tool, in a session *)
(* of its own, with capabilities, an access mode and a registry narrowed   *)
(* from what the application delegates, under a budget that stops it by    *)
(* setting its cancel event.  The call returns when the child has ended,   *)
(* whatever the end.                                                       *)
(*                                                                         *)
(* The graph of every run is rooted at the application's authority, not at *)
(* what the run itself was given.                                          *)
(*                                                                         *)
(* The event logs, the approvals' life and the turns' inner steps are the  *)
(* subject of RunCoordinator; here a run is its outstanding calls.  No     *)
(* hook is registered by the coding agent, so a group of calls goes from   *)
(* its request to tool.started without a suspension.                       *)
(***************************************************************************)
EXTENDS Naturals, Sequences, FiniteSets

CONSTANTS
    Tools,          \* the tools of the top run's registry
    Authority,      \* capabilities the application lets a run delegate
    Requests,       \* capability lists a model may ask for a child
    MaxDepth,       \* the configured depth of the task graph
    MaxChildren,    \* the configured number of children of a run
    MaxToolCalls,   \* the configured tool budget of a child
    MaxTurns,       \* model messages of the top run, as configured
    ChildTurns,     \* and of a child, which has the coordinator's default
    MaxCalls,       \* bound: calls of one message of the top run
    ChildCalls,     \* bound: calls of one message of a child
    MaxRuns         \* bound: child runs in all

Capabilities == {"read", "write", "exec", "spawn"}
AccessModes == {"read_only", "workspace_write", "full_access"}
RunModes == {"execute", "plan"}
Types == {"explore", "test", "general"}

ASSUME SubagentsAssumption ==
    /\ Tools \subseteq {"read", "edit", "bash", "remote", "task"}
    /\ Authority \subseteq Capabilities
    /\ Requests \subseteq SUBSET Capabilities
    /\ {MaxDepth, MaxChildren, MaxTurns, ChildTurns, MaxRuns} \subseteq Nat
    /\ {MaxToolCalls, MaxCalls, ChildCalls} \subseteq Nat \ {0}

Top == 0
Runs == Top..MaxRuns

VARIABLES
    access,     \* the access mode of the configuration
    mode,       \* its run mode: plan or execute
    run         \* every run: see NoRun

treeVars == <<access, mode, run>>

-----------------------------------------------------------------------------
(* What a tool declares, and what the policy says of it. *)

\* remote stands for a tool of an MCP server that declares no capability.
Needs(t) ==
    CASE t = "read" -> {"read"}
      [] t = "edit" -> {"write"}
      [] t = "bash" -> {"exec"}
      [] t = "task" -> {"spawn"}
      [] t = "remote" -> {}

Mutates(t) == t \in {"edit", "bash", "remote"}
IsParallel(t) == t = "read"
Privileged(t) == Mutates(t) \/ "exec" \in Needs(t)

\* In workspace-write mode: commands, and mutations that are not local edits.
AsksHuman(t) ==
    \/ "exec" \in Needs(t)
    \/ Mutates(t) /\ ~("write" \in Needs(t) /\ Needs(t) \subseteq {"read", "write"})

Decision(t, own, approved) ==
    IF Privileged(t) /\ (mode = "plan" \/ own = "read_only") THEN "deny"
    ELSE IF t \in approved \/ own = "full_access" \/ ~AsksHuman(t) THEN "allow"
    ELSE "ask"

Rank(a) ==
    CASE a = "read_only" -> 0 [] a = "workspace_write" -> 1 [] a = "full_access" -> 2

AccessFor(caps) ==
    IF "exec" \in caps THEN "full_access"
    ELSE IF "write" \in caps THEN "workspace_write"
    ELSE "read_only"

\* Mutant: the child gets the access its capabilities ask for.
AccessAsked(own, caps) == AccessFor(caps)

\* The lower of the parent's access mode and the one the capabilities ask for.
NarrowAccess(own, caps) ==
    IF mode = "plan" THEN "read_only"
    ELSE IF Rank(own) <= Rank(AccessFor(caps)) THEN own ELSE AccessFor(caps)

-----------------------------------------------------------------------------
(* The declared types of child, and the registry a child is built with. *)

TypeCeiling(type) ==
    CASE type = "explore" -> {"read"}
      [] type = "test" -> {"read", "write", "exec"}
      [] type = "general" -> Capabilities

TypeTools(type) ==
    CASE type = "explore" -> {"read"}
      [] type = "test" -> {"read", "edit", "bash"}
      [] type = "general" -> Tools

Registry(type, caps) == {t \in Tools \cap TypeTools(type) : Needs(t) \subseteq caps}

\* Without a request a child gets everything but the right to delegate.
DefaultRequest == Authority \ {"spawn"}

-----------------------------------------------------------------------------
(* Runs. *)

NoRun == [state |-> "none",         \* its last lifecycle event
          parent |-> Top,           \* the run whose task call started it
          caps |-> {},              \* capabilities of its task
          access |-> "read_only",   \* access mode of its context
          tools |-> {},             \* its registry
          calls |-> <<>>,           \* the calls of its last message
          turns |-> 0,              \* model messages it has recorded
          cancel |-> FALSE,         \* its cancel event, or a timeout's cancel
          limit |-> 0,              \* its budget of tool calls
          started |-> 0,            \* tool.started events its budget has seen
          ran |-> 0,                \* tool bodies that began under the budget
          overspent |-> FALSE,      \* its messages cost more than its tokens
          approved |-> {},          \* tools its session has a grant for
          denied |-> FALSE,         \* the call it waits on was refused
          kids |-> 0,               \* children in its task graph
          node |-> "none"]          \* state of its own task

Running(r) == run[r].state = "running"
Started == {r \in Runs : run[r].state # "none"}
Children(r) == {c \in Started \ {Top} : run[c].parent = r}
ActiveChildren(r) == {c \in Children(r) : Running(c)}

\* Cancellation comes from the run's own event or timeout, or from any run above.
CancelReaches[r \in Runs] ==
    run[r].cancel \/ (r # Top /\ CancelReaches[run[r].parent])

\* Mutant: a child hears only its own event, not the runs above it.
CancelledOwn(r) == run[r].cancel
Cancelled(r) == CancelReaches[r]

TurnLimit(r) == IF r = Top THEN MaxTurns ELSE ChildTurns
CallLimit(r) == IF r = Top THEN MaxCalls ELSE ChildCalls

CallsDone(r) == \A i \in DOMAIN run[r].calls : run[r].calls[i].stage = "done"

\* The calls dispatched together: a prefix of parallel ones, or one alone.
Group(r) ==
    LET calls == run[r].calls
        first == CHOOSE i \in DOMAIN calls :
                    /\ calls[i].stage # "done"
                    /\ \A j \in 1..(i - 1) : calls[j].stage = "done"
    IN {j \in first..Len(calls) :
            j = first \/ \A k \in first..j : IsParallel(calls[k].tool)}

Exceeded(r) == run[r].started > run[r].limit \/ run[r].overspent

\* The task result a run's end becomes, as the task graph records it.
TaskState(r, state) ==
    IF Exceeded(r) THEN "failed"
    ELSE CASE state = "suspended" -> "waiting"
           [] state = "completed" -> "completed"
           [] OTHER -> "failed"

TaskCall(p) ==
    CHOOSE i \in DOMAIN run[p].calls :
        run[p].calls[i].tool = "task" /\ run[p].calls[i].stage = "body"

\* The end of a run, and for a child the return of the call that started it.  Of
\* a child only its session and its task remain: its coordinator, registry,
\* context and budget were made for this call.
Ended(r, state, rest) ==
    LET p == run[r].parent
    IN IF r = Top
       THEN [run EXCEPT ![r].state = state, ![r].calls = rest]
       ELSE [run EXCEPT ![r] = [NoRun EXCEPT !.state = state, !.parent = p,
                                             !.calls = rest, !.node = TaskState(r, state)],
                        ![p].calls[TaskCall(p)].stage = "done"]

\* Only the top run's prompt is one the worker can present again.
Prompt(r) == IF r = Top THEN "coding" ELSE "role"

-----------------------------------------------------------------------------
TreeInit ==
    /\ access \in AccessModes
    /\ mode \in RunModes
    /\ run = [r \in Runs |->
                IF r = Top
                THEN [NoRun EXCEPT !.state = "running", !.caps = Capabilities,
                                   !.access = access, !.tools = Tools]
                ELSE NoRun]

\* The model answers with calls.
Propose(r) ==
    /\ Running(r) /\ CallsDone(r) /\ ~run[r].cancel
    /\ run[r].turns < TurnLimit(r)
    /\ \E n \in 1..CallLimit(r) : \E tools \in [1..n -> Tools] :
        run' = [run EXCEPT
                  ![r].turns = @ + 1,
                  ![r].calls = [i \in 1..n |-> [tool |-> tools[i], stage |-> "due"]]]
    /\ UNCHANGED <<access, mode>>

\* The model answers with text alone.
Complete(r) ==
    /\ Running(r) /\ CallsDone(r) /\ ~run[r].cancel
    /\ run[r].turns < TurnLimit(r)
    /\ run' = Ended(r, "completed", <<>>)
    /\ UNCHANGED <<access, mode>>

\* The provider fails, the context does not fit or the turns are used up.
Fail(r) ==
    /\ Running(r) /\ CallsDone(r) /\ ~run[r].cancel
    /\ run' = Ended(r, "failed", <<>>)
    /\ UNCHANGED <<access, mode>>

\* A child's message costs more than its tokens: the observer of its chunks
\* sets its event before the message is recorded.
Overspend(r) ==
    /\ r # Top /\ Running(r) /\ CallsDone(r) /\ ~run[r].cancel
    /\ run' = [run EXCEPT ![r].overspent = TRUE, ![r].cancel = TRUE]
    /\ UNCHANGED <<access, mode>>

CanDispatch(r) ==
    /\ Running(r) /\ ~CallsDone(r) /\ ~run[r].cancel
    /\ \A i \in Group(r) : run[r].calls[i].stage = "due"

DecisionOn(r, i) == Decision(run[r].calls[i].tool, run[r].access, run[r].approved)

\* Mutant: the budget stops the child one call too late.
ObserveLate(record, n) ==
    LET seen == record.started + n
    IN [record EXCEPT !.started = seen, !.cancel = @ \/ seen > record.limit + 1]

\* The budget counts what starts and sets the event at the first call beyond it.
Observe(record, n) ==
    LET seen == record.started + n
    IN [record EXCEPT !.started = seen, !.cancel = @ \/ seen > record.limit]

\* A group is dispatched: unknown tools, bad inputs and sensitive paths are
\* refused, the policy denies or allows the others.
Dispatch(r) ==
    /\ CanDispatch(r)
    /\ \A i \in Group(r) : run[r].calls[i].tool \in run[r].tools => DecisionOn(r, i) # "ask"
    /\ \E refused \in SUBSET Group(r) :
        LET allowed == {i \in Group(r) \ refused :
                            /\ run[r].calls[i].tool \in run[r].tools
                            /\ DecisionOn(r, i) = "allow"}
            dispatched == [run[r] EXCEPT !.calls =
                            [i \in DOMAIN @ |->
                                IF i \in allowed THEN [@[i] EXCEPT !.stage = "started"]
                                ELSE IF i \in Group(r) THEN [@[i] EXCEPT !.stage = "done"]
                                ELSE @[i]]]
        IN run' = [run EXCEPT ![r] =
                    IF r = Top THEN dispatched
                    ELSE Observe(dispatched, Cardinality(allowed))]
    /\ UNCHANGED <<access, mode>>

\* The policy asks.  No resolver is configured: the run is suspended with the
\* call and those after it open, unless a human has refused this very call.
Ask(r) ==
    /\ CanDispatch(r)
    /\ \E i \in Group(r) :
        /\ run[r].calls[i].tool \in run[r].tools
        /\ DecisionOn(r, i) = "ask"
        /\ run' = IF run[r].denied
                  THEN [run EXCEPT ![r].calls[i].stage = "done", ![r].denied = FALSE]
                  ELSE Ended(r, "suspended",
                             SubSeq(run[r].calls, i, Len(run[r].calls)))
    /\ UNCHANGED <<access, mode>>

\* The body of a tool begins, unless the event is set already.
BeginTool(r, i) ==
    /\ Running(r) /\ run[r].calls[i].stage = "started" /\ ~run[r].cancel
    /\ run[r].calls[i].tool # "task"
    /\ run' = [run EXCEPT ![r].calls[i].stage = "body",
                          ![r].ran = IF r = Top THEN @ ELSE @ + 1]
    /\ UNCHANGED <<access, mode>>

\* It returns, fails or times out: each is a result of the call.
FinishTool(r, i) ==
    /\ Running(r) /\ run[r].calls[i].stage = "body"
    /\ run[r].calls[i].tool # "task"
    /\ run' = [run EXCEPT ![r].calls[i].stage = "done"]
    /\ UNCHANGED <<access, mode>>

ChildCaps(type, request) == request \cap TypeCeiling(type)

\* The root of the graph has the delegated authority and depth 0, whoever asks.
MaySpawn(r, caps) ==
    /\ run[r].kids < MaxChildren
    /\ caps \subseteq Authority
    /\ 1 <= MaxDepth

\* The child's context, its registry and the budget that watches it.
NewChild(r, type, caps, limit) ==
    [NoRun EXCEPT !.state = "running", !.parent = r, !.caps = caps,
                  !.access = NarrowAccess(run[r].access, caps),
                  !.tools = Registry(type, caps),
                  !.limit = limit, !.node = "running"]

\* The body of the task tool: a child run is started in a session of its own.
Delegate(r, i) ==
    /\ Running(r) /\ run[r].calls[i].stage = "started" /\ ~run[r].cancel
    /\ run[r].calls[i].tool = "task"
    /\ \E type \in Types, request \in Requests \cup {DefaultRequest},
          limit \in 1..MaxToolCalls :
        LET caps == ChildCaps(type, request)
            c == Cardinality(Started)
        IN /\ MaySpawn(r, caps)
           /\ c \in Runs
           /\ run' = [run EXCEPT
                        ![r].calls[i].stage = "body",
                        ![r].kids = @ + 1,
                        ![r].ran = IF r = Top THEN @ ELSE @ + 1,
                        ![c] = NewChild(r, type, caps, limit)]
    /\ UNCHANGED <<access, mode>>

\* An authority violation is an error result of the call.
DenyDelegation(r, i) ==
    /\ Running(r) /\ run[r].calls[i].stage = "started" /\ ~run[r].cancel
    /\ run[r].calls[i].tool = "task"
    /\ \E type \in Types, request \in Requests \cup {DefaultRequest} :
        ~MaySpawn(r, ChildCaps(type, request))
    /\ run' = [run EXCEPT ![r].calls[i].stage = "done",
                          ![r].ran = IF r = Top THEN @ ELSE @ + 1]
    /\ UNCHANGED <<access, mode>>

\* The client cancels the top run.
UserCancel ==
    /\ Running(Top) /\ ~run[Top].cancel
    /\ run' = [run EXCEPT ![Top].cancel = TRUE]
    /\ UNCHANGED <<access, mode>>

\* The child's time, or the time of the task call that runs it, is over.
Timeout(r) ==
    /\ r # Top /\ Running(r) /\ ~run[r].cancel
    /\ run' = [run EXCEPT ![r].cancel = TRUE]
    /\ UNCHANGED <<access, mode>>

\* Mutant: the interrupted run does not wait for its child to end.
InterruptAtOnce(r) ==
    /\ Running(r) /\ Cancelled(r)
    /\ run' = Ended(r, "interrupted", <<>>)
    /\ UNCHANGED <<access, mode>>

\* A cancellation reaches the innermost run first: a run that waits for a child
\* goes on only when the cancelled child has ended.
Interrupt(r) ==
    /\ Running(r) /\ Cancelled(r)
    /\ ActiveChildren(r) = {}
    /\ run' = Ended(r, "interrupted", <<>>)
    /\ UNCHANGED <<access, mode>>

\* A human decides on the call a suspended run waits for.
ResolveApproval(r) ==
    /\ run[r].state = "suspended" /\ ~run[r].denied
    /\ run[r].calls[1].tool \notin run[r].approved
    /\ \E granted \in BOOLEAN :
        run' = IF granted
               THEN [run EXCEPT ![r].approved = @ \cup {run[r].calls[1].tool}]
               ELSE [run EXCEPT ![r].denied = TRUE]
    /\ UNCHANGED <<access, mode>>

\* What run.started says of the configuration is what the worker presents now.
SameConfiguration(r) == Prompt(r) = "coding"

\* The client resumes a run: a runtime, a task tool and a cancel event are made
\* anew, and the configuration must be the one the run was started with.
Resume(r) ==
    /\ run[r].state \in {"suspended", "interrupted"}
    /\ SameConfiguration(r)
    /\ run' = [run EXCEPT ![r].state = "running", ![r].cancel = FALSE, ![r].kids = 0]
    /\ UNCHANGED <<access, mode>>

\* The client gives up a suspended run.
Abandon(r) ==
    /\ run[r].state = "suspended"
    /\ run' = [run EXCEPT ![r].state = "cancelled", ![r].calls = <<>>]
    /\ UNCHANGED <<access, mode>>

TreeNext ==
    \/ UserCancel
    \/ \E r \in Runs :
        \/ Propose(r) \/ Complete(r) \/ Fail(r) \/ Overspend(r)
        \/ Dispatch(r) \/ Ask(r)
        \/ Timeout(r) \/ Interrupt(r)
        \/ ResolveApproval(r) \/ Resume(r) \/ Abandon(r)
        \/ \E i \in DOMAIN run[r].calls :
            \/ BeginTool(r, i) \/ FinishTool(r, i)
            \/ Delegate(r, i) \/ DenyDelegation(r, i)

\* While a run awaits a token count or a compaction summary it does not look at its
\* own event; the cancellation of its parent is one of its asyncio task and reaches
\* it there.  Between its calls a run may stand at such an await.
Hears(r) == ~CallsDone(r) \/ (r # Top /\ CancelReaches[run[r].parent])

\* A cancellation that is heard is delivered at the await the run stands at.
Fairness == \A r \in Runs : WF_treeVars(Hears(r) /\ Interrupt(r))

TreeSpec == TreeInit /\ [][TreeNext]_treeVars /\ Fairness

-----------------------------------------------------------------------------
\* A child never executes more tool bodies than its budget, although the budget
\* only sees a call after it has been announced and several may start at once
\* (subagent.py:263, "Stop a child run before it can execute more calls than its
\* budget").
BudgetHolds == \A r \in Started \ {Top} : run[r].ran <= run[r].limit

\* Whatever runs in a tree of runs stays within what the application delegates: a
\* child has no capability outside its authority, no access above its parent's, and
\* a tool body in progress is one its registry, its access mode and the plan mode
\* allow, with a grant where the mode asks for one (authority.py, permissions.py).
\* The capabilities of the parent run are no bound: see ChildWithinParent.
AuthorityNarrows ==
    \A r \in Started :
        /\ r # Top =>
            /\ run[r].caps \subseteq Authority
            /\ Rank(run[r].access) <= Rank(run[run[r].parent].access)
        /\ \A i \in DOMAIN run[r].calls :
            LET t == run[r].calls[i].tool IN
            run[r].calls[i].stage = "body" =>
                /\ Needs(t) \subseteq run[r].caps
                /\ Privileged(t) => mode = "execute" /\ run[r].access # "read_only"
                /\ AsksHuman(t) => run[r].access = "full_access" \/ t \in run[r].approved

\* A running child is the one its parent waits for, inside a task call in
\* progress, and its task is running exactly as long as it is: no child outlives
\* the run that started it, and no ended child is left running in the graph
\* (subagent.py, SubagentTool.run and _commit; awaits.py, await_cancelable).
TreeIsNested ==
    \A c \in Started \ {Top} :
        /\ run[c].node = "running" <=> Running(c)
        /\ run[c].node = "completed" <=> run[c].state = "completed"
        /\ Running(c) =>
            /\ Running(run[c].parent)
            /\ ActiveChildren(run[c].parent) = {c}
            /\ \E i \in DOMAIN run[run[c].parent].calls :
                run[run[c].parent].calls[i] = [tool |-> "task", stage |-> "body"]

\* A cancelled top run ends, and with it every run below it, although each of
\* them catches the cancellation that passes through it (coordinator.py:286,
\* awaits.py, subagent.py) - unless it has no call in progress and stays for ever in
\* an await that does not hear it, which then is the only run.
CancelStopsTree ==
    run[Top].cancel ~>
        \/ \A r \in Runs : ~Running(r)
        \/ [](Running(Top) /\ CallsDone(Top))

\* "One task graph per parent run, so sibling limits actually bind."
\* (subagent.py:468): a run starts no more children than the authority says.
SiblingLimitBinds == \A r \in Started : Cardinality(Children(r)) <= MaxChildren

\* "The child inherits at most this run's capabilities and budget" (subagent.py:338):
\* a running child has no capability that the run delegating to it lacks.
ChildWithinParent ==
    \A r \in Started \ {Top} : Running(r) => run[r].caps \subseteq run[run[r].parent].caps
=============================================================================
