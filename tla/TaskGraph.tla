------------------------------ MODULE TaskGraph ------------------------------
(***************************************************************************)
(* The task graph of a session: agents/graph.py as the worker uses it      *)
(* through task.create, task.spawn and task.transition, with every change  *)
(* written to the session's log before the graph in memory follows.  After *)
(* a restart WorkerServer._task_graph rebuilds the graph from the log.     *)
(*                                                                         *)
(* Only the main thread of the worker changes the graph, but the sink may  *)
(* refuse an event (another owner appended to the session) and the process *)
(* may die between any two events, also in the middle of a cancellation.   *)
(***************************************************************************)
EXTENDS Naturals, Sequences, FiniteSets

CONSTANTS Capabilities,  \* capabilities a task may be given
          MaxBudget,     \* budgets are 1 .. MaxBudget, ordered by is_subset_of
          MaxDepth,      \* max_depth of the root, inherited by every task
          MaxChildren,   \* max_children of the root, inherited by every task
          MaxTasks,      \* bound: tasks of the graph
          MaxCrashes     \* bound: process deaths

ASSUME GraphAssumption ==
    /\ MaxBudget \in Nat \ {0}
    /\ MaxDepth \in Nat
    /\ MaxChildren \in Nat
    /\ MaxTasks \in Nat \ {0}
    /\ MaxCrashes \in Nat

\* Task ids in the order of their subagent.spawned events; 0 is no task.
Tasks == 1 .. MaxTasks

VARIABLES
    saved,    \* durable: what the last subagent event of each task says
    graph,    \* _nodes
    loaded,   \* the graph of the session is in _task_graphs
    staged,   \* task whose event is durable and whose node is not yet replaced
    op,       \* the public operation under way
    stack,    \* tasks whose descendants it is visiting, the innermost last
    crashes   \* process deaths so far

vars == <<saved, graph, loaded, staged, op, stack, crashes>>

AgentState == {"pending", "running", "waiting", "completed", "failed", "cancelled",
               "interrupted"}
Terminal == {"completed", "failed", "cancelled"}
Active == {"pending", "running", "waiting"}

\* _TRANSITIONS
Transitions ==
    [s \in AgentState |->
        CASE s = "pending" -> {"running", "cancelled", "failed", "interrupted"}
          [] s = "running" -> {"waiting", "interrupted"} \cup Terminal
          [] s = "waiting" -> {"running", "interrupted"} \cup Terminal
          [] s = "interrupted" -> {"running", "cancelled", "failed"}
          [] s \in Terminal -> {}]

TaskNode ==
    [state : AgentState, parent : Tasks \cup {0}, depth : 0 .. MaxDepth,
     caps : SUBSET Capabilities, budget : 1 .. MaxBudget]

NoNode == [state |-> "absent"]

Known(g) == {t \in Tasks : g[t] # NoNode}
Children(g, t) == {c \in Known(g) : g[c].parent = t}
Roots(g) == {t \in Known(g) : g[t].parent = 0}

\* The id of the next task.
Fresh(t) == t \notin Known(graph) /\ \A u \in 1 .. (t - 1) : u \in Known(graph)
-----------------------------------------------------------------------------
\* _validate_graph, on a graph whose child lists were derived from the parents.
Valid(g) ==
    /\ Cardinality(Roots(g)) = 1
    /\ \A t \in Roots(g) : g[t].depth = 0
    /\ \A t \in Known(g) : Cardinality(Children(g, t)) <= MaxChildren
    /\ \A c \in Known(g) \ Roots(g) :
          LET p == g[c].parent IN
          /\ p \in Known(g)
          /\ g[c].depth = g[p].depth + 1
          /\ g[c].caps \subseteq g[p].caps
          /\ g[c].budget <= g[p].budget

Init ==
    /\ saved = [t \in Tasks |-> NoNode]
    /\ graph = [t \in Tasks |-> NoNode]
    /\ loaded = FALSE
    /\ staged = 0
    /\ op = "none"
    /\ stack = <<>>
    /\ crashes = 0

\* _task_graph, at the first task request of a process: a graph that does not
\* validate is not served.
Load ==
    /\ ~loaded
    /\ Known(saved) = {} \/ Valid(saved)
    /\ graph' = saved
    /\ loaded' = TRUE
    /\ UNCHANGED <<saved, staged, op, stack, crashes>>

\* The graph serves a new request.
Ready == loaded /\ staged = 0 /\ op = "none"

\* _emit: the event is durable; the node follows in Replace.
Emit(t, node) ==
    /\ saved' = [saved EXCEPT ![t] = node]
    /\ staged' = t
    /\ UNCHANGED <<graph, loaded, crashes>>

\* self._nodes[task_id] = ...
Replace ==
    /\ staged # 0
    /\ graph' = [graph EXCEPT ![staged] = saved[staged]]
    /\ staged' = 0
    /\ UNCHANGED <<saved, loaded, op, stack, crashes>>
-----------------------------------------------------------------------------
CreateRoot(t, caps, budget) ==
    /\ Ready
    /\ Fresh(t)
    /\ Roots(graph) = {}
    /\ Emit(t, [state |-> "pending", parent |-> 0, depth |-> 0,
                caps |-> caps, budget |-> budget])
    /\ UNCHANGED <<op, stack>>

\* Mutant: the child limit is off by one.
SpawnOneMore(t, p, caps, budget) ==
    /\ Ready
    /\ Fresh(t)
    /\ p \in Known(graph)
    /\ graph[p].state \in {"running", "waiting"}
    /\ Cardinality(Children(graph, p)) <= MaxChildren
    /\ caps \subseteq graph[p].caps
    /\ budget <= graph[p].budget
    /\ graph[p].depth + 1 <= MaxDepth
    /\ Emit(t, [state |-> "pending", parent |-> p, depth |-> graph[p].depth + 1,
                caps |-> caps, budget |-> budget])
    /\ UNCHANGED <<op, stack>>

\* A child has at most the authority of its parent.
Spawn(t, p, caps, budget) ==
    /\ Ready
    /\ Fresh(t)
    /\ p \in Known(graph)
    /\ graph[p].state \in {"running", "waiting"}
    /\ Cardinality(Children(graph, p)) < MaxChildren
    /\ caps \subseteq graph[p].caps
    /\ budget <= graph[p].budget
    /\ graph[p].depth + 1 <= MaxDepth
    /\ Emit(t, [state |-> "pending", parent |-> p, depth |-> graph[p].depth + 1,
                caps |-> caps, budget |-> budget])
    /\ UNCHANGED <<op, stack>>

\* transition: by the table, and COMPLETED only without active children.
Transition(t, state) ==
    /\ t \in Known(graph)
    /\ state \in Transitions[graph[t].state]
    /\ state = "completed" =>
          \A c \in Children(graph, t) : graph[c].state \in Terminal
    /\ Emit(t, [graph[t] EXCEPT !.state = state])

\* resume, transition to WAITING, complete, fail.
TaskTransition(t, state) ==
    /\ Ready
    /\ state \in {"running", "waiting", "completed", "failed"}
    /\ Transition(t, state)
    /\ UNCHANGED <<op, stack>>
-----------------------------------------------------------------------------
(***************************************************************************)
(* cancel and interrupt visit the descendants first.                       *)
(***************************************************************************)
BeginVisit(t, target) ==
    /\ Ready
    /\ t \in Known(graph)
    /\ target \in {"cancelled", "interrupted"}
    /\ op' = target
    /\ stack' = <<t>>
    /\ UNCHANGED <<saved, graph, loaded, staged, crashes>>

Top == stack[Len(stack)]

\* Mutant: only running children are interrupted.
VisitedRunning(t) ==
    {c \in Children(graph, t) :
        IF op = "cancelled" THEN graph[c].state \notin Terminal
                            ELSE graph[c].state = "running"}

\* The children that _cancel_descendants or _interrupt_descendants still has to visit.
Visited(t) ==
    {c \in Children(graph, t) :
        IF op = "cancelled" THEN graph[c].state \notin Terminal
                            ELSE graph[c].state \in Active}

Descend ==
    /\ staged = 0
    /\ stack # <<>>
    /\ \E c \in Visited(Top) :
          /\ \A d \in Visited(Top) : c <= d
          /\ stack' = Append(stack, c)
    /\ UNCHANGED <<saved, graph, loaded, staged, op, crashes>>

\* Mutant: a task is changed before its children.
LeaveFirst ==
    /\ staged = 0
    /\ stack # <<>>
    /\ Transition(Top, op)
    /\ stack' = SubSeq(stack, 1, Len(stack) - 1)
    /\ op' = IF Len(stack) = 1 THEN "none" ELSE op

\* All descendants are done: the task itself.
Leave ==
    /\ staged = 0
    /\ stack # <<>>
    /\ Visited(Top) = {}
    /\ Transition(Top, op)
    /\ stack' = SubSeq(stack, 1, Len(stack) - 1)
    /\ op' = IF Len(stack) = 1 THEN "none" ELSE op

Abort ==
    /\ op' = "none"
    /\ stack' = <<>>
    /\ UNCHANGED <<saved, graph, loaded, staged, crashes>>

\* The requested task itself is terminal (cancel returns it) or cannot be
\* interrupted (an error, after its descendants were).
NothingToLeave ==
    /\ staged = 0
    /\ Len(stack) = 1
    /\ Visited(Top) = {}
    /\ op \notin Transitions[graph[Top].state]
    /\ Abort

\* The sink raises: what was emitted stays, the rest is not visited.
SinkFails ==
    /\ staged = 0
    /\ stack # <<>>
    /\ Visited(Top) = {}
    /\ op \in Transitions[graph[Top].state]
    /\ Abort

Crash ==
    /\ loaded
    /\ crashes < MaxCrashes
    /\ crashes' = crashes + 1
    /\ loaded' = FALSE
    /\ graph' = [t \in Tasks |-> NoNode]
    /\ staged' = 0
    /\ op' = "none"
    /\ stack' = <<>>
    /\ UNCHANGED saved
-----------------------------------------------------------------------------
Next ==
    \/ Load \/ Replace
    \/ \E t \in Tasks, caps \in SUBSET Capabilities, budget \in 1 .. MaxBudget :
          \/ CreateRoot(t, caps, budget)
          \/ \E p \in Tasks : Spawn(t, p, caps, budget)
    \/ \E t \in Tasks, state \in AgentState : TaskTransition(t, state) \/ BeginVisit(t, state)
    \/ Descend \/ Leave \/ NothingToLeave \/ SinkFails
    \/ Crash

Spec == Init /\ [][Next]_vars
-----------------------------------------------------------------------------
(***************************************************************************)
(* Properties.                                                             *)
(***************************************************************************)

\* Wherever the process stops, the log describes a graph that _task_graph accepts: one
\* root, consistent links and limits, and no child with more authority than its parent.
RestoreAccepts == Known(saved) = {} \/ Valid(saved)

\* A completed or cancelled task never has an active child in the log, although the
\* tasks of a cancelled subtree are written one by one and any write may be the last.
ClosedTaskHasNoActiveChild ==
    \A t \in Known(saved) : saved[t].state \in {"completed", "cancelled"} =>
        \A c \in Children(saved, t) : saved[c].state \in Terminal

\* When a task is recorded as interrupted, none of its children is pending, running or
\* waiting: interrupt stops the work below a task before the task itself.
InterruptStopsChildren ==
    [][\A t \in Known(saved) :
          saved[t].state # "interrupted" /\ saved'[t].state = "interrupted" =>
              \A c \in Children(saved, t) : saved[c].state \notin Active]_vars
=============================================================================
