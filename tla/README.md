# A TLA+ verification of aihi

aihi is an agent framework (`packages/aihi/agent`), a coding agent built on it
(`packages/aihi/code-agent`) that runs as a local worker process, and a terminal client
(`apps/aihi-code-cli`). This directory holds TLA+ models of the parts whose correctness
depends on the order of events: runs and permissions, the event log, the worker's threads,
delegation, context compaction, the processes and files that tools and extensions live in,
and the client that follows it all. TLC checks them on small instances; TLAPS proves the
main results for every size.

Paths below are relative to `packages/aihi/agent/src/aihi/agent` (A),
`packages/aihi/code-agent/src/aihi/code_agent` (C) or `apps/aihi-code-cli/src` (T).

## The system

| Component | State | Operations | Interacts with | Hard part |
|---|---|---|---|---|
| run coordinator, A/`runtime/coordinator.py` | nothing of its own: the log, plus the locals of one coroutine | run, resume, abandon, cancel | session, dispatcher, provider, resolver, hooks | crash between two appends, cancellation at every await, suspension and resumption |
| authorization, A/`policy/` | approvals and leases projected from the log | request, resolve, consume, issue, revoke; a decision per call | coordinator, worker (`approval.resolve`) | decisions made on a state that changes before they are used; expiry |
| tool dispatcher, A/`tools/dispatcher.py` | none | dispatch one call | policy, tools, hooks | its place between the decision and the durable result |
| session and store, A/`sessions/` | event log per session; cached head, events and messages per `Session` | append_many, refresh, load | everyone | several owners, two threads on one object |
| worker, C/`worker/` | frame queue, registry of runs, flags of the server | read frames, submit, cancel, drain, shut down | client by frames, coordinator by threads | three kinds of threads, end of stream, shutdown |
| task graph, A/`agents/graph.py` | nodes in memory, events in the log | create, spawn, transition, cancel, interrupt, rebuild | worker, session log | recursive updates written event by event |
| subagents, A/`agents/`, C/`subagents/`, C/`policy/` | child runs in sessions of their own, budgets, an in-memory graph per parent run | delegate, run, overspend, cancel | coordinator, policy, task graph | a child within its parent's authority, budget and lifetime |
| context, A/`context/` | none: `ContextState` is in the log; the artifacts a run knows | group, project, compact, bound | coordinator, provider, artifacts | a state merged from one part of the log after another |
| model streams, A/`models/` | the parser of one stream | stream, assemble, retry | coordinator | whatever the server sends |
| turns, C/`turns.py` | pump, queue and task of a turn | drive a turn, detach | coordinator, consumers | generators that are left unfinished |
| hooks, A/`hooks/bus.py` | registrations | register, unregister, emit | coordinator | handlers that change while one is awaited |
| MCP client and plugin host, A/`mcp/`, A/`plugins/` | one child process, one lock, request ids; plugin trust records | connect, call, retry, stop; verify and start | tools | timeouts, late replies, death of the child, edits of files |
| skills, A/`skills/`, C/`skills/__init__.py` | `SKILL.md` files, a lockfile, a copy of it per run | discover, trust, load | runs, worker requests | files and records that change between check and use |
| artifacts, A/`artifacts/` | payload and manifest files | put, read, delete, clean up | context, tools | two files that are not one |
| memory, A/`memory/` | records and tombstones, audit events | write, delete | sinks | a change and its event |
| terminal client, T | transcript, approvals, active run, loads, buffers | open, replay, follow, submit, resolve | worker by one pipe | notifications during a replay |
| file tools, C/`tools/` | a ledger of what each run has read; file locks | read, edit, write | the workspace, by threads | writers of several processes, calls that time out and go on |
| sandboxes, A/`sandbox/`, C/`tools/command.py` | a process group, two pipes | run a command, time out, terminate | bash and git tools | processes that do not end |
| telemetry, evaluation, configuration | | | | not modelled, see below |

What makes them correct, in short: a tool call is executed at most once and has a durable
result when its run ends; a privileged tool runs only on a grant for it in its run; a run
keeps one turn budget and one end; the log is one sequence that every writer has read; a
session has one foreground run; the worker reports every run it accepted; a task graph can
be rebuilt from any prefix of its log; a child run stays within what was delegated and ends
with its parent; what the model sees still stands for the session; replies, files and
records are those of whoever asks; an edit replaces what it has read, and the leader of a
command does not outlive its call; and the screen shows the log. `PROJECT.json` lists,
under "hazards", the lines of code where each of these could go wrong, and the properties
that watch them.

## Modules

| Module | Models |
|---|---|
| `PolicyEngine` | `DefaultPolicyEngine.evaluate` as an operator |
| `RunCoordinator` | runs of one session; extends `PolicyEngine` |
| `Worker` | `serve_stdio`, `RunSupervisor`, the gate of `WorkerServer` |
| `SessionLog` | `Session` objects over an event store |
| `AppendOnlyLog` | the abstract log that `SessionLog` implements |
| `TaskGraph` | the task graph and its event log |
| `Subagents` | a run of the coding agent and the tree of child runs below it |
| `Context` | the rolling compaction of a session |
| `ToolProcess` | `McpClient` and `PluginHost` over one child process |
| `TerminalClient` | the client's replay and live view, with the worker and the store |
| `ModelStream` | the two streaming parsers and the loop that records their message |
| `ChunkStream` | what a provider promises its consumer; `ModelStream` implements it |
| `Turns`, `Hooks`, `Skills`, `Artifacts`, `Memory`, `Plugins` | the services around a run |
| `Workspace` | `read_file`, `edit_file`, `write_file` over `LocalWorkspace` on one path |
| `Commands` | `run_command` of the sandboxes, `run_local_command` |
| `MCRunCoordinator`, `MCWorker`, `MCSessionLog`, `MCViews`, `MCServices` | instances for TLC |
| `RunCoordinator_proofs`, `Subagents_proofs` | the theorems about the module of that name |
| `Context_proofs` | those about `Context` |
| `Hosting_proofs` | those about `Worker`, `Skills`, `Plugins` and `Hooks` |
| `Storage_proofs` | those about `SessionLog`, `Memory`, `Workspace` and `Artifacts` |
| `Streams_proofs` | those about `ToolProcess`, `Commands`, `ModelStream` and `Turns` |
| `Terminal_proofs`, `Views_proofs` | those about `TerminalClient`; `Views_proofs` continues, and adds those about `TaskGraph` |

Modules without an MC module have constants that a cfg file can write down. An operator
whose comment begins with "Mutant" is a deliberately wrong variant of a definition; no
specification uses it. `PROJECT.json` pairs each with the property it breaks, which shows
that the property depends on that piece of code.

The modules build on each other's promises. `RunCoordinator` lets one run of the session
execute at a time and makes every append atomic: the first is `OneForegroundRunPerSession`
of `Worker`, for a client that sends these commands as requests, the second `ImplementsLog` of
`SessionLog`. That a signalled run ends, and when it does not, is `CancelStopsRun` of
`RunCoordinator`; `Worker` excepts from its liveness property the run that does not.
`Subagents` reduces a run to its outstanding calls, as `RunCoordinator` shows what a run does
with each. `TerminalClient` contains the worker's main thread as one server that takes requests
in order, as `Worker` has it.
`RunCoordinator` takes a whole message from the provider or a failure, which is
`RecordedIsShown` of `ModelStream`, and a tool that answers or is given up, which is
`OperationsEnd` of `ToolProcess` (or the dispatcher's timeout, where that has an exception);
the file tools and commands are under the dispatcher's timeout.

### RunCoordinator

The durable variables are projections of the log that the code itself computes: the last
lifecycle event of each run (`life`), the `pending_tool_call_ids` of its last
`run.suspended` (`pending`), the number of its `model.usage` events (`usage`), the proposed
calls with owner, tool and result, the approvals and the leases. The volatile variables are
the locals of `RunCoordinator.run`, with `phase` for the place of the coroutine and `task`
for each gathered dispatch coroutine; `Crash` resets them. `execs`, `usedBy` and `crashes`
are history for the properties only.

One action is what the coroutine does between two awaits that can really suspend, cut
further where a crash between two appends can be told from a crash before both. An await
that waits for the cancel event too can be left by it; the others are phases of their own
(`Unheard`): `compacting` and `shrinking` wait for a token count or for the summary of a
compaction, before a request and before its retry.
`Open` is the opening part of `run` and `resume`; `Setup` the transition to RUNNING, the
repair of lost calls and the turn count; `LoopX` the top of `_loop`; `RespondX` the single
append of usage and message; `StartGroup` to `ToolsDone` are `_execute_tool_calls` with
`_dispatch_with_approval` and `ToolDispatcher.dispatch` per call (`Refuse`, `Allow`, `AskX`,
`ResolverX`, `RunTool`, `ToolReturns`) and the commit of outcomes in call order
(`CommitResult`, `CommitRaise`, `Suspend`); `RepairAfterInterrupt` and `FinishUnwound` the
exception handlers; `Abandon` is `abandon`, and `AbandonDies` a death between its two
appends.

Abstractions. Messages are sets of calls. An approval's scope is the tool of its call. A lease
is known by the tool whose capabilities it grants. Time is the expiry of approvals and leases at
any moment. Compaction either leads to the next request, fails the run, or never returns; what
it does to the log is `Context`. A hook passes, or fails the run or the call. Providers that do
not support parallel tools are the instances with no concurrency-safe tool. Identifiers are
numbered in the order of their events, which the code uses only to find the latest request and
the earliest grant.

### Worker

The client sends any frame in any order and may end or break the stream at any time. The
main thread is the loop of `serve_stdio`, with a step for each place where another thread
can act in between: drain, emit, exit check, get, one `ReadX` per kind of frame, `Handled`
after the dispatcher, closing. `ReadNotification` is a `run.start`, `run.resume` or
`run.cancel` without an id: it passes the supervisor by, and the main thread itself executes or
abandons the run (`handling`), as long as that takes. Pool threads pick runs up in order
(`PickUp`) and end them (`EndRun`), with their terminal event queued or with a failure to
start. A command that the dispatcher serves is one frame kind, as none of them touches this
state.

### SessionLog and AppendOnlyLog

Each store call is atomic: the stores hold a lock and SQLite a transaction. What a
`Session` does between the calls is one step per attribute it assigns, `head_seq +=` being
two. `AppendOnlyLog` says what the pair promises: a batch is appended as a whole, by a
writer that has taken the whole log into account, with consecutive sequence numbers. The
refinement maps a writer's `seen` to its cached head, and to the end of its own batch from
the moment the store has it until the cached head follows. Threads that share an object are
possible in the model (`Object` maps threads to objects), but the code keeps the promise
only for threads that do not, so the run and the theorems have an object per thread.
Metadata, forks and message projection are left out; messages are a function of the events.

### TaskGraph

`saved` is what the last event of each task says, `graph` the nodes in memory. Every change
is an event first (`Emit`) and a node second (`Replace`). `cancel` and `interrupt` are walks
(`BeginVisit`, `Descend`, `Leave`) that the sink may end early (`SinkFails`) and a death at
any point. `Load` is the rebuild in `WorkerServer._task_graph`, with `Valid` for
`_validate_graph`. A budget is one number ordered by `is_subset_of`.

### Subagents

A run is its state, its capabilities, access mode and registry, and the calls of its last
message, each at the stage it has reached. `Delegate` is the body of the task tool: the
limits of the parent's graph, the intersection of authority, the registry of the child and
its session. `Dispatch`, `Ask`, `BeginTool` and `FinishTool` are the calls of `RunCoordinator`
with `CodeAgentPolicy` as the decision; `Overspend` is the budget that counts the child's
`tool.started` events and sets its cancel event; `Interrupt` delivers a cancellation at the
await a run stands at and ends the child's node with it. Tools are known by what the policy
asks of them (reading, editing, executing, remote, delegating). A refusal the model does not
explain (schema, unknown agent type) is a nondeterministic one; a grant lasts for the run;
the coding agent registers no hooks.

### Context

The log is a sequence of events, and the state message of a compaction is one of them.
`BeginCompact` groups the messages after the cursor into exchanges, cuts the tail that stays
and computes the facts; it then awaits the summary (`inflight`), and `FinishCompact` appends
what it computed, or `LoseCompact` drops it. Approvals and artifacts may change meanwhile. A
message costs one token, as large results have been replaced by previews of bounded size;
the words of a summary are data, and where the model may choose the objective it may.

### ToolProcess

A step runs from one await to the next. `task` says at which await each task is;
`lockQueue` is the `asyncio.Lock`, first come first served; `stdin` and `stdout` are the
pipes. `Serve`, `Chatter` and `Die` are the child. A task may be cancelled (`Cancel`) or
time out (`TimeOut`) wherever the code awaits under a timeout, and leaves the process as the
code leaves it. `client` chooses between the MCP client, with its reconnection, and the
plugin host. A request is written whole. The MCP client writes and drains within its timeout;
the plugin host writes in a thread that no timeout covers (`Writing`), and as a message may be
larger than the pipe, the write ends only if the child reads, which nothing makes it do. A reply
is `foreign` to a request unless it answers that very request: one to another task, to an
earlier operation of the task, or to an earlier attempt of the operation is. The lines of a
request that is given up are those of nobody (`Disowned`).
`asyncio.wait_for` is the one of Python 3.12 and later, which awaits in the same task; that of
3.11, which the packages also accept, awaits in a task of its own.

### TerminalClient

`pipe` carries replies and notifications in the order in which the worker wrote them;
`ready` holds the continuations of resolved promises, which run in that order. `loads` has
one record per call of `loadSession`, `generation` the newest. `Deliver` is the handling of
a message (`onEvent` or the resolution of a request), `RunContinuation` the code after an
await: the paging of `readSessionHistory`, the approvals, the merge of what was buffered. A
session has at most one run; another process may append events that nobody announces. The
merge of `mergeTranscriptEvents` is stated by what it yields: the numbers that are not yet
shown (`New`), each once, in order (`Sorted`).
Rendering, the composer, and the commands that do not touch this state are left out.

### The services

`MCServices` runs one of these modules or `Commands` per behaviour, as they share no state;
`MCSessionLog` does so with `SessionLog` and `Context`, `MCViews` with `TaskGraph`,
`TerminalClient` and `Workspace`, `MCWorker` with `Worker` and `Subagents`, each of which is
fair when it runs.

* `ModelStream`: the server is unconstrained and may repeat, reorder, omit or cut off
  events. A delta may be of another kind than its block: the Anthropic adapter shows it and
  leaves it out of the message (`stray`). `OpenAIEvent` and the `AnthropicX` actions are one
  wire event each; `CloseBlock` and `Finish` the end of the parse; `Record` and
  `HandleFailure` the coordinator, with its one retry after a context-length failure.
  Arguments of a tool come in two fragments.
* `Turns`: the pump of a runtime, the task that drives the run, and the consumer, who takes
  events, exhausts the stream, cancels it or just stops reading (`LeaveTurn`), so that the
  event loop finalizes it later. Events have the number the log gives them (`seq`).
* `Hooks`: `emit` copies the registrations, awaits handler after handler, and others
  register, unregister and emit in between.
* `Skills`: discovery over scopes, requests with a store of their own each, a run with the
  copy of the records it was built with, and `load_by_name` as four steps (`AskSkill`,
  `FindEffective`, `VerifySkill`, `ReadBody`). One pass over the roots is one step.
* `Artifacts`: one step per file operation, several agents on one directory, deaths between
  two of them and damaged files. A put looks for the manifest (`LoadManifest`), reads it again
  (`CheckManifest`) and writes its own (`WriteManifest`), and another put or a deletion may come
  between any two. Administrative access is left out; listing is one step.
* `Memory`: the store locks each call, the service nothing; the audit sink may refuse.
* `Plugins`: discovery, trust records and the verified start. `start` awaits nothing until
  the process exists. Manifest and code are known by their hashes. The hash leaves out
  `__pycache__`, from which the import may take byte code: a directory has a third part,
  `stale`, that is imported and not hashed.

### Workspace

One path, and every inode it has named in the order of the renames (`files`); a text is the
set of changes it carries, so that an edit can put one in or take one back. A call is one
record: `expected` is its digest, `opened` the inode whose `flock` it has or waits for.
`Begin` is the tool up to its first thread, with the refusal by the ledger; `ReadOpen`,
`ReadLocked` and `Resume` are the reading thread and the tool after it; `WriteOpen`, `Lock`,
`Check` and `ReplaceFile` (or `WriteFails`) are `_write_text_sync`. `Timeout` is the dispatcher,
which cannot stop a thread that writes. Calls of different runs may come from different
processes: the lock is the file system's. Other writers (bash, an editor) take no lock and are
left out, as nothing can be promised with them; so is the deletion of the file.

### Commands

`proc` is the command's leader and what it starts. `killer` is
`_terminate_process_group`, which may outlive the call when it is shielded; `at` is the call.
The three backends share their control flow; `backend` distinguishes them from
`run_local_command`, which signals nothing after its leader has exited and waits for a
killed one without a timeout. `process.wait()` returns when the leader has exited, as
documented. Isolation and the removal of a docker container are left out.

## Runs

| Run | Checks | Instance | Distinct states |
|---|---|---|---|
| `coordinator` | `NoReplay`, `StoppedRunIsSettled`, `TurnBudgetHolds`, `TerminalRunIsFinal`, `CancelStopsRun` | 1 run, 2 calls, 2 turns, 1 approval that expires, 1 crash, a reader and a shell tool | 245 523 |
| `shared_session` | `PrivilegedNeedsGrant`, `OneShotIsSpent` | 2 interchangeable runs, 2 calls, 1 turn, 2 approvals, 1 crash, leases required | 2 210 961 |
| `worker` | worker: `OneForegroundRunPerSession`, `AbandonIsExclusive`, `CleanExitReportsAll`, `StreamEndStopsWorker`; delegation: `BudgetHolds`, `AuthorityNarrows`, `TreeIsNested`, `CancelStopsTree` | 2 sessions, 2 run ids, 2 pool threads, 3 frames; a run and up to 2 children, 3 tools, a budget of 1 call | 325 794 |
| `session` | owners: `CurrentViewIsComplete`, `ImplementsLog`; compaction: `RollingStateIsExact`, `ExchangesStayWhole`, `ApprovalsGoLast` | 2 owners, 4 events in batches of 1 and 2; 8 events, 4 turns, 2 calls, 1 approval, a state of 2 facts | 391 455 |
| `views` | task graph: `RestoreAccepts`, `ClosedTaskHasNoActiveChild`, `InterruptStopsChildren`; client: `TranscriptIsPrefix`, `QuietViewIsCurrent`, `NewestLoadIsShown`; file tools: `EditsAreKept` | 4 tasks, depth 2, 2 children, 1 capability, 1 crash; 2 sessions, 5 events, 1 of them foreign, pages of 2, 3 loads, 1 failure; 3 file tool calls of 2 runs, 1 in the ledger | 2 177 092 |
| `tool_process` | `ReplyIsOwn`, `MutationRunsOnce`, `OperationsEnd` | 2 tasks, 2 operations, 2 processes, 1 reconnection, 1 fault | 193 201 |
| `services` | `RecordedIsShown`, `ImplementsChunks`, `FinishedTurnIsWhole`, `MutationIsGoverned`, `LoadedWasTrusted`, `PutIsReadable`, `AuditAccountsForMemory`, `PluginRunsAsTrusted`; commands: `ResultIsWhole`, `LeaderIsStopped` | each part on its own, see `Services.cfg` | 2 077 756 |

What they show, beyond the names:

* `coordinator`: over suspension, expiry, cancellation, abandonment and a crash anywhere, no
  call is started twice, a run that ended has left no call open, a suspended one only the
  calls it names, no run gets more model turns than `max_turns`, a terminal run stays
  terminal, and a cancelled run stops although every handler may append on its way out, unless
  the provider is silent in a compaction.
* `shared_session`: a run never executes a privileged tool on another run's grant or lease,
  and a call that returned has spent its one-shot grant. The instance has one tool; that the
  grant was for that very tool is what the proof adds.
* `worker`: registry, pool and frame loop agree in every interleaving, for commands that are
  requests; `owed` holds the runs whose acknowledgement the client has and whose end it has
  not. A child runs no more tool bodies than its budget, nothing outside the application's
  authority (not its parent's: see `parent_authority`), not longer than its parent, and a
  cancelled tree stops, with the same exception.
* `session`: a refresh that is overtaken by appends gives up with its old view, and whoever is
  allowed to append has read what it appends to. A state advanced over several compactions is
  what one projection of the whole session would give, but for what its bound dropped, and the
  bound drops approvals last; the messages beside it never separate a call from its result.
* `views`: an event may be the last one anywhere in a recursive walk over the task graph;
  `InterruptStopsChildren` speaks of the children of a task, and not of what is below a child
  that was interrupted before. The screen is a prefix of the log at all times and the whole
  announced log when everything has been handled, and a load that is not replaced ends with
  what it has read. For the file tools: locks of files that are gone do not matter between
  writers that all carry digests, unless a text comes back.
* `tool_process`: a late reply is taken for no other request's, be it of the same task; a
  mutating call reaches a process once; and every operation ends with a child that never
  answers, and, of the MCP client, with one that never reads.
* `services`: a recorded message is what observers saw of its blocks, but for stray deltas of
  one adapter, and its tool calls are whole; a finished turn has shown its run; mutating hooks
  run only where they are allowed, and handlers in order, none twice and none left out; bodies
  of skills and code of plugins are what was trusted; artifacts read back, as long as the
  expiry in place says; audit events account for memory.
  For commands: output that is not marked as truncated is all there ever was, and a leader
  does not survive the result or the cancellation of its call.

Bounds, and why they are enough.

* Two calls are the smallest batch in which one call can suspend behind or before another
  and the smallest group that runs in parallel; two turns let a run be resumed and go on; one
  crash can fall anywhere, and a second one finds the state that a crash always leaves. Two
  runs are what it takes for one to disturb the other. `shared_session` has one turn and one
  tool, as authority does not depend on the number of turns; two tools of which the lease of one
  covers the other are excluded by the same reason as in the proof (`LeasesCoverOneTool`).
* Three frames are two runs and a request that races with them, or a run, a notification and a
  request; two runs fill the pool. Four events allow a refresh to be overtaken and an owner to
  append afterwards. Four tasks with two children and depth two are a root, two branches and a
  grandchild.
* Eight events hold two compactions with calls, results and an approval around them. With a
  state of two facts the bound bites; the code's limits only bite later.
* Two tasks are one that holds the lock and one that waits or inherits what it left. Two
  processes are a connection and its replacement. The two operations are by two tasks at
  once, or by one after the other, so that a reply to the first can reach the second; a
  fault is a death, a cancellation or a line that is no reply, at any place.
* Two sessions are the one shown and the one a load was for. Five events are more than two
  pages; three loads are one that is replaced by another and by a replay of a gap.
* Two children are one after the other under one run. A budget of one call is exceeded by
  the second, and two calls per message may start at once. `MaxDepth` is that of the
  in-memory graph, which starts at the run that delegates.
* In the services: five wire events and two streams (a failed one and its retry); two turns
  with two events each; three registrations and two emissions; three edits and two
  decisions, enough to trust, edit, shadow and revoke; three operations and a fault on
  one content in two scopes; three records; two verdicts.
* Three writers are one that replaces the file, one that waited for its lock and one that locks
  the new file. A ledger of one run lets the second run evict the first. For `EditsAreKept` the
  proof removes the bounds; the violation needs no more. One child is a descendant that behaves
  differently from its leader. Two characters and a limit of one are a pipe below, at and above
  its limit; two cancellations are one of the command and one of its cleanup.

Fairness. `RunCoordinator` assumes weak fairness of `RunStep`, the steps that the coroutine
takes when the event loop runs it; tools and hooks are bounded by their timeouts. Nothing is
assumed of the provider, the resolver or the client: an answer, a token count or a summary may
never come. That a cancelled run stops without them is what `CancelStopsRun` says, with one
exception, which is in the formula: the coroutine awaits token counts and summaries
(coordinator.py:581-606 and 642-669) without waiting for the cancel event, and a provider that
is silent there keeps a cancelled run for ever. `CancelStopsTree` has the same exception for a
run that has no call in progress (`Hears`). `Worker` assumes that the main thread and the pool
are scheduled, and of no run that it ends: `StreamEndStopsWorker` excepts a run whose signal is
set and that stays, and a run that the main thread executes, which no signal reaches.
`ToolProcess` assumes that each task that can run is run and that timeouts expire. Nothing is
assumed of the child, which need not read: `OperationsEnd` excepts a `PluginHost` whose write
never ends (`Unread`), and those that wait for its lock. `Subagents` assumes that a cancellation
that is due is delivered at the await a run stands at, if that await hears it. `WorkspaceSpec`
says that threads run and that `flock` is granted to one that waits, which the safety properties
do not need. The other modules have no liveness property. Deadlock is not checked: all runs may
have ended, the log may be full, the bounds may be exhausted, the client waits for its user, or
the process may have exited.

## Where the code and its own words differ

Each of these runs checks one sentence of the repository, and TLC finds a behaviour of the
code that breaks it. `PROJECT.json` quotes the lines under "findings".

| Run | Property | What happens |
|---|---|---|
| `repair_other_run` | `SuspendedCallsStayOpen` | A run that starts or stops repairs all orphans of the session, the calls of another suspended run included; when that run is resumed, its calls are executed and their results refused. |
| `sibling_limit` | `SiblingLimitBinds` | The graph that counts a parent's children lives in the memory of the tool: a parent that is resumed after its process ended may delegate to `max_children` more. |
| `parent_authority` | `ChildWithinParent` | The root of every graph has the application's capabilities, also when a child delegates: a nested child may get capabilities that the run which delegates does not have. |
| `lost_edit` | `OneWriterPerDigest` | A writer without a digest that waited for the lock of a file replaced meanwhile lands between the check and the rename of a writer that locked the new file, which then overwrites it. Two writers with digests do the same if a text comes back. |
| `command_group` | `GroupIsCleaned` | The leader of a command that timed out has exited or obeys SIGTERM; another process of its group ignores it and goes on, as SIGKILL is only sent for the leader. |

Some properties except what the code is known not to provide; each exception is in the formula
and in the note of its hazard. A turn after a stream that was finalized late may lose events
(`FinishedTurnIsWhole`). An edit of a plugin between hash and import is not noticed, nor is
byte code in `__pycache__` that is not that of the sources (discovery.py:176), which no
document says is covered (`PluginRunsAsTrusted`). A manifest that carries the identity of
another artifact is neither read nor replaced; and of two puts of one content with different
expiries either manifest may end in place, so that one of them has returned an expiry that is
not the one in force (`PutIsReadable`). `Session.emit` says that streaming deltas are
"replayable from the assistant message that the same stream produces" (session.py:370); of the
Anthropic adapter observers also see a delta of another kind than its block, and blocks of
unknown kinds, and the message has neither (anthropic.py:311-322, `RecordedIsShown`). A
`run.start`, `run.resume` or `run.cancel` without an id passes the supervisor by
(transport.py:160 and 239), so that the main thread may execute or abandon a run while the pool
executes another one of the session: `OneForegroundRunPerSession` is about the pool, and
`AbandonIsExclusive` about requests. A view is complete only if no request failed and only for
announced events (`QuietViewIsCurrent`). Edits are kept if every write carries a digest and no
text comes back (`EditsAreKept`); `write_file` lets a run that has not read the file create it,
and overwrites what another run has created since it looked. A cancellation while a command
that timed out is being terminated ends the termination before SIGKILL, because that await is
not shielded; `LeaderIsStopped` speaks of results and of commands that were cancelled first.

## Proofs

| Theorem | Statement | Hypothesis |
|---|---|---|
| `RunCoordinator_proofs!TypeCorrect` | `Spec => []TypeOK` | |
| `TurnBudgetCorrect` | `Spec => []TurnBudgetHolds` | |
| `TerminalFinalCorrect` | `Spec => TerminalRunIsFinal` | |
| `PrivilegedGrantCorrect` | `Spec => []PrivilegedNeedsGrant` | `LeasesCoverOneTool` |
| `OneShotCorrect` | `Spec => []OneShotIsSpent` | |
| `NoReplayCorrect` | `Spec => []NoReplay` | `ParallelToolsNeverAsk` |
| `StoppedRunCorrect` | `Spec => []StoppedRunIsSettled` | `ParallelToolsNeverAsk` |
| `Context_proofs!ApprovalsGoLastCorrect` | `ContextSpec => ApprovalsGoLast` | `FewApprovals` |
| `ExchangesStayWholeCorrect` | `ContextSpec => []ExchangesStayWhole` | |
| `RollingStateIsExactCorrect` | `ContextSpec => []RollingStateIsExact` | |
| `Hosting_proofs!ForegroundCorrect` | `Spec => []OneForegroundRunPerSession` (`Worker`) | |
| `AbandonCorrect` | `Spec => []AbandonIsExclusive` | |
| `CleanExitCorrect` | `Spec => []CleanExitReportsAll` | |
| `SkillTrustCorrect` | `SkillsSpec => []LoadedWasTrusted` | `OneRequester` |
| `PluginTrustCorrect` | `PluginsSpec => []PluginRunsAsTrusted` | |
| `MutationIsGovernedCorrect` | `HooksSpec => []MutationIsGoverned` | |
| `Storage_proofs!CurrentViewCorrect` | `Spec => []CurrentViewIsComplete` (`SessionLog`) | `Owners` |
| `LogImplemented` | `Spec => ImplementsLog` | `Owners` |
| `AuditCorrect` | `MemorySpec => []AuditAccountsForMemory` | |
| `EditsAreKeptAlways` | `WorkspaceSpec => EditsAreKept` | |
| `PutIsReadableCorrect` | `ArtifactsSpec => []PutIsReadable` | |
| `Streams_proofs!ReplyIsOwnCorrect` | `Spec => []ReplyIsOwn` (`ToolProcess`) | |
| `MutationRunsOnceCorrect` | `Spec => []MutationRunsOnce` | |
| `ResultIsWholeCorrect` | `CommandSpec => []ResultIsWhole` | |
| `LeaderIsStoppedCorrect` | `CommandSpec => []LeaderIsStopped` | |
| `RecordedIsShownCorrect` | `StreamSpec => []RecordedIsShown` | |
| `ImplementsChunksCorrect` | `StreamSpec => ImplementsChunks` | |
| `FinishedTurnIsWholeCorrect` | `TurnsSpec => []FinishedTurnIsWhole` | |
| `Subagents_proofs!BudgetHoldsCorrect` | `Spec => []BudgetHolds` | |
| `AuthorityNarrowsCorrect` | `Spec => []AuthorityNarrows` | |
| `TreeIsNestedCorrect` | `Spec => []TreeIsNested` | |
| `Terminal_proofs!TranscriptIsPrefixCorrect` | `ClientSpec => []TranscriptIsPrefix` | |
| `NewestLoadIsShownCorrect` | `ClientSpec => NewestLoadIsShown` | |
| `Views_proofs!QuietViewIsCurrentCorrect` | `ClientSpec => []QuietViewIsCurrent` | |
| `RestoreCorrect` | `Spec => []RestoreAccepts` (`TaskGraph`) | |
| `ClosedTaskCorrect` | `Spec => []ClosedTaskHasNoActiveChild` | |
| `InterruptCorrect` | `Spec => InterruptStopsChildren` | |

They hold for all values of the constants that satisfy the modules' named assumptions, which
TLC evaluates in the runs. The hypotheses say what the code needs from its surroundings:

* `ParallelToolsNeverAsk`: no tool that may run in parallel with others executes processes.
  True of the coding agent's tools; a tool of an MCP server (`concurrency_safe = idempotent`,
  capabilities from `x-aihi-required-capabilities`) may break it, and a suspended group is
  then executed again.
* `LeasesCoverOneTool`: if leases are required, the capabilities of one tool do not include
  those of another privileged one, as a lease is for capabilities and not for the tool that
  was asked about. Without required leases, the default, it is vacuous.
* `Owners`: no two threads use one `Session` object.
* `FewApprovals`: a session asks for no more approvals than the state keeps facts of one field,
  which is 64. With more, the limit of the field drops the oldest pending approval before
  `_EVICTION_TIERS` are looked at, whatever else is kept.
* `OneRequester`: requests that change the lockfile do not overlap; two at once write their
  copies over each other's.

The arguments.

* Runs. `StepKinds` puts every step of `Next` into one of few kinds by what it changes
  (nothing durable, one task, one committed result, a repair, ...), so that most invariants
  are proved per kind and not per action. `TurnBudgetHolds` is not inductive, as the loop
  compares its own counter: `Budget` adds that the counter equals `usage` of the executing
  run whenever the loop reads it, and is below `MaxTurns` while the model is asked.
  `TerminalRunIsFinal` needs `Ownership`: the executing run is in a state that it entered by
  `run.started` or `run.resumed`, and every queued call belongs to it. `NoReplay` and
  `StoppedRunIsSettled` are proved together from `Settlement`: a call that has not started in
  this coroutine was never started before (`NotWaiting`); a call that may ask is alone in its
  group (`AskersAlone`), so that a suspension leaves no executed call behind; after its
  repair every open call of the session is in the run's queue, and none is left when it has
  unwound (`OpenAccounted`). `PrivilegedNeedsGrant` looks at calls that have executed; it
  becomes inductive as `Authorized`, which speaks of calls whose start has been decided and
  of the leases in force, and rests on the fact that an approval keeps its call and a grant
  is never undone but only spent (`ApprovalsStay`).
  `OneShotIsSpent` says that a one-shot grant a returned call was started on is used up.
  The code spends the earliest active grant when the result is committed, not the one the
  decision was made on; that these are the same grant is the invariant `OneShots`: as long
  as the grant is good, no other grant is due before it, and the call is executing, or was
  lost to a crash and belongs to no suspended run, so that it will never return (`InUse`).
  A grant made meanwhile ranks behind it. Calls that still need a result have none (`Undone`).
* The log. `SessionInv` says for each place of a thread what its cached head and events are
  worth: between operations they begin the log and the events reach the head (`Cached`);
  after an accepted append the batch stands in the log behind what is cached (`Appending`);
  a head that was read lies between the cached one and the log's, and events belong to it
  once it has been compared again (`Reading`). With it every step of an owner is a step of
  `AppendOnlyLog` or a stutter.
* The worker. `WorkerInv`: a registered run is the run of its session; a run is in one of
  backlog, pool and done, and registered as long; a session with a run being abandoned has
  none; an end that is owed is still to come, queued, or on its way out, and nothing is owed
  once the loop has left with nothing active. The last part is what the drain after the
  check for active runs is for.
* The context. A state that compactions hand on has finitely many facts of known fields, and a
  pending approval in it rests on the one request for it in the log (`ContextInv`). So no field
  limit bites on approvals; and a fact of another field has more facts ordered behind it than an
  approval has, so that the room which keeps that fact keeps the approval. None of this depends
  on how the messages of the session are folded out of the log. The other two theorems do:
  - *The log by itself* (`LogInv`). Calls are numbered as they are proposed; a call is proposed
    once, gets its result at most once after that, and completes only in between (`Exchanges`).
    The first n events are settled if every call proposed among them has its result among them
    (`Settled`); then no trace of a call lies on both sides of n (`TraceSplits`).
  - *The messages* (`ViewInv`). They are at most one state message, and behind it the messages
    of the log from some position a on, in order and without gap (`Shown`, `Lists`), where the
    events before a are settled and the state covers them. `Settled` is what makes this
    inductive: `group_tool_exchanges` cuts only where every call has its result
    (`GroupSettles`), so the messages that `compact` retains are again such a list, and a result
    that a run appends later cannot belong to a call that was cut off. While a compaction waits,
    only resolutions of approvals and deletions of artifacts can be appended (`Outside`), so
    what it has read is still what it replaces (`InFlight`), and its events end where its cursor
    will stand. `ExchangesStayWhole` follows from the list and from `Exchanges` (`ShownWhole`).
  - *The state* (`StateInv`). The state in force says of the first `cursor` events what one
    projection of them says, but for what was dropped. The cursor stands where the log is
    settled, so each call is in what the last state covers or in what the new one reads, and
    never half in each; failures and checks therefore add up (`CallFactsSplit`), the last write
    of a file is the later part's if that has one (`LastWriteIs`), and an approval asked for
    once is pending if the later part asks for it, or does not resolve it (`PendingJoin`).
    `StaysExact` puts this together, in both directions: nothing is invented, and what is
    missing was missing or has just been dropped. The objective needs that a state that covers
    nothing is followed by the first event, which is a request (`LogInv`). The messages are a
    recursive function of the log (`Projected`). That it is what its definition says, and that
    two logs with the same beginning have the same messages up to there, is proved from the
    well-ordering of the naturals (`UnrollingIs`, `SameBeginning`).
* The task graph. `GraphInv` adds to the properties that memory and log differ only in the
  task whose event has just been written, so that what is checked in memory holds in the log.
* Delegation. `SubagentsInv` relates a running child to its parent: the parent is running,
  is executing the task tool, has at least the child's access mode, and has no other
  running child (`Nested`); a child has a higher number than its parent (`Numbered`), so that
  the chain of parents ends. Of each run by itself, `Fits` says that the tools it has offer
  no capability it lacks, that what the policy allowed of a call when it was announced still
  holds, and, of a child, that the calls announced and not yet begun fit in what is left of
  its budget unless its cancel event is set.
* The client. `ClientInv` says that every list of events, shown or loaded, begins the log
  (`ScreenShows`, `LoadsShow`); that a load waits for at most one page (`OnePage`), which goes
  on where the load stands (`MessagesFit`); and that a load which got an empty page has more to
  read (`LoadsPage`). `QuietViewIsCurrent` needs to know where an announced event is that is
  not on the screen. `CurrentInv`: unless a request failed, the newest load, once it has read
  its pages, covers every announced event of its session: it has read it, or the event is on
  its way or held in the buffer. While it pages, the head of a page on its way covers them in
  the same way; and the screen does once no load is under way.
* Skills. `SkillsInv` relates the lockfile, and the copy of it each run has, to the sequence
  of decisions: what a record enables is what the last decision on its key allowed, at the
  time the copy was made.
* Plugins. `PluginsInv` does the same for the records of the trust manager and the time of
  each start, and adds that a directory that was not edited since the hash holds what was
  hashed, and nothing that the hash leaves out if it held nothing such then.
* Memory. `MemoryInv` adds that events and pending tombstones refer to records that exist,
  and that ids are never used again.
* Hooks. `HooksInv`: registrations are numbered apart, so that `Before` orders the ones an
  emission found, and what it has run is a beginning of that order, with a mutating handler
  in it only if mutation is allowed.
* Artifacts. `PutsHold` says what a put that nobody has disturbed relies on after each of its
  file operations: the payload from the time it was found or written, and a manifest of the
  same content, which is the one it returns unless it is misfiled.
* Tool processes. `ProcessInv`: two tasks never use the same number, and a line in a pipe with
  the number of a task is from that task (`NumbersApart`), so that a late reply is never
  taken for another; and a call reaches a process at most once for each try, of which calls
  that may not be repeated have one (`Counted`).
* Commands. `CommandInv`: a reader has counted no more than was written, keeps what fits and
  ends with the pipe (`ReadersCount`); once the group of the leader is given up the leader
  lives no more, unless the caller was cancelled in between (`LeaderDies`); and what
  `run_command` has waited for at each of its places (`CallStands`).
* Model streams. `StreamInv`: what a block holds is what it began with and what observers saw
  of it (`ShownIsKept`); OpenAI's blocks are numbered in turn (`NumbersInTurn`); and a stream that
  ends normally has only whole blocks (`PhaseFits`). With it, every step is a step of
  `ChunkStream` or a stutter.
* Turns. `TurnsInv`: a turn starts when those before it are done with (`InOrderOfTurns`); and if
  no stream has been finalized late, an event of the turn under way has been given to its
  consumer or is still queued, both in the order of the numbers, with the end behind them
  (`Heard`).
* Files. `EditsAreKept` becomes inductive as `ChecksHold`: a write that has passed its check
  still finds the text it expects. That the rename of another writer cannot spoil it rests on
  `KnowsItsText`, that a call opened the path for its lock no earlier than the path named the
  text it expects: as texts do not come back, both writers have then opened the current inode
  (`OpenedTheCurrent`), and `LocksExclude` lets only one of them pass.

Three models are written with the prover in mind. Folds, `SelectSeq` and `SortSeq` are
opaque to it, as what they compute can only be shown by induction over data. `TerminalClient`
therefore states a merge by its numbers, `FinishedTurnIsWhole` speaks of the positions
of a turn's events (`Own`) and not of a filtered sequence, and `Context` has the messages as
a recursive function of the number of events (`Projected`) and a filtered sequence as the
elements at a set of positions (`At`).

Only model-checked:

* the liveness properties `CancelStopsRun`, `StreamEndStopsWorker`, `OperationsEnd` and
  `CancelStopsTree`, which are out of the prover's reach.

Every invariant, action property and refinement that a passing run checks is stated by a
theorem.

## Not modelled

* Telemetry and evaluation: observers of the log and offline measurement, which nothing reads
  back.
* Configuration: parsed once at start-up.
* Of the modelled parts: session forks and listings, byte framing, message and token
  contents, schema validation of tool inputs, path rules and classification of commands
  (they are the kind of a tool), redaction and ranking of memories, rendering and the
  composer, glob and grep, the isolation of sandboxes and the
  removal of their containers; file tools where `fcntl` is missing, which take no lock
  (workspace.py:168); two worker processes with a cached task graph each; `Session` objects
  shared by threads, as the code promises nothing for them; runs whose tools may ask although
  they run in parallel (`ParallelToolsNeverAsk`).

## Plan

1. Compose `TaskGraph` with `SessionLog`: two workers that cache the graph of one session.
2. Session forks, and the byte framing of `framing.py` against its reader.
