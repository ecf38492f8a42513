----------------------------- MODULE ToolProcess -----------------------------
(***************************************************************************)
(* Tools that live in a child process: McpClient over StdioMcpTransport,   *)
(* and PluginHost with its host_worker.  Tasks of one event loop share one *)
(* client; an asyncio.Lock, which is first come first served, guards the   *)
(* pipes.  The child may die, stay silent, send lines that are no reply,   *)
(* and answer late; a task may be cancelled at any await.                  *)
(*                                                                         *)
(* A step runs from one await to the next.  A request is written whole or  *)
(* not at all, and a write waits for the child when the pipe is full.      *)
(***************************************************************************)
EXTENDS Naturals, Sequences, FiniteSets, SequencesExt

CONSTANTS Tasks,         \* tasks that use the client
          Attempts,      \* reconnect_attempts
          MaxProcesses,  \* bound: processes started
          MaxOps,        \* bound: operations begun
          MaxFaults      \* bound: cancellations, deaths, lines that are no reply

ASSUME ToolProcessAssumption ==
    /\ IsFiniteSet(Tasks) /\ Tasks \cap {"none", "gone"} = {}
    /\ Attempts \in Nat /\ MaxProcesses \in Nat /\ MaxOps \in Nat /\ MaxFaults \in Nat

VARIABLES client,     \* "mcp" or "plugin"
          connected,  \* _connected; of a plugin: _active_candidate is set
          ready,      \* _initialized; of a plugin: _capabilities are known
          lockQueue,  \* the holder of the lock, then the tasks that wait for it
          process,    \* _process: "none", or a process that is "alive" or "dead"
          stdin, stdout,
          task,       \* what each task does
          started, ops, faults  \* so far

toolVars == <<client, connected, ready, lockQueue, process, stdin, stdout, task, started,
              ops, faults>>

Flags == <<connected, ready>>
Pipes == <<stdin, stdout>>
Child == <<process, started>>
Counts == <<ops, faults>>

\* A task: where it stands, its operation, the message it has the lock for, the
\* id of its request, retries so far, whether connect runs as part of a retry,
\* how often its call reached a process, and whether a reply it took in this
\* operation, or the result of its last one, was to another request.
NewTask == [at |-> "idle", op |-> "none", message |-> "none", id |-> 0, tries |-> 0,
            again |-> FALSE, sent |-> 0, foreign |-> FALSE]

Init ==
    /\ client \in {"mcp", "plugin"}
    /\ connected = FALSE /\ ready = FALSE
    /\ lockQueue = <<>>
    /\ process = "none"
    /\ stdin = <<>> /\ stdout = <<>>
    /\ task = [t \in Tasks |-> NewTask]
    /\ started = 0 /\ ops = 0 /\ faults = 0

Running == process = "alive"
Fault == faults < MaxFaults /\ faults' = faults + 1

\* _next_id: an id that no request or reply in the pipes, and no task, carries.
Used == {task[t].id : t \in Tasks} \cup {line.id : line \in ToSet(stdin \o stdout)}
FreshId == CHOOSE id \in 1 .. Cardinality(Used) + 1 : id \notin Used

Holds(t) == lockQueue # <<>> /\ Head(lockQueue) = t
Release == lockQueue' = Tail(lockQueue)

\* Mutant: every call may be repeated.
RetryAny(op) == op # "none"

\* A call of a mutating tool is sent once; tools/list and calls of other tools,
\* "read", may be repeated.
Retryable(op) == op = "read"

Operations == IF client = "mcp" THEN {"read", "mutate", "close"}
              ELSE {"start", "read", "mutate", "stop"}

End == NewTask
WaitFor(t, message) == [task[t] EXCEPT !.at = "queued", !.message = message]
-----------------------------------------------------------------------------
(* Errors.  Connecting covers the messages of connect().                   *)

Connecting(t) == task[t].message \in {"spawn", "initialize", "notify"}

\* _terminate_locked: the process is gone, and its pipes are closed.
Kill ==
    /\ process' = "none"
    /\ stdin' = <<>> /\ stdout' = <<>>
Keep == UNCHANGED process

\* A PluginHost forgets its state when start fails and when stop ends, and keeps
\* it when a request fails.
Forget(t) ==
    IF task[t].op \in {"start", "stop"} THEN connected' = FALSE /\ ready' = FALSE
    ELSE UNCHANGED <<connected, ready>>

\* McpTransportError: reconnect and try again, or give up.
TransportError(t, queue) ==
    /\ connected' = FALSE /\ ready' = FALSE
    /\ IF Retryable(task[t].op) /\ task[t].tries < Attempts /\ ~task[t].again
       THEN /\ task' = [task EXCEPT ![t] = [WaitFor(t, "spawn") EXCEPT !.tries = @ + 1,
                                                                       !.again = TRUE]]
            /\ lockQueue' = Append(queue, t)
       ELSE task' = [task EXCEPT ![t] = End] /\ lockQueue' = queue

\* Any other error of a request: McpProtocolError, McpRemoteError, and every
\* error of a PluginHost.
OtherError(t, queue) ==
    /\ IF client = "plugin" THEN Forget(t)
       ELSE /\ connected' = (connected /\ ~Connecting(t))
            /\ ready' = (ready /\ ~Connecting(t))
    /\ task' = [task EXCEPT ![t] = End]
    /\ lockQueue' = queue

Lost(t, queue) ==
    IF client = "mcp" THEN TransportError(t, queue) ELSE OtherError(t, queue)
-----------------------------------------------------------------------------
\* The request of the operation gets its id and waits for the lock.
Send(t, state) ==
    /\ task' = [task EXCEPT ![t] = [state EXCEPT !.at = "queued", !.message = state.op,
                                                !.id = FreshId, !.again = FALSE]]
    /\ lockQueue' = Append(lockQueue, t)

\* An operation begins: the top of _request_resilient, _require_capability and
\* the calls of PluginHost, disconnect(), start() and stop().
Call(t, op) ==
    /\ task[t].at = "idle" /\ ops < MaxOps
    /\ op \in Operations
    /\ LET state == [NewTask EXCEPT !.op = op, !.at = "queued"] IN
       CASE op \in {"read", "mutate"} /\ connected /\ ready
                 /\ (client = "plugin" => Running) ->
                Send(t, state)
         [] client = "mcp" /\ op # "close" /\ ~(connected /\ ready) ->
                /\ task' = [task EXCEPT ![t] = [state EXCEPT !.message = "spawn"]]
                /\ lockQueue' = Append(lockQueue, t)
         [] op \in {"close", "start", "stop"} ->
                /\ task' = [task EXCEPT ![t] = [state EXCEPT !.message =
                                                   IF op = "start" THEN "spawn" ELSE op]]
                /\ lockQueue' = Append(lockQueue, t)
         [] OTHER ->
                task' = [task EXCEPT ![t] = End] /\ UNCHANGED lockQueue
    /\ ops' = ops + 1
    /\ UNCHANGED <<client, Flags, Child, Pipes, faults>>

Spawned(t) == [WaitFor(t, "initialize") EXCEPT !.id = FreshId]

NewProcess ==
    /\ started < MaxProcesses
    /\ started' = started + 1
    /\ process' = "alive"
    /\ stdin' = <<>> /\ stdout' = <<>>

\* StdioMcpTransport.connect, and the initialize request that follows it.  A
\* process that still runs is used again.
SpawnMcp(t) ==
    /\ client = "mcp" /\ Holds(t) /\ task[t].at = "queued" /\ task[t].message = "spawn"
    /\ connected' = TRUE
    /\ IF Running THEN UNCHANGED <<Child, Pipes>> ELSE NewProcess
    /\ task' = [task EXCEPT ![t] = Spawned(t)]
    /\ lockQueue' = Append(Tail(lockQueue), t)
    /\ UNCHANGED <<client, ready, Counts>>

\* PluginHost.start up to its request: nothing to do, not trusted or no process,
\* or the new process and its initialize request under the same lock.
SpawnPlugin(t) ==
    /\ client = "plugin" /\ Holds(t) /\ task[t].at = "queued" /\ task[t].message = "spawn"
    /\ \/ /\ task' = [task EXCEPT ![t] = End]
          /\ Release
          /\ UNCHANGED <<connected, Child, Pipes>>
       \/ /\ ~Running
          /\ NewProcess
          /\ connected' = TRUE
          /\ task' = [task EXCEPT ![t] = [Spawned(t) EXCEPT !.at = "writing"]]
          /\ UNCHANGED lockQueue
    /\ UNCHANGED <<client, ready, Counts>>

\* The executable of an MCP server cannot be started.
SpawnFails(t) ==
    /\ client = "mcp" /\ Holds(t) /\ task[t].at = "queued" /\ task[t].message = "spawn"
    /\ ~Running
    /\ TransportError(t, Tail(lockQueue))
    /\ UNCHANGED <<client, Child, Pipes, Counts>>

Requests == {"initialize", "notify", "read", "mutate"}

\* _require_running, the first lines of _request_locked.
Acquire(t) ==
    /\ Holds(t) /\ task[t].at = "queued" /\ task[t].message \in Requests
    /\ IF Running
       THEN /\ task' = [task EXCEPT ![t].at = "writing"]
            /\ UNCHANGED <<connected, ready, lockQueue>>
       ELSE Lost(t, Tail(lockQueue))
    /\ UNCHANGED <<client, Child, Pipes, Counts>>

Message(t) == [id |-> task[t].id, from |-> t, what |-> task[t].message]

\* The lines of earlier requests of t are answers to none that it waits for.
Disowned(pipe, t) ==
    [i \in DOMAIN pipe |-> IF pipe[i].from = t THEN [pipe[i] EXCEPT !.from = "gone"] ELSE pipe[i]]

Deliver(t) ==
    /\ stdin' = Append(Disowned(stdin, t), Message(t))
    /\ stdout' = Disowned(stdout, t)

Writing(t) == Holds(t) /\ task[t].at = "writing"

\* The request is in the pipe.
Write(t) ==
    /\ Writing(t) /\ task[t].message # "notify" /\ Running
    /\ Deliver(t)
    /\ task' = [task EXCEPT ![t].at = "reading",
                            ![t].sent = IF task[t].message = task[t].op THEN @ + 1 ELSE @]
    /\ UNCHANGED <<client, Flags, lockQueue, Child, Counts>>

\* The child is gone: BrokenPipeError.
WriteFails(t) ==
    /\ Writing(t) /\ ~Running
    /\ Kill /\ Lost(t, Tail(lockQueue))
    /\ UNCHANGED <<client, started, Counts>>

\* The notification that ends connect() is in the pipe, and the request of the
\* operation follows, unless another task has lost the connection: connect()
\* once more in the next round of the loop after a retry, or the error.
Notified(t) ==
    /\ Writing(t) /\ task[t].message = "notify" /\ Running
    /\ Deliver(t)
    /\ CASE connected /\ (ready \/ ~task[t].again) ->
               /\ task' = [task EXCEPT ![t] =
                             [WaitFor(t, task[t].op) EXCEPT !.id = FreshId, !.again = FALSE]]
               /\ lockQueue' = Append(Tail(lockQueue), t)
               /\ UNCHANGED Flags
         [] task[t].again /\ ~(connected /\ ready) ->
               /\ task' = [task EXCEPT ![t] = [WaitFor(t, "spawn") EXCEPT !.again = FALSE]]
               /\ lockQueue' = Append(Tail(lockQueue), t)
               /\ UNCHANGED Flags
         [] OTHER -> TransportError(t, Tail(lockQueue))
    /\ UNCHANGED <<client, Child, Counts>>

\* Mutant: the first reply is taken for the answer.
AnyReply(line, t) == line.what = "reply"

\* The reply carries the id of the request.
Answers(line, t) == line.what = "reply" /\ line.id = task[t].id

\* The line is consumed.
Consume ==
    /\ Keep
    /\ stdout' = Tail(stdout)
    /\ UNCHANGED stdin

\* A task takes a reply, and goes on so.
Took(line, t, state) == [task EXCEPT ![t] = [state EXCEPT !.foreign = line.from # t]]

\* The task has its reply: what follows, by message.
Answered(t, line) ==
    CASE task[t].message = "initialize" /\ client = "mcp" ->
            /\ ready' = TRUE
            /\ task' = Took(line, t, WaitFor(t, "notify"))
            /\ lockQueue' = Append(Tail(lockQueue), t)
            /\ Consume /\ UNCHANGED connected
      [] task[t].message = "initialize" /\ client = "plugin" ->
            /\ ready' = TRUE
            /\ task' = Took(line, t, End)
            /\ Release /\ Consume /\ UNCHANGED connected
      [] task[t].message = "stop" ->
            /\ Kill /\ Forget(t)
            /\ task' = [task EXCEPT ![t] = End]
            /\ Release
      [] OTHER ->
            /\ task' = Took(line, t, End)
            /\ Release /\ Consume /\ UNCHANGED <<connected, ready>>

\* A reply that carries an error, or that a PluginHost cannot use: it ends the
\* process after taking the lock again.
Refused(t) ==
    \/ /\ client = "plugin" /\ task[t].message \in {"read", "mutate"}
       /\ task' = [task EXCEPT ![t] = WaitFor(t, "kill")]
       /\ lockQueue' = Append(Tail(lockQueue), t)
       /\ Consume /\ UNCHANGED <<connected, ready>>
    \/ /\ task[t].message # "stop"
       /\ IF task[t].op = "start" THEN Kill ELSE Consume
       /\ OtherError(t, Tail(lockQueue))

\* A line arrives.  MCP skips notifications, fails on a line it cannot decode,
\* and ends the process on a reply to another request; a PluginHost ends the
\* process on everything but the reply.
Read(t) ==
    /\ Holds(t) /\ task[t].at = "reading" /\ stdout # <<>>
    /\ LET line == Head(stdout) IN
       CASE Answers(line, t) -> Answered(t, line) \/ Refused(t)
         [] ~Answers(line, t) /\ client = "mcp" /\ line.what = "note" ->
               Consume /\ UNCHANGED <<connected, ready, task, lockQueue>>
         [] ~Answers(line, t) /\ client = "mcp" /\ line.what = "junk" ->
               Consume /\ OtherError(t, Tail(lockQueue))
         [] OTHER -> Kill /\ OtherError(t, Tail(lockQueue))
    /\ UNCHANGED <<client, started, Counts>>

\* Mutant: no deadline, only the end of the output.
ReadEnds(t) ==
    /\ Holds(t) /\ task[t].at = "reading" /\ ~Running
    /\ Kill
    /\ Lost(t, Tail(lockQueue))
    /\ UNCHANGED <<client, started, Counts>>

\* The end of the child's output, or no reply before the deadline.
ReadFails(t) ==
    /\ Holds(t) /\ task[t].at = "reading"
    /\ Kill
    /\ Lost(t, Tail(lockQueue))
    /\ UNCHANGED <<client, started, Counts>>

\* The end of the process that sent an unusable reply; the process may be
\* another by now.
KillLater(t) ==
    /\ Holds(t) /\ task[t].at = "queued" /\ task[t].message = "kill"
    /\ Kill
    /\ OtherError(t, Tail(lockQueue))
    /\ UNCHANGED <<client, started, Counts>>

\* disconnect(), and stop() of a process that is gone or does not run; stop() of a
\* process that runs asks it to shut down first.
Stop(t) ==
    /\ Holds(t) /\ task[t].at = "queued" /\ task[t].message \in {"close", "stop"}
    /\ \/ /\ task[t].message = "close" \/ ~Running
          /\ Kill
          /\ connected' = FALSE /\ ready' = FALSE
          /\ task' = [task EXCEPT ![t] = End]
          /\ Release
       \/ /\ task[t].message = "stop" /\ Running
          /\ task' = [task EXCEPT ![t].at = "writing", ![t].id = FreshId]
          /\ Keep /\ UNCHANGED <<Flags, Pipes, lockQueue>>
    /\ UNCHANGED <<client, started, Counts>>

\* A task is stopped at an await: while it waits for the lock it leaves the
\* queue; while it writes, the thread that writes goes on; while it reads, the
\* process is ended.  A PluginHost ends the process in both cases.
Abort(t) ==
    \/ /\ task[t].at = "queued"
       /\ Keep /\ UNCHANGED <<stdin, stdout>>
    \/ /\ task[t].at = "writing" /\ client = "mcp"
       /\ Keep
       /\ UNCHANGED Pipes \/ (Running /\ Deliver(t))
    \/ /\ task[t].at = "reading" \/ (task[t].at = "writing" /\ client = "plugin")
       /\ Kill

Without(t) == SelectSeq(lockQueue, LAMBDA u : u # t)

\* The application cancels a task; a cancelled connect leaves the flags.
Cancel(t) ==
    /\ task[t].at \in {"queued", "writing", "reading"}
    /\ Fault
    /\ Abort(t)
    /\ IF client = "plugin" /\ task[t].at # "queued" THEN Forget(t)
       ELSE UNCHANGED <<connected, ready>>
    /\ task' = [task EXCEPT ![t] = End]
    /\ lockQueue' = Without(t)
    /\ UNCHANGED <<client, started, ops>>

\* The wait_for of McpClient, around the lock, the write and the read.
TimeOut(t) ==
    /\ client = "mcp" /\ task[t].message \in Requests
    /\ task[t].at \in {"queued", "writing", "reading"}
    /\ Abort(t)
    /\ TransportError(t, Without(t))
    /\ UNCHANGED <<client, started, Counts>>
-----------------------------------------------------------------------------
(* The child process.                                                      *)

\* McpServer.handle: every request is answered, a notification is not.
Replies(request) ==
    IF request.what = "notify" THEN <<>>
    ELSE <<[what |-> "reply", id |-> request.id, from |-> request.from]>>

\* It takes a request, executes it, and replies; it may die instead of replying.
Serve ==
    /\ Running /\ stdin # <<>>
    /\ stdin' = Tail(stdin)
    /\ stdout' = stdout \o Replies(Head(stdin))
    /\ UNCHANGED <<client, Flags, lockQueue, process, started, task, Counts>>

\* A notification, or a line that is no JSON.
Chatter ==
    /\ Running /\ Fault
    /\ \E what \in {"note", "junk"} :
          stdout' = Append(stdout, [what |-> what, id |-> 0, from |-> "none"])
    /\ UNCHANGED <<client, Flags, lockQueue, Child, stdin, task, ops>>

\* What it wrote can still be read.
Die ==
    /\ Running /\ Fault
    /\ process' = "dead"
    /\ stdin' = <<>>
    /\ UNCHANGED <<client, Flags, lockQueue, started, stdout, task, ops>>

Step(t) ==
    \/ SpawnMcp(t) \/ SpawnPlugin(t) \/ SpawnFails(t) \/ Acquire(t) \/ WriteFails(t)
    \/ Read(t) \/ ReadFails(t) \/ KillLater(t) \/ Stop(t) \/ TimeOut(t)

Next ==
    \/ \E t \in Tasks :
          Step(t) \/ Write(t) \/ Notified(t) \/ Cancel(t) \/ \E op \in Operations : Call(t, op)
    \/ Serve \/ Chatter \/ Die

\* The event loop runs every task that can run, and timeouts expire; nothing is
\* assumed of the child, which may never read, so that a write may never end.
Spec == Init /\ [][Next]_toolVars /\ \A t \in Tasks : WF_toolVars(Step(t))
-----------------------------------------------------------------------------
\* No task takes the answer to another task's request, or to one of its own that it
\* gave up before, for the answer to the request it waits for, whatever was
\* cancelled, timed out or answered late (validate_response, the unexpected id of
\* _read_locked).
ReplyIsOwn ==
    \A t \in Tasks : ~task[t].foreign

\* A call of a tool that changes something reaches a process at most once, across timeouts,
\* lost connections and reconnects; other calls at most once for each attempt
\* (retry=not definition.mutates in call_tool).
MutationRunsOnce ==
    \A t \in Tasks : task[t].sent <= IF task[t].op = "mutate" THEN 1 ELSE 1 + Attempts

\* A PluginHost writes to a child that does not read: no timeout covers the write.
Unread == client = "plugin" /\ Running /\ \E t \in Tasks : Writing(t)

\* Every operation ends, with a result or an error, even if the child never reads or
\* answers (request timeouts, _terminate_locked, the release of the lock); but a
\* child that never reads may hold a PluginHost, and all that wait for its lock.
OperationsEnd ==
    \A t \in Tasks : task[t].at # "idle" ~> (task[t].at = "idle" \/ []Unread)
=============================================================================
