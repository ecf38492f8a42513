------------------------------- MODULE Worker -------------------------------
(***************************************************************************)
(* The local worker process: the frame loop of worker/transport.py, the    *)
(* RunSupervisor that owns foreground runs, and the part of WorkerServer   *)
(* that decides whether a frame is served.                                 *)
(*                                                                         *)
(* Three kinds of threads interleave: the reader, which queues what the    *)
(* client writes; the main thread, which serves one frame at a time; and   *)
(* the pool threads, each executing one run.  What a run does is the       *)
(* subject of RunCoordinator; here it queues notifications and ends.       *)
(*                                                                         *)
(* The supervisor is asked only about frames with a request id.  A run or  *)
(* a cancel without one is a notification of JSON-RPC: handle() serves it  *)
(* on the main thread, whatever the pool is doing.                         *)
(***************************************************************************)
EXTENDS Naturals, Sequences, FiniteSets

CONSTANTS Sessions,      \* session ids
          RunIds,        \* run ids
          None,          \* neither a session id nor a run id
          MaxWorkers,    \* threads of the pool
          MaxFrames      \* bound: frames the client sends

ASSUME WorkerAssumption ==
    /\ None \notin Sessions \cup RunIds
    /\ MaxWorkers \in Nat \ {0}
    /\ MaxFrames \in Nat

VARIABLES
    \* ---- the client and the reader thread
    sent,       \* frames sent so far
    closed,     \* the client has closed or broken the stream
    incoming,   \* the queue between the reader and the main thread
    \* ---- the main thread
    pc,         \* where the frame loop stands
    eof,        \* the eof flag of the frame loop
    initialized, shutdown, \* flags of the WorkerServer
    handling,   \* what handle() does to a run of a session: see NoRunWork
    code,       \* exit code of the process
    \* ---- the supervisor and its pool
    byRun,      \* _by_run: session of each registered run, or None
    bySession,  \* _by_session: registered run of each session, or None
    backlog,    \* runs submitted to the pool and not yet picked up, FIFO
    running,    \* runs a pool thread executes
    done,       \* registered runs whose future is done
    failed,     \* done runs that end without a terminal event
    signal,     \* runs whose cancel signal is set
    \* ---- what the client still has to learn
    notes,      \* runs with a terminal event in _pending_notifications
    owed        \* acknowledged runs whose end the client has not been told

client == <<sent, closed>>
server == <<initialized, shutdown>>
pool == <<backlog, running, done, failed, signal>>
registry == <<byRun, bySession>>
report == <<notes, owed>>
vars == <<sent, closed, incoming, pc, eof, initialized, shutdown, handling, code, byRun,
          bySession, backlog, running, done, failed, signal, notes, owed>>

Frames ==
    [method : {"initialize", "shutdown", "command", "malformed"}, session : {None}, run : {None}]
    \cup [method : {"run", "cancel"}, session : Sessions, run : RunIds]
    \cup [method : {"run_note", "cancel_note"}, session : Sessions, run : {None}]

Marks == [method : {"eof", "frame_error"}, session : {None}, run : {None}]

\* handle() does nothing to a run, or abandons or executes one of a session, for a
\* request or for a notification.
NoRunWork == [work |-> "none", session |-> None, request |-> TRUE]

\* handle() refuses every command before initialize and after shutdown.
Serves == initialized /\ ~shutdown

\* Mutant: a run is inactive as soon as its future is done.
UnfinishedRuns == {r \in RunIds : byRun[r] # None /\ r \notin done}

\* has_active
Active == {r \in RunIds : byRun[r] # None}
\* The runs in the pool's queue.
Waiting == {backlog[i] : i \in DOMAIN backlog}
-----------------------------------------------------------------------------
Init ==
    /\ sent = 0
    /\ closed = FALSE
    /\ incoming = <<>>
    /\ pc = "drain"
    /\ eof = FALSE
    /\ initialized = FALSE
    /\ shutdown = FALSE
    /\ handling = NoRunWork
    /\ code = 0
    /\ byRun = [r \in RunIds |-> None]
    /\ bySession = [s \in Sessions |-> None]
    /\ backlog = <<>>
    /\ running = {}
    /\ done = {}
    /\ failed = {}
    /\ signal = {}
    /\ notes = {}
    /\ owed = {}
-----------------------------------------------------------------------------
(***************************************************************************)
(* The client and the reader thread.                                       *)
(***************************************************************************)
Send(f) ==
    /\ ~closed
    /\ sent < MaxFrames
    /\ sent' = sent + 1
    /\ incoming' = Append(incoming, f)
    /\ UNCHANGED <<closed, pc, eof, server, handling, code, registry, pool, report>>

\* The stream ends, or a frame cannot be read: the reader queues it and stops.
EndStream(mark) ==
    /\ ~closed
    /\ closed' = TRUE
    /\ incoming' = Append(incoming, mark)
    /\ UNCHANGED <<sent, pc, eof, server, handling, code, registry, pool, report>>
-----------------------------------------------------------------------------
(***************************************************************************)
(* The main thread.                                                        *)
(***************************************************************************)

\* finish_runs: forget the completed runs; a failure to start is written as run.error.
FinishRuns ==
    /\ pc = "drain"
    /\ byRun' = [r \in RunIds |-> IF r \in done THEN None ELSE byRun[r]]
    /\ bySession' = [s \in Sessions |-> IF bySession[s] \in done THEN None ELSE bySession[s]]
    /\ owed' = owed \ failed
    /\ done' = {}
    /\ failed' = {}
    /\ signal' = signal \ done
    /\ pc' = "emit"
    /\ UNCHANGED <<client, incoming, eof, server, handling, code, backlog, running, notes>>

\* Mutant: the queue of notifications is read with a get that waits.
EmitWaits ==
    /\ pc = "emit"
    /\ notes # {}
    /\ notes' = {}
    /\ owed' = owed \ notes
    /\ pc' = "check"
    /\ UNCHANGED <<client, incoming, eof, server, handling, code, registry, pool>>

\* emit_notifications
EmitNotifications ==
    /\ pc = "emit"
    /\ notes' = {}
    /\ owed' = owed \ notes
    /\ pc' = "check"
    /\ UNCHANGED <<client, incoming, eof, server, handling, code, registry, pool>>

\* Return 0 once nothing is active, after EOF or after shutdown.
CheckExit ==
    /\ pc = "check"
    /\ pc' = IF (eof \/ shutdown) /\ Active = {} THEN "closing" ELSE "get"
    /\ UNCHANGED <<client, incoming, eof, server, handling, code, registry, pool, report>>

\* incoming.get times out.
NothingToRead ==
    /\ pc = "get"
    /\ incoming = <<>>
    /\ pc' = "drain"
    /\ UNCHANGED <<client, incoming, eof, server, handling, code, registry, pool, report>>

\* The next element of the queue has this method.
Take(method) ==
    /\ pc = "get"
    /\ incoming # <<>>
    /\ Head(incoming).method = method
    /\ incoming' = Tail(incoming)

ReadEof ==
    /\ Take("eof")
    /\ eof' = TRUE
    /\ signal' = signal \cup Active
    /\ pc' = "drain"
    /\ UNCHANGED <<client, server, handling, code, registry, backlog, running, done, failed, report>>

\* An unrecoverable frame error ends the loop without another drain.
ReadFrameError ==
    /\ Take("frame_error")
    /\ code' = 2
    /\ pc' = "closing"
    /\ UNCHANGED <<client, eof, server, handling, registry, pool, report>>

\* Invalid JSON, or a request whose ids are not usable: an error response.
ReadMalformed ==
    /\ Take("malformed")
    /\ pc' = "drain"
    /\ UNCHANGED <<client, eof, server, handling, code, registry, pool, report>>

\* Mutant: only the run id is compared.
ReadRunOfBusySession ==
    LET s == Head(incoming).session
        r == Head(incoming).run
    IN
    /\ Take("run")
    /\ IF byRun[r] = None
       THEN /\ byRun' = [byRun EXCEPT ![r] = s]
            /\ bySession' = [bySession EXCEPT ![s] = r]
            /\ backlog' = Append(backlog, r)
            /\ owed' = owed \cup {r}
       ELSE UNCHANGED <<registry, backlog, owed>>
    /\ pc' = "drain"
    /\ UNCHANGED <<client, eof, server, handling, code, running, done, failed, signal, notes>>

\* RunSupervisor.submit for run.start or run.resume; the request is acknowledged
\* when it is accepted.  Neither initialized nor shutdown is looked at here.
ReadRun ==
    LET s == Head(incoming).session
        r == Head(incoming).run
    IN
    /\ Take("run")
    /\ IF bySession[s] = None /\ byRun[r] = None
       THEN /\ byRun' = [byRun EXCEPT ![r] = s]
            /\ bySession' = [bySession EXCEPT ![s] = r]
            /\ backlog' = Append(backlog, r)
            /\ owed' = owed \cup {r}
       ELSE UNCHANGED <<registry, backlog, owed>>
    /\ pc' = "drain"
    /\ UNCHANGED <<client, eof, server, handling, code, running, done, failed, signal, notes>>

\* Mutant: another active run of the session does not matter.
ReadCancelOfBusySession ==
    LET s == Head(incoming).session
        r == Head(incoming).run
    IN
    /\ Take("cancel")
    /\ \/ /\ byRun[r] = s
          /\ signal' = signal \cup {r}
          /\ pc' = "drain"
          /\ handling' = handling
       \/ /\ byRun[r] # s
          /\ handling' = IF Serves
                         THEN [work |-> "abandon", session |-> s, request |-> TRUE]
                         ELSE NoRunWork
          /\ pc' = "handle"
          /\ UNCHANGED signal
    /\ UNCHANGED <<client, eof, server, code, registry, backlog, running, done, failed, report>>

\* run.cancel: set the signal of the active run; refuse if the session has another
\* active run; otherwise handle() abandons the run in the main thread.
ReadCancel ==
    LET s == Head(incoming).session
        r == Head(incoming).run
    IN
    /\ Take("cancel")
    /\ \/ /\ byRun[r] = s
          /\ signal' = signal \cup {r}
          /\ pc' = "drain"
          /\ handling' = handling
       \/ /\ byRun[r] # s
          /\ bySession[s] # None
          /\ pc' = "drain"
          /\ UNCHANGED <<signal, handling>>
       \/ /\ byRun[r] # s
          /\ bySession[s] = None
          /\ handling' = IF Serves
                         THEN [work |-> "abandon", session |-> s, request |-> TRUE]
                         ELSE NoRunWork
          /\ pc' = "handle"
          /\ UNCHANGED signal
    /\ UNCHANGED <<client, eof, server, code, registry, backlog, running, done, failed, report>>

\* run.cancel, run.start or run.resume without an id: a command like any other.
ReadNotification ==
    /\ \/ Take("cancel_note")
       \/ Take("run_note")
    /\ handling' = IF Serves
                   THEN [work |-> IF Head(incoming).method = "run_note"
                                  THEN "execute" ELSE "abandon",
                         session |-> Head(incoming).session, request |-> FALSE]
                   ELSE NoRunWork
    /\ pc' = "handle"
    /\ UNCHANGED <<client, eof, server, code, registry, pool, report>>

ReadInitialize ==
    /\ Take("initialize")
    /\ initialized' = TRUE
    /\ pc' = "handle"
    /\ UNCHANGED <<client, eof, shutdown, handling, code, registry, pool, report>>

ReadShutdown ==
    /\ Take("shutdown")
    /\ shutdown' = (shutdown \/ initialized)
    /\ pc' = "handle"
    /\ UNCHANGED <<client, eof, initialized, handling, code, registry, pool, report>>

\* Any other command of the dispatcher.
ReadCommand ==
    /\ Take("command")
    /\ pc' = "handle"
    /\ UNCHANGED <<client, eof, server, handling, code, registry, pool, report>>

\* handle() returned, if it executed a run with the end of that run: write the
\* response, emit, and cancel all runs if the worker is shutting down.
Handled ==
    /\ pc = "handle"
    /\ handling' = NoRunWork
    /\ notes' = {}
    /\ owed' = owed \ notes
    /\ signal' = IF shutdown THEN signal \cup Active ELSE signal
    /\ pc' = "drain"
    /\ UNCHANGED <<client, incoming, eof, server, code, registry, backlog, running, done, failed>>

\* RunSupervisor.close cancels what is left and waits for the pool.
CloseSupervisor ==
    /\ pc = "closing"
    /\ signal' = signal \cup Active
    /\ pc' = "waiting"
    /\ UNCHANGED <<client, incoming, eof, server, handling, code, registry, backlog, running, done,
                   failed, report>>

ExitProcess ==
    /\ pc = "waiting"
    /\ backlog = <<>>
    /\ running = {}
    /\ pc' = "exited"
    /\ UNCHANGED <<client, incoming, eof, server, handling, code, registry, pool, report>>
-----------------------------------------------------------------------------
(***************************************************************************)
(* The pool threads.                                                       *)
(***************************************************************************)
PickUp ==
    /\ backlog # <<>>
    /\ Cardinality(running) < MaxWorkers
    /\ running' = running \cup {Head(backlog)}
    /\ backlog' = Tail(backlog)
    /\ UNCHANGED <<client, incoming, pc, eof, server, handling, code, registry, done, failed, signal,
                   report>>

\* handle_background returns or raises: the run ended with its terminal or
\* suspension event queued, or it never started.
EndRun(r) ==
    /\ r \in running
    /\ running' = running \ {r}
    /\ done' = done \cup {r}
    /\ \/ /\ initialized
          /\ notes' = notes \cup {r}
          /\ failed' = failed
       \/ /\ failed' = failed \cup {r}
          /\ notes' = notes
    /\ UNCHANGED <<client, incoming, pc, eof, server, handling, code, registry, backlog, signal, owed>>
-----------------------------------------------------------------------------
ClientStep ==
    \/ \E f \in Frames : Send(f)
    \/ \E mark \in Marks : EndStream(mark)

MainStep ==
    \/ FinishRuns \/ EmitNotifications \/ CheckExit \/ NothingToRead
    \/ ReadEof \/ ReadFrameError \/ ReadMalformed \/ ReadRun \/ ReadCancel
    \/ ReadNotification \/ ReadInitialize \/ ReadShutdown \/ ReadCommand
    \/ Handled \/ CloseSupervisor \/ ExitProcess

Next == ClientStep \/ MainStep \/ PickUp \/ \E r \in RunIds : EndRun(r)

Spec == Init /\ [][Next]_vars

\* The main thread executes a run: no cancel signal reaches it.
Occupied == pc = "handle" /\ handling.work = "execute"

\* The main thread and the pool are scheduled.  No run has to end, neither one of the
\* pool nor one of the main thread.
FairSpec ==
    /\ Spec
    /\ WF_vars(~Occupied /\ MainStep)
    /\ WF_vars(PickUp)
-----------------------------------------------------------------------------
(***************************************************************************)
(* Properties.                                                             *)
(***************************************************************************)
\* At most one run of a session is executed by the pool, whatever is submitted,
\* cancelled, drained and submitted again (supervisor.py:27, "Allow one foreground
\* Run per Session").  The supervisor does not know of a run of the main thread.
OneForegroundRunPerSession ==
    \A r, q \in running : byRun[r] = byRun[q] => r = q

\* A run.cancel request abandons a run only while no run of its session executes or
\* waits in the pool: the two would write the session from two threads.  A
\* notification is not kept from that.
AbandonIsExclusive ==
    handling.work = "abandon" /\ handling.request =>
        \A r \in running \cup Waiting : byRun[r] # handling.session

\* A worker that exits with code 0 has told the client the end of every run that it
\* acknowledged, however the ends of runs race with the check for active runs.
CleanExitReportsAll == pc = "exited" /\ code = 0 => owed = {}

\* Once the client's stream has ended the worker exits: it cancels what is active
\* and waits for it, and nothing can be submitted any more.  Only a run can keep it:
\* one of the main thread, or one whose signal is set and that does not end, which
\* takes a silent provider (RunCoordinator's CancelStopsRun).
StreamEndStopsWorker ==
    closed ~> \/ pc = "exited"
              \/ []Occupied
              \/ \E r \in RunIds : [](r \in running /\ r \in signal)
=============================================================================
