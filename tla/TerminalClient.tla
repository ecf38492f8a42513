--------------------------- MODULE TerminalClient ---------------------------
(***************************************************************************)
(* The terminal client and what it sees of the Worker: RpcClient, the      *)
(* replay of a session in loadSession, the live events, and the commands   *)
(* that start a run and answer an approval (tui/app.tsx, transcript.ts,    *)
(* history.ts, approval.ts).                                               *)
(*                                                                         *)
(* The Worker answers requests one by one, while the thread of a run       *)
(* appends events and announces them; both write to one pipe.  The client  *)
(* is one JavaScript thread: a message of the pipe is handled in one step, *)
(* the code after an await runs in a later one, in the order in which the  *)
(* promises were resolved.  A session has at most one run, of its name.    *)
(***************************************************************************)
EXTENDS Naturals, Sequences, FiniteSets, SequencesExt

CONSTANTS Sessions,
          Opened,       \* the session of the command line
          PageSize,     \* HISTORY_PAGE_SIZE
          MaxStored,    \* bound: events of all sessions
          MaxForeign,   \* bound: events written by another process
          MaxLoads,     \* bound: calls of loadSession
          MaxFailures   \* bound: loads that fail

ASSUME TerminalAssumption ==
    Opened \in Sessions /\ PageSize \in Nat \ {0} /\ MaxLoads \in Nat \ {0}

VARIABLES stored, run, unsent, foreign,   \* the store and the runs of the Worker
          inbox, serving, pipe,     \* to the main thread, in it, and back
          selected, transcript, approvals, activeRun,   \* what is shown
          loading, buffered, generation, loads,         \* loadSession
          ready,       \* replies whose continuation has yet to run
          command,     \* the command in flight
          failures

clientVars == <<stored, run, unsent, foreign, inbox, serving, pipe, selected, transcript,
                approvals, activeRun, loading, buffered, generation, loads, ready, command,
                failures>>

Store == <<stored, run, unsent, foreign>>
Screen == <<selected, transcript, approvals, activeRun>>
Replay == <<loading, buffered, generation, loads>>

Approval(type) == type \in {"requested", "resolved"}

\* Whether a session has an approval to be answered, and what is shown an active run.
LastIs(s, seqs, types, last) ==
    LET seen == {k \in seqs : stored[s][k] \in types} IN
    seen # {} /\ stored[s][Max(seen)] = last
Pending(s) == LastIs(s, DOMAIN stored[s], {"requested", "resolved", "ended"}, "requested")
ActiveRun(view) ==
    IF LastIs(view.session, Range(view.seqs), {"started", "ended"}, "started")
    THEN view.session ELSE "none"

NoLoad == [session |-> Opened, at |-> "done", seqs |-> <<>>, paging |-> FALSE,
           listed |-> FALSE, pending |-> FALSE, stalled |-> FALSE, dirty |-> FALSE]
NoCommand == [at |-> "idle", session |-> Opened, load |-> 0]
Nothing == [kind |-> "none"]

Request(kind, s, who, after) == [kind |-> kind, session |-> s, who |-> who, after |-> after]
LoadRequests(s, g) == <<Request("events", s, g, 0), Request("approvals", s, g, 0)>>
NewLoad(s) == [NoLoad EXCEPT !.session = s, !.at = "fetch", !.paging = TRUE]

ClientInit ==
    /\ stored = [s \in Sessions |-> <<>>] /\ run = [s \in Sessions |-> "none"]
    /\ unsent = {} /\ foreign = 0
    /\ inbox = LoadRequests(Opened, 1) /\ serving = Nothing /\ pipe = <<>>
    /\ selected = Opened
    /\ transcript = [session |-> Opened, seqs |-> <<>>]
    /\ approvals = [session |-> Opened, pending |-> FALSE]
    /\ activeRun = "none"
    /\ loading = [s \in Sessions |-> IF s = Opened THEN 1 ELSE 0]
    /\ buffered = [s \in Sessions |-> <<>>]
    /\ generation = 1
    /\ loads = [g \in 1 .. MaxLoads |-> IF g = 1 THEN NewLoad(Opened) ELSE NoLoad]
    /\ ready = <<>> /\ command = NoCommand /\ failures = 0
-----------------------------------------------------------------------------
(* The Worker.                                                             *)

EventCount == Cardinality(UNION {{<<s, k>> : k \in 1 .. Len(stored[s])} : s \in Sessions})

NextEvent(s, type) == [session |-> s, seq |-> Len(stored[s]) + 1, type |-> type]
Write(s, type) ==
    /\ EventCount < MaxStored
    /\ stored' = [stored EXCEPT ![s] = Append(@, type)]
Emitted(s, type) == Write(s, type) /\ unsent' = unsent \cup {NextEvent(s, type)}

\* The thread of a run: it starts, asks for an approval or ends.  It announces
\* one event before it writes the next.
RunThread(s) ==
    /\ \A event \in unsent : event.session # s
    /\ \/ run[s] = "starting" /\ Emitted(s, "started") /\ run' = [run EXCEPT ![s] = "running"]
       \/ run[s] = "running" /\ Emitted(s, "requested") /\ run' = [run EXCEPT ![s] = "suspended"]
       \/ run[s] = "running" /\ Emitted(s, "ended") /\ run' = [run EXCEPT ![s] = "ended"]
    /\ UNCHANGED <<foreign, inbox, serving, pipe, Screen, Replay, ready, command, failures>>

\* Another process writes to the session: nobody announces the event.
Foreign(s) ==
    /\ foreign < MaxForeign /\ EventCount < MaxStored
    /\ stored' = [stored EXCEPT ![s] = Append(@, "other")]
    /\ foreign' = foreign + 1
    /\ UNCHANGED <<run, unsent, inbox, serving, pipe, Screen, Replay, ready, command, failures>>

\* An event is announced, perhaps after a later one of another thread.
Announce(event) ==
    /\ event \in unsent
    /\ pipe' = Append(pipe, [kind |-> "event", event |-> event])
    /\ unsent' = unsent \ {event}
    /\ UNCHANGED <<stored, run, foreign, inbox, serving, Screen, Replay, ready, command, failures>>

Reply(request, ok, seqs, more, head) ==
    [kind |-> request.kind, session |-> request.session, who |-> request.who, ok |-> ok,
     seqs |-> seqs, more |-> more, head |-> head]
Respond(request, ok) ==
    /\ pipe' = Append(pipe, Reply(request, ok, <<>>, FALSE, 0))
    /\ inbox' = Tail(inbox) /\ UNCHANGED serving

\* session.events reads the events, then the head.
ServeEvents ==
    /\ serving = Nothing /\ inbox # <<>> /\ Head(inbox).kind = "events"
    /\ LET request == Head(inbox)
           end == Len(stored[request.session])
           last == Min({end, request.after + PageSize}) IN
       serving' = Reply(request, TRUE, [k \in 1 .. last - request.after |-> request.after + k],
                        last < end, 0)
    /\ inbox' = Tail(inbox)
    /\ UNCHANGED <<Store, pipe, Screen, Replay, ready, command, failures>>

ServeHead ==
    /\ serving # Nothing
    /\ pipe' = Append(pipe, [serving EXCEPT !.head = Len(stored[serving.session])])
    /\ serving' = Nothing
    /\ UNCHANGED <<Store, inbox, Screen, Replay, ready, command, failures>>

\* approval.list, run.start, approval.resolve and run.resume.
Serve ==
    /\ serving = Nothing /\ inbox # <<>>
    /\ LET request == Head(inbox)
           s == request.session
           open == Pending(s) IN
       CASE request.kind = "approvals" ->
                Respond(request, open) /\ UNCHANGED Store
         [] request.kind = "start" ->
                LET ok == run[s] \in {"none", "ended"} IN
                /\ Respond(request, ok)
                /\ run' = IF ok THEN [run EXCEPT ![s] = "starting"] ELSE run
                /\ UNCHANGED <<stored, unsent, foreign>>
         [] request.kind = "resolve" ->
                /\ IF ~open THEN Respond(request, FALSE) /\ UNCHANGED stored
                   ELSE /\ Write(s, "resolved")
                        /\ pipe' = pipe \o <<[kind |-> "event", event |-> NextEvent(s, "resolved")],
                                             Reply(request, TRUE, <<>>, FALSE, 0)>>
                        /\ inbox' = Tail(inbox) /\ UNCHANGED serving
                /\ UNCHANGED <<run, unsent, foreign>>
         [] request.kind = "resume" ->
                LET ok == run[s] = "suspended" /\ ~open IN
                /\ Respond(request, ok)
                /\ run' = IF ok THEN [run EXCEPT ![s] = "starting"] ELSE run
                /\ UNCHANGED <<stored, unsent, foreign>>
         [] OTHER -> FALSE
    /\ UNCHANGED <<Screen, Replay, ready, command, failures>>
-----------------------------------------------------------------------------
(* Loading a session.                                                      *)

HeadSeq(view) == Len(view.seqs)

\* Mutant: an event that is known is shown again.
ExtendAgain(view, event) ==
    IF event.seq <= HeadSeq(view) + 1
    THEN [session |-> event.session, seqs |-> Append(view.seqs, event.seq)]
    ELSE view

\* appendTranscriptEvent: a known event is dropped, a gap is an error.
Gap(view, event) == event.seq > HeadSeq(view) + 1
Extend(view, event) ==
    IF event.seq = HeadSeq(view) + 1
    THEN [session |-> event.session, seqs |-> Append(view.seqs, event.seq)]
    ELSE view

\* Mutant: the events after a gap are left out, and nothing is repaired.
MergeNoGap(view, events) == FALSE

\* mergeTranscriptEvents: the events that are not known, each once, by number;
\* and whether it meets a gap.
New(view, events) == {n \in {events[k].seq : k \in DOMAIN events} : n > HeadSeq(view)}
Sorted(new) ==
    [k \in 1 .. Cardinality(new) |->
        CHOOSE n \in new : Cardinality({m \in new : m <= n}) = k]
Merged(view, events) == [view EXCEPT !.seqs = @ \o Sorted(New(view, events))]
MergeGap(view, events) ==
    \E n \in New(view, events) : ~(HeadSeq(view) + 1 .. n \subseteq New(view, events))

\* The end of loadSession: its marker, and what was buffered for a view nobody wants.
Discard(g) ==
    LET s == loads[g].session IN
    buffered' = IF loading[s] = g /\ g # generation THEN [buffered EXCEPT ![s] = <<>>]
                ELSE buffered
EndLoad(g) ==
    LET s == loads[g].session IN
    /\ loads' = [loads EXCEPT ![g] = [NoLoad EXCEPT !.session = s]]
    /\ loading' = IF loading[s] = g THEN [loading EXCEPT ![s] = 0] ELSE loading
    /\ command' = IF command.at = "open" /\ command.load = g THEN NoCommand ELSE command

\* A load that is no longer the newest, or meets an error, shows nothing.
FailLoad(g) == EndLoad(g) /\ Discard(g) /\ UNCHANGED <<Screen, generation, inbox>>

\* The view a load publishes, unless live events have taken the old one further.
Publish(g, load) ==
    LET s == load.session
        view == IF transcript.session = s /\ HeadSeq(transcript) > Len(load.seqs)
                THEN transcript ELSE [session |-> s, seqs |-> load.seqs] IN
    /\ transcript' = view /\ selected' = s
    /\ activeRun' = ActiveRun(view)
    /\ approvals' = [session |-> s, pending |-> load.pending]
    /\ buffered' = [buffered EXCEPT ![s] = <<>>]
    /\ EndLoad(g) /\ UNCHANGED <<generation, inbox>>

\* The loop before publishing, up to its next await: drain the buffer, repair a
\* gap from the store, and ask for the approvals again if they may have changed.
Drain(g, load) ==
    LET s == load.session
        view == [session |-> s, seqs |-> load.seqs]
        batch == buffered[s]
        dirty == load.dirty \/ \E k \in 1 .. Len(batch) : Approval(batch[k].type)
        wait(at, request, merged) ==
            /\ loads' = [loads EXCEPT ![g] = [merged EXCEPT !.at = at]]
            /\ buffered' = [buffered EXCEPT ![s] = <<>>]
            /\ inbox' = Append(inbox, request)
            /\ UNCHANGED <<Screen, loading, generation, command>> IN
    CASE g # generation ->
            FailLoad(g)
      [] g = generation /\ MergeGap(view, batch) ->
            wait("repair", Request("events", s, g, 0),
                 [load EXCEPT !.seqs = <<>>, !.paging = TRUE, !.stalled = FALSE, !.dirty = TRUE])
      [] g = generation /\ ~MergeGap(view, batch) /\ dirty ->
            wait("approvals", Request("approvals", s, g, 0),
                 [load EXCEPT !.seqs = Merged(view, batch).seqs, !.dirty = FALSE])
      [] OTHER ->
            Publish(g, [load EXCEPT !.seqs = Merged(view, batch).seqs])

\* Mutant: an empty page is never retried.
ReadsOnWithEvents(load, reply) == reply.seqs # <<>>

\* The Worker reads events and head separately: one empty page is retried.
ReadsOn(load, reply) == reply.seqs # <<>> \/ (~reply.more /\ ~load.stalled)

\* readSessionHistory has a page: another one, a retry of an empty page, an
\* error, or the end of the history.
Page(g, reply) ==
    LET load == [loads[g] EXCEPT !.seqs = @ \o reply.seqs]
        moved == Len(load.seqs) < reply.head
        again ==
            /\ loads' = [loads EXCEPT ![g] = [load EXCEPT !.stalled = reply.seqs = <<>>]]
            /\ inbox' = Append(inbox, Request("events", load.session, g, Len(load.seqs)))
            /\ UNCHANGED <<Screen, loading, buffered, generation, command>> IN
    CASE ~reply.more /\ ~moved /\ (load.at = "repair" \/ load.listed) ->
            Drain(g, [load EXCEPT !.paging = FALSE])
      [] ~reply.more /\ ~moved /\ load.at = "fetch" /\ ~load.listed ->
            /\ loads' = [loads EXCEPT ![g] = [load EXCEPT !.paging = FALSE]]
            /\ UNCHANGED <<Screen, loading, buffered, generation, inbox, command>>
      [] (reply.more \/ moved) /\ ReadsOn(load, reply) -> again
      [] OTHER -> FailLoad(g)

\* The approvals of a load.
Listed(g, reply) ==
    LET load == [loads[g] EXCEPT !.listed = TRUE, !.pending = reply.ok] IN
    IF load.paging
    THEN /\ loads' = [loads EXCEPT ![g] = load]
         /\ UNCHANGED <<Screen, loading, buffered, generation, inbox, command>>
    ELSE Drain(g, load)
-----------------------------------------------------------------------------
(* Messages, continuations and commands.                                   *)

StartLoad(s, more) ==
    /\ generation < MaxLoads
    /\ generation' = generation + 1
    /\ loading' = [loading EXCEPT ![s] = generation + 1]
    /\ loads' = [loads EXCEPT ![generation + 1] = NewLoad(s)]
    /\ inbox' = inbox \o LoadRequests(s, generation + 1) \o more

\* The listener for live events.
Listen(event) ==
    LET s == event.session IN
    CASE loading[s] # 0 ->
            /\ buffered' = [buffered EXCEPT ![s] = Append(@, event)]
            /\ UNCHANGED <<Screen, loading, generation, loads, inbox>>
      [] loading[s] = 0 /\ s # selected ->
            UNCHANGED <<Screen, Replay, inbox>>
      [] OTHER ->
            /\ transcript' = IF Gap(transcript, event) THEN transcript
                             ELSE Extend(transcript, event)
            /\ activeRun' = CASE event.type = "started" -> s
                              [] event.type = "ended" -> "none"
                              [] OTHER -> activeRun
            /\ LET list == IF Approval(event.type) THEN <<Request("approvals", s, 0, 0)>> ELSE <<>> IN
               IF Gap(transcript, event)
               THEN StartLoad(s, list)
               ELSE /\ inbox' = inbox \o list
                    /\ UNCHANGED <<loading, generation, loads>>
            /\ UNCHANGED <<selected, approvals, buffered>>

\* handleMessage: a notification is handled at once, a reply resolves its promise.
Deliver ==
    /\ pipe # <<>>
    /\ pipe' = Tail(pipe)
    /\ IF Head(pipe).kind = "event"
       THEN Listen(Head(pipe).event) /\ UNCHANGED ready
       ELSE ready' = Append(ready, Head(pipe)) /\ UNCHANGED <<Screen, Replay, inbox>>
    /\ UNCHANGED <<Store, serving, command, failures>>

\* A command has its reply: resolveApprovalAndResume, and the end of a run.start.
Continue(reply) ==
    LET s == reply.session IN
    CASE ~reply.ok /\ reply.kind # "approvals" ->
            /\ activeRun' = IF reply.kind = "start" /\ activeRun # s THEN activeRun ELSE "none"
            /\ command' = NoCommand
            /\ UNCHANGED <<approvals, inbox>>
      [] reply.ok /\ reply.kind = "start" ->
            command' = NoCommand /\ UNCHANGED <<activeRun, approvals, inbox>>
      [] reply.ok /\ reply.kind = "resolve" ->
            /\ inbox' = Append(inbox, Request("resume", s, 0, 0))
            /\ UNCHANGED <<activeRun, approvals, command>>
      [] reply.ok /\ reply.kind = "resume" ->
            /\ inbox' = Append(inbox, Request("approvals", s, MaxLoads + 1, 0))
            /\ UNCHANGED <<activeRun, approvals, command>>
      [] OTHER ->
            /\ approvals' = [session |-> s, pending |-> reply.ok]
            /\ IF reply.who = 0 THEN UNCHANGED <<activeRun, command>>
               ELSE activeRun' = s /\ command' = NoCommand
            /\ UNCHANGED inbox

\* The code after an await runs.
RunContinuation ==
    /\ ready # <<>>
    /\ ready' = Tail(ready)
    /\ LET reply == Head(ready)
           g == reply.who IN
       CASE g \in 1 .. MaxLoads /\ loads[g].at = "done" ->
                UNCHANGED <<Screen, Replay, inbox, command>>
         [] g \in 1 .. MaxLoads /\ loads[g].at # "done" /\ reply.kind = "events" ->
                Page(g, reply) /\ UNCHANGED generation
         [] g \in 1 .. MaxLoads /\ loads[g].at # "done" /\ reply.kind = "approvals" ->
                Listed(g, reply) /\ UNCHANGED generation
         [] OTHER ->
                Continue(reply) /\ UNCHANGED <<selected, transcript, Replay>>
    /\ UNCHANGED <<Store, serving, pipe, failures>>

\* A request of a load times out.
LoadFails(g) ==
    /\ loads[g].at # "done" /\ failures < MaxFailures
    /\ failures' = failures + 1
    /\ FailLoad(g)
    /\ UNCHANGED <<Store, serving, pipe, ready>>

\* The composer is there while no run is active and no approval pending.
Composer == command = NoCommand /\ activeRun = "none" /\ ~approvals.pending

OpenSession(s) ==
    /\ Composer /\ s # selected
    /\ StartLoad(s, <<>>)
    /\ command' = [at |-> "open", session |-> s, load |-> generation + 1]
    /\ UNCHANGED <<Store, serving, pipe, Screen, buffered, ready, failures>>

Submit ==
    /\ Composer
    /\ command' = [NoCommand EXCEPT !.at = "run", !.session = selected]
    /\ activeRun' = selected
    /\ inbox' = Append(inbox, Request("start", selected, 0, 0))
    /\ UNCHANGED <<Store, serving, pipe, selected, transcript, approvals, Replay, ready, failures>>

\* y, o or n at the prompt of the oldest approval.
ResolveApproval ==
    /\ command = NoCommand /\ approvals.pending
    /\ command' = [NoCommand EXCEPT !.at = "resolve", !.session = selected]
    /\ inbox' = Append(inbox, Request("resolve", selected, 0, 0))
    /\ UNCHANGED <<Store, serving, pipe, Screen, Replay, ready, failures>>

ClientNext ==
    \/ \E s \in Sessions : RunThread(s) \/ Foreign(s) \/ OpenSession(s)
    \/ \E event \in unsent : Announce(event)
    \/ ServeEvents \/ ServeHead \/ Serve
    \/ Deliver \/ RunContinuation \/ Submit \/ ResolveApproval
    \/ \E g \in 1 .. MaxLoads : LoadFails(g)

ClientSpec == ClientInit /\ [][ClientNext]_clientVars
-----------------------------------------------------------------------------
\* What is shown is the beginning of the session, every event once and in order,
\* whatever notifications came out of order, twice or not at all while the
\* session was replayed (mergeTranscriptEvents, appendTranscriptEvent).
TranscriptIsPrefix ==
    /\ transcript.session = selected
    /\ HeadSeq(transcript) <= Len(stored[selected])
    /\ transcript.seqs = [k \in 1 .. HeadSeq(transcript) |-> k]

\* The newest load ends with its session on the screen, not behind what it had
\* read, unless a request fails: neither a page that is empty because the head
\* moved between the two reads of the Worker nor a gap in the notifications makes
\* it give up (readSessionHistory, loadSession).
NewestLoadIsShown ==
    [][\A g \in 1 .. MaxLoads :
          /\ loads[g].at # "done" /\ loads'[g].at = "done"
          /\ g = generation /\ failures' = failures
          => /\ transcript'.session = loads[g].session /\ selected' = loads[g].session
             /\ HeadSeq(transcript') >= Len(loads[g].seqs)]_clientVars

Quiet ==
    /\ unsent = {} /\ inbox = <<>> /\ serving = Nothing /\ pipe = <<>> /\ ready = <<>>
    /\ \A g \in 1 .. MaxLoads : loads[g].at = "done"
    /\ command = NoCommand

Announced(s) == {k \in 1 .. Len(stored[s]) : stored[s][k] # "other"}

\* When all messages have been handled, the view shows every event of its session
\* that was announced (the replay of a gap, the buffer of a load).
QuietViewIsCurrent ==
    Quiet /\ failures = 0 => \A k \in Announced(selected) : k <= HeadSeq(transcript)
=============================================================================
