------------------------------ MODULE Commands ------------------------------
(***************************************************************************)
(* A command in a child process: run_command of the sandbox backends (host,*)
(* local isolation and the docker CLI have one and the same control), and  *)
(* run_local_command of the git tools.  The command is a process group; its*)
(* leader may start others, which may leave the group, keep the pipes open *)
(* or ignore SIGTERM.  The call that runs it may time out and may be       *)
(* cancelled at any await, also while it cleans up.                        *)
(***************************************************************************)
EXTENDS Naturals, FiniteSets

CONSTANTS Children,    \* processes the command may start
          Limit,       \* max_output_chars
          MaxOutput,   \* bound: characters written to a pipe
          MaxCancels   \* bound: cancellations of the call

ASSUME CommandsAssumption ==
    "leader" \notin Children /\ Limit \in Nat \ {0} /\ MaxOutput \in Nat /\ MaxCancels \in Nat

VARIABLES backend,  \* "sandbox", or "local" of run_local_command
          proc,     \* each process: does it run, is it in the group, does it ignore
                    \* SIGTERM, is it about to die of a signal, which pipes it holds
          written,  \* characters written to each pipe
          reader,   \* _read_limited of each pipe
          reaped,   \* the event loop knows that the leader has exited
          killer,   \* _terminate_process_group
          at,       \* run_command
          cause,    \* why it cleans up
          cancels   \* so far

commandVars == <<backend, proc, written, reader, reaped, killer, at, cause, cancels>>
Runner == <<backend, at, cause, cancels>>
World == <<proc, written>>

Streams == {"stdout", "stderr"}
Processes == Children \cup {"leader"}
NotStarted == [alive |-> FALSE, new |-> TRUE, group |-> TRUE, stubborn |-> FALSE,
               doomed |-> FALSE, holds |-> {}]
Started(stubborn, group, pipes) ==
    [alive |-> TRUE, new |-> FALSE, group |-> group, stubborn |-> stubborn,
     doomed |-> FALSE, holds |-> pipes]

CommandInit ==
    /\ backend \in {"sandbox", "local"}
    /\ \E stubborn \in BOOLEAN :
           proc = [p \in Processes |-> IF p = "leader" THEN Started(stubborn, TRUE, Streams)
                                       ELSE NotStarted]
    /\ written = [s \in Streams |-> 0]
    /\ reader = [s \in Streams |-> [at |-> "reading", total |-> 0, kept |-> 0]]
    /\ reaped = FALSE
    /\ killer = "none"
    /\ at = "wait" /\ cause = "none" /\ cancels = 0

Least(a, b) == IF a <= b THEN a ELSE b
Ended == at \in {"returned", "raised"}
-----------------------------------------------------------------------------
(* The processes.                                                          *)

Lives(p) == proc[p].alive /\ ~proc[p].doomed

\* A child gets some of the pipes of its parent, and is in its group unless it
\* calls setsid.
Fork(p, child) ==
    /\ Lives(p) /\ proc[child].new
    /\ \E stubborn \in BOOLEAN, group \in {TRUE, FALSE}, pipes \in SUBSET proc[p].holds :
           /\ group => proc[p].group
           /\ proc' = [proc EXCEPT ![child] = Started(stubborn, group, pipes)]
    /\ UNCHANGED <<written, reader, reaped, killer, Runner>>

WritePipe(p, s) ==
    /\ Lives(p) /\ s \in proc[p].holds /\ written[s] < MaxOutput
    /\ written' = [written EXCEPT ![s] = @ + 1]
    /\ UNCHANGED <<proc, reader, reaped, killer, Runner>>

Exit(p) ==
    /\ proc[p].alive
    /\ proc' = [proc EXCEPT ![p].alive = FALSE, ![p].holds = {}]
    /\ UNCHANGED <<written, reader, reaped, killer, Runner>>
-----------------------------------------------------------------------------
(* The event loop, the readers and the signals.                            *)

Reap ==
    /\ ~proc["leader"].alive /\ ~reaped
    /\ reaped' = TRUE
    /\ UNCHANGED <<World, reader, killer, Runner>>

PipeOpen(s) == \E p \in Processes : s \in proc[p].holds

\* A chunk: what fits is kept, all of it is counted.  Or the end of the pipe.
ReadPipe(s) ==
    /\ reader[s].at = "reading"
    /\ \/ \E n \in 1 .. written[s] - reader[s].total :
              reader' = [reader EXCEPT ![s].total = @ + n,
                                       ![s].kept = @ + Least(n, Limit - @)]
       \/ /\ reader[s].total = written[s] /\ ~PipeOpen(s)
          /\ reader' = [reader EXCEPT ![s].at = "done"]
    /\ UNCHANGED <<World, reaped, killer, Runner>>

CancelReaders ==
    reader' = [s \in Streams |-> IF reader[s].at = "reading"
                                 THEN [reader[s] EXCEPT !.at = "cancelled"] ELSE reader[s]]

AllDone == reaped /\ \A s \in Streams : reader[s].at = "done"

\* killpg finds no process: the leader is reaped and the group has no other.
GroupGone == reaped /\ \A p \in Processes : proc[p].group => ~proc[p].alive

Signal(victims) ==
    proc' = [p \in Processes |->
                IF proc[p].alive /\ proc[p].group /\ p \in victims
                THEN [proc[p] EXCEPT !.doomed = TRUE] ELSE proc[p]]
Obedient == {p \in Processes : ~proc[p].stubborn}

\* Mutant: the second signal is SIGTERM again.
KillObedient == Signal(Obedient)

\* SIGKILL.
KillAll == Signal(Processes)

\* A sandbox signals the group of a leader that has exited if a pipe is still
\* open; the helper of the git tools does not.
Forces == backend = "sandbox" /\ ~AllDone

\* _terminate_process_group up to its first await.
StartKiller ==
    IF (reaped /\ ~Forces) \/ GroupGone
    THEN killer' = "done" /\ UNCHANGED proc
    ELSE killer' = "term" /\ Signal(Obedient)

\* The leader is gone in time, whatever its group does.
LeaderGone ==
    /\ killer \in {"term", "kill"} /\ reaped
    /\ killer' = "done"
    /\ UNCHANGED <<World, reader, reaped, Runner>>

\* A second after SIGTERM, and of a sandbox another after SIGKILL.
TermExpires ==
    /\ killer = "term"
    /\ IF GroupGone
       THEN UNCHANGED proc /\ killer' = IF backend = "local" THEN "done" ELSE "kill"
       ELSE KillAll /\ killer' = "kill"
    /\ UNCHANGED <<written, reader, reaped, Runner>>

KillExpires ==
    /\ killer = "kill" /\ backend = "sandbox"
    /\ killer' = "done"
    /\ UNCHANGED <<World, reader, reaped, Runner>>
-----------------------------------------------------------------------------
(* run_command.                                                            *)

Reach(how) == at' = how /\ UNCHANGED <<backend, cancels>>

Return ==
    /\ at \in {"wait", "drain"} /\ AllDone
    /\ Reach("returned")
    /\ UNCHANGED <<World, reader, reaped, killer, cause>>

Expire ==
    /\ at = "wait"
    /\ cause' = "timeout" /\ StartKiller
    /\ Reach("cleanup")
    /\ UNCHANGED <<written, reader, reaped>>

\* The group is dealt with: a second for the output of a command that timed out,
\* or CancelledError.
CleanedUp ==
    /\ at = "cleanup" /\ killer = "done"
    /\ IF cause = "timeout" THEN Reach("drain") /\ UNCHANGED reader
       ELSE Reach("raised") /\ CancelReaders
    /\ UNCHANGED <<World, reaped, killer, cause>>

DrainExpires ==
    /\ at = "drain"
    /\ Reach("returned") /\ CancelReaders
    /\ UNCHANGED <<World, reaped, killer, cause>>

\* Mutant: the cleanup of a cancelled command is not shielded either.
StopsWithAny == TRUE

\* The cleanup after a timeout is awaited as it is and ends with its caller; the one
\* after a cancellation is shielded and goes on.
StopsWithCaller == cause = "timeout"

CancelCommand ==
    /\ cancels < MaxCancels /\ cancels' = cancels + 1
    /\ UNCHANGED <<backend, written, reaped>>
    /\ \/ /\ at = "wait"
          /\ at' = "cleanup" /\ cause' = "cancel"
          /\ StartKiller /\ UNCHANGED reader
       \/ /\ at \in {"cleanup", "drain"}
          /\ at' = "raised" /\ CancelReaders
          /\ killer' = IF StopsWithCaller THEN "done" ELSE killer
          /\ UNCHANGED <<proc, cause>>
-----------------------------------------------------------------------------
RunCommand == Return \/ Expire \/ CleanedUp \/ DrainExpires
Terminate == LeaderGone \/ TermExpires \/ KillExpires

CommandNext ==
    \/ \E p \in Processes : \E child \in Children : Fork(p, child)
    \/ \E p \in Processes, s \in Streams : WritePipe(p, s)
    \/ \E p \in Processes : Exit(p)
    \/ Reap
    \/ \E s \in Streams : ReadPipe(s)
    \/ RunCommand \/ Terminate
    \/ CancelCommand

CommandSpec == CommandInit /\ [][CommandNext]_commandVars
-----------------------------------------------------------------------------
\* Mutant: the output of a reader that was cancelled counts as whole.
TruncatedWhenRead(s) == reader[s].at = "done" /\ reader[s].total > Limit

\* _task_output: what the result says of a pipe.
Truncated(s) == reader[s].at = "cancelled" \/ reader[s].total > Limit
Output(s) == IF reader[s].at = "done" THEN reader[s].kept ELSE 0

\* Output that is not marked as truncated is all that the command has written and
\* will ever write, also when it timed out or left processes behind; and a
\* command that did not time out has exited.
ResultIsWhole ==
    at = "returned" =>
        /\ \A s \in Streams : ~Truncated(s) => Output(s) = written[s] /\ ~PipeOpen(s)
        /\ cause = "none" => ~proc["leader"].alive

\* A leader does not survive a result of its command or a cancellation, even if it
\* ignores SIGTERM and the call is cancelled again while it cleans up: once nothing
\* terminates it any more, it has exited or will die of a signal.
LeaderIsStopped ==
    /\ Ended /\ (at = "returned" \/ cause = "cancel")
    /\ killer \in {"none", "done"}
    => ~Lives("leader")

\* Of the process group of a sandboxed command that has timed out, no process goes on.
GroupIsCleaned ==
    Ended /\ cause = "timeout" /\ backend = "sandbox" =>
        \A p \in Processes : proc[p].group => ~Lives(p)
=============================================================================
