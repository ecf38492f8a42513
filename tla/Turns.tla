-------------------------------- MODULE Turns --------------------------------
(***************************************************************************)
(* drive_turn: a consumer iterates over the events of a turn while a task  *)
(* drives the run.  One TurnEventPump per runtime observes the session and *)
(* routes its events into the queue that was attached last; it is detached *)
(* in the finally of the generator, which runs when the consumer exhausts  *)
(* or cancels the stream and, if it just stops iterating, some time later. *)
(***************************************************************************)
EXTENDS Naturals, Sequences, SequencesExt

CONSTANTS Turns,         \* turns of one session, in order: 1 .. n
          EventKinds,    \* kinds of events; map_event drops "internal"
          MaxTurnEvents  \* bound: events of a run

ASSUME TurnsAssumption ==
    Turns \subseteq Nat \ {0} /\ MaxTurnEvents \in Nat

VARIABLES pump,    \* the turn whose queue is attached, or 0
          stream,  \* of each turn, the generator
          driver,  \* of each turn, the task that drives the run
          queue,   \* of each turn
          emitted, \* of each turn, the events its run has appended
          given    \* of each turn, the events the consumer got

turnVars == <<pump, stream, driver, queue, emitted, given>>

Done == [turn |-> 0, kind |-> "done", seq |-> 0]

\* map_event
Mapped(e) == e.kind # "internal"

TurnsInit ==
    /\ pump = 0
    /\ stream = [t \in Turns |-> "new"]
    /\ driver = [t \in Turns |-> "none"]
    /\ queue = [t \in Turns |-> <<>>]
    /\ emitted = [t \in Turns |-> <<>>]
    /\ given = [t \in Turns |-> <<>>]

\* The consumer asks for the first event, once it is done with the turn before.
StartTurn(t) ==
    /\ stream[t] = "new"
    /\ \A u \in Turns : u < t => stream[u] \in {"closed", "left", "finalized"}
    /\ stream' = [stream EXCEPT ![t] = "open"]
    /\ pump' = t
    /\ driver' = [driver EXCEPT ![t] = "running"]
    /\ UNCHANGED <<queue, emitted, given>>

\* The run appends an event; the pump observes it before append returns, and puts
\* it into the queue that is attached, whose turn need not be that of the run.
EmitEvent(t, kind) ==
    LET e == [turn |-> t, kind |-> kind, seq |-> Len(emitted[t]) + 1]
    IN /\ driver[t] \in {"running", "cancelled"} /\ Len(emitted[t]) < MaxTurnEvents
       /\ emitted' = [emitted EXCEPT ![t] = Append(@, e)]
       /\ queue' = IF pump = 0 THEN queue
                   ELSE [queue EXCEPT ![pump] = Append(@, e)]
       /\ UNCHANGED <<pump, stream, driver, given>>

\* The run returns or raises, and the driver's finally puts the end into its queue.
EndTurn(t, outcome) ==
    /\ driver[t] \in {"running", "cancelled"}
    /\ driver' = [driver EXCEPT ![t] = outcome]
    /\ queue' = [queue EXCEPT ![t] = Append(@, Done)]
    /\ UNCHANGED <<pump, stream, emitted, given>>

\* The consumer gets the next event; one that is not mapped is passed over.
TakeEvent(t) ==
    /\ stream[t] = "open" /\ queue[t] # <<>> /\ Head(queue[t]) # Done
    /\ given' = [given EXCEPT ![t] = IF Mapped(Head(queue[t])) THEN Append(@, Head(queue[t]))
                                     ELSE @]
    /\ queue' = [queue EXCEPT ![t] = Tail(@)]
    /\ UNCHANGED <<pump, stream, driver, emitted>>

\* Mutant: the end is yielded as soon as the run is over.
TurnOver(t) == driver[t] = "returned"

EndReached(t) == queue[t] # <<>> /\ Head(queue[t]) = Done /\ driver[t] = "returned"

\* The end comes out of the queue, and TurnFinished is yielded.
FinishTurn(t) ==
    /\ stream[t] = "open"
    /\ EndReached(t)
    /\ stream' = [stream EXCEPT ![t] = "finished"]
    /\ UNCHANGED <<pump, driver, queue, emitted, given>>

\* The finally of drive_turn detaches whatever is attached, and does not wait for
\* the task that it cancels.
UnwindTurn(t, how) ==
    /\ stream' = [stream EXCEPT ![t] = how]
    /\ pump' = 0
    /\ driver' = [driver EXCEPT ![t] = IF @ = "running" THEN "cancelled" ELSE @]
    /\ UNCHANGED <<queue, emitted, given>>

\* The stream is exhausted, the run has raised, or the consumer is cancelled or
\* closes the stream itself.
CloseTurn(t) ==
    /\ stream[t] \in {"open", "finished"}
    /\ UnwindTurn(t, "closed")

\* The consumer breaks out of its loop, and the generator stays suspended until
\* the event loop finalizes it.
LeaveTurn(t) ==
    /\ stream[t] \in {"open", "finished"}
    /\ stream' = [stream EXCEPT ![t] = "left"]
    /\ UNCHANGED <<pump, driver, queue, emitted, given>>

FinalizeTurn(t) == stream[t] = "left" /\ UnwindTurn(t, "finalized")

TurnsNext ==
    \E t \in Turns :
       \/ StartTurn(t)
       \/ \E kind \in EventKinds : EmitEvent(t, kind)
       \/ \E outcome \in {"returned", "raised"} : EndTurn(t, outcome)
       \/ TakeEvent(t) \/ FinishTurn(t) \/ CloseTurn(t)
       \/ LeaveTurn(t) \/ FinalizeTurn(t)

TurnsSpec == TurnsInit /\ [][TurnsNext]_turnVars

-----------------------------------------------------------------------------

\* The events of its own run among those a turn has given its consumer.
Own(t) == {i \in DOMAIN given[t] : given[t][i].turn = t}

\* A turn that has yielded TurnFinished has shown every event of its run, once and
\* in order, although the pump it hears them through belongs to all turns and an
\* earlier run may still be unwinding or even running; unless a stream that its
\* consumer only stopped reading was finalized since.
FinishedTurnIsWhole ==
    \A t \in Turns :
       stream[t] = "finished" /\ (\A u \in Turns : stream[u] # "finalized") =>
          /\ {given[t][i] : i \in Own(t)} = {e \in ToSet(emitted[t]) : Mapped(e)}
          /\ \A i, j \in Own(t) : i < j => given[t][i].seq < given[t][j].seq
=============================================================================
