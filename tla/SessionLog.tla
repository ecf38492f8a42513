----------------------------- MODULE SessionLog -----------------------------
(***************************************************************************)
(* Session objects over an event store: sessions/session.py and            *)
(* sessions/store.py.  A Session caches head_seq and the events it has     *)
(* read; append_many, refresh and load are sequences of store calls, each  *)
(* atomic under the store's lock and transaction, and of assignments to    *)
(* the cache, which no lock protects.                                      *)
(*                                                                         *)
(* Threads that own their Session object are different owners of the same  *)
(* session (processes on one SQLite file).  Threads that share an object   *)
(* are the main thread and the run thread of one worker, which both use    *)
(* the object cached in WorkerServer._sessions.                            *)
(***************************************************************************)
EXTENDS Naturals, Sequences, FiniteSets

CONSTANTS Threads,
          Objects,      \* Session objects of the session
          Object,       \* Object[t]: the Session that thread t uses
          Refreshing,   \* threads that call refresh: the ones that execute runs
          MaxEvents     \* bound: events of the session

ASSUME SessionAssumption ==
    /\ Object \in [Threads -> Objects]
    /\ Refreshing \subseteq Threads
    /\ MaxEvents \in Nat

VARIABLES
    log,      \* durable events of the session, in the order of their seq
    head,     \* head_seq of each Session object
    events,   \* _events of each Session object
    outbox,   \* seqs given to the observers of each object, in that order
    pc,       \* where each thread stands
    expected, \* expected_seq of the append of each thread
    batch,    \* the events each thread appends
    info,     \* head_seq a thread got from the store, or the old head it increments
    copy,     \* events a thread read from the store
    tries     \* attempts of the refresh loop

cache == <<head, events, outbox>>
locals == <<expected, batch, info, copy, tries>>
vars == <<log, head, events, outbox, pc, expected, batch, info, copy, tries>>

\* refresh gives up after three attempts.
MaxTries == 3

\* An event is known by its writer and its seq.
Events == [by : Threads, seq : 1 .. MaxEvents]

Batches == UNION {[1 .. n -> Events] : n \in {1, 2}}

\* Event.persisted: the store numbers the events from the expected head on.
Persisted(t, n) == [i \in 1 .. n |-> [by |-> t, seq |-> expected[t] + i]]

Moves(t, place) == pc' = [pc EXCEPT ![t] = place]
-----------------------------------------------------------------------------
Init ==
    /\ log = <<>>
    /\ head = [o \in Objects |-> 0]
    /\ events = [o \in Objects |-> <<>>]
    /\ outbox = [o \in Objects |-> <<>>]
    /\ pc = [t \in Threads |-> "idle"]
    /\ expected = [t \in Threads |-> 0]
    /\ batch = [t \in Threads |-> <<>>]
    /\ info = [t \in Threads |-> 0]
    /\ copy = [t \in Threads |-> <<>>]
    /\ tries = [t \in Threads |-> 0]
-----------------------------------------------------------------------------
(***************************************************************************)
(* append_many.                                                            *)
(***************************************************************************)

\* The candidate messages are valid; head_seq is read for the store call.
BeginAppend(t) ==
    /\ pc[t] = "idle"
    /\ expected' = [expected EXCEPT ![t] = head[Object[t]]]
    /\ Moves(t, "append")
    /\ UNCHANGED <<log, cache, batch, info, copy, tries>>

\* Mutant: the store does not compare the expected head.
StoreAppendAnyway(t, n) ==
    /\ pc[t] = "append"
    /\ Len(log) + n <= MaxEvents
    /\ log' = log \o Persisted(t, n)
    /\ batch' = [batch EXCEPT ![t] = Persisted(t, n)]
    /\ Moves(t, "count")
    /\ UNCHANGED <<cache, expected, info, copy, tries>>

\* store.append: the whole batch after the expected head, or ConcurrencyConflict.
StoreAppend(t, n) ==
    /\ pc[t] = "append"
    /\ IF Len(log) = expected[t]
       THEN /\ Len(log) + n <= MaxEvents
            /\ log' = log \o Persisted(t, n)
            /\ batch' = [batch EXCEPT ![t] = Persisted(t, n)]
            /\ Moves(t, "count")
       ELSE /\ Moves(t, "idle")
            /\ UNCHANGED <<log, batch>>
    /\ UNCHANGED <<cache, expected, info, copy, tries>>

\* self.head_seq += len(persisted) reads the attribute,
LoadHead(t) ==
    /\ pc[t] = "count"
    /\ info' = [info EXCEPT ![t] = head[Object[t]]]
    /\ Moves(t, "increment")
    /\ UNCHANGED <<log, cache, expected, batch, copy, tries>>

\* and writes it back.
StoreHead(t) ==
    /\ pc[t] = "increment"
    /\ head' = [head EXCEPT ![Object[t]] = info[t] + Len(batch[t])]
    /\ Moves(t, "extend")
    /\ UNCHANGED <<log, events, outbox, locals>>

\* self._events.extend(persisted), and the messages of the batch.
ExtendEvents(t) ==
    /\ pc[t] = "extend"
    /\ events' = [events EXCEPT ![Object[t]] = @ \o batch[t]]
    /\ Moves(t, "notify")
    /\ UNCHANGED <<log, head, outbox, locals>>

\* _notify_observers: the observer of the worker queues one notification per event.
NotifyObservers(t) ==
    /\ pc[t] = "notify"
    /\ outbox' = [outbox EXCEPT ![Object[t]] = Append(@, Head(batch[t]).seq)]
    /\ batch' = [batch EXCEPT ![t] = Tail(@)]
    /\ Moves(t, IF Len(batch[t]) = 1 THEN "idle" ELSE "notify")
    /\ UNCHANGED <<log, head, events, expected, info, copy, tries>>
-----------------------------------------------------------------------------
(***************************************************************************)
(* refresh and load.                                                       *)
(***************************************************************************)
BeginRefresh(t) ==
    /\ pc[t] = "idle"
    /\ t \in Refreshing
    /\ info' = [info EXCEPT ![t] = Len(log)]
    /\ tries' = [tries EXCEPT ![t] = 1]
    /\ Moves(t, "compare")
    /\ UNCHANGED <<log, cache, expected, batch, copy>>

\* Nothing to do if the head is the cached one.
CompareHead(t) ==
    /\ pc[t] = "compare"
    /\ Moves(t, IF info[t] = head[Object[t]] THEN "idle" ELSE "read")
    /\ UNCHANGED <<log, cache, locals>>

ReadEvents(t) ==
    /\ pc[t] = "read"
    /\ copy' = [copy EXCEPT ![t] = log]
    /\ Moves(t, "recheck")
    /\ UNCHANGED <<log, cache, expected, batch, info, tries>>

\* The events belong to that head only if it has not moved; else the next attempt
\* begins with a new get, and after the last one refresh raises.
RecheckHead(t) ==
    /\ pc[t] = "recheck"
    /\ IF Len(log) = info[t]
       THEN Moves(t, "set_head") /\ UNCHANGED <<info, tries>>
       ELSE IF tries[t] < MaxTries
       THEN /\ info' = [info EXCEPT ![t] = Len(log)]
            /\ tries' = [tries EXCEPT ![t] = @ + 1]
            /\ Moves(t, "compare")
       ELSE Moves(t, "idle") /\ UNCHANGED <<info, tries>>
    /\ UNCHANGED <<log, cache, expected, batch, copy>>

\* Mutant: the head is asked for once more.
SetLatestHead(t) ==
    /\ pc[t] = "set_head"
    /\ head' = [head EXCEPT ![Object[t]] = Len(log)]
    /\ Moves(t, "set_events")
    /\ UNCHANGED <<log, events, outbox, locals>>

SetHead(t) ==
    /\ pc[t] = "set_head"
    /\ head' = [head EXCEPT ![Object[t]] = info[t]]
    /\ Moves(t, "set_events")
    /\ UNCHANGED <<log, events, outbox, locals>>

SetEvents(t) ==
    /\ pc[t] = "set_events"
    /\ events' = [events EXCEPT ![Object[t]] = copy[t]]
    /\ Moves(t, "idle")
    /\ UNCHANGED <<log, head, outbox, locals>>

Sharing(t) == \E u \in Threads \ {t} : Object[u] = Object[t]

\* Session.load in a new process: head and events come from two store calls, and
\* nothing compares them.
BeginLoad(t) ==
    /\ pc[t] = "idle"
    /\ ~Sharing(t)
    /\ info' = [info EXCEPT ![t] = Len(log)]
    /\ Moves(t, "load")
    /\ UNCHANGED <<log, cache, expected, batch, copy, tries>>

LoadEvents(t) ==
    /\ pc[t] = "load"
    /\ head' = [head EXCEPT ![Object[t]] = info[t]]
    /\ events' = [events EXCEPT ![Object[t]] = log]
    /\ Moves(t, "idle")
    /\ UNCHANGED <<log, outbox, locals>>
-----------------------------------------------------------------------------
AppendStep(t) ==
    \/ BeginAppend(t) \/ (\E n \in {1, 2} : StoreAppend(t, n))
    \/ LoadHead(t) \/ StoreHead(t) \/ ExtendEvents(t) \/ NotifyObservers(t)

RefreshStep(t) ==
    \/ BeginRefresh(t) \/ CompareHead(t) \/ ReadEvents(t) \/ RecheckHead(t)
    \/ SetHead(t) \/ SetEvents(t)

LoadStep(t) == BeginLoad(t) \/ LoadEvents(t)

Next == \E t \in Threads : AppendStep(t) \/ RefreshStep(t) \/ LoadStep(t)

Spec == Init /\ [][Next]_vars
-----------------------------------------------------------------------------
(***************************************************************************)
(* Properties.                                                             *)
(***************************************************************************)
\* Between its operations, an owner whose head_seq is the head of the store has read
\* exactly the log: an append that passes the optimistic check was decided on
\* everything that was appended before it, whatever other owners did.
CurrentViewIsComplete ==
    \A t \in Threads :
        pc[t] \in {"idle", "append"} /\ head[Object[t]] = Len(log) =>
            events[Object[t]] = log

\* What an owner has taken into account: its own batch as soon as it is durable.
Seen ==
    [t \in Threads |->
        IF pc[t] \in {"count", "increment"}
        THEN expected[t] + Len(batch[t]) ELSE head[Object[t]]]

Abstract == INSTANCE AppendOnlyLog WITH Writers <- Threads, seen <- Seen

\* Owners of Session objects implement the append-only log: a batch is durable as a
\* whole, and continues a log its writer has seen to its end.
ImplementsLog == Abstract!Spec
=============================================================================
