---------------------------- MODULE AppendOnlyLog ----------------------------
(***************************************************************************)
(* What the event store and its sessions promise: one append-only log, in  *)
(* which a writer may only continue a log that it has seen to its end      *)
(* (optimistic concurrency by expected_seq).                               *)
(***************************************************************************)
EXTENDS Naturals, Sequences

CONSTANTS Writers,  \* the owners of a Session object
          Batches   \* batches of events a writer may append

VARIABLES log,      \* the durable events of one session, in seq order
          seen      \* how much of the log each writer has taken into account

Init ==
    /\ log = <<>>
    /\ seen = [w \in Writers |-> 0]

\* All events of the batch, or none, at the end of a log that w knows completely;
\* the seq of an event is its position.
Extend(w, batch) ==
    /\ seen[w] = Len(log)
    /\ \A i \in DOMAIN batch : batch[i].seq = Len(log) + i
    /\ log' = log \o batch
    /\ seen' = [seen EXCEPT ![w] = Len(log')]

\* A writer learns of events that others appended.
Learn(w, n) ==
    /\ n \in seen[w] .. Len(log)
    /\ seen' = [seen EXCEPT ![w] = n]
    /\ UNCHANGED log

Next == \E w \in Writers :
    \/ \E batch \in Batches : Extend(w, batch)
    \/ \E n \in 0 .. Len(log) : Learn(w, n)

Spec == Init /\ [][Next]_<<log, seen>>
=============================================================================
