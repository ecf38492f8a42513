----------------------------- MODULE ChunkStream -----------------------------
(***************************************************************************)
(* What every provider adapter promises to the code that consumes its      *)
(* stream (Provider.stream and the chunk types of models/base.py): one     *)
(* message_start, blocks that open once and close once, message_end last   *)
(* and only when every block is closed; or a failure, at any point.        *)
(***************************************************************************)
EXTENDS Naturals

CONSTANT Indexes    \* block indexes of a message

VARIABLES stage,    \* "idle", "body" after message_start, "ended", "failed"
          open,     \* blocks that have started and not ended
          used      \* blocks that have started

vars == <<stage, open, used>>

Init == stage = "idle" /\ open = {} /\ used = {}

MessageStart ==
    /\ stage = "idle"
    /\ stage' = "body"
    /\ UNCHANGED <<open, used>>

BlockStart(i) ==
    /\ stage = "body" /\ i \notin used
    /\ open' = open \cup {i}
    /\ used' = used \cup {i}
    /\ UNCHANGED stage

BlockEnd(i) ==
    /\ stage = "body" /\ i \in open
    /\ open' = open \ {i}
    /\ UNCHANGED <<stage, used>>

MessageEnd ==
    /\ stage = "body" /\ open = {}
    /\ stage' = "ended"
    /\ UNCHANGED <<open, used>>

Fail ==
    /\ stage \in {"idle", "body"}
    /\ stage' = "failed"
    /\ UNCHANGED <<open, used>>

\* The next request has a stream of its own.
NewStream ==
    /\ stage \in {"ended", "failed"}
    /\ stage' = "idle" /\ open' = {} /\ used' = {}

Next ==
    \/ MessageStart \/ MessageEnd \/ Fail \/ NewStream
    \/ \E i \in Indexes : BlockStart(i) \/ BlockEnd(i)

Spec == Init /\ [][Next]_vars
=============================================================================
