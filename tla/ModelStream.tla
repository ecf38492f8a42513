----------------------------- MODULE ModelStream -----------------------------
(***************************************************************************)
(* The stream parsers of the OpenAI and the Anthropic adapter and the run  *)
(* loop that consumes their chunks: models/providers/openai.py,            *)
(* anthropic.py, models/transport.py and RunCoordinator._consume_provider. *)
(* The server on the wire is unconstrained: it may repeat, reorder or omit *)
(* events, report an error, or stop in the middle.                         *)
(*                                                                         *)
(* The arguments of a tool call arrive in fragments.  An object takes two  *)
(* fragments, so the arguments parse when none or exactly two came.        *)
(***************************************************************************)
EXTENDS Naturals, FiniteSets, FiniteSetsExt

CONSTANTS Indexes,      \* block indexes, 0 .. n
          MaxWire,      \* bound: wire events of one stream
          MaxRequests   \* bound: requests

ASSUME StreamAssumption == Indexes \subseteq Nat /\ MaxWire \in Nat /\ MaxRequests \in Nat

VARIABLES adapter,   \* the adapter in use
          phase,     \* "ready", "reading", "closing", "ended", "failed", "over"
          blocks,    \* the parser's blocks, by index
          begun,     \* message_start has been yielded
          finish,    \* stop reason sent by the server
          final,     \* Anthropic: message_delta has been seen
          shown,     \* deltas of its kind that observers saw of each block of this stream
          stray,     \* blocks of which they saw a delta of another kind
          failure,   \* why the stream failed
          retried,   \* provider_context_retry_used
          recorded,  \* the message that the last request added to the log
          wire, requests

streamVars == <<adapter, phase, blocks, begun, finish, final, shown, stray, failure,
                retried, recorded, wire, requests>>

Kinds == {"text", "thinking", "tool", "other"}
Reasons == {"stop", "length", "odd"}
Empty == [i \in {} |-> 0]

\* A block: its kind, the index of its call on the wire (OpenAI), whether id and
\* name are known, the fragments it began with and has now, and
\* whether its end has not been yielded.
Block(kind, call, named, initial) ==
    [kind |-> kind, call |-> call, named |-> named, initial |-> initial, parts |-> initial,
     open |-> TRUE]

StreamInit ==
    /\ adapter \in {"openai", "anthropic"}
    /\ phase = "ready"
    /\ blocks = Empty /\ shown = Empty /\ stray = {}
    /\ begun = FALSE /\ finish = "none" /\ final = FALSE
    /\ failure = "none" /\ retried = FALSE
    /\ recorded = Empty
    /\ wire = 0 /\ requests = 0

Consumer == <<retried, recorded, requests, adapter>>
Parser == <<blocks, begun, finish, final, shown, stray>>

\* Mutant: the parser of a stream starts with the blocks of the one before.
KeepBlocks ==
    /\ blocks' = [i \in DOMAIN blocks |-> [blocks[i] EXCEPT !.open = FALSE]]
    /\ begun' = FALSE /\ finish' = "none" /\ final' = FALSE
    /\ shown' = [i \in DOMAIN blocks |-> 0] /\ stray' = {}

\* The local variables of _parse_stream.
FreshParser ==
    /\ blocks' = Empty /\ shown' = Empty /\ stray' = {}
    /\ begun' = FALSE /\ finish' = "none" /\ final' = FALSE

\* provider.stream(request)
StartStream ==
    /\ phase = "ready" /\ requests < MaxRequests
    /\ phase' = "reading"
    /\ FreshParser
    /\ failure' = "none"
    /\ wire' = 0
    /\ requests' = requests + 1
    /\ recorded' = Empty
    /\ UNCHANGED <<adapter, retried>>

Fail(why) ==
    /\ phase' = "failed"
    /\ failure' = why
    /\ UNCHANGED <<Parser, Consumer>>

Receive(name) ==
    /\ phase = "reading" /\ adapter = name /\ wire < MaxWire
    /\ wire' = wire + 1

\* An error event, an HTTP status, a timeout, a closed connection or a line that
\* is no JSON object; some of them say that the context is too long.
WireFailure ==
    /\ phase = "reading"
    /\ \E why \in {"context", "other"} : Fail(why)
    /\ UNCHANGED wire
-----------------------------------------------------------------------------
(* OpenAI                                                                  *)

\* next_block_index
NextIndex == Cardinality(DOMAIN blocks)

\* block_indices[key], the next index if the key is new.
IndexOf(kind, call) ==
    LET known == {i \in DOMAIN blocks : blocks[i].kind = kind /\ blocks[i].call = call}
    IN  IF known = {} THEN NextIndex ELSE CHOOSE i \in known : TRUE

\* A chunk of the wire with content: the block starts if it is new, then its
\* fragment, if there is one, is kept and shown.
OpenAIContent(kind, call, named, fragment) ==
    LET i == IndexOf(kind, call)
        b == IF i \in DOMAIN blocks THEN blocks[i] ELSE Block(kind, call, FALSE, 0)
        n == IF fragment THEN 1 ELSE 0
        s == IF i \in DOMAIN shown THEN shown[i] ELSE 0
    IN  /\ blocks' = [j \in DOMAIN blocks \cup {i} |->
                        IF j = i THEN [b EXCEPT !.named = @ \/ named, !.parts = @ + n]
                        ELSE blocks[j]]
        /\ shown' = [j \in DOMAIN shown \cup {i} |-> IF j = i THEN s + n ELSE shown[j]]
        /\ UNCHANGED stray

\* The first event makes message_start; its content is what OpenAIEvent takes.
OpenAIStart ==
    /\ phase = "reading" /\ adapter = "openai" /\ ~begun
    /\ begun' = TRUE
    /\ UNCHANGED <<phase, blocks, finish, final, shown, stray, failure, wire, Consumer>>

\* Nothing but usage follows a finish reason.
OpenAITakes(reason, kind, call, named, fragment) ==
    /\ kind # "none" => IndexOf(kind, call) \in Indexes
    /\ IF finish # "none" /\ (reason \notin {"none", finish} \/ kind # "none")
       THEN Fail("protocol")
       ELSE /\ finish' = IF reason = "none" THEN finish ELSE reason
            /\ IF kind = "none" THEN UNCHANGED <<blocks, shown, stray>>
               ELSE OpenAIContent(kind, call, named, fragment)
            /\ UNCHANGED <<phase, begun, final, failure, Consumer>>

\* One event: a finish reason, content, both or neither (usage).
OpenAIEvent ==
    /\ Receive("openai") /\ begun
    /\ \E reason \in Reasons \cup {"none"} :
       \E kind \in {"none", "text", "thinking", "tool"} :
       \E call \in IF kind = "tool" THEN 0 .. 1 ELSE {0} :
       \E named \in IF kind = "tool" THEN BOOLEAN ELSE {TRUE} :
       \E fragment \in IF kind = "tool" THEN BOOLEAN ELSE {TRUE} :
          OpenAITakes(reason, kind, call, named, fragment)

\* The stream is exhausted: the blocks are closed next, in the order they began.
OpenAIEof ==
    /\ phase = "reading" /\ adapter = "openai"
    /\ phase' = "closing"
    /\ UNCHANGED <<Parser, failure, wire, Consumer>>

CloseBlock ==
    LET open == {i \in DOMAIN blocks : blocks[i].open} IN
    /\ phase = "closing" /\ open # {}
    /\ blocks' = [blocks EXCEPT ![Min(open)].open = FALSE]
    /\ UNCHANGED <<phase, begun, finish, final, shown, stray, failure, wire, Consumer>>
-----------------------------------------------------------------------------
(* Anthropic                                                               *)

AnthropicStart ==
    /\ Receive("anthropic")
    /\ IF begun THEN Fail("protocol")
       ELSE /\ begun' = TRUE
            /\ UNCHANGED <<phase, blocks, finish, final, shown, stray, failure, Consumer>>

\* A tool block may bring its whole input with its start.
AnthropicBlockStart(i) ==
    /\ Receive("anthropic")
    /\ \E kind \in Kinds :
       \E named \in IF kind = "tool" THEN BOOLEAN ELSE {TRUE} :
       \E initial \in IF kind = "tool" THEN {0, 2} ELSE {0} :
          IF ~begun \/ final \/ i \in DOMAIN blocks THEN Fail("protocol")
          ELSE /\ blocks' = [j \in DOMAIN blocks \cup {i} |->
                                IF j = i THEN Block(kind, i, named, initial) ELSE blocks[j]]
               /\ shown' = [j \in DOMAIN shown \cup {i} |->
                                IF j = i THEN 0 ELSE shown[j]]
               /\ UNCHANGED <<phase, begun, finish, final, stray, failure, Consumer>>

\* A delta is shown; one of another kind than its block is not in its content.
AnthropicDelta(i) ==
    /\ Receive("anthropic")
    /\ \E kind \in Kinds :
          IF ~begun \/ final \/ i \notin DOMAIN blocks \/ kind = "other"
          THEN Fail("protocol")
          ELSE IF ~blocks[i].open THEN Fail("protocol")
          ELSE LET n == IF blocks[i].kind = kind THEN 1 ELSE 0 IN
               /\ blocks' = [blocks EXCEPT ![i].parts = @ + n]
               /\ shown' = [shown EXCEPT ![i] = @ + n]
               /\ stray' = IF n = 0 THEN stray \cup {i} ELSE stray
               /\ UNCHANGED <<phase, begun, finish, final, failure, Consumer>>

AnthropicBlockStop(i) ==
    /\ Receive("anthropic")
    /\ IF i \notin DOMAIN blocks THEN Fail("protocol")
       ELSE IF ~blocks[i].open THEN Fail("protocol")
       ELSE /\ blocks' = [blocks EXCEPT ![i].open = FALSE]
            /\ UNCHANGED <<phase, begun, finish, final, shown, stray, failure, Consumer>>

AnthropicMessageDelta ==
    /\ Receive("anthropic")
    /\ \E reason \in Reasons \cup {"none"} :
          IF ~begun \/ final \/ \E i \in DOMAIN blocks : blocks[i].open
          THEN Fail("protocol")
          ELSE /\ finish' = reason
               /\ final' = TRUE
               /\ UNCHANGED <<phase, blocks, begun, shown, stray, failure, Consumer>>

AnthropicEof ==
    /\ phase = "reading" /\ adapter = "anthropic"
    /\ IF ~final \/ \E i \in DOMAIN blocks : blocks[i].open
       THEN Fail("protocol")
       ELSE phase' = "closing" /\ UNCHANGED <<Parser, failure, Consumer>>
    /\ UNCHANGED wire
-----------------------------------------------------------------------------
HasTools == \E i \in DOMAIN blocks : blocks[i].kind = "tool"

\* The arguments of a tool block are a JSON object, with an id and a name.
Whole(b) == b.kind = "tool" => b.parts \in {0, 2} /\ b.named

\* Mutant: truncated arguments pass when the server stopped at its limit.
LenientCompletion ==
    /\ begun
    /\ \A i \in DOMAIN blocks : Whole(blocks[i]) \/ finish = "length"
    /\ \/ finish \in {"stop", "length"}
       \/ adapter = "anthropic" /\ finish = "none" /\ HasTools

\* The end of _parse_stream, with _stop_reason.
Completion ==
    /\ begun
    /\ \A i \in DOMAIN blocks : Whole(blocks[i])
    /\ \/ finish \in {"stop", "length"}
       \/ adapter = "anthropic" /\ finish = "none" /\ HasTools

\* Mutant: message_end does not wait for the ends of the blocks.
FinishUnclosed ==
    /\ phase = "closing"
    /\ IF Completion THEN phase' = "ended" /\ UNCHANGED <<Parser, failure, Consumer>>
       ELSE Fail("protocol")
    /\ UNCHANGED wire

\* message_end, or the protocol error of an incomplete message.
Finish ==
    /\ phase = "closing"
    /\ \A i \in DOMAIN blocks : ~blocks[i].open
    /\ IF Completion THEN phase' = "ended" /\ UNCHANGED <<Parser, failure, Consumer>>
       ELSE Fail("protocol")
    /\ UNCHANGED wire

\* The blocks of the message: those of unknown kind are left out.
Content == {i \in DOMAIN blocks : blocks[i].kind # "other"}

\* The response and its usage are appended to the log; its calls are executed.
Record ==
    /\ phase = "ended"
    /\ recorded' = [i \in Content |->
                     [block |-> blocks[i], shown |-> shown[i], stray |-> i \in stray]]
    /\ phase' = IF HasTools THEN "ready" ELSE "over"
    /\ UNCHANGED <<Parser, failure, wire, retried, requests, adapter>>

\* A context-length error is retried once in a run, after a compaction that may
\* itself fail; every other error ends the run.
HandleFailure ==
    /\ phase = "failed"
    /\ \/ /\ failure = "context" /\ ~retried
          /\ retried' = TRUE
          /\ phase' \in {"ready", "over"}
       \/ /\ failure # "context" \/ retried
          /\ phase' = "over"
          /\ UNCHANGED retried
    /\ UNCHANGED <<Parser, failure, wire, recorded, requests, adapter>>

\* The run is cancelled between two chunks, and the stream is closed.
CancelStream ==
    /\ phase \in {"reading", "closing", "ended"}
    /\ phase' = "over"
    /\ failure' = IF phase = "ended" THEN "none" ELSE "cancelled"
    /\ UNCHANGED <<Parser, wire, Consumer>>

NewRun ==
    /\ phase = "over" /\ requests < MaxRequests
    /\ phase' = "ready"
    /\ retried' = FALSE
    /\ UNCHANGED <<Parser, failure, wire, recorded, requests, adapter>>

StreamNext ==
    \/ StartStream \/ WireFailure
    \/ OpenAIStart \/ OpenAIEvent \/ OpenAIEof \/ CloseBlock
    \/ AnthropicStart \/ AnthropicMessageDelta \/ AnthropicEof
    \/ \E i \in Indexes : AnthropicBlockStart(i) \/ AnthropicDelta(i) \/ AnthropicBlockStop(i)
    \/ Finish \/ Record \/ HandleFailure \/ CancelStream \/ NewRun

StreamSpec == StreamInit /\ [][StreamNext]_streamVars
-----------------------------------------------------------------------------

\* A message that reaches the log holds, block by block, exactly what observers
\* saw of that one stream, after the input a tool block began with: nothing of
\* an attempt that failed, nothing lost (text_parts, tool_parts and block_inputs
\* against the chunks yielded).  Only the Anthropic adapter also shows what the
\* message leaves out: a delta of another kind than its block, and the blocks of a
\* kind it does not know.  And no truncated tool call reaches the log and is
\* executed: its arguments are empty or a whole object, and it has an id and a
\* name, however the server stopped (the checks at the end of _parse_stream).
RecordedIsShown ==
    \A i \in DOMAIN recorded :
        /\ recorded[i].block.parts = recorded[i].block.initial + recorded[i].shown
        /\ recorded[i].stray => adapter = "anthropic"
        /\ Whole(recorded[i].block)

\* The stage of the latest stream, as its consumer sees it.
Stage == CASE requests = 0 -> "idle"
           [] phase \in {"reading", "closing"} -> IF begun THEN "body" ELSE "idle"
           [] OTHER -> IF failure = "none" THEN "ended" ELSE "failed"

Chunks == INSTANCE ChunkStream WITH
    stage <- Stage,
    open <- {i \in DOMAIN blocks : blocks[i].open},
    used <- DOMAIN blocks

\* Both adapters turn whatever the server sends into a well-formed stream of
\* chunks or a failure (Provider.stream; the chunk types of models/base.py).
ImplementsChunks == Chunks!Spec
=============================================================================
