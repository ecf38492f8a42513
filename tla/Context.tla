------------------------------- MODULE Context -------------------------------
(***************************************************************************)
(* The rolling compaction of a session's context: context/compaction.py,   *)
(* projector.py, grouping.py, assembler.py, and the parts of the run loop  *)
(* that call them.  The log is the only durable state; the messages of a   *)
(* session, the artifacts a run knows and the cumulative ContextState are  *)
(* projections of it.  A compaction reads the messages and the events      *)
(* after its cursor, waits for a summary model, and then replaces the      *)
(* older exchanges by one state message; approvals may be resolved and     *)
(* artifacts deleted while it waits, and the process may die.              *)
(*                                                                         *)
(* A message or an event is known by its position in the log.  Every       *)
(* message that reaches the model counts one token: large tool results     *)
(* have been replaced by previews of bounded size.                         *)
(***************************************************************************)
EXTENDS Naturals, Sequences, FiniteSets, SequencesExt

CONSTANTS Paths,        \* files that tools write, as positive numbers
          Capacity,     \* input_capacity of the request
          Target,       \* compaction_target_ratio of it
          TailBudget,   \* recent_tail_budget, less the reserve for the summary
          StateLimit,   \* summary_max_tokens, in facts and artifacts
          FieldLimit,   \* facts kept of each field: 64 in the code
          LargeCalls,   \* calls whose results are stored as artifacts
          MaxEntries,   \* bound: events of the log
          MaxTurns,     \* bound: requests and answers of the model
          MaxCalls,     \* bound: tool calls
          MaxApprovals  \* bound: approvals

VARIABLES history,      \* the events of the session
          known,        \* recorded_artifacts of the run, by the call whose result they hold
          inflight,     \* the compaction that waits for its summary
          evicted       \* history: facts that the bound of the state has dropped

contextVars == <<history, known, inflight, evicted>>

ASSUME ContextAssumption ==
    /\ IsFiniteSet(Paths) /\ StateLimit \in Nat /\ FieldLimit \in Nat
    /\ MaxCalls \in Nat /\ MaxApprovals \in Nat

Calls == 1 .. MaxCalls
Approvals == 1 .. MaxApprovals
NoPath == 0

\* Objectives: none yet, the position of a request, or words of the model.
NoObjective == 0
ModelWords == MaxEntries + 1

Idle == [open |-> FALSE]

\* A fact of the state: its field, its stable key, and the last event it rests
\* on (observed_seq), 0 if none is known.
Fact(field, key, seqs) ==
    [field |-> field, key |-> key, seq |-> IF seqs = {} THEN 0 ELSE Max(seqs)]

NoState == [facts |-> {}, artifacts |-> {}, objective |-> NoObjective, cursor |-> 0]
-----------------------------------------------------------------------------
(* The messages of a session.                                              *)

Message(i, e) ==
    [id |-> i, kind |-> e.type,
     calls |-> IF e.type = "assistant" THEN e.calls ELSE {},
     results |-> IF e.type = "result" THEN e.calls ELSE {}]

\* The messages at the positions P, in their order.
At(ms, P) ==
    [k \in 1 .. Cardinality(P) |->
        ms[CHOOSE p \in P : Cardinality({q \in P : q <= p}) = k]]

\* Mutant: a compaction leaves its newest replaced message in place.
ProjectKeepingLast(view, i, e) ==
    CASE e.type \in {"user", "assistant", "result"} -> Append(view, Message(i, e))
      [] e.type = "compaction" ->
            LET old == {k \in DOMAIN view : view[k].id \in e.replaced} IN
            IF old = {} THEN view
            ELSE InsertAt(At(view, (DOMAIN view \ old) \cup {Max(old)}),
                          Min(old), Message(i, e))
      [] OTHER -> view

\* project_messages, for one event.
Project(view, i, e) ==
    CASE e.type \in {"user", "assistant", "result"} -> Append(view, Message(i, e))
      [] e.type = "compaction" ->
            LET old == {k \in DOMAIN view : view[k].id \in e.replaced} IN
            IF old = {} THEN view
            ELSE InsertAt(At(view, DOMAIN view \ old), Min(old), Message(i, e))
      [] OTHER -> view

\* The messages after the first n events.
Projected[n \in 0 .. Len(history)] ==
    IF n = 0 THEN <<>> ELSE Project(Projected[n - 1], n, history[n])

View == Projected[Len(history)]

\* The messages among them that no compaction wrote.
Raw(ms) == At(ms, {k \in DOMAIN ms : ms[k].kind # "compaction"})

CallsOf(ms) == UNION {m.calls : m \in ToSet(ms)}
ResultsOf(ms) == UNION {m.results : m \in ToSet(ms)}

\* orphan_tool_calls
Open == CallsOf(View) \ ResultsOf(View)

\* Positions at which group_tool_exchanges starts a group: every call before
\* has its result before.
GroupStarts(ms) ==
    {k \in DOMAIN ms : CallsOf(SubSeq(ms, 1, k - 1)) \subseteq ResultsOf(SubSeq(ms, 1, k - 1))}

\* The newest n groups.
Newest(ms, n) ==
    LET start == CHOOSE k \in GroupStarts(ms) :
                    Cardinality({j \in GroupStarts(ms) : j >= k}) = n
    IN  SubSeq(ms, start, Len(ms))
-----------------------------------------------------------------------------
(* Projection of events into facts.  `events` is a set of positions.       *)

EventsOf(type, S) == {i \in S : history[i].type = type}

\* _recorded_artifacts
Recorded(S) ==
    {history[i].call : i \in {j \in EventsOf("created", S) :
        ~\E k \in EventsOf("deleted", S) : k > j /\ history[k].call = history[j].call}}

ResultOf(c, S) == {i \in EventsOf("result", S) : c \in history[i].calls}
CallOf(c, S) == {i \in EventsOf("assistant", S) : c \in history[i].calls}
CompletionOf(c, S) == {i \in EventsOf("completed", S) : history[i].call = c}

\* Call c left a trace among the events S: it completed, or was refused.
Ended(c, S) == CompletionOf(c, S) # {} \/ (ResultOf(c, S) # {} /\ CallOf(c, S) # {})

Failed(c, S) == \E i \in CompletionOf(c, S) \cup ResultOf(c, S) : history[i].error

\* The events that a fact about call c rests on.
Evidence(c, S) == CompletionOf(c, S) \cup ResultOf(c, S) \cup CallOf(c, S)

\* _project_tool_completion, for all calls of the events S: a failure, the last
\* write of each file, a check that passed.
ToolFacts(prior, S) ==
    LET good == {c \in Calls : Ended(c, S) /\ ~Failed(c, S)}
        failures == {Fact("failures", c, Evidence(c, S)) :
                        c \in {d \in Calls : Ended(d, S) /\ Failed(d, S)}}
        verified == {Fact("verified", c, Evidence(c, S)) :
                        c \in {d \in good : \E i \in CompletionOf(d, S) : history[i].verified}}
        writes(p) == {i \in EventsOf("completed", S) :
                         history[i].call \in good /\ history[i].path = p}
        files == {Fact("files", p, Evidence(history[Max(writes(p))].call, S)) :
                        p \in {q \in Paths : writes(q) # {}}}
        new == failures \cup verified \cup files
    IN  {f \in prior : ~\E g \in new : g.field = f.field /\ g.key = f.key} \cup new

\* _project_approvals
ApprovalFacts(prior, S) ==
    LET closed == {history[i].approval : i \in EventsOf("resolved", S)}
        asked == {Fact("pending_approvals", history[i].approval, {i}) :
                     i \in EventsOf("requested", S)}
    IN  {f \in prior \cup asked : f.field # "pending_approvals" \/ f.key \notin closed}

\* _project_artifact_events, then the artifacts of the assembled context that
\* no event of S deletes.
ArtifactsOf(prior, S, assembled) ==
    LET gone == {history[i].call : i \in EventsOf("deleted", S)}
        again == Recorded(S)
    IN  ((prior \cup assembled) \ gone) \cup again

UserTexts(ms) == {m.id : m \in {n \in ToSet(ms) : n.kind = "user"}}

\* The objective: the latest request among the messages, else what the summary
\* model says it is, else the prior one.
Objective(raw, prior, notes) ==
    IF UserTexts(raw) # {} THEN Max(UserTexts(raw))
    ELSE IF notes # {} THEN ModelWords
    ELSE prior

\* Facts that the summary model adds; their evidence is the first and the last
\* message it summarised, if the events read hold them.
Enrichment(notes, omitted, S) ==
    {Fact("decisions", n, {Head(omitted).id, Last(omitted).id} \cap S) : n \in notes}

\* Mutant: the cursor is the last event of the log when the state is made.
ProjectStateNow(prior, S, raw, omitted, notes, assembled) ==
    [facts |-> ApprovalFacts(ToolFacts(prior.facts, S), S)
               \cup Enrichment(notes, omitted, S),
     artifacts |-> ArtifactsOf(prior.artifacts, S, assembled),
     objective |-> Objective(raw, prior.objective, notes),
     cursor |-> Len(history)]

\* project_context_state: the state of `prior` advanced by the events S.
ProjectState(prior, S, raw, omitted, notes, assembled) ==
    [facts |-> ApprovalFacts(ToolFacts(prior.facts, S), S)
               \cup Enrichment(notes, omitted, S),
     artifacts |-> ArtifactsOf(prior.artifacts, S, assembled),
     objective |-> Objective(raw, prior.objective, notes),
     cursor |-> IF S = {} THEN prior.cursor ELSE Max(S)]
-----------------------------------------------------------------------------
(* The bound of the state.                                                 *)

Tier(f) == CASE f.field \in {"failures", "verified", "files"} -> 1
             [] f.field = "decisions" -> 2
             [] f.field = "pending_approvals" -> 3

FieldIndex(f) == CASE f.field = "failures" -> 1
                   [] f.field = "verified" -> 2
                   [] OTHER -> 3

\* The order of eviction: cheapest tier, then oldest, then the field's index.
Sooner(f, g) ==
    \/ Tier(f) < Tier(g)
    \/ Tier(f) = Tier(g) /\ f.seq < g.seq
    \/ Tier(f) = Tier(g) /\ f.seq = g.seq /\ FieldIndex(f) < FieldIndex(g)

\* Mutant: oldest first, whatever the tier.
BoundByAge(state) ==
    LET room == IF StateLimit > Cardinality(state.artifacts)
                THEN StateLimit - Cardinality(state.artifacts) ELSE 0
    IN  [state EXCEPT !.facts =
            {f \in @ : Cardinality({g \in @ : g.seq > f.seq}) < room}]

\* _bound_state
Bound(state) ==
    LET clipped == {f \in state.facts :
                       Cardinality({g \in state.facts : g.field = f.field /\ g.seq > f.seq})
                           < FieldLimit}
        room == IF StateLimit > Cardinality(state.artifacts)
                THEN StateLimit - Cardinality(state.artifacts) ELSE 0
    IN  [state EXCEPT !.facts =
            {f \in clipped : Cardinality({g \in clipped : Sooner(f, g)}) < room}]
-----------------------------------------------------------------------------
Room(n) == Len(history) + n <= MaxEntries
Running == ~inflight.open

ContextInit ==
    /\ history = <<>>
    /\ known = {}
    /\ inflight = Idle
    /\ evicted = {}

Turns == Cardinality(EventsOf("user", DOMAIN history) \cup EventsOf("assistant", DOMAIN history))

Emit(es) == Room(Len(es)) /\ history' = history \o es

\* A run starts: its request, and the repair of calls whose run was lost.
StartRun ==
    /\ Running /\ Turns < MaxTurns
    /\ Emit(<<[type |-> "user"]>>
            \o IF Open = {} THEN <<>>
               ELSE <<[type |-> "result", calls |-> Open, error |-> TRUE]>>)
    /\ known' = Recorded(DOMAIN history)
    /\ UNCHANGED <<inflight, evicted>>

\* A suspended run resumes.
ResumeRun ==
    /\ Running /\ Open # {}
    /\ known' = Recorded(DOMAIN history)
    /\ UNCHANGED <<history, inflight, evicted>>

Proposed == UNION {history[i].calls : i \in EventsOf("assistant", DOMAIN history)}

\* The model answers, with the next tool calls or with none.
Answer(n) ==
    /\ Running /\ Open = {} /\ history # <<>> /\ Turns < MaxTurns
    /\ Cardinality(Proposed) + n <= MaxCalls
    /\ Emit(<<[type |-> "assistant",
               calls |-> Cardinality(Proposed) + 1 .. Cardinality(Proposed) + n]>>)
    /\ UNCHANGED <<known, inflight, evicted>>

\* tool.completed: the call failed, wrote a file, or was a check that passed.
Complete(c) ==
    /\ Running /\ c \in Open /\ CompletionOf(c, DOMAIN history) = {}
    /\ \E o \in [error : {TRUE}, path : {NoPath}, verified : {FALSE}]
                \cup [error : {FALSE}, path : Paths, verified : {FALSE}]
                \cup [error : {FALSE}, path : {NoPath}, verified : {TRUE}] :
          Emit(<<[type |-> "completed", call |-> c, error |-> o.error, path |-> o.path,
                  verified |-> o.verified]>>)
    /\ UNCHANGED <<known, inflight, evicted>>

\* The result message of a call, in the order of the calls; a call that never
\* completed was refused.
Commit(c) ==
    /\ Running /\ Open # {} /\ c = Min(Open)
    /\ Emit(<<[type |-> "result", calls |-> {c},
               error |-> \A i \in CompletionOf(c, DOMAIN history) : history[i].error]>>)
    /\ UNCHANGED <<known, inflight, evicted>>

Requested == {history[i].approval : i \in EventsOf("requested", DOMAIN history)}
Resolved == {history[i].approval : i \in EventsOf("resolved", DOMAIN history)}

Ask(a) ==
    /\ Running /\ Open # {} /\ a \notin Requested
    /\ Emit(<<[type |-> "requested", approval |-> a]>>)
    /\ UNCHANGED <<known, inflight, evicted>>

\* By the client, also while a compaction waits.
Resolve(a) ==
    /\ a \in Requested \ Resolved
    /\ Emit(<<[type |-> "resolved", approval |-> a]>>)
    /\ UNCHANGED <<known, inflight, evicted>>

\* ArtifactLifecycle.delete, by the application, also while a compaction waits.
Delete(c) ==
    /\ c \in Recorded(DOMAIN history)
    /\ Emit(<<[type |-> "deleted", call |-> c]>>)
    /\ UNCHANGED <<known, inflight, evicted>>

\* materialize: the artifacts of the large results among the messages.
Materialized(ms) ==
    {c \in ResultsOf(ms) \cap LargeCalls : CompletionOf(c, DOMAIN history) # {}}

Created(calls) == [i \in 1 .. Cardinality(calls) |->
                      [type |-> "created", call |-> SetToSeq(calls)[i]]]

\* A request that needs no compaction: its new artifacts become durable.
Request ==
    /\ Running /\ Open = {}
    /\ Materialized(View) \ known # {}
    /\ Emit(Created(Materialized(View) \ known))
    /\ known' = known \cup Materialized(View)
    /\ UNCHANGED <<inflight, evicted>>

\* _previous_context_state: the last of the state messages counts.
Previous(summaries) == IF summaries = {} THEN NoState ELSE history[Max(summaries)].state

\* compact, up to the wait for the summary: the run loop has no open calls
\* here.  It needs two groups besides the state messages.
BeginCompact ==
    LET summaries == EventsOf("compaction", {i \in DOMAIN history : \E m \in ToSet(View) : m.id = i})
        raw == Raw(View)
        prior == Previous(summaries)
    IN
    /\ Running /\ Open = {}
    /\ Cardinality(GroupStarts(raw)) >= 2
    /\ inflight' = [open |-> TRUE, raw |-> raw, prior |-> prior, summaries |-> summaries,
                    delta |-> {i \in DOMAIN history : i > prior.cursor},
                    artifacts |-> known \cup Materialized(raw)]
    /\ UNCHANGED <<history, known, evicted>>

\* _initial_tail_indexes: the newest groups that fit the tail budget, at least
\* one, and never all.
InitialTail(raw) ==
    LET n == Cardinality(GroupStarts(raw))
        fit == {k \in 1 .. n : k = 1 \/ Len(Newest(raw, k)) <= TailBudget}
    IN  IF Max(fit) = n THEN n - 1 ELSE Max(fit)

Omitted(raw, n) == SubSeq(raw, 1, Len(raw) - Len(Newest(raw, n)))

\* The state when the newest n groups are retained, before and after its bound.
Unbounded(n, notes) ==
    ProjectState(inflight.prior, inflight.delta, inflight.raw, Omitted(inflight.raw, n),
                 notes, inflight.artifacts)

\* _full_tokens of the candidate request.
Tokens(n, notes) ==
    LET state == Bound(Unbounded(n, notes))
    IN  Cardinality(state.facts) + Cardinality(state.artifacts) + Len(Newest(inflight.raw, n))

\* The groups retained: as many of the initial tail as reach the target, at
\* least one.
Retained(notes) ==
    LET tail == InitialTail(inflight.raw)
    IN  Max({1} \cup {n \in 1 .. tail : Tokens(n, notes) <= Target})

\* The summary arrives, with notes of the model or without (a generator that
\* fails is replaced by the deterministic one); the record and the new
\* artifacts are appended together.
FinishCompact ==
    /\ inflight.open
    /\ \E notes \in {{}, {Max(inflight.delta \cup {0})}} :
          LET n == Retained(notes)
              fresh == inflight.artifacts \ known
              state == Bound(Unbounded(n, notes))
          IN
          /\ Tokens(n, notes) <= Capacity
          /\ Emit(Created(fresh)
                  \o <<[type |-> "compaction", state |-> state,
                        replaced |-> inflight.summaries
                                     \cup {m.id : m \in ToSet(Omitted(inflight.raw, n))}]>>)
          /\ evicted' = evicted \cup (Unbounded(n, notes).facts \ state.facts)
    /\ known' = known \cup inflight.artifacts
    /\ inflight' = Idle

\* The run is cancelled, fails or dies while the compaction waits.
LoseCompact ==
    /\ inflight.open
    /\ inflight' = Idle
    /\ UNCHANGED <<history, known, evicted>>

ContextNext ==
    \/ StartRun \/ ResumeRun \/ \E n \in 0 .. 2 : Answer(n)
    \/ \E c \in Calls : Complete(c) \/ Commit(c) \/ Delete(c)
    \/ \E a \in Approvals : Ask(a) \/ Resolve(a)
    \/ Request \/ BeginCompact \/ FinishCompact \/ LoseCompact

ContextSpec == ContextInit /\ [][ContextNext]_contextVars
-----------------------------------------------------------------------------
Compactions == EventsOf("compaction", DOMAIN history)

\* The state in force, and the events it covers.
State == history[Max(Compactions)].state
Covered == {i \in DOMAIN history : i <= State.cursor}

\* A state that was advanced over several compactions says what one projection
\* of all the events it covers would say, about files, checks, failures and
\* pending approvals, except for facts that its bound has dropped; and its
\* objective is the latest request of the user among them, or in the words of
\* the summary model (project_context_state with previous and the events after
\* its cursor, _latest_user_objective).
RollingStateIsExact ==
    Compactions # {} =>
        LET rolling == {f \in State.facts : f.field # "decisions"}
            full == ApprovalFacts(ToolFacts({}, Covered), Covered)
        IN  /\ rolling \subseteq full
            /\ full \ rolling \subseteq evicted
            /\ State.objective \in {ModelWords, Max(EventsOf("user", Covered))}

\* The messages that reach the model never hold a tool result without its call
\* before it, nor a call without the result that the log has for it
\* (group_tool_exchanges, the retained groups of compact, project_messages).
ExchangesStayWhole ==
    LET view == View IN
    /\ \A k \in DOMAIN view : view[k].results \subseteq CallsOf(SubSeq(view, 1, k - 1))
    /\ \A c \in CallsOf(view) : ResultOf(c, DOMAIN history) # {} => c \in ResultsOf(view)

\* The bound of the state drops a pending approval only when nothing else is
\* left to drop (_EVICTION_TIERS).
ApprovalsGoLast ==
    [][\A f \in evicted' \ evicted :
          f.field = "pending_approvals" =>
              \A g \in State'.facts : g.field = "pending_approvals"]_contextVars
=============================================================================
