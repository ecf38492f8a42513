---------------------------- MODULE Context_proofs ----------------------------
(***************************************************************************)
(* Proofs about Context, for any log, bound of the state and budget of the *)
(* tail.  ContextInv: states hold finitely many facts, and approvals       *)
(* rest on their one request; so they are the last facts to be dropped.    *)
(* ViewInv: the messages are a state message and then those of the log     *)
(* from one position on, before which every exchange is closed; so they    *)
(* hold whole exchanges, over any sequence of compactions.  StateInv: the  *)
(* state in force says what one projection of the events it covers says,   *)
(* but for what its bound has dropped.                                     *)
(***************************************************************************)
EXTENDS Context, FiniteSetTheorems, SequenceTheorems, NaturalsInduction,
        WellFoundedInduction, TLAPS

-----------------------------------------------------------------------------
(* The facts of a state, and approvals.                                    *)

\* A session asks for no more approvals than the state keeps facts of one field.
FewApprovals == MaxApprovals <= FieldLimit

Fields == {"failures", "verified", "files", "decisions", "pending_approvals"}

\* The requests for approval, of which each approval has one.
Asked == EventsOf("requested", DOMAIN history)
OnceAsked ==
    /\ \A i \in Asked : history[i].approval \in Approvals
    /\ \A i, j \in Asked : history[i].approval = history[j].approval => i = j

\* A state has finitely many facts; a pending approval rests on its request.
PendingFacts == {Fact("pending_approvals", history[i].approval, {i}) : i \in Asked}
FactsFit(facts) ==
    /\ IsFiniteSet(facts)
    /\ \A f \in facts : /\ f.field \in Fields
                        /\ f.field = "pending_approvals" => f \in PendingFacts
StateFits(state) == FactsFit(state.facts) /\ IsFiniteSet(state.artifacts)

ContextInv ==
    /\ \E S : history \in Seq(S)
    /\ OnceAsked
    /\ IsFiniteSet(known)
    /\ \A i \in Compactions : StateFits(history[i].state)
    /\ inflight.open => /\ StateFits(inflight.prior)
                        /\ inflight.delta \subseteq DOMAIN history
                        /\ IsFiniteSet(inflight.artifacts)
-----------------------------------------------------------------------------
USE ContextAssumption

LEMMA ImageIsFinite ==
    ASSUME NEW f, IsFiniteSet(DOMAIN f)
    PROVE  IsFiniteSet({f[x] : x \in DOMAIN f})
<1> DEFINE T == {f[x] : x \in DOMAIN f}
           g == [x \in DOMAIN f |-> f[x]]
<1>1. g \in Surjection(DOMAIN f, T)
  BY DEF Surjection
<1> QED
  BY <1>1, FS_Surjection

\* What a projection of the log gathers is finite.
LEMMA HistoryIsFinite ==
    ASSUME NEW S, history \in Seq(S)
    PROVE  /\ DOMAIN history = 1 .. Len(history) /\ Len(history) \in Nat
           /\ IsFiniteSet(DOMAIN history)
BY FS_Interval

\* A set of positions has a last one.
LEMMA LastOf ==
    ASSUME NEW n \in Nat, NEW S, S \subseteq 1 .. n, S # {}
    PROVE  Max(S) \in S /\ \A x \in S : x <= Max(S)
<1> DEFINE R == {p \in Nat \X Nat : p[1] < p[2]}
           above == {m \in Nat : \A x \in S : x <= m}
<1>1. IsWellFoundedOn(R, Nat)
  BY NatLessThanWellFounded DEF OpToRel
<1>2. above \subseteq Nat /\ n \in above
  OBVIOUS
<1> HIDE DEF R
<1>3. PICK m \in above : \A k \in above : <<k, m>> \notin R
  BY <1>1, <1>2, WFMin
<1>4. \A k \in above : ~(k < m)
  BY <1>2, <1>3, Zenon DEF R
<1>5. m \in S
  <2>1. SUFFICES ASSUME m \notin S PROVE FALSE
    OBVIOUS
  <2>2. \A x \in S : x \in Nat \ {0} /\ x < m
    BY <1>3, <2>1
  <2> PICK z \in S : TRUE
    OBVIOUS
  <2>3. m \in Nat /\ m - 1 \in Nat /\ \A x \in S : x <= m - 1
    <3>1. m \in Nat
      BY <1>3
    <3> HIDE DEF above
    <3> QED
      BY <2>2, <3>1
  <2>4. m - 1 \in above
    BY <2>3
  <2> QED
    BY <1>4, <2>3, <2>4
<1>6. \A x \in S : m >= x /\ x <= m
  BY <1>3
<1>7. \A x \in S : (\A y \in S : x >= y) => x = m
  BY <1>5, <1>6
<1>8. Max(S) = m
  BY <1>5, <1>6, <1>7 DEF Max
<1> QED
  BY <1>5, <1>6, <1>8

\* The log grows at its end.
LEMMA Grown ==
    ASSUME NEW S, history \in Seq(S), NEW T, NEW es \in Seq(T), Emit(es)
    PROVE  /\ history' \in Seq(S \cup T)
           /\ Len(history') = Len(history) + Len(es) /\ DOMAIN history' = 1 .. Len(history')
           /\ DOMAIN history = 1 .. Len(history)
           /\ \A i \in DOMAIN history : history'[i] = history[i]
           /\ \A i \in DOMAIN history' :
                 i \in DOMAIN history \/ \E k \in DOMAIN es : i = Len(history) + k /\ history'[i] = es[k]
<1>1. history' = history \o es
  BY DEF Emit
<1>2. history \in Seq(S \cup T) /\ es \in Seq(S \cup T)
  OBVIOUS
<1>3. history' \in Seq(S \cup T) /\ Len(history') = Len(history) + Len(es)
  BY <1>1, <1>2
<1>4. DOMAIN history' = 1 .. Len(history') /\ DOMAIN history = 1 .. Len(history)
      /\ DOMAIN es = 1 .. Len(es) /\ Len(history) \in Nat /\ Len(es) \in Nat
  BY <1>3
<1>5. ASSUME NEW i \in DOMAIN history PROVE history'[i] = history[i]
  BY <1>1, <1>2, <1>4
<1>6. ASSUME NEW i \in DOMAIN history', i \notin DOMAIN history
      PROVE  \E k \in DOMAIN es : i = Len(history) + k /\ history'[i] = es[k]
  <2>1. i - Len(history) \in DOMAIN es /\ i = Len(history) + (i - Len(history))
    BY <1>3, <1>4, <1>6
  <2>2. history'[i] = es[i - Len(history)]
    BY <1>1, <1>2, <1>4, <1>6, <2>1
  <2> QED
    BY <2>1, <2>2
<1> QED
  BY <1>3, <1>4, <1>5, <1>6

\* The same, under a name.
Extends(es, S, T) ==
    /\ history' \in Seq(S \cup T)
    /\ Len(history') = Len(history) + Len(es) /\ DOMAIN history' = 1 .. Len(history')
    /\ DOMAIN history = 1 .. Len(history)
    /\ \A i \in DOMAIN history : history'[i] = history[i]
    /\ \A i \in DOMAIN history' :
          i \in DOMAIN history \/ \E k \in DOMAIN es : i = Len(history) + k /\ history'[i] = es[k]

LEMMA Longer ==
    ASSUME NEW S, history \in Seq(S), NEW T, NEW es \in Seq(T), Emit(es)
    PROVE  Extends(es, S, T)
BY Grown DEF Extends

\* The state fits as the log grows by events that ask for nothing twice and that
\* record no state but one that fits.
LEMMA GrownKeeps ==
    ASSUME ContextInv, NEW T, NEW es \in Seq(T), Emit(es),
           \A k \in DOMAIN es : es[k].type = "requested" =>
               /\ es[k].approval \in Approvals
               /\ \A i \in Asked : history[i].approval # es[k].approval,
           \A k, l \in DOMAIN es :
               es[k].type = "requested" /\ es[l].type = "requested" => k = l
    PROVE  /\ \E S : history' \in Seq(S)
           /\ OnceAsked'
           /\ Asked \subseteq Asked' /\ \A i \in Asked : history'[i] = history[i]
           /\ PendingFacts \subseteq PendingFacts'
           /\ \A s : StateFits(s) => StateFits(s)'
           /\ \A i \in Compactions' :
                 \/ i \in Compactions /\ history'[i] = history[i]
                 \/ \E k \in DOMAIN es : es[k].type = "compaction" /\ history'[i] = es[k]
           /\ DOMAIN history \subseteq DOMAIN history'
<1> PICK S : history \in Seq(S)
  BY DEF ContextInv
<1>1. /\ history' \in Seq(S \cup T)
      /\ DOMAIN history' = 1 .. Len(history') /\ DOMAIN history = 1 .. Len(history)
      /\ Len(history') = Len(history) + Len(es)
      /\ \A i \in DOMAIN history : history'[i] = history[i]
      /\ \A i \in DOMAIN history' :
            i \in DOMAIN history \/ \E k \in DOMAIN es : i = Len(history) + k /\ history'[i] = es[k]
  <2>1. Extends(es, S, T)
    BY Longer
  <2> QED
    BY <2>1 DEF Extends
<1>2. DOMAIN history \subseteq DOMAIN history'
  BY <1>1
<1>3. Asked \subseteq Asked' /\ \A i \in Asked : history'[i] = history[i]
  BY <1>1, <1>2 DEF Asked, EventsOf
<1>4. OnceAsked'
  <2>1. ASSUME NEW i \in Asked', i \notin Asked
        PROVE  \E k \in DOMAIN es : /\ i = Len(history) + k /\ history'[i] = es[k]
                                    /\ es[k].type = "requested"
    BY <1>1, <2>1 DEF Asked, EventsOf
  <2>2. ASSUME NEW i \in Asked' PROVE history'[i].approval \in Approvals
    BY <1>3, <2>1 DEF OnceAsked, ContextInv
  <2>3. ASSUME NEW i \in Asked, NEW j \in Asked', j \notin Asked
        PROVE  history'[i].approval # history'[j].approval
    <3>1. PICK k \in DOMAIN es : history'[j] = es[k] /\ es[k].type = "requested"
      BY <2>1, <2>3
    <3>2. history[i].approval # es[k].approval
      BY <2>3, <3>1
    <3> QED
      BY <1>3, <2>3, <3>1, <3>2
  <2>4. ASSUME NEW i \in Asked', NEW j \in Asked', history'[i].approval = history'[j].approval
        PROVE  i = j
    <3>1. CASE i \in Asked /\ j \in Asked
      BY <1>3, <2>4, <3>1 DEF OnceAsked, ContextInv
    <3>2. CASE i \in Asked /\ j \notin Asked
      BY <2>3, <2>4, <3>2
    <3>3. CASE i \notin Asked /\ j \in Asked
      BY <2>3, <2>4, <3>3
    <3>4. CASE i \notin Asked /\ j \notin Asked
      BY <2>1, <3>4
    <3> QED
      BY <3>1, <3>2, <3>3, <3>4
  <2> QED
    BY <2>2, <2>4 DEF OnceAsked
<1>5. PendingFacts \subseteq PendingFacts'
  BY <1>3 DEF PendingFacts
<1>6. ASSUME NEW s, StateFits(s) PROVE StateFits(s)'
  BY <1>5, <1>6 DEF StateFits, FactsFit
<1>7. \A i \in Compactions' :
         \/ i \in Compactions /\ history'[i] = history[i]
         \/ \E k \in DOMAIN es : es[k].type = "compaction" /\ history'[i] = es[k]
  BY <1>1 DEF Compactions, EventsOf
<1> QED
  BY <1>1, <1>2, <1>3, <1>4, <1>5, <1>6, <1>7

\* What the projections of the log gather is finite.
LEMMA ValuesAreFinite ==
    ASSUME ContextInv, NEW S, S \subseteq DOMAIN history
    PROVE  /\ IsFiniteSet(S)
           /\ IsFiniteSet(Recorded(S))
           /\ IsFiniteSet({history[i].call : i \in S})
<1>1. IsFiniteSet(S)
  BY HistoryIsFinite, FS_Subset DEF ContextInv
<1>2. IsFiniteSet({history[i].call : i \in S})
  <2> DEFINE f == [i \in S |-> history[i].call]
  <2>1. IsFiniteSet({f[i] : i \in DOMAIN f})
    BY <1>1, ImageIsFinite
  <2>2. {f[i] : i \in DOMAIN f} = {history[i].call : i \in S}
    OBVIOUS
  <2> QED
    BY <2>1, <2>2
<1>3. Recorded(S) \subseteq {history[i].call : i \in S}
  BY DEF Recorded, EventsOf
<1> QED
  BY <1>1, <1>2, <1>3, FS_Subset

LEMMA MaterializedIsFinite ==
    ASSUME ContextInv, NEW ms
    PROVE  IsFiniteSet(Materialized(ms))
<1>1. Materialized(ms) \subseteq {history[i].call : i \in DOMAIN history}
  BY DEF Materialized, CompletionOf, EventsOf
<1> QED
  BY <1>1, ValuesAreFinite, FS_Subset

LEMMA CreatedIs ==
    ASSUME NEW calls, IsFiniteSet(calls)
    PROVE  \E T : /\ Created(calls) \in Seq(T)
                  /\ \A k \in DOMAIN Created(calls) : Created(calls)[k].type = "created"
<1> DEFINE n == Cardinality(calls)
           T == {[type |-> "created", call |-> SetToSeq(calls)[i]] : i \in 1 .. n}
<1>1. n \in Nat
  BY FS_CardinalityType
<1>2. Created(calls) = [i \in 1 .. n |-> [type |-> "created", call |-> SetToSeq(calls)[i]]]
  BY DEF Created
<1> HIDE DEF n
<1>3. Created(calls) \in [1 .. n -> T]
  BY <1>2
<1>4. Created(calls) \in Seq(T)
  BY <1>1, <1>3, SeqDef
<1>5. \A k \in DOMAIN Created(calls) : Created(calls)[k].type = "created"
  BY <1>2
<1> QED
  BY <1>4, <1>5
-----------------------------------------------------------------------------
(* The facts of a state.                                                   *)

LEMMA FactIs ==
    ASSUME NEW field, NEW key, NEW seqs
    PROVE  /\ Fact(field, key, seqs).field = field
           /\ Fact(field, key, seqs).key = key
BY DEF Fact

\* A request for approval is observed where it stands.
LEMMA PendingIs ==
    ASSUME ContextInv, NEW f \in PendingFacts
    PROVE  \E i \in Asked : /\ f = Fact("pending_approvals", history[i].approval, {i})
                            /\ f.key = history[i].approval /\ f.seq = i /\ i \in Nat
<1>1. PICK i \in Asked : f = Fact("pending_approvals", history[i].approval, {i})
  BY DEF PendingFacts
<1>2. i \in Nat
  BY HistoryIsFinite DEF ContextInv, Asked, EventsOf
<1>3. Max({i}) = i
  BY <1>2 DEF Max
<1>4. f.key = history[i].approval /\ f.seq = i
  BY <1>1, <1>3 DEF Fact
<1> QED
  BY <1>1, <1>2, <1>4

\* No more approvals are pending than there are.
LEMMA PendingAreFew ==
    ASSUME ContextInv, NEW P, P \subseteq PendingFacts
    PROVE  IsFiniteSet(P) /\ Cardinality(P) \in Nat /\ Cardinality(P) <= MaxApprovals
<1> DEFINE f == [p \in P |-> p.key]
<1>1. f \in [P -> Approvals]
  BY PendingIs DEF OnceAsked, ContextInv
<1>2. ASSUME NEW p \in P, NEW q \in P, f[p] = f[q] PROVE p = q
  <2>1. PICK i \in Asked : p = Fact("pending_approvals", history[i].approval, {i})
                           /\ p.key = history[i].approval
    BY PendingIs
  <2>2. PICK j \in Asked : q = Fact("pending_approvals", history[j].approval, {j})
                           /\ q.key = history[j].approval
    BY PendingIs
  <2>3. i = j
    BY <1>2, <2>1, <2>2 DEF OnceAsked, ContextInv
  <2> QED
    BY <2>1, <2>2, <2>3
<1>3. f \in Injection(P, Approvals)
  BY <1>1, <1>2 DEF Injection, IsInjective
<1>4. IsFiniteSet(Approvals) /\ Cardinality(Approvals) = MaxApprovals
  BY FS_Interval DEF Approvals
<1>5. IsFiniteSet(P) /\ Cardinality(P) <= MaxApprovals
  BY <1>3, <1>4, FS_Injection
<1> QED
  BY <1>5, FS_CardinalityType

\* Finitely many facts of one field.
LEMMA FieldFits ==
    ASSUME NEW f, IsFiniteSet(DOMAIN f), NEW field \in Fields \ {"pending_approvals"},
           \A x \in DOMAIN f : f[x].field = field
    PROVE  FactsFit({f[x] : x \in DOMAIN f})
BY ImageIsFinite DEF FactsFit

LEMMA BothFit ==
    ASSUME NEW F, NEW G, FactsFit(F), FactsFit(G)
    PROVE  FactsFit(F \cup G)
BY FS_Union DEF FactsFit

LEMMA SomeFit ==
    ASSUME NEW F, NEW G, FactsFit(F), G \subseteq F
    PROVE  FactsFit(G)
BY FS_Subset DEF FactsFit

LEMMA ToolFactsFit ==
    ASSUME ContextInv, NEW prior, FactsFit(prior), NEW S, S \subseteq DOMAIN history
    PROVE  FactsFit(ToolFacts(prior, S))
<1> DEFINE bad == {d \in Calls : Ended(d, S) /\ Failed(d, S)}
           good == {c \in Calls : Ended(c, S) /\ ~Failed(c, S)}
           checks == {d \in good : \E i \in CompletionOf(d, S) : history[i].verified}
           writes(p) == {i \in EventsOf("completed", S) :
                            history[i].call \in good /\ history[i].path = p}
           written == {q \in Paths : writes(q) # {}}
           f1 == [c \in bad |-> Fact("failures", c, Evidence(c, S))]
           f2 == [c \in checks |-> Fact("verified", c, Evidence(c, S))]
           f3 == [p \in written |-> Fact("files", p, Evidence(history[Max(writes(p))].call, S))]
           new == {f1[c] : c \in DOMAIN f1} \cup {f2[c] : c \in DOMAIN f2}
                  \cup {f3[p] : p \in DOMAIN f3}
<1>1. IsFiniteSet(bad) /\ IsFiniteSet(checks) /\ IsFiniteSet(written)
  <2>1. IsFiniteSet(Calls)
    BY FS_Interval DEF Calls
  <2> QED
    BY <2>1, FS_Subset
<1>2. new = {Fact("failures", c, Evidence(c, S)) : c \in bad}
            \cup {Fact("verified", c, Evidence(c, S)) : c \in checks}
            \cup {Fact("files", p, Evidence(history[Max(writes(p))].call, S)) : p \in written}
  <2>1. {f1[c] : c \in DOMAIN f1} = {Fact("failures", c, Evidence(c, S)) : c \in bad}
    OBVIOUS
  <2>2. {f2[c] : c \in DOMAIN f2} = {Fact("verified", c, Evidence(c, S)) : c \in checks}
    OBVIOUS
  <2>3. {f3[p] : p \in DOMAIN f3}
           = {Fact("files", p, Evidence(history[Max(writes(p))].call, S)) : p \in written}
    OBVIOUS
  <2> QED
    BY <2>1, <2>2, <2>3
<1>3. ToolFacts(prior, S) \subseteq prior \cup new
  BY <1>2 DEF ToolFacts
<1>4. /\ \A x \in DOMAIN f1 : f1[x].field = "failures"
      /\ \A x \in DOMAIN f2 : f2[x].field = "verified"
      /\ \A x \in DOMAIN f3 : f3[x].field = "files"
  BY FactIs
<1>5. DOMAIN f1 = bad /\ DOMAIN f2 = checks /\ DOMAIN f3 = written
  OBVIOUS
<1> HIDE DEF f1, f2, f3, bad, checks, written
<1>6. FactsFit({f1[x] : x \in DOMAIN f1}) /\ FactsFit({f2[x] : x \in DOMAIN f2})
      /\ FactsFit({f3[x] : x \in DOMAIN f3})
  BY <1>1, <1>4, <1>5, FieldFits DEF Fields
<1>7. FactsFit(new)
  BY <1>6, BothFit
<1> HIDE DEF new
<1>8. FactsFit(prior \cup new)
  BY <1>7, BothFit
<1> QED
  BY <1>3, <1>8, SomeFit

LEMMA ApprovalFactsFit ==
    ASSUME ContextInv, NEW prior, FactsFit(prior), NEW S, S \subseteq DOMAIN history
    PROVE  FactsFit(ApprovalFacts(prior, S))
<1> DEFINE D == EventsOf("requested", S)
           f == [i \in D |-> Fact("pending_approvals", history[i].approval, {i})]
           asked == {f[i] : i \in DOMAIN f}
<1>1. D \subseteq Asked /\ IsFiniteSet(D)
  <2>1. D \subseteq S /\ D \subseteq Asked
    BY DEF EventsOf, Asked
  <2> QED
    BY <2>1, ValuesAreFinite, FS_Subset
<1>2. asked = {Fact("pending_approvals", history[i].approval, {i}) : i \in D}
  OBVIOUS
<1>3. IsFiniteSet(asked)
  BY <1>1, ImageIsFinite
<1>4. asked \subseteq PendingFacts
  BY <1>1, <1>2 DEF PendingFacts
<1>5. ApprovalFacts(prior, S) \subseteq prior \cup asked
  BY <1>2 DEF ApprovalFacts
<1> HIDE DEF asked
<1>6. FactsFit(asked)
  <2>1. ASSUME NEW x \in PendingFacts PROVE x.field = "pending_approvals"
    <3>1. PICK i \in Asked : x = Fact("pending_approvals", history[i].approval, {i})
      BY DEF PendingFacts
    <3> QED
      BY <3>1 DEF Fact
  <2> QED
    BY <1>3, <1>4, <2>1 DEF FactsFit, Fields
<1>7. FactsFit(prior \cup asked)
  BY <1>6, BothFit
<1> QED
  BY <1>5, <1>7, SomeFit

\* The state that a compaction computes fits.
LEMMA UnboundedFits ==
    ASSUME ContextInv, inflight.open, NEW n, NEW notes, IsFiniteSet(notes)
    PROVE  StateFits(Unbounded(n, notes))
<1> DEFINE prior == inflight.prior
           S == inflight.delta
           omitted == Omitted(inflight.raw, n)
           f == [k \in notes |-> Fact("decisions", k, {Head(omitted).id, Last(omitted).id} \cap S)]
           A == ApprovalFacts(ToolFacts(prior.facts, S), S)
           E == Enrichment(notes, omitted, S)
           G == ArtifactsOf(prior.artifacts, S, inflight.artifacts)
<1>1. FactsFit(prior.facts) /\ IsFiniteSet(prior.artifacts) /\ S \subseteq DOMAIN history
      /\ IsFiniteSet(inflight.artifacts)
  BY DEF ContextInv, StateFits
<1>2. FactsFit(A)
  BY <1>1, ToolFactsFit, ApprovalFactsFit
<1>3. FactsFit(E)
  <2>1. E = {f[k] : k \in DOMAIN f} /\ DOMAIN f = notes /\ \A k \in DOMAIN f : f[k].field = "decisions"
    BY FactIs DEF Enrichment
  <2> HIDE DEF f, E
  <2> QED
    BY <2>1, FieldFits DEF Fields
<1>4. IsFiniteSet(G)
  <2>1. IsFiniteSet(Recorded(S)) /\ IsFiniteSet(prior.artifacts \cup inflight.artifacts)
    BY <1>1, ValuesAreFinite, FS_Union
  <2>2. G \subseteq (prior.artifacts \cup inflight.artifacts) \cup Recorded(S)
    BY DEF ArtifactsOf
  <2> QED
    BY <2>1, <2>2, FS_Union, FS_Subset
<1>5. Unbounded(n, notes).facts = A \cup E /\ Unbounded(n, notes).artifacts = G
  BY DEF Unbounded, ProjectState
<1> HIDE DEF A, E, G
<1> QED
  BY <1>2, <1>3, <1>4, <1>5, BothFit DEF StateFits

\* The bound drops a pending approval only when it has dropped all the rest.
LEMMA ApprovalsLast ==
    ASSUME ContextInv, FewApprovals, NEW F, NEW A, NEW objective, NEW cursor,
           FactsFit(F), IsFiniteSet(A),
           NEW f \in F, f.field = "pending_approvals",
           NEW g, g \in Bound([facts |-> F, artifacts |-> A, objective |-> objective,
                               cursor |-> cursor]).facts,
           f \notin Bound([facts |-> F, artifacts |-> A, objective |-> objective,
                           cursor |-> cursor]).facts
    PROVE  g.field = "pending_approvals"
<1> DEFINE newer(e) == {h \in F : h.field = e.field /\ h.seq > e.seq}
           clipped == {e \in F : Cardinality(newer(e)) < FieldLimit}
           room == IF StateLimit > Cardinality(A) THEN StateLimit - Cardinality(A) ELSE 0
           later(e) == {h \in clipped : Sooner(e, h)}
           kept == {e \in clipped : Cardinality(later(e)) < room}
<1>1. Bound([facts |-> F, artifacts |-> A, objective |-> objective, cursor |-> cursor]).facts = kept
  BY DEF Bound
<1>2. room \in Nat
  <2>1. Cardinality(A) \in Nat
    BY FS_CardinalityType
  <2> QED
    BY <2>1
<1>3. f \in clipped
  <2> DEFINE P == {h \in F : h.field = "pending_approvals"}
  <2>1. P \subseteq PendingFacts
    BY DEF FactsFit
  <2>2. newer(f) \subseteq P \ {f}
    <3>1. f \in PendingFacts
      BY DEF FactsFit
    <3>2. f.seq \in Nat
      BY <3>1, PendingIs
    <3> QED
      BY <3>2
  <2>3. IsFiniteSet(P) /\ Cardinality(P) \in Nat /\ Cardinality(P) <= MaxApprovals
    BY <2>1, PendingAreFew
  <2>4. IsFiniteSet(P \ {f}) /\ Cardinality(P \ {f}) = Cardinality(P) - 1
    <3>1. f \in P
      OBVIOUS
    <3> HIDE DEF P
    <3> QED
      BY <2>3, <3>1, FS_RemoveElement
  <2>5. IsFiniteSet(newer(f)) /\ Cardinality(newer(f)) <= Cardinality(P \ {f})
    BY <2>2, <2>4, FS_Subset
  <2>6. Cardinality(newer(f)) \in Nat
    BY <2>5, FS_CardinalityType
  <2> HIDE DEF P, newer
  <2>7. Cardinality(newer(f)) < FieldLimit
    BY <2>3, <2>4, <2>5, <2>6 DEF FewApprovals
  <2> QED
    BY <2>7
<1> HIDE DEF room
<1>4. g \in clipped /\ Cardinality(later(g)) < room
  BY <1>1
<1>5. ~(Cardinality(later(f)) < room)
  BY <1>1, <1>3
<1>6. IsFiniteSet(clipped) /\ f.field \in Fields /\ g.field \in Fields
      /\ \A h \in clipped : h.field \in Fields
  BY <1>4, FS_Subset DEF FactsFit
<1>7. \A h \in clipped : Tier(h) \in {1, 2, 3} /\ (Tier(h) = 3 <=> h.field = "pending_approvals")
  BY <1>6 DEF Tier, Fields
<1> HIDE DEF clipped
<1>8. IsFiniteSet(later(f)) /\ IsFiniteSet(later(g))
  BY <1>6, FS_Subset
<1> SUFFICES ASSUME g.field # "pending_approvals" PROVE FALSE
  OBVIOUS
<1>9. later(f) \subseteq later(g)
  BY <1>3, <1>4, <1>7 DEF Sooner
<1>10. Cardinality(later(f)) <= Cardinality(later(g))
  BY <1>8, <1>9, FS_Subset
<1>11. Cardinality(later(f)) \in Nat /\ Cardinality(later(g)) \in Nat
  BY <1>8, FS_CardinalityType
<1> HIDE DEF later
<1> QED
  BY <1>2, <1>4, <1>5, <1>10, <1>11

-----------------------------------------------------------------------------
(* Steps.                                                                  *)

LEMMA ContextStarts == ContextInit => ContextInv
<1> SUFFICES ASSUME ContextInit PROVE ContextInv
  OBVIOUS
<1>1. history \in Seq({}) /\ DOMAIN history = {} /\ known = {} /\ ~inflight.open
  BY DEF ContextInit, Idle
<1> QED
  BY <1>1, FS_EmptySet DEF ContextInv, OnceAsked, Asked, Compactions, EventsOf

\* A step that appends only events of the types that concern neither states nor
\* requests for approval, or nothing at all.
Plain(e) == e.type \notin {"compaction", "requested"}

LEMMA PlainStep ==
    ASSUME ContextInv, NEW T, NEW es \in Seq(T), Emit(es), \A k \in DOMAIN es : Plain(es[k]),
           IsFiniteSet(known'), UNCHANGED inflight
    PROVE  ContextInv'
<1>1. /\ \E S : history' \in Seq(S)
      /\ OnceAsked'
      /\ \A s : StateFits(s) => StateFits(s)'
      /\ \A i \in Compactions' : i \in Compactions /\ history'[i] = history[i]
      /\ DOMAIN history \subseteq DOMAIN history'
  BY GrownKeeps DEF Plain
<1>2. \A i \in Compactions' : StateFits(history[i].state)'
  BY <1>1 DEF ContextInv
<1> QED
  BY <1>1, <1>2 DEF ContextInv

LEMMA PlainPair ==
    ASSUME NEW d, NEW e, Plain(d), Plain(e)
    PROVE  \E T : /\ <<d>> \o <<>> \in Seq(T) /\ <<d>> \o <<e>> \in Seq(T)
                  /\ \A k \in DOMAIN (<<d>> \o <<>>) : Plain((<<d>> \o <<>>)[k])
                  /\ \A k \in DOMAIN (<<d>> \o <<e>>) : Plain((<<d>> \o <<e>>)[k])
<1> DEFINE T == {d, e}
<1>1. <<d>> \in Seq(T) /\ <<e>> \in Seq(T) /\ <<>> \in Seq(T)
  OBVIOUS
<1>2. \A x \in T : Plain(x)
  OBVIOUS
<1> HIDE DEF T
<1>3. ASSUME NEW q \in Seq(T) PROVE \A k \in DOMAIN q : Plain(q[k])
  BY <1>2
<1>4. <<d>> \o <<>> \in Seq(T) /\ <<d>> \o <<e>> \in Seq(T)
  BY <1>1, ConcatProperties
<1> QED
  BY <1>3, <1>4, Zenon

LEMMA StartRunKeeps == ASSUME ContextInv, StartRun PROVE ContextInv'
<1> DEFINE user == [type |-> "user"]
           result == [type |-> "result", calls |-> Open, error |-> TRUE]
           es == <<user>> \o IF Open = {} THEN <<>> ELSE <<result>>
<1>1. Emit(es) /\ known' = Recorded(DOMAIN history) /\ UNCHANGED inflight
  BY DEF StartRun
<1>2. Plain(user) /\ Plain(result)
  BY DEF Plain
<1>3. es = <<user>> \o <<>> \/ es = <<user>> \o <<result>>
  OBVIOUS
<1> HIDE DEF user, result
<1>4. PICK T : /\ <<user>> \o <<>> \in Seq(T) /\ <<user>> \o <<result>> \in Seq(T)
               /\ \A k \in DOMAIN (<<user>> \o <<>>) : Plain((<<user>> \o <<>>)[k])
               /\ \A k \in DOMAIN (<<user>> \o <<result>>) : Plain((<<user>> \o <<result>>)[k])
  BY <1>2, PlainPair, Zenon
<1> HIDE DEF es
<1>5. es \in Seq(T) /\ \A k \in DOMAIN es : Plain(es[k])
  BY <1>3, <1>4, Zenon
<1>6. IsFiniteSet(known')
  BY <1>1, ValuesAreFinite
<1> QED
  BY <1>1, <1>5, <1>6, PlainStep

LEMMA PlainEvent ==
    ASSUME ContextInv, NEW e, Plain(e), Emit(<<e>>), UNCHANGED <<known, inflight>>
    PROVE  ContextInv'
<1>1. <<e>> \in Seq({e}) /\ \A k \in DOMAIN <<e>> : Plain(<<e>>[k])
  OBVIOUS
<1> QED
  BY <1>1, PlainStep DEF ContextInv

LEMMA AnswerKeeps == ASSUME ContextInv, NEW n, Answer(n) PROVE ContextInv'
BY PlainEvent DEF Answer, Plain

LEMMA CompleteKeeps == ASSUME ContextInv, NEW c, Complete(c) PROVE ContextInv'
<1>1. PICK o : Emit(<<[type |-> "completed", call |-> c, error |-> o.error, path |-> o.path,
                       verified |-> o.verified]>>)
  BY DEF Complete
<1> DEFINE e == [type |-> "completed", call |-> c, error |-> o.error, path |-> o.path,
                 verified |-> o.verified]
<1>2. Plain(e) /\ Emit(<<e>>) /\ UNCHANGED <<known, inflight>>
  BY <1>1 DEF Plain, Complete
<1> HIDE DEF e
<1> QED
  BY <1>2, PlainEvent

LEMMA CommitKeeps == ASSUME ContextInv, NEW c, Commit(c) PROVE ContextInv'
<1> DEFINE e == [type |-> "result", calls |-> {c},
                 error |-> \A i \in CompletionOf(c, DOMAIN history) : history[i].error]
<1>1. Plain(e) /\ Emit(<<e>>) /\ UNCHANGED <<known, inflight>>
  BY DEF Plain, Commit
<1> HIDE DEF e
<1> QED
  BY <1>1, PlainEvent

LEMMA ResolveKeeps == ASSUME ContextInv, NEW a, Resolve(a) PROVE ContextInv'
BY PlainEvent DEF Resolve, Plain

LEMMA DeleteKeeps == ASSUME ContextInv, NEW c, Delete(c) PROVE ContextInv'
BY PlainEvent DEF Delete, Plain

LEMMA ResumeKeeps == ASSUME ContextInv, ResumeRun PROVE ContextInv'
<1>1. IsFiniteSet(known')
  BY ValuesAreFinite DEF ResumeRun
<1>2. history' = history /\ inflight' = inflight
  BY DEF ResumeRun
<1>3. OnceAsked' /\ PendingFacts' = PendingFacts /\ Compactions' = Compactions
  BY <1>2 DEF ContextInv, OnceAsked, PendingFacts, Asked, Compactions, EventsOf
<1>4. \A s : StateFits(s) => StateFits(s)'
  BY <1>3 DEF StateFits, FactsFit
<1> QED
  BY <1>1, <1>2, <1>3, <1>4 DEF ContextInv

LEMMA RequestKeeps == ASSUME ContextInv, Request PROVE ContextInv'
<1> DEFINE new == Materialized(View) \ known
<1>1. IsFiniteSet(Materialized(View))
  BY MaterializedIsFinite
<1>2. IsFiniteSet(new) /\ IsFiniteSet(known')
  BY <1>1, FS_Subset, FS_Union DEF Request, ContextInv
<1>3. Emit(Created(new)) /\ UNCHANGED inflight
  BY DEF Request
<1> HIDE DEF new
<1>4. PICK T : Created(new) \in Seq(T) /\ \A k \in DOMAIN Created(new) : Created(new)[k].type = "created"
  BY <1>2, CreatedIs
<1>5. \A k \in DOMAIN Created(new) : Plain(Created(new)[k])
  BY <1>4 DEF Plain
<1> QED
  BY <1>2, <1>3, <1>4, <1>5, PlainStep

\* The next request for an approval is its first.
LEMMA AskKeeps == ASSUME ContextInv, NEW a \in Approvals, Ask(a) PROVE ContextInv'
<1> DEFINE e == [type |-> "requested", approval |-> a]
           es == <<e>>
<1>1. e.type = "requested" /\ e.approval = a
  OBVIOUS
<1>2. Emit(es) /\ UNCHANGED <<known, inflight>> /\ a \notin Requested
  BY DEF Ask
<1> HIDE DEF e
<1>3. es \in Seq({e}) /\ DOMAIN es = {1} /\ es[1] = e
  OBVIOUS
<1> HIDE DEF es
<1>4. \A i \in Asked : history[i].approval # a
  BY <1>2 DEF Requested, Asked
<1>5. /\ \E S : history' \in Seq(S)
      /\ OnceAsked'
      /\ \A s : StateFits(s) => StateFits(s)'
      /\ \A i \in Compactions' : i \in Compactions /\ history'[i] = history[i]
      /\ DOMAIN history \subseteq DOMAIN history'
  BY <1>1, <1>2, <1>3, <1>4, GrownKeeps
<1>6. \A i \in Compactions' : StateFits(history[i].state)'
  BY <1>5 DEF ContextInv
<1> QED
  BY <1>2, <1>5, <1>6 DEF ContextInv

\* The prior state is that of a compaction in the log, or empty.
LEMMA PriorFits ==
    ASSUME ContextInv, NEW summaries, summaries \subseteq Compactions
    PROVE  StateFits(Previous(summaries))
<1>1. CASE summaries = {}
  BY <1>1, FS_EmptySet DEF Previous, NoState, StateFits, FactsFit
<1>2. CASE summaries # {}
  <2>1. summaries \subseteq 1 .. Len(history) /\ Len(history) \in Nat
    BY HistoryIsFinite DEF ContextInv, Compactions, EventsOf
  <2>2. Max(summaries) \in summaries
    BY <1>2, <2>1, LastOf
  <2> QED
    BY <1>2, <2>2 DEF Previous, ContextInv
<1> QED
  BY <1>1, <1>2

LEMMA BeginKeeps == ASSUME ContextInv, BeginCompact PROVE ContextInv'
<1> DEFINE summaries == EventsOf("compaction",
                                 {i \in DOMAIN history : \E m \in ToSet(View) : m.id = i})
           raw == Raw(View)
           prior == Previous(summaries)
<1>1. /\ inflight' = [open |-> TRUE, raw |-> raw, prior |-> prior, summaries |-> summaries,
                      delta |-> {i \in DOMAIN history : i > prior.cursor},
                      artifacts |-> known \cup Materialized(raw)]
      /\ UNCHANGED <<history, known, evicted>>
  BY DEF BeginCompact
<1>2. summaries \subseteq Compactions
  BY DEF Compactions, EventsOf
<1> HIDE DEF summaries, raw
<1>3. StateFits(prior)
  BY <1>2, PriorFits
<1>4. IsFiniteSet(known \cup Materialized(raw))
  BY MaterializedIsFinite, FS_Union DEF ContextInv
<1> HIDE DEF prior
<1>5. StateFits(inflight'.prior) /\ inflight'.delta \subseteq DOMAIN history
      /\ IsFiniteSet(inflight'.artifacts)
  BY <1>1, <1>3, <1>4
<1>6. history' = history /\ known' = known
  BY <1>1
<1>7. OnceAsked' /\ PendingFacts' = PendingFacts /\ Compactions' = Compactions
  BY <1>6 DEF ContextInv, OnceAsked, PendingFacts, Asked, Compactions, EventsOf
<1>8. \A s : StateFits(s) => StateFits(s)'
  BY <1>7 DEF StateFits, FactsFit
<1> QED
  BY <1>5, <1>6, <1>7, <1>8 DEF ContextInv

LEMMA LoseKeeps == ASSUME ContextInv, LoseCompact PROVE ContextInv'
<1>1. history' = history /\ known' = known /\ ~inflight'.open
  BY DEF LoseCompact, Idle
<1>2. OnceAsked' /\ PendingFacts' = PendingFacts /\ Compactions' = Compactions
  BY <1>1 DEF ContextInv, OnceAsked, PendingFacts, Asked, Compactions, EventsOf
<1>3. \A s : StateFits(s) => StateFits(s)'
  BY <1>2 DEF StateFits, FactsFit
<1> QED
  BY <1>1, <1>2, <1>3 DEF ContextInv

LEMMA BoundFits ==
    ASSUME ContextInv, NEW F, NEW A, NEW objective, NEW cursor, FactsFit(F), IsFiniteSet(A)
    PROVE  StateFits(Bound([facts |-> F, artifacts |-> A, objective |-> objective,
                            cursor |-> cursor]))
<1> DEFINE s == [facts |-> F, artifacts |-> A, objective |-> objective, cursor |-> cursor]
<1>1. Bound(s).facts \subseteq F /\ Bound(s).artifacts = A
  BY DEF Bound
<1> HIDE DEF s
<1>2. FactsFit(Bound(s).facts)
  BY <1>1, SomeFit
<1> QED
  BY <1>1, <1>2 DEF StateFits, s

\* A compaction ends with one state message, behind the artifacts it names.
LEMMA CompactionStep ==
    ASSUME ContextInv, FinishCompact
    PROVE  \E n, notes, replaced :
              LET state == Bound(Unbounded(n, notes))
                  c == [type |-> "compaction", state |-> state, replaced |-> replaced]
                  fresh == inflight.artifacts \ known
              IN /\ IsFiniteSet(notes)
                 /\ Emit(Created(fresh) \o <<c>>)
                 /\ evicted' = evicted \cup (Unbounded(n, notes).facts \ state.facts)
<1>1. PICK notes \in {{}, {Max(inflight.delta \cup {0})}} :
         LET n == Retained(notes)
             fresh == inflight.artifacts \ known
             state == Bound(Unbounded(n, notes))
         IN
         /\ Tokens(n, notes) <= Capacity
         /\ Emit(Created(fresh)
                 \o <<[type |-> "compaction", state |-> state,
                       replaced |-> inflight.summaries
                                    \cup {m.id : m \in ToSet(Omitted(inflight.raw, n))}]>>)
         /\ evicted' = evicted \cup (Unbounded(n, notes).facts \ state.facts)
  BY DEF FinishCompact
<1>2. IsFiniteSet(notes)
  <2> DEFINE last == Max(inflight.delta \cup {0})
  <2>1. notes = {} \/ notes = {last}
    BY <1>1
  <2> HIDE DEF last
  <2>2. IsFiniteSet({}) /\ IsFiniteSet({last})
    BY FS_EmptySet, FS_Singleton, Zenon
  <2> QED
    BY <2>1, <2>2
<1> QED
  BY <1>1, <1>2

\* What the log is after a compaction: its last event is the state message, and no
\* other that is new concerns a state or a request for approval.
LEMMA CompactionIs ==
    ASSUME ContextInv, inflight.open, NEW c, c.type = "compaction", StateFits(c.state),
           NEW fresh, IsFiniteSet(fresh), Emit(Created(fresh) \o <<c>>)
    PROVE  /\ \E S : history' \in Seq(S)
           /\ OnceAsked'
           /\ \A s : StateFits(s) => StateFits(s)'
           /\ \A i \in Compactions' : StateFits(history[i].state)'
           /\ DOMAIN history \subseteq DOMAIN history'
           /\ State' = c.state
<1> DEFINE es == Created(fresh) \o <<c>>
<1>1. PICK T : Created(fresh) \in Seq(T)
               /\ \A k \in DOMAIN Created(fresh) : Created(fresh)[k].type = "created"
  BY CreatedIs
<1>2. Created(fresh) \in Seq(T \cup {c}) /\ <<c>> \in Seq(T \cup {c})
  BY <1>1
<1>3. /\ es \in Seq(T \cup {c}) /\ Len(es) = Len(Created(fresh)) + 1
      /\ \A i \in 1 .. Len(es) :
            es[i] = IF i <= Len(Created(fresh)) THEN Created(fresh)[i] ELSE <<c>>[i - Len(Created(fresh))]
  BY <1>2, ConcatProperties
<1>4. DOMAIN es = 1 .. Len(es) /\ DOMAIN Created(fresh) = 1 .. Len(Created(fresh))
      /\ Len(Created(fresh)) \in Nat /\ Len(es) \in Nat
  BY <1>2, <1>3
<1> HIDE DEF es
<1>5. /\ \A k \in DOMAIN es : k = Len(es) \/ es[k].type = "created"
      /\ es[Len(es)] = c /\ Len(es) \in DOMAIN es
  <2>1. ASSUME NEW k \in DOMAIN es, k # Len(es) PROVE es[k].type = "created"
    <3>1. k \in DOMAIN Created(fresh) /\ es[k] = Created(fresh)[k]
      BY <1>3, <1>4, <2>1
    <3> QED
      BY <1>1, <3>1
  <2>2. es[Len(es)] = <<c>>[1] /\ Len(es) \in DOMAIN es
    BY <1>3, <1>4
  <2> QED
    BY <2>1, <2>2
<1>6. Emit(es)
  BY DEF es
<1>7. /\ \E S : history' \in Seq(S)
      /\ OnceAsked'
      /\ \A s : StateFits(s) => StateFits(s)'
      /\ \A i \in Compactions' :
            \/ i \in Compactions /\ history'[i] = history[i]
            \/ \E k \in DOMAIN es : es[k].type = "compaction" /\ history'[i] = es[k]
      /\ DOMAIN history \subseteq DOMAIN history'
  <2>1. \A k \in DOMAIN es : es[k].type # "requested"
    BY <1>5
  <2> QED
    BY <1>3, <1>6, <2>1, GrownKeeps, SMTT(20)
<1>8. ASSUME NEW i \in Compactions' PROVE StateFits(history[i].state)'
  <2>1. StateFits(history'[i].state)
    BY <1>5, <1>7 DEF ContextInv
  <2> QED
    BY <1>7, <2>1
<1>9. State' = c.state
  <2> DEFINE n == Len(history')
  <2>1. PICK S : history \in Seq(S)
    BY DEF ContextInv
  <2>0. Len(history) \in Nat
    BY <2>1
  <2>2. /\ n = Len(history) + Len(es) /\ DOMAIN history' = 1 .. n
        /\ DOMAIN history = 1 .. Len(history)
        /\ \A i \in DOMAIN history' :
              i \in DOMAIN history \/ \E k \in DOMAIN es : i = Len(history) + k /\ history'[i] = es[k]
    <3> DEFINE U == T \cup {c}
    <3>1. es \in Seq(U)
      BY <1>3
    <3> HIDE DEF U, n
    <3>2. Extends(es, S, U)
      BY <1>6, <2>1, <3>1, Longer
    <3> QED
      BY <3>2 DEF Extends, n
  <2> HIDE DEF n
  <2>3. n \in Nat /\ n \in DOMAIN history' /\ n \notin DOMAIN history
    BY <1>4, <1>5, <2>0, <2>2
  <2>4. history'[n] = c
    BY <1>4, <1>5, <2>0, <2>2, <2>3
  <2>5. n \in Compactions'
    BY <2>3, <2>4 DEF Compactions, EventsOf
  <2>6. Compactions' \subseteq 1 .. n
    BY <2>2 DEF Compactions, EventsOf
  <2>7. Max(Compactions') = n
    <3> DEFINE C == Compactions'
    <3>1. C \subseteq Nat /\ n \in C /\ \A x \in C : n >= x
      BY <2>3, <2>5, <2>6
    <3> HIDE DEF C
    <3>2. \A x \in C : (\A y \in C : x >= y) => x = n
      BY <3>1
    <3>3. Max(C) = n
      BY <3>1, <3>2 DEF Max
    <3> QED
      BY <3>3 DEF C
  <2> QED
    BY <2>4, <2>7 DEF State
<1> QED
  BY <1>7, <1>8, <1>9

\* The state message of a compaction, and what its bound has dropped.
LEMMA FinishKeeps ==
    ASSUME ContextInv, FinishCompact
    PROVE  /\ ContextInv'
           /\ FewApprovals =>
                \A f \in evicted' \ evicted :
                    f.field = "pending_approvals" =>
                        \A g \in State'.facts : g.field = "pending_approvals"
<1>1. inflight.open /\ known' = known \cup inflight.artifacts /\ inflight' = Idle
  BY DEF FinishCompact
<1>2. PICK n, notes, replaced :
          LET state == Bound(Unbounded(n, notes))
              c == [type |-> "compaction", state |-> state, replaced |-> replaced]
              fresh == inflight.artifacts \ known
          IN /\ IsFiniteSet(notes)
             /\ Emit(Created(fresh) \o <<c>>)
             /\ evicted' = evicted \cup (Unbounded(n, notes).facts \ state.facts)
  BY CompactionStep
<1> DEFINE state == Bound(Unbounded(n, notes))
           c == [type |-> "compaction", state |-> state, replaced |-> replaced]
           fresh == inflight.artifacts \ known
<1>3. StateFits(Unbounded(n, notes))
  BY <1>1, <1>2, UnboundedFits
<1>4. PICK F, A, objective, cursor :
         Unbounded(n, notes) = [facts |-> F, artifacts |-> A, objective |-> objective,
                                cursor |-> cursor]
  BY DEF Unbounded, ProjectState
<1>5. FactsFit(F) /\ IsFiniteSet(A) /\ Unbounded(n, notes).facts = F
  BY <1>3, <1>4 DEF StateFits
<1>6. StateFits(state)
  BY <1>4, <1>5, BoundFits
<1>7. IsFiniteSet(fresh) /\ IsFiniteSet(known')
  BY <1>1, FS_Subset, FS_Union DEF ContextInv
<1>8. Emit(Created(fresh) \o <<c>>) /\ evicted' = evicted \cup (F \ state.facts)
  BY <1>2, <1>5
<1>9. c.type = "compaction" /\ c.state = state
  OBVIOUS
<1> HIDE DEF c, fresh
<1>10. /\ \E S : history' \in Seq(S)
       /\ OnceAsked'
       /\ \A i \in Compactions' : StateFits(history[i].state)'
       /\ State' = state
  BY <1>1, <1>6, <1>7, <1>8, <1>9, CompactionIs
<1>11. ContextInv'
  <2>1. ~inflight'.open
    BY <1>1 DEF Idle
  <2> QED
    BY <1>7, <1>10, <2>1 DEF ContextInv
<1>12. ASSUME FewApprovals, NEW f \in evicted' \ evicted, f.field = "pending_approvals",
              NEW g \in State'.facts
       PROVE  g.field = "pending_approvals"
  <2>1. f \in F /\ f \notin state.facts /\ g \in state.facts
    BY <1>8, <1>10, <1>12
  <2> QED
    BY <1>4, <1>5, <1>12, <2>1, ApprovalsLast
<1> QED
  BY <1>11, <1>12
-----------------------------------------------------------------------------
LEMMA ContextSteps ==
    ASSUME ContextInv, [ContextNext]_contextVars
    PROVE  /\ ContextInv'
           /\ FewApprovals =>
                [\A f \in evicted' \ evicted :
                    f.field = "pending_approvals" =>
                        \A g \in State'.facts : g.field = "pending_approvals"]_contextVars
<1>1. CASE FinishCompact
  BY <1>1, FinishKeeps
<1>2. CASE UNCHANGED contextVars
  <2>1. history' = history /\ known' = known /\ inflight' = inflight
    BY <1>2 DEF contextVars
  <2>2. OnceAsked' /\ PendingFacts' = PendingFacts /\ Compactions' = Compactions
    BY <2>1 DEF ContextInv, OnceAsked, PendingFacts, Asked, Compactions, EventsOf
  <2>3. \A s : StateFits(s) => StateFits(s)'
    BY <2>2 DEF StateFits, FactsFit
  <2>4. ContextInv'
    BY <2>1, <2>2, <2>3 DEF ContextInv
  <2> QED
    BY <1>2, <2>4
<1>3. CASE /\ evicted' = evicted
           /\ ContextInv'
  BY <1>3
<1>4. CASE StartRun
  BY <1>3, <1>4, StartRunKeeps DEF StartRun
<1>5. CASE ResumeRun
  BY <1>3, <1>5, ResumeKeeps DEF ResumeRun
<1>6. CASE \E n \in 0 .. 2 : Answer(n)
  BY <1>3, <1>6, AnswerKeeps DEF Answer
<1>7. CASE \E k \in Calls : Complete(k) \/ Commit(k) \/ Delete(k)
  BY <1>3, <1>7, CompleteKeeps, CommitKeeps, DeleteKeeps DEF Complete, Commit, Delete
<1>8. CASE \E a \in Approvals : Ask(a) \/ Resolve(a)
  BY <1>3, <1>8, AskKeeps, ResolveKeeps DEF Ask, Resolve
<1>9. CASE Request
  BY <1>3, <1>9, RequestKeeps DEF Request
<1>10. CASE BeginCompact
  BY <1>3, <1>10, BeginKeeps DEF BeginCompact
<1>11. CASE LoseCompact
  BY <1>3, <1>11, LoseKeeps DEF LoseCompact
<1> QED
  BY <1>1, <1>2, <1>4, <1>5, <1>6, <1>7, <1>8, <1>9, <1>10, <1>11 DEF ContextNext

\* The bound of the rolling state drops a pending approval only when nothing else is
\* left to drop (_EVICTION_TIERS), if the approvals of a session do not exceed what
\* the state keeps of one field.
THEOREM ApprovalsGoLastCorrect == ASSUME FewApprovals PROVE ContextSpec => ApprovalsGoLast
<1>1. ContextInv /\ [ContextNext]_contextVars => ContextInv'
  BY ContextSteps
<1>2. ContextInv /\ [ContextNext]_contextVars =>
        [\A f \in evicted' \ evicted :
            f.field = "pending_approvals" =>
                \A g \in State'.facts : g.field = "pending_approvals"]_contextVars
  BY ContextSteps
<1> QED
  BY <1>1, <1>2, ContextStarts, PTL DEF ContextSpec, ApprovalsGoLast
-----------------------------------------------------------------------------
(* The messages of a log, event by event.                                  *)

\* A set of naturals has a first one.
LEMMA FirstOf ==
    ASSUME NEW S, S \subseteq Nat, S # {}
    PROVE  \E m \in S : \A k \in S : m <= k
<1> DEFINE R == {p \in Nat \X Nat : p[1] < p[2]}
<1>1. IsWellFoundedOn(R, Nat)
  BY NatLessThanWellFounded DEF OpToRel
<1> HIDE DEF R
<1>2. PICK m \in S : \A k \in S : <<k, m>> \notin R
  BY <1>1, WFMin
<1>3. \A k \in S : ~(k < m)
  BY <1>2, Zenon DEF R
<1> QED
  BY <1>2, <1>3

\* f[n] is what the first n events of the log h make of no messages.
Unrolls(f, h, m) ==
    /\ DOMAIN f = 0 .. m
    /\ f[0] = <<>>
    /\ \A n \in 1 .. m : f[n] = Project(f[n - 1], n, h[n])

\* Every log has its messages, event by event.
LEMMA UnrollingExists ==
    ASSUME NEW h, NEW m \in Nat
    PROVE  \E f : Unrolls(f, h, m)
<1> DEFINE bad == {k \in Nat : ~\E f : Unrolls(f, h, k)}
<1> SUFFICES ASSUME bad # {} PROVE FALSE
  OBVIOUS
<1>1. PICK b \in bad : \A k \in bad : b <= k
  BY FirstOf
<1>2. CASE b = 0
  <2> DEFINE f == [n \in 0 .. 0 |-> <<>>]
  <2>1. Unrolls(f, h, 0)
    BY DEF Unrolls
  <2> QED
    BY <1>1, <1>2, <2>1
<1>3. CASE b # 0
  <2>1. b \in Nat /\ b - 1 \in Nat /\ b - 1 \notin bad
    BY <1>1, <1>3
  <2>2. PICK f : Unrolls(f, h, b - 1)
    BY <2>1
  <2> DEFINE g == [n \in 0 .. b |-> IF n = b THEN Project(f[b - 1], b, h[b]) ELSE f[n]]
  <2>3. g[0] = <<>>
    BY <1>3, <2>1, <2>2 DEF Unrolls
  <2>4. ASSUME NEW n \in 1 .. b PROVE g[n] = Project(g[n - 1], n, h[n])
    <3>1. CASE n = b
      <4>1. g[n] = Project(f[b - 1], b, h[b]) /\ g[n - 1] = f[b - 1]
        BY <1>3, <2>1, <3>1
      <4> QED
        BY <3>1, <4>1
    <3>2. CASE n # b
      <4>1. g[n] = f[n] /\ g[n - 1] = f[n - 1] /\ n \in 1 .. b - 1
        BY <2>1, <3>2
      <4> QED
        BY <2>2, <4>1 DEF Unrolls
    <3> QED
      BY <3>1, <3>2
  <2>5. DOMAIN g = 0 .. b
    OBVIOUS
  <2> HIDE DEF g
  <2>6. Unrolls(g, h, b)
    BY <2>3, <2>4, <2>5 DEF Unrolls
  <2> QED
    BY <1>1, <2>6
<1> QED
  BY <1>2, <1>3

\* Projected is the function that its definition unrolls to.
LEMMA UnrollingIs ==
    ASSUME NEW h, Len(h) \in Nat, NEW P,
           P = CHOOSE f : f = [n \in 0 .. Len(h) |->
                                 IF n = 0 THEN <<>> ELSE Project(f[n - 1], n, h[n])]
    PROVE  Unrolls(P, h, Len(h))
<1> DEFINE n == Len(h)
           body(f) == [i \in 0 .. n |-> IF i = 0 THEN <<>> ELSE Project(f[i - 1], i, h[i])]
<1>1. PICK f : Unrolls(f, h, n)
  BY UnrollingExists
<1>0. \A i \in 0 .. n : i \in Nat /\ (i # 0 => i \in 1 .. n)
  OBVIOUS
<1>2. P = CHOOSE g : g = body(g)
  OBVIOUS
<1>3. f = body(f)
  <2>1. DOMAIN f = 0 .. n /\ f = [i \in 0 .. n |-> f[i]]
    BY <1>1 DEF Unrolls
  <2>2. \A i \in 0 .. n : f[i] = IF i = 0 THEN <<>> ELSE Project(f[i - 1], i, h[i])
    BY <1>0, <1>1 DEF Unrolls
  <2> QED
    BY <2>1, <2>2
<1>4. P = body(P)
  BY <1>2, <1>3
<1>5. DOMAIN P = 0 .. n /\ \A i \in 0 .. n : P[i] = body(P)[i]
  BY <1>4
<1>6. 0 \in 0 .. n /\ \A i \in 1 .. n : i \in 0 .. n /\ i # 0
  OBVIOUS
<1> QED
  BY <1>5, <1>6 DEF Unrolls

\* The messages of a log do not depend on what is appended to it.
LEMMA SameBeginning ==
    ASSUME NEW h, NEW g, NEW m \in Nat, NEW n \in Nat, m <= n,
           NEW f, Unrolls(f, h, m), NEW e, Unrolls(e, g, n),
           \A i \in 1 .. m : g[i] = h[i]
    PROVE  \A i \in 0 .. m : e[i] = f[i]
<1> DEFINE bad == {i \in 0 .. m : e[i] # f[i]}
<1> SUFFICES ASSUME bad # {} PROVE FALSE
  OBVIOUS
<1>0. bad \subseteq Nat
  OBVIOUS
<1> HIDE DEF bad
<1>1. PICK b \in bad : \A k \in bad : b <= k
  BY <1>0, FirstOf
<1> USE DEF bad
<1>2. b # 0
  BY <1>1 DEF Unrolls
<1>3. b \in 1 .. m /\ b \in 1 .. n /\ b - 1 \in 0 .. m /\ b - 1 \notin bad
  BY <1>1, <1>2
<1>4. e[b - 1] = f[b - 1] /\ g[b] = h[b]
  BY <1>3
<1>5. f[b] = Project(f[b - 1], b, h[b]) /\ e[b] = Project(e[b - 1], b, g[b])
  BY <1>3 DEF Unrolls
<1>6. e[b] = f[b]
  BY <1>4, <1>5, Zenon
<1> QED
  BY <1>1, <1>6

\* Among the events after the first m of n, none has one of the types.
Lacks(h, m, n, types) == \A i \in m + 1 .. n : h[i].type \notin types

\* The types of the events that change the messages.
ViewTypes == {"user", "assistant", "result", "compaction"}

\* Events that are neither messages nor compactions leave the messages alone.
LEMMA SilentEvents ==
    ASSUME NEW h, NEW m \in Nat, NEW n \in Nat, NEW N \in Nat, m <= n, n <= N,
           NEW f, Unrolls(f, h, N),
           Lacks(h, m, n, ViewTypes)
    PROVE  f[n] = f[m]
<1> DEFINE bad == {i \in m .. n : f[i] # f[m]}
<1> SUFFICES ASSUME bad # {} PROVE FALSE
  OBVIOUS
<1>0. bad \subseteq Nat
  OBVIOUS
<1> HIDE DEF bad
<1>1. PICK b \in bad : \A k \in bad : b <= k
  BY <1>0, FirstOf
<1> USE DEF bad
<1>2. b # m
  BY <1>1
<1>3. b \in m + 1 .. n /\ b \in 1 .. N /\ b - 1 \in m .. n /\ b - 1 \notin bad
  BY <1>1, <1>2
<1>4. f[b - 1] = f[m]
  BY <1>3
<1>5. f[b] = Project(f[b - 1], b, h[b])
  BY <1>3 DEF Unrolls
<1>6. Project(f[b - 1], b, h[b]) = f[b - 1]
  BY <1>3 DEF Project, Lacks, ViewTypes
<1> QED
  BY <1>1, <1>4, <1>5, <1>6

\* The messages of a session after more events.
LEMMA ViewGrows ==
    ASSUME NEW S, history \in Seq(S), NEW T, NEW es \in Seq(T), Emit(es)
    PROVE  \E f : /\ Unrolls(f, history', Len(history'))
                  /\ f[Len(history)] = View
                  /\ f[Len(history')] = View'
<1>1. /\ history' \in Seq(S \cup T)
      /\ Len(history') = Len(history) + Len(es)
      /\ \A i \in DOMAIN history : history'[i] = history[i]
      /\ DOMAIN history = 1 .. Len(history)
  <2>1. Extends(es, S, T)
    BY Longer
  <2> QED
    BY <2>1 DEF Extends
<1>2. Len(history) \in Nat /\ Len(history') \in Nat /\ Len(history) <= Len(history')
  BY <1>1
<1>3. Unrolls(Projected, history, Len(history))
  BY <1>2, UnrollingIs DEF Projected
<1>4. Unrolls(Projected', history', Len(history'))
  BY <1>2, UnrollingIs DEF Projected
<1>5. PICK f : f = Projected
  OBVIOUS
<1>6. PICK g : g = Projected'
  OBVIOUS
<1>7. PICK h, p, m, n : h = history /\ p = history' /\ m = Len(history) /\ n = Len(history')
  OBVIOUS
<1>8. m \in Nat /\ n \in Nat /\ m <= n /\ \A i \in 1 .. m : p[i] = h[i]
  BY <1>1, <1>2, <1>7
<1>9. Unrolls(f, h, m) /\ Unrolls(g, p, n)
  BY <1>3, <1>4, <1>5, <1>6, <1>7
<1>10. \A i \in 0 .. m : g[i] = f[i]
  BY <1>8, <1>9, SameBeginning
<1>11. g[m] = View /\ g[n] = View'
  BY <1>5, <1>6, <1>7, <1>8, <1>10 DEF View
<1> QED
  BY <1>7, <1>9, <1>11
-----------------------------------------------------------------------------
\* The messages of a sequence from a position on.
LEMMA AtSuffix ==
    ASSUME NEW S, NEW ms \in Seq(S), NEW m \in 0 .. Len(ms)
    PROVE  At(ms, m + 1 .. Len(ms)) = SubSeq(ms, m + 1, Len(ms))
<1> DEFINE n == Len(ms)
           P == m + 1 .. n
<1>0. m \in Nat /\ n \in Nat /\ m <= n
  OBVIOUS
<1> HIDE DEF n
<1>1. Cardinality(P) = n - m
  <2>1. m + 1 \in Int /\ n \in Int
    BY <1>0
  <2>2. Cardinality(m + 1 .. n) = IF m + 1 > n THEN 0 ELSE n - (m + 1) + 1
    BY <2>1, FS_Interval, Zenon
  <2> QED
    BY <1>0, <2>2
<1>2. ASSUME NEW k \in 1 .. n - m
      PROVE  (CHOOSE p \in P : Cardinality({q \in P : q <= p}) = k) = m + k
  <2>1. ASSUME NEW p \in P PROVE Cardinality({q \in P : q <= p}) = p - m
    <3>1. {q \in P : q <= p} = m + 1 .. p
      BY <1>0
    <3>0. m + 1 \in Int /\ p \in Int /\ m + 1 <= p
      BY <1>0
    <3>2. Cardinality(m + 1 .. p) = IF m + 1 > p THEN 0 ELSE p - (m + 1) + 1
      BY <3>0, FS_Interval, Zenon
    <3>3. Cardinality({q \in P : q <= p}) = Cardinality(m + 1 .. p)
      BY <3>1, Zenon
    <3> QED
      BY <1>0, <3>0, <3>2, <3>3
  <2>2. m + k \in P
    BY <1>0
  <2>3. ASSUME NEW p \in P PROVE Cardinality({q \in P : q <= p}) = k <=> p = m + k
    <3>1. Cardinality({q \in P : q <= p}) = p - m /\ p \in Nat
      BY <1>0, <2>1
    <3> QED
      BY <1>0, <3>1
  <2> QED
    BY <2>2, <2>3
<1>3. At(ms, P) = [k \in 1 .. n - m |-> ms[m + k]]
  <2> DEFINE at(k) == ms[CHOOSE p \in P : Cardinality({q \in P : q <= p}) = k]
  <2>1. At(ms, P) = [k \in 1 .. n - m |-> at(k)]
    BY <1>1, Zenon DEF At
  <2>2. \A k \in 1 .. n - m : at(k) = ms[m + k]
    BY <1>2
  <2> QED
    BY <2>1, <2>2
<1>4. SubSeq(ms, m + 1, n) = [k \in 1 .. n - m |-> ms[m + k]]
  <2> DEFINE s == SubSeq(ms, m + 1, n)
  <2>1. s \in Seq(S) /\ Len(s) = n - m /\ \A k \in 1 .. n - m : s[k] = ms[m + k]
    BY <1>0, SubSeqProperties DEF n
  <2> HIDE DEF s
  <2>2. s = [k \in 1 .. Len(s) |-> s[k]]
    BY <2>1
  <2> QED
    BY <2>1, <2>2 DEF s
<1> QED
  BY <1>3, <1>4 DEF n
-----------------------------------------------------------------------------
\* What follows in a joined sequence is what follows in its second part.
LEMMA SuffixOfJoin ==
    ASSUME NEW S, NEW s \in Seq(S), NEW r \in Seq(S), NEW m \in 0 .. Len(r)
    PROVE  SubSeq(s \o r, Len(s) + m + 1, Len(s \o r)) = SubSeq(r, m + 1, Len(r))
<1> DEFINE j == s \o r
           a == SubSeq(j, Len(s) + m + 1, Len(j))
           b == SubSeq(r, m + 1, Len(r))
<1>1. /\ j \in Seq(S) /\ Len(j) = Len(s) + Len(r)
      /\ \A i \in 1 .. Len(s) + Len(r) : j[i] = IF i <= Len(s) THEN s[i] ELSE r[i - Len(s)]
  BY ConcatProperties
<1>2. Len(s) \in Nat /\ Len(r) \in Nat /\ m \in Nat /\ m <= Len(r)
  OBVIOUS
<1> HIDE DEF j
<1>3. /\ a \in Seq(S) /\ Len(a) = Len(r) - m
      /\ \A k \in 1 .. Len(r) - m : a[k] = j[Len(s) + m + k]
  BY <1>1, <1>2, SubSeqProperties
<1>4. /\ b \in Seq(S) /\ Len(b) = Len(r) - m
      /\ \A k \in 1 .. Len(r) - m : b[k] = r[m + k]
  BY <1>2, SubSeqProperties
<1> HIDE DEF a, b
<1>5. ASSUME NEW k \in 1 .. Len(r) - m PROVE a[k] = b[k]
  <2>1. Len(s) + m + k \in 1 .. Len(s) + Len(r) /\ ~(Len(s) + m + k <= Len(s))
        /\ Len(s) + m + k - Len(s) = m + k
    BY <1>2
  <2>2. j[Len(s) + m + k] = r[m + k]
    BY <1>1, <2>1
  <2> QED
    BY <1>3, <1>4, <2>2
<1> QED
  BY <1>3, <1>4, <1>5, SeqEqual DEF a, b, j

\* What remains of the messages when their first ones are left out.
LEMMA AtJoin ==
    ASSUME NEW S, NEW s \in Seq(S), NEW r \in Seq(S), NEW m \in 0 .. Len(r)
    PROVE  At(s \o r, Len(s) + m + 1 .. Len(s \o r)) = SubSeq(r, m + 1, Len(r))
<1> DEFINE j == s \o r
           n == Len(s) + m
<1>1. j \in Seq(S) /\ Len(j) = Len(s) + Len(r)
  BY ConcatProperties
<1>2. n \in 0 .. Len(j)
  BY <1>1
<1>3. SubSeq(j, n + 1, Len(j)) = SubSeq(r, m + 1, Len(r))
  BY SuffixOfJoin
<1> HIDE DEF j, n
<1>4. At(j, n + 1 .. Len(j)) = SubSeq(j, n + 1, Len(j))
  BY <1>1, <1>2, AtSuffix
<1> QED
  BY <1>3, <1>4 DEF j, n

LEMMA WholeSeq ==
    ASSUME NEW S, NEW r \in Seq(S)
    PROVE  SubSeq(r, 0 + 1, Len(r)) = r
OBVIOUS

\* The messages without the state message at their head.
LEMMA RawIs ==
    ASSUME NEW S, NEW s \in Seq(S), NEW r \in Seq(S),
           \A k \in DOMAIN s : s[k].kind = "compaction",
           \A k \in DOMAIN r : r[k].kind # "compaction"
    PROVE  Raw(s \o r) = r
<1> DEFINE j == s \o r
           P == {k \in DOMAIN j : j[k].kind # "compaction"}
<1>1. /\ j \in Seq(S) /\ Len(j) = Len(s) + Len(r)
      /\ \A i \in 1 .. Len(s) + Len(r) : j[i] = IF i <= Len(s) THEN s[i] ELSE r[i - Len(s)]
  BY ConcatProperties
<1>2. Len(s) \in Nat /\ Len(r) \in Nat /\ DOMAIN s = 1 .. Len(s) /\ DOMAIN r = 1 .. Len(r)
  OBVIOUS
<1>0. At(j, Len(s) + 0 + 1 .. Len(j)) = SubSeq(r, 0 + 1, Len(r))
  <2>1. 0 \in 0 .. Len(r)
    OBVIOUS
  <2> QED
    BY <2>1, AtJoin, Zenon
<1> HIDE DEF j
<1>3. DOMAIN j = 1 .. Len(s) + Len(r)
  BY <1>1
<1>4. P = Len(s) + 0 + 1 .. Len(j)
  <2>1. ASSUME NEW k \in 1 .. Len(s) + Len(r)
        PROVE  j[k].kind # "compaction" <=> k > Len(s)
    <3>1. CASE k <= Len(s)
      <4>1. k \in DOMAIN s /\ j[k] = s[k]
        BY <1>1, <1>2, <3>1
      <4> QED
        BY <1>2, <3>1, <4>1
    <3>2. CASE ~(k <= Len(s))
      <4>1. k - Len(s) \in DOMAIN r /\ j[k] = r[k - Len(s)]
        BY <1>1, <1>2, <3>2
      <4> QED
        BY <1>2, <3>2, <4>1
    <3> QED
      BY <3>1, <3>2
  <2>2. \A k : k \in Len(s) + 0 + 1 .. Len(j) <=> k \in 1 .. Len(s) + Len(r) /\ k > Len(s)
    BY <1>1, <1>2
  <2> QED
    BY <1>3, <2>1, <2>2
<1>5. Raw(j) = At(j, P)
  BY DEF Raw
<1> HIDE DEF P
<1> QED
  BY <1>0, <1>4, <1>5, WholeSeq DEF j

\* A compaction that replaces the state message and the first m others.
Replaces(e, s, r, m) ==
    /\ e.type = "compaction"
    /\ \A k \in DOMAIN s : s[k].id \in e.replaced
    /\ \A k \in DOMAIN r : r[k].id \in e.replaced <=> k <= m

LEMMA CompactionProjects ==
    ASSUME NEW S, NEW s \in Seq(S), NEW r \in Seq(S), NEW m \in 1 .. Len(r),
           NEW i, NEW e, Replaces(e, s, r, m)
    PROVE  Project(s \o r, i, e) = <<Message(i, e)>> \o SubSeq(r, m + 1, Len(r))
<1> DEFINE j == s \o r
           old == {k \in DOMAIN j : j[k].id \in e.replaced}
           rest == SubSeq(r, m + 1, Len(r))
           M == Message(i, e)
<1>1. /\ j \in Seq(S) /\ Len(j) = Len(s) + Len(r)
      /\ \A k \in 1 .. Len(s) + Len(r) : j[k] = IF k <= Len(s) THEN s[k] ELSE r[k - Len(s)]
  BY ConcatProperties
<1>2. Len(s) \in Nat /\ Len(r) \in Nat /\ DOMAIN s = 1 .. Len(s) /\ DOMAIN r = 1 .. Len(r)
      /\ m \in Nat /\ 1 <= m /\ m <= Len(r)
  OBVIOUS
<1>0. At(j, Len(s) + m + 1 .. Len(j)) = rest
  BY AtJoin
<1>a. e.type = "compaction"
  BY DEF Replaces
<1>b. /\ \A k \in DOMAIN s : s[k].id \in e.replaced
      /\ \A k \in DOMAIN r : r[k].id \in e.replaced <=> k <= m
  BY DEF Replaces
<1> HIDE DEF j
<1>3. DOMAIN j = 1 .. Len(s) + Len(r)
  BY <1>1
<1>4. old = 1 .. Len(s) + m
  <2>1. ASSUME NEW k \in 1 .. Len(s) + Len(r)
        PROVE  j[k].id \in e.replaced <=> k <= Len(s) + m
    <3>1. CASE k <= Len(s)
      <4>1. k \in DOMAIN s /\ j[k] = s[k]
        BY <1>1, <1>2, <3>1
      <4> QED
        BY <1>2, <1>b, <3>1, <4>1
    <3>2. CASE ~(k <= Len(s))
      <4>1. k - Len(s) \in DOMAIN r /\ j[k] = r[k - Len(s)]
        BY <1>1, <1>2, <3>2
      <4>2. k - Len(s) <= m <=> k <= Len(s) + m
        BY <1>2
      <4> QED
        BY <1>b, <4>1, <4>2
    <3> QED
      BY <3>1, <3>2
  <2>2. \A k : k \in 1 .. Len(s) + m <=> k \in 1 .. Len(s) + Len(r) /\ k <= Len(s) + m
    BY <1>2
  <2> QED
    BY <1>3, <2>1, <2>2
<1>5. old # {} /\ Min(old) = 1
  <2>1. 1 \in old /\ old \subseteq Nat /\ \A x \in old : 1 <= x
    BY <1>2, <1>4
  <2> HIDE DEF old
  <2>2. \A x \in old : (\A y \in old : x <= y) => x = 1
    BY <2>1
  <2> QED
    BY <2>1, <2>2 DEF Min
<1>6. DOMAIN j \ old = Len(s) + m + 1 .. Len(j)
  BY <1>1, <1>2, <1>3, <1>4
<1>7. rest \in Seq(S)
  BY <1>2, SubSeqProperties
<1> HIDE DEF rest, old
<1>8. InsertAt(rest, 1, M) = <<M>> \o rest
  <2>1. SubSeq(rest, 1, 1 - 1) = <<>>
    BY SubSeqEmpty
  <2>2. SubSeq(rest, 1, Len(rest)) = rest
    BY <1>7
  <2>3. <<>> \o <<M>> = <<M>>
    OBVIOUS
  <2> QED
    BY <2>1, <2>2, <2>3 DEF InsertAt
<1>9. Project(j, i, e) = InsertAt(At(j, DOMAIN j \ old), Min(old), M)
  BY <1>5, <1>a DEF Project, old
<1> QED
  BY <1>0, <1>5, <1>6, <1>8, <1>9 DEF j, rest
-----------------------------------------------------------------------------
\* Position 1 starts a group, and every number of groups, up to all, is the number of
\* the groups from some start on.
FromOn(P, k) == {j \in P : j >= k}

Within(P, N) == \A x \in P : x \in 1 .. N

LEMMA GroupFrom ==
    ASSUME NEW N \in Nat, NEW P, Within(P, N), NEW n \in 1 .. Cardinality(P)
    PROVE  \E k \in P : Cardinality(FromOn(P, k)) = n
<1> \A x \in P : x \in 1 .. N
  BY DEF Within
<1> DEFINE from(k) == {j \in P : j >= k}
           late == {k \in 1 .. N : Cardinality(from(k)) >= n}
<1>0. /\ \A x \in P : x \in 1 .. N /\ x \in Nat
      /\ IsFiniteSet(P) /\ Cardinality(P) \in Nat
  <2>1. IsFiniteSet(1 .. N)
    BY FS_Interval
  <2>2. P \subseteq 1 .. N
    OBVIOUS
  <2>3. IsFiniteSet(P)
    BY <2>1, <2>2, FS_Subset
  <2> QED
    BY <2>3, FS_CardinalityType
<1>1. ASSUME NEW k \in Nat PROVE IsFiniteSet(from(k)) /\ Cardinality(from(k)) \in Nat
  <2>1. from(k) \subseteq P
    OBVIOUS
  <2> HIDE DEF from
  <2> QED
    BY <1>0, <2>1, FS_Subset, FS_CardinalityType
<1>2. 1 \in late
  <2>1. from(1) = P
    BY <1>0
  <2>2. P # {}
    BY <1>0, FS_EmptySet
  <2>3. 1 \in 1 .. N
    BY <1>0, <2>2
  <2>4. Cardinality(from(1)) >= n
    BY <1>0, <2>1
  <2> QED
    BY <2>3, <2>4
<1>3. late \subseteq 1 .. N /\ late # {}
  BY <1>2
<1> HIDE DEF late
<1>4. PICK k \in late : \A x \in late : x <= k
  <2>1. Max(late) \in late /\ \A x \in late : x <= Max(late)
    BY <1>3, LastOf
  <2> QED
    BY <2>1
<1>5. k \in 1 .. N /\ Cardinality(from(k)) >= n
  BY <1>4 DEF late
<1>6. ~(Cardinality(from(k + 1)) >= n)
  <2>1. CASE k + 1 \in 1 .. N
    BY <1>4, <1>5, <2>1 DEF late
  <2>2. CASE k + 1 \notin 1 .. N
    <3>1. from(k + 1) = {}
      BY <1>0, <1>5, <2>2
    <3>2. Cardinality(from(k + 1)) = 0
      BY <3>1, FS_EmptySet
    <3> QED
      BY <3>2
  <2> QED
    BY <2>1, <2>2
<1>7. k \in P
  <2>1. SUFFICES ASSUME k \notin P PROVE FALSE
    OBVIOUS
  <2>2. from(k) = from(k + 1)
    BY <1>0, <1>5, <2>1
  <2> HIDE DEF from
  <2> QED
    BY <1>5, <1>6, <2>2
<1>8. Cardinality(from(k)) = Cardinality(from(k + 1)) + 1
  <2>1. from(k) = from(k + 1) \cup {k} /\ k \notin from(k + 1)
    <3>1. \A x \in P : x >= k <=> x >= k + 1 \/ x = k
      BY <1>0, <1>5
    <3>2. ~(k >= k + 1)
      BY <1>5
    <3> QED
      BY <1>7, <3>1, <3>2
  <2>2. k + 1 \in Nat
    BY <1>5
  <2>3. IsFiniteSet(from(k + 1))
    BY <1>1, <2>2
  <2> HIDE DEF from
  <2> QED
    BY <2>1, <2>3, FS_AddElement
<1>9. Cardinality(from(k)) = n
  <2>0. k + 1 \in Nat
    BY <1>5
  <2>1. Cardinality(from(k + 1)) \in Nat
    BY <1>1, <2>0, Zenon
  <2> HIDE DEF from
  <2> QED
    BY <1>5, <1>6, <1>8, <2>1
<1> QED
  BY <1>7, <1>9 DEF FromOn

\* The newest n groups, of more than n, start behind the first message.
LEMMA NewestIs ==
    ASSUME NEW S, NEW ms \in Seq(S), NEW n \in 1 .. Cardinality(GroupStarts(ms)) - 1
    PROVE  \E k \in GroupStarts(ms) :
              /\ k \in 2 .. Len(ms)
              /\ Newest(ms, n) = SubSeq(ms, k, Len(ms))
              /\ Omitted(ms, n) = SubSeq(ms, 1, k - 1)
<1> DEFINE G == GroupStarts(ms)
           N == Len(ms)
           k == CHOOSE i \in G : Cardinality({j \in G : j >= i}) = n
<1>1. N \in Nat /\ \A x \in G : x \in 1 .. N
  BY DEF GroupStarts
<1>2. IsFiniteSet(G) /\ Cardinality(G) \in Nat
  <2>1. IsFiniteSet(1 .. N)
    BY <1>1, FS_Interval
  <2>2. G \subseteq 1 .. N
    BY <1>1
  <2> HIDE DEF G
  <2> QED
    BY <2>1, <2>2, FS_Subset, FS_CardinalityType
<1>3. n \in 1 .. Cardinality(G) /\ n # Cardinality(G)
  BY <1>2
<1>4. Newest(ms, n) = SubSeq(ms, k, N)
  BY DEF Newest
<1> HIDE DEF G, N
<1>5. \E i \in G : Cardinality({j \in G : j >= i}) = n
  <2>1. \E i \in G : Cardinality(FromOn(G, i)) = n
    <3>1. Within(G, N)
      BY <1>1 DEF Within
    <3> QED
      BY <1>1, <1>3, <3>1, GroupFrom
  <2>2. PICK i \in G : Cardinality(FromOn(G, i)) = n
    BY <2>1
  <2>3. FromOn(G, i) = {j \in G : j >= i}
    BY DEF FromOn
  <2> QED
    BY <2>2, <2>3
<1>6. k \in G /\ Cardinality({j \in G : j >= k}) = n
  BY <1>5
<1> HIDE DEF k
<1>7. k # 1
  <2>1. SUFFICES ASSUME k = 1 PROVE FALSE
    OBVIOUS
  <2>2. {j \in G : j >= 1} = G
    BY <1>1
  <2> QED
    BY <1>3, <1>6, <2>1, <2>2
<1>8. k \in 2 .. N
  BY <1>1, <1>6, <1>7
<1>9. Omitted(ms, n) = SubSeq(ms, 1, k - 1)
  <2>1. Len(SubSeq(ms, k, N)) = N - k + 1
    BY <1>1, <1>8, SubSeqProperties
  <2>2. N - (N - k + 1) = k - 1
    BY <1>1, <1>8
  <2> QED
    BY <1>4, <2>1, <2>2 DEF Omitted, N
<1> QED
  BY <1>4, <1>6, <1>8, <1>9 DEF G, N
-----------------------------------------------------------------------------
MessageTypes == {"user", "assistant", "result"}

\* ms are the messages of the log h from position a to position n, in their order.
Lists(ms, h, a, n) ==
    /\ \E S : ms \in Seq(S)
    /\ \A k \in DOMAIN ms : /\ ms[k].id \in a .. n
                            /\ h[ms[k].id].type \in MessageTypes
                            /\ ms[k] = Message(ms[k].id, h[ms[k].id])
    /\ \A i \in a .. n : h[i].type \in MessageTypes => \E k \in DOMAIN ms : ms[k].id = i
    /\ \A k, l \in DOMAIN ms : k < l => ms[k].id < ms[l].id

\* A list of messages depends on the log only where it looks.
LEMMA ListsSame ==
    ASSUME NEW ms, NEW h, NEW g, NEW a, NEW n, Lists(ms, h, a, n),
           \A i \in a .. n : g[i] = h[i]
    PROVE  Lists(ms, g, a, n)
BY DEF Lists

LEMMA ListsSilent ==
    ASSUME NEW ms, NEW h, NEW a \in Nat, NEW m \in Nat, NEW n \in Nat, m <= n,
           Lists(ms, h, a, m), Lacks(h, m, n, MessageTypes)
    PROVE  Lists(ms, h, a, n)
<1>1. ASSUME NEW k \in DOMAIN ms
      PROVE  /\ ms[k].id \in a .. n
             /\ h[ms[k].id].type \in MessageTypes
             /\ ms[k] = Message(ms[k].id, h[ms[k].id])
  <2>1. ms[k].id \in a .. m
    BY DEF Lists
  <2> QED
    BY <2>1 DEF Lists
<1>2. ASSUME NEW i \in a .. n, h[i].type \in MessageTypes PROVE \E k \in DOMAIN ms : ms[k].id = i
  <2>1. i \in a .. m
    <3>1. i \notin m + 1 .. n
      BY <1>2 DEF Lacks
    <3> QED
      BY <3>1
  <2> QED
    BY <1>2, <2>1 DEF Lists
<1> QED
  BY <1>1, <1>2 DEF Lists

\* A message that is appended continues the list.
LEMMA ListsAppend ==
    ASSUME NEW ms, NEW h, NEW a \in Nat, NEW n \in Nat, a <= n + 1,
           Lists(ms, h, a, n), h[n + 1].type \in MessageTypes
    PROVE  Lists(Append(ms, Message(n + 1, h[n + 1])), h, a, n + 1)
<1> DEFINE M == Message(n + 1, h[n + 1])
           q == Append(ms, M)
<1>0. PICK S : ms \in Seq(S)
  BY DEF Lists
<1>1. /\ q \in Seq(S \cup {M}) /\ Len(q) = Len(ms) + 1
      /\ \A k \in 1 .. Len(ms) : q[k] = ms[k]
      /\ q[Len(ms) + 1] = M
  <2>1. ms \in Seq(S \cup {M}) /\ M \in S \cup {M}
    BY <1>0
  <2> HIDE DEF M
  <2> QED
    BY <2>1, AppendProperties
<1>2. Len(ms) \in Nat /\ DOMAIN ms = 1 .. Len(ms) /\ DOMAIN q = 1 .. Len(ms) + 1
  BY <1>0, <1>1
<1>3. M.id = n + 1 /\ M = Message(M.id, h[M.id])
  BY DEF Message
<1> HIDE DEF M, q
<1>4. \A k \in DOMAIN ms : ms[k].id \in a .. n
  BY DEF Lists
<1>5. ASSUME NEW k \in DOMAIN q
      PROVE  /\ q[k].id \in a .. n + 1
             /\ h[q[k].id].type \in MessageTypes
             /\ q[k] = Message(q[k].id, h[q[k].id])
  <2>1. CASE k = Len(ms) + 1
    <3>1. q[k] = M /\ q[k].id = n + 1 /\ n + 1 \in a .. n + 1
      BY <1>1, <1>3, <2>1
    <3> QED
      BY <1>3, <3>1
  <2>2. CASE k # Len(ms) + 1
    <3>1. k \in DOMAIN ms /\ q[k] = ms[k]
      BY <1>1, <1>2, <2>2
    <3>2. ms[k].id \in a .. n + 1
      BY <1>4, <3>1
    <3> QED
      BY <3>1, <3>2 DEF Lists
  <2> QED
    BY <2>1, <2>2
<1>6. ASSUME NEW i \in a .. n + 1, h[i].type \in MessageTypes
      PROVE  \E k \in DOMAIN q : q[k].id = i
  <2>1. CASE i = n + 1
    <3>1. Len(ms) + 1 \in DOMAIN q
      BY <1>2
    <3> QED
      BY <1>1, <1>3, <2>1, <3>1
  <2>2. CASE i # n + 1
    <3>1. i \in a .. n
      BY <2>2
    <3>2. PICK k \in DOMAIN ms : ms[k].id = i
      BY <1>6, <3>1 DEF Lists
    <3>3. k \in DOMAIN q /\ q[k] = ms[k]
      BY <1>1, <1>2, <3>2
    <3> QED
      BY <3>2, <3>3
  <2> QED
    BY <2>1, <2>2
<1>7. ASSUME NEW k \in DOMAIN q, NEW l \in DOMAIN q, k < l PROVE q[k].id < q[l].id
  <2>1. k \in DOMAIN ms /\ q[k] = ms[k]
    BY <1>1, <1>2, <1>7
  <2>2. CASE l = Len(ms) + 1
    <3>1. q[l].id = n + 1 /\ q[k].id \in a .. n
      BY <1>1, <1>3, <1>4, <2>1, <2>2
    <3> QED
      BY <3>1
  <2>3. CASE l # Len(ms) + 1
    <3>1. l \in DOMAIN ms /\ q[l] = ms[l]
      BY <1>1, <1>2, <2>3
    <3> QED
      BY <1>7, <2>1, <3>1 DEF Lists
  <2> QED
    BY <2>2, <2>3
<1>8. \E T : q \in Seq(T)
  BY <1>1
<1> QED
  BY <1>5, <1>6, <1>7, <1>8 DEF Lists, q, M

\* What follows a position of a list lists the log from that message on.
LEMMA ListsSuffix ==
    ASSUME NEW ms, NEW h, NEW a \in Nat, NEW n \in Nat, Lists(ms, h, a, n),
           NEW k \in DOMAIN ms
    PROVE  Lists(SubSeq(ms, k, Len(ms)), h, ms[k].id, n)
<1> DEFINE q == SubSeq(ms, k, Len(ms))
<1>0. PICK S : ms \in Seq(S)
  BY DEF Lists
<1>1. k \in 1 .. Len(ms) /\ DOMAIN ms = 1 .. Len(ms) /\ Len(ms) \in Nat
  BY <1>0
<1>2. /\ q \in Seq(S) /\ Len(q) = Len(ms) - k + 1
      /\ \A i \in 1 .. Len(ms) - k + 1 : q[i] = ms[k + i - 1]
  BY <1>0, <1>1, SubSeqProperties, SMTT(20)
<1>3. DOMAIN q = 1 .. Len(ms) - k + 1
  BY <1>1, <1>2
<1> HIDE DEF q
<1>4. \A i \in DOMAIN ms : ms[i].id \in a .. n /\ ms[i].id \in Nat
  BY DEF Lists
<1>5. ASSUME NEW i \in DOMAIN q
      PROVE  k + i - 1 \in DOMAIN ms /\ q[i] = ms[k + i - 1] /\ k <= k + i - 1
  BY <1>1, <1>2, <1>3
<1>6. ASSUME NEW i \in DOMAIN q
      PROVE  /\ q[i].id \in ms[k].id .. n
             /\ h[q[i].id].type \in MessageTypes
             /\ q[i] = Message(q[i].id, h[q[i].id])
  <2>1. k + i - 1 \in DOMAIN ms /\ q[i] = ms[k + i - 1] /\ k <= k + i - 1
    BY <1>5
  <2>2. ms[k].id <= ms[k + i - 1].id
    <3>1. CASE k = k + i - 1
      BY <1>1, <1>4, <3>1
    <3>2. CASE k < k + i - 1
      <4>1. ms[k].id < ms[k + i - 1].id
        BY <2>1, <3>2 DEF Lists
      <4> QED
        BY <1>4, <2>1, <4>1
    <3> QED
      BY <1>1, <2>1, <3>1, <3>2
  <2> QED
    BY <1>4, <2>1, <2>2 DEF Lists
<1>7. ASSUME NEW i \in ms[k].id .. n, h[i].type \in MessageTypes
      PROVE  \E l \in DOMAIN q : q[l].id = i
  <2>1. i \in a .. n
    BY <1>4, <1>7
  <2>2. PICK l \in DOMAIN ms : ms[l].id = i
    BY <1>7, <2>1 DEF Lists
  <2>3. ~(l < k)
    <3>1. l < k => ms[l].id < ms[k].id
      BY <2>2 DEF Lists
    <3> QED
      BY <1>4, <2>2, <3>1, <1>7
  <2>4. l - k + 1 \in DOMAIN q /\ q[l - k + 1] = ms[l]
    <3>1. l - k + 1 \in 1 .. Len(ms) - k + 1 /\ k + (l - k + 1) - 1 = l
      BY <1>1, <2>2, <2>3
    <3> QED
      BY <1>2, <1>3, <3>1
  <2> QED
    BY <2>2, <2>4
<1>8. ASSUME NEW i \in DOMAIN q, NEW l \in DOMAIN q, i < l PROVE q[i].id < q[l].id
  <2>1. k + i - 1 < k + l - 1
    BY <1>1, <1>3, <1>8
  <2> QED
    BY <1>5, <2>1 DEF Lists
<1> QED
  BY <1>2, <1>6, <1>7, <1>8 DEF Lists, q
-----------------------------------------------------------------------------
\* After n events, the messages are s and then those of the log from position a on.
Follows(f, h, n, s, a) == \E q : f[n] = s \o q /\ Lists(q, h, a, n)

\* The messages of a log without a new compaction: those before, and the new ones.
LEMMA ListsLater ==
    ASSUME NEW h, NEW f, NEW m \in Nat, NEW n \in Nat, m <= n, Unrolls(f, h, n),
           NEW S, NEW s \in Seq(S), NEW a \in Nat, a <= m + 1,
           Follows(f, h, m, s, a), Lacks(h, m, n, {"compaction"})
    PROVE  Follows(f, h, n, s, a)
<1> DEFINE bad == {i \in m .. n : ~Follows(f, h, i, s, a)}
<1> SUFFICES ASSUME bad # {} PROVE FALSE
  <2>1. n \in m .. n
    OBVIOUS
  <2> QED
    BY <2>1
<1>0. bad \subseteq Nat
  OBVIOUS
<1> HIDE DEF bad
<1>1. PICK b \in bad : \A k \in bad : b <= k
  BY <1>0, FirstOf
<1>2. b \in m .. n /\ b # m
  BY <1>1 DEF bad
<1>3. b \in m + 1 .. n /\ b \in 1 .. n /\ b - 1 \in m .. n /\ b - 1 \in Nat
      /\ b - 1 + 1 = b /\ a <= b
  BY <1>2
<1>4. PICK q : f[b - 1] = s \o q /\ Lists(q, h, a, b - 1)
  <2>1. b - 1 \notin bad
    BY <1>1, <1>3
  <2> QED
    BY <1>3, <2>1, Zenon DEF bad, Follows
<1>5. f[b] = Project(s \o q, b, h[b])
  BY <1>3, <1>4 DEF Unrolls
<1>6. CASE h[b].type \in MessageTypes
  <2> DEFINE M == Message(b, h[b])
  <2>1. f[b] = Append(s \o q, M)
    BY <1>5, <1>6 DEF Project, MessageTypes
  <2>2. PICK T : q \in Seq(T)
    BY <1>4 DEF Lists
  <2>3. Append(s \o q, M) = s \o Append(q, M)
    <3> DEFINE U == S \cup T \cup {M}
    <3>1. s \in Seq(U) /\ q \in Seq(U) /\ M \in U
      BY <2>2
    <3> HIDE DEF U, M
    <3> QED
      BY <3>1, SMTT(20)
  <2>4. Lists(Append(q, M), h, a, b)
    <3> DEFINE c == b - 1
    <3>1. c \in Nat /\ c + 1 = b /\ a <= c + 1 /\ Lists(q, h, a, c)
      BY <1>3, <1>4
    <3>2. h[c + 1].type \in MessageTypes /\ M = Message(c + 1, h[c + 1])
      BY <1>6, <3>1
    <3> HIDE DEF c, M
    <3>3. Lists(Append(q, Message(c + 1, h[c + 1])), h, a, c + 1)
      BY <3>1, <3>2, ListsAppend
    <3> QED
      BY <3>1, <3>2, <3>3
  <2> QED
    BY <1>1, <2>1, <2>3, <2>4 DEF bad, Follows
<1>7. CASE h[b].type \notin MessageTypes
  <2>1. f[b] = s \o q
    BY <1>3, <1>5, <1>7 DEF Project, MessageTypes, Lacks
  <2>2. Lists(q, h, a, b)
    <3> DEFINE c == b - 1
    <3>1. c \in Nat /\ b \in Nat /\ c <= b /\ Lists(q, h, a, c)
      BY <1>3, <1>4
    <3>2. Lacks(h, c, b, MessageTypes)
      BY <1>3, <1>7 DEF Lacks
    <3> HIDE DEF c
    <3> QED
      BY <3>1, <3>2, ListsSilent
  <2> QED
    BY <1>1, <2>1, <2>2 DEF bad, Follows
<1> QED
  BY <1>6, <1>7
-----------------------------------------------------------------------------
(* Calls and their results.                                                *)

Proposes(i, c) == i \in DOMAIN history /\ history[i].type = "assistant" /\ c \in history[i].calls
Returns(i, c) == i \in DOMAIN history /\ history[i].type = "result" /\ c \in history[i].calls
Finishes(i, c) == i \in DOMAIN history /\ history[i].type = "completed" /\ history[i].call = c

\* A call is proposed once, gets its result at most once after that, and completes only
\* in between.
Exchanges ==
    /\ \A i, j, c : Proposes(i, c) /\ Proposes(j, c) => i = j
    /\ \A i, j, c : Returns(i, c) /\ Returns(j, c) => i = j
    /\ \A j, c : Returns(j, c) \/ Finishes(j, c) => \E i : Proposes(i, c) /\ i < j
    /\ \A i, j, c : Finishes(i, c) /\ Returns(j, c) => i < j

\* Every call of the first n events has its result among them.
Settled(n) == \A i, c : Proposes(i, c) /\ i <= n => \E j : Returns(j, c) /\ j <= n

\* The calls without a result.
Unanswered == {c \in Proposed : ~\E j : Returns(j, c)}

LEMMA ProposedIs == \A c : c \in Proposed <=> \E i : Proposes(i, c)
BY DEF Proposed, Proposes, EventsOf

\* The calls and the results among the messages from a position on.
LEMMA CallsOfList ==
    ASSUME NEW S, history \in Seq(S), NEW a \in Nat \ {0}, NEW ms,
           Lists(ms, history, a, Len(history)), NEW c
    PROVE  /\ c \in CallsOf(ms) <=> \E i : Proposes(i, c) /\ a <= i
           /\ c \in ResultsOf(ms) <=> \E i : Returns(i, c) /\ a <= i
<1>0. DOMAIN history = 1 .. Len(history) /\ Len(history) \in Nat
  OBVIOUS
<1>1. /\ c \in CallsOf(ms) <=> \E k \in DOMAIN ms : c \in ms[k].calls
      /\ c \in ResultsOf(ms) <=> \E k \in DOMAIN ms : c \in ms[k].results
  BY DEF CallsOf, ResultsOf, ToSet
<1>2. ASSUME NEW k \in DOMAIN ms
      PROVE  /\ ms[k].id \in DOMAIN history /\ a <= ms[k].id
             /\ c \in ms[k].calls <=> Proposes(ms[k].id, c)
             /\ c \in ms[k].results <=> Returns(ms[k].id, c)
  <2> DEFINE i == ms[k].id
  <2>1. i \in a .. Len(history) /\ ms[k] = Message(i, history[i])
    BY DEF Lists
  <2>2. i \in DOMAIN history /\ a <= i
    BY <1>0, <2>1
  <2>3. /\ Message(i, history[i]).calls =
             IF history[i].type = "assistant" THEN history[i].calls ELSE {}
        /\ Message(i, history[i]).results =
             IF history[i].type = "result" THEN history[i].calls ELSE {}
    BY DEF Message
  <2> HIDE DEF i
  <2>4. /\ c \in ms[k].calls <=> Proposes(i, c)
        /\ c \in ms[k].results <=> Returns(i, c)
    BY <2>1, <2>2, <2>3 DEF Proposes, Returns
  <2> QED
    BY <2>2, <2>4 DEF i
<1>3. ASSUME NEW i, Proposes(i, c) \/ Returns(i, c), a <= i
      PROVE  \E k \in DOMAIN ms : ms[k].id = i
  <2>1. i \in a .. Len(history) /\ history[i].type \in MessageTypes
    BY <1>0, <1>3 DEF Proposes, Returns, MessageTypes
  <2> QED
    BY <2>1 DEF Lists
<1> QED
  BY <1>1, <1>2, <1>3

\* The messages are those of the log from position a on, behind a state message if there
\* is one; what came before is settled.
Shows(s, r, a) ==
    /\ View = s \o r
    /\ \E S : s \in Seq(S)
    /\ \A k \in DOMAIN s : s[k].kind = "compaction" /\ s[k].calls = {} /\ s[k].results = {}
    /\ a \in Nat \ {0}
    /\ Lists(r, history, a, Len(history))
    /\ Settled(a - 1)

\* The messages are a sequence: the state message, then the others.
LEMMA ShownTypes ==
    ASSUME NEW s, NEW r, NEW a, Shows(s, r, a)
    PROVE  \E S : /\ s \in Seq(S) /\ r \in Seq(S)
                  /\ View \in Seq(S) /\ Len(View) = Len(s) + Len(r)
                  /\ \A k \in 1 .. Len(s) + Len(r) :
                        View[k] = IF k <= Len(s) THEN s[k] ELSE r[k - Len(s)]
<1> PICK S : s \in Seq(S)
  BY DEF Shows
<1> PICK T : r \in Seq(T)
  BY DEF Shows, Lists
<1>1. s \in Seq(S \cup T) /\ r \in Seq(S \cup T)
  OBVIOUS
<1> QED
  BY <1>1, ConcatProperties DEF Shows

LEMMA ShownCalls ==
    ASSUME NEW s, NEW r, NEW a, Shows(s, r, a)
    PROVE  CallsOf(View) = CallsOf(r) /\ ResultsOf(View) = ResultsOf(r)
<1> PICK S : /\ s \in Seq(S) /\ r \in Seq(S)
             /\ View \in Seq(S) /\ Len(View) = Len(s) + Len(r)
             /\ \A k \in 1 .. Len(s) + Len(r) :
                   View[k] = IF k <= Len(s) THEN s[k] ELSE r[k - Len(s)]
  BY ShownTypes
<1>1. Len(s) \in Nat /\ Len(r) \in Nat /\ DOMAIN View = 1 .. Len(s) + Len(r)
      /\ DOMAIN s = 1 .. Len(s) /\ DOMAIN r = 1 .. Len(r)
  OBVIOUS
<1>2. ASSUME NEW k \in DOMAIN View
      PROVE  \/ View[k].calls = {} /\ View[k].results = {}
             \/ \E l \in DOMAIN r : View[k] = r[l]
  <2>1. CASE k <= Len(s)
    <3>1. k \in DOMAIN s /\ View[k] = s[k]
      BY <1>1, <2>1
    <3> QED
      BY <3>1 DEF Shows
  <2>2. CASE ~(k <= Len(s))
    <3>1. k - Len(s) \in DOMAIN r /\ View[k] = r[k - Len(s)]
      BY <1>1, <2>2
    <3> QED
      BY <3>1
  <2> QED
    BY <2>1, <2>2
<1>3. ASSUME NEW l \in DOMAIN r PROVE \E k \in DOMAIN View : View[k] = r[l]
  <2>1. Len(s) + l \in DOMAIN View /\ View[Len(s) + l] = r[l]
    <3>1. ~(Len(s) + l <= Len(s)) /\ Len(s) + l - Len(s) = l /\ Len(s) + l \in DOMAIN View
      BY <1>1
    <3> QED
      BY <1>1, <3>1
  <2> QED
    BY <2>1
<1>4. ASSUME NEW c PROVE c \in CallsOf(View) <=> c \in CallsOf(r)
  BY <1>2, <1>3 DEF CallsOf, ToSet
<1>5. ASSUME NEW c PROVE c \in ResultsOf(View) <=> c \in ResultsOf(r)
  BY <1>2, <1>3 DEF ResultsOf, ToSet
<1> QED
  BY <1>4, <1>5

\* The open calls of the messages are the calls of the log without a result.
LEMMA OpenIs ==
    ASSUME NEW S, history \in Seq(S), Exchanges, NEW s, NEW r, NEW a, Shows(s, r, a)
    PROVE  Open = Unanswered
<1>0. a \in Nat \ {0} /\ Lists(r, history, a, Len(history)) /\ Settled(a - 1)
  BY DEF Shows
<1>1. \A i, c : Proposes(i, c) \/ Returns(i, c) => i \in Nat
  BY DEF Proposes, Returns
<1>2. ASSUME NEW c
      PROVE  /\ c \in CallsOf(r) <=> \E i : Proposes(i, c) /\ a <= i
             /\ c \in ResultsOf(r) <=> \E i : Returns(i, c) /\ a <= i
  BY <1>0, CallsOfList
<1>3. ASSUME NEW c, c \in Open PROVE c \in Unanswered
  <2>1. c \in CallsOf(r) /\ c \notin ResultsOf(r)
    BY <1>3, ShownCalls DEF Open
  <2>2. PICK i : Proposes(i, c) /\ a <= i
    BY <1>2, <2>1
  <2>3. ASSUME NEW j, Returns(j, c) PROVE FALSE
    <3>1. ~(a <= j)
      BY <1>2, <2>1, <2>3
    <3>2. PICK k : Proposes(k, c) /\ k < j
      BY <2>3 DEF Exchanges
    <3>3. k = i
      BY <2>2, <3>2 DEF Exchanges
    <3> QED
      BY <1>0, <1>1, <2>2, <2>3, <3>1, <3>2, <3>3
  <2> QED
    BY <2>2, <2>3, ProposedIs DEF Unanswered
<1>4. ASSUME NEW c, c \in Unanswered PROVE c \in Open
  <2>1. PICK i : Proposes(i, c)
    BY <1>4, ProposedIs DEF Unanswered
  <2>2. a <= i
    <3>1. CASE i <= a - 1
      BY <1>0, <1>4, <2>1, <3>1 DEF Settled, Unanswered
    <3>2. CASE ~(i <= a - 1)
      BY <1>0, <1>1, <2>1, <3>2
    <3> QED
      BY <3>1, <3>2
  <2>3. c \in CallsOf(r) /\ c \notin ResultsOf(r)
    BY <1>2, <1>4, <2>1, <2>2 DEF Unanswered
  <2> QED
    BY <2>3, ShownCalls DEF Open
<1> QED
  BY <1>3, <1>4
-----------------------------------------------------------------------------
\* What is before the start of a group is settled.
LEMMA GroupSettles ==
    ASSUME NEW S, history \in Seq(S), NEW s, NEW r, NEW a, Shows(s, r, a),
           NEW k \in GroupStarts(r)
    PROVE  k \in DOMAIN r /\ Settled(r[k].id - 1)
<1>0. a \in Nat \ {0} /\ Lists(r, history, a, Len(history)) /\ Settled(a - 1)
  BY DEF Shows
<1> DEFINE front == SubSeq(r, 1, k - 1)
<1>1. k \in DOMAIN r /\ CallsOf(front) \subseteq ResultsOf(front)
  BY DEF GroupStarts
<1>2. PICK T : r \in Seq(T)
  BY <1>0 DEF Lists
<1>3. k \in 1 .. Len(r) /\ DOMAIN r = 1 .. Len(r) /\ Len(r) \in Nat
  BY <1>1, <1>2
<1>4. DOMAIN front = 1 .. k - 1 /\ \A l \in 1 .. k - 1 : front[l] = r[l]
  BY <1>2, <1>3
<1> HIDE DEF front
<1>5. /\ \A c : c \in CallsOf(front) <=> \E l \in 1 .. k - 1 : c \in r[l].calls
      /\ \A c : c \in ResultsOf(front) <=> \E l \in 1 .. k - 1 : c \in r[l].results
  BY <1>4 DEF CallsOf, ResultsOf, ToSet
<1>6. ASSUME NEW l \in DOMAIN r, NEW c
      PROVE  /\ r[l].id \in DOMAIN history /\ r[l].id \in Nat /\ a <= r[l].id
             /\ c \in r[l].calls <=> Proposes(r[l].id, c)
             /\ c \in r[l].results <=> Returns(r[l].id, c)
  <2> DEFINE i == r[l].id
  <2>1. i \in a .. Len(history) /\ r[l] = Message(i, history[i])
    BY <1>0 DEF Lists
  <2>2. i \in DOMAIN history /\ i \in Nat /\ a <= i
    BY <1>0, <2>1
  <2>3. /\ Message(i, history[i]).calls =
             IF history[i].type = "assistant" THEN history[i].calls ELSE {}
        /\ Message(i, history[i]).results =
             IF history[i].type = "result" THEN history[i].calls ELSE {}
    BY DEF Message
  <2> HIDE DEF i
  <2>4. /\ c \in r[l].calls <=> Proposes(i, c)
        /\ c \in r[l].results <=> Returns(i, c)
    BY <2>1, <2>2, <2>3 DEF Proposes, Returns
  <2> QED
    BY <2>2, <2>4 DEF i
<1>7. ASSUME NEW i, NEW c, Proposes(i, c), i <= r[k].id - 1
      PROVE  \E j : Returns(j, c) /\ j <= r[k].id - 1
  <2>0. i \in Nat /\ i \in DOMAIN history /\ r[k].id \in Nat /\ a <= r[k].id
    BY <1>1, <1>6, <1>7 DEF Proposes
  <2>1. CASE i <= a - 1
    <3>1. PICK j : Returns(j, c) /\ j <= a - 1
      BY <1>0, <1>7, <2>1 DEF Settled
    <3>2. j \in Nat
      BY <3>1 DEF Returns
    <3> QED
      BY <1>0, <2>0, <3>1, <3>2
  <2>2. CASE ~(i <= a - 1)
    <3>1. i \in a .. Len(history) /\ history[i].type \in MessageTypes
      BY <1>0, <1>7, <2>0, <2>2 DEF Proposes, MessageTypes
    <3>2. PICK l \in DOMAIN r : r[l].id = i
      BY <1>0, <3>1 DEF Lists
    <3>3. l \in 1 .. k - 1
      <4>1. k < l => r[k].id < r[l].id
        BY <1>0, <1>1, <3>2 DEF Lists
      <4>2. ~(k < l) /\ k # l
        BY <1>7, <2>0, <3>2, <4>1
      <4> QED
        BY <1>3, <3>2, <4>2
    <3>4. c \in CallsOf(front)
      BY <1>5, <1>6, <1>7, <3>2, <3>3
    <3>5. PICK p \in 1 .. k - 1 : c \in r[p].results
      BY <1>1, <1>5, <3>4
    <3>6. p \in DOMAIN r /\ p < k
      BY <1>3
    <3>7. Returns(r[p].id, c) /\ r[p].id \in Nat /\ r[p].id < r[k].id
      BY <1>0, <1>1, <1>6, <3>5, <3>6 DEF Lists
    <3> QED
      BY <2>0, <3>7
  <2> QED
    BY <2>1, <2>2
<1> QED
  BY <1>1, <1>7 DEF Settled

\* Messages of which the earlier ones are settled hold exchanges that are whole.
LEMMA ShownWhole ==
    ASSUME NEW S, history \in Seq(S), Exchanges, NEW s, NEW r, NEW a, Shows(s, r, a)
    PROVE  ExchangesStayWhole
<1>0. a \in Nat \ {0} /\ Lists(r, history, a, Len(history)) /\ Settled(a - 1)
  BY DEF Shows
<1> PICK T : /\ s \in Seq(T) /\ r \in Seq(T)
             /\ View \in Seq(T) /\ Len(View) = Len(s) + Len(r)
             /\ \A k \in 1 .. Len(s) + Len(r) :
                   View[k] = IF k <= Len(s) THEN s[k] ELSE r[k - Len(s)]
  BY ShownTypes
<1>1. Len(s) \in Nat /\ Len(r) \in Nat /\ DOMAIN View = 1 .. Len(s) + Len(r)
      /\ DOMAIN s = 1 .. Len(s) /\ DOMAIN r = 1 .. Len(r)
  OBVIOUS
<1>2. \A i, c : Proposes(i, c) \/ Returns(i, c) => i \in Nat /\ i \in DOMAIN history
  BY DEF Proposes, Returns
<1>3. ASSUME NEW c
      PROVE  /\ c \in CallsOf(View) <=> \E i : Proposes(i, c) /\ a <= i
             /\ c \in ResultsOf(View) <=> \E i : Returns(i, c) /\ a <= i
  BY <1>0, CallsOfList, ShownCalls
<1>4. ASSUME NEW j, NEW c, Returns(j, c), a <= j
      PROVE  \E i : Proposes(i, c) /\ a <= i /\ i < j
  <2>1. PICK i : Proposes(i, c) /\ i < j
    BY <1>4 DEF Exchanges
  <2>2. ~(i <= a - 1)
    <3>1. SUFFICES ASSUME i <= a - 1 PROVE FALSE
      OBVIOUS
    <3>2. PICK k : Returns(k, c) /\ k <= a - 1
      BY <1>0, <2>1, <3>1 DEF Settled
    <3>3. k = j
      BY <1>4, <3>2 DEF Exchanges
    <3> QED
      BY <1>0, <1>2, <1>4, <3>2, <3>3
  <2> QED
    BY <1>0, <1>2, <2>1, <2>2
<1>5. ASSUME NEW k \in DOMAIN View, NEW c \in View[k].results
      PROVE  c \in CallsOf(SubSeq(View, 1, k - 1))
  <2>1. ~(k <= Len(s))
    <3>1. SUFFICES ASSUME k <= Len(s) PROVE FALSE
      OBVIOUS
    <3>2. k \in DOMAIN s /\ View[k] = s[k]
      BY <1>1, <3>1
    <3> QED
      BY <1>5, <3>2 DEF Shows
  <2>2. PICK l : l = k - Len(s)
    OBVIOUS
  <2>3. l \in DOMAIN r /\ View[k] = r[l] /\ k = Len(s) + l
    BY <1>1, <2>1, <2>2
  <2>4. Returns(r[l].id, c) /\ a <= r[l].id
    <3> DEFINE j == r[l].id
    <3>1. j \in a .. Len(history) /\ r[l] = Message(j, history[j])
      BY <1>0, <2>3 DEF Lists
    <3>2. Message(j, history[j]).results =
             IF history[j].type = "result" THEN history[j].calls ELSE {}
      BY DEF Message
    <3>3. j \in DOMAIN history /\ a <= j
      BY <1>0, <3>1
    <3> HIDE DEF j
    <3>4. c \in Message(j, history[j]).results
      BY <1>5, <2>3, <3>1
    <3>5. Returns(j, c)
      BY <3>2, <3>3, <3>4 DEF Returns
    <3> QED
      BY <3>3, <3>5 DEF j
  <2>5. PICK i : Proposes(i, c) /\ a <= i /\ i < r[l].id
    BY <1>4, <2>4
  <2>6. i \in a .. Len(history) /\ history[i].type \in MessageTypes
    BY <1>0, <1>2, <2>5 DEF Proposes, MessageTypes
  <2>7. PICK p \in DOMAIN r : r[p].id = i
    BY <1>0, <2>6 DEF Lists
  <2>8. p < l
    <3>1. l < p => r[l].id < r[p].id
      BY <1>0, <2>3, <2>7 DEF Lists
    <3>2. i \in Nat /\ r[l].id \in Nat
      BY <1>2, <2>4, <2>5
    <3>3. ~(l < p) /\ l # p
      BY <2>5, <2>7, <3>1, <3>2
    <3> QED
      BY <1>1, <2>3, <2>7, <3>3
  <2>9. c \in r[p].calls
    <3>1. r[p] = Message(i, history[i])
      BY <1>0, <2>7 DEF Lists
    <3>2. Message(i, history[i]).calls =
             IF history[i].type = "assistant" THEN history[i].calls ELSE {}
      BY DEF Message
    <3> QED
      BY <2>5, <3>1, <3>2 DEF Proposes
  <2>10. View[Len(s) + p] = r[p] /\ Len(s) + p \in 1 .. k - 1
    <3>1. Len(s) + p \in 1 .. Len(s) + Len(r) /\ ~(Len(s) + p <= Len(s))
          /\ Len(s) + p - Len(s) = p /\ Len(s) + p \in 1 .. k - 1
      BY <1>1, <2>3, <2>7, <2>8
    <3> QED
      BY <3>1
  <2>11. SubSeq(View, 1, k - 1)[Len(s) + p] = View[Len(s) + p]
         /\ Len(s) + p \in DOMAIN SubSeq(View, 1, k - 1)
    <3>1. k \in 1 .. Len(View)
      OBVIOUS
    <3> PICK V : V = View
      OBVIOUS
    <3>2. V \in Seq(T) /\ k \in 1 .. Len(V)
      BY <3>1
    <3>3. DOMAIN SubSeq(V, 1, k - 1) = 1 .. k - 1
          /\ \A q \in 1 .. k - 1 : SubSeq(V, 1, k - 1)[q] = V[q]
      BY <3>2
    <3> QED
      BY <2>10, <3>3
  <2> QED
    BY <2>9, <2>10, <2>11 DEF CallsOf, ToSet
<1>6. ASSUME NEW c \in CallsOf(View), ResultOf(c, DOMAIN history) # {}
      PROVE  c \in ResultsOf(View)
  <2>1. PICK j : Returns(j, c)
    BY <1>6 DEF ResultOf, EventsOf, Returns
  <2>2. PICK i : Proposes(i, c) /\ a <= i
    BY <1>3
  <2>3. PICK k : Proposes(k, c) /\ k < j
    BY <2>1 DEF Exchanges
  <2>4. k = i
    BY <2>2, <2>3 DEF Exchanges
  <2>5. a <= j
    BY <1>0, <1>2, <2>1, <2>2, <2>3, <2>4
  <2> QED
    BY <1>3, <2>1, <2>5
<1> QED
  BY <1>5, <1>6 DEF ExchangesStayWhole
-----------------------------------------------------------------------------
\* The log of a session: it starts with a request, calls are numbered as they are
\* proposed, and an approval is resolved after it was requested.
LogInv ==
    /\ \E S : history \in Seq(S)
    /\ Exchanges
    /\ \E n \in Nat : Proposed = 1 .. n
    /\ \A i \in DOMAIN history : history[i].type = "resolved" =>
          \E j \in DOMAIN history : /\ j < i /\ history[j].type = "requested"
                                    /\ history[j].approval = history[i].approval
    /\ history = <<>> \/ history[1].type = "user"

\* What the traces of a call are when the log has grown.
LEMMA TracesGrow ==
    ASSUME NEW S, history \in Seq(S), NEW T, NEW es \in Seq(T), Emit(es)
    PROVE  /\ \A i, c : Proposes(i, c)' <=>
                 \/ Proposes(i, c)
                 \/ \E k \in DOMAIN es : /\ i = Len(history) + k
                                         /\ es[k].type = "assistant" /\ c \in es[k].calls
           /\ \A i, c : Returns(i, c)' <=>
                 \/ Returns(i, c)
                 \/ \E k \in DOMAIN es : /\ i = Len(history) + k
                                         /\ es[k].type = "result" /\ c \in es[k].calls
           /\ \A i, c : Finishes(i, c)' <=>
                 \/ Finishes(i, c)
                 \/ \E k \in DOMAIN es : /\ i = Len(history) + k
                                         /\ es[k].type = "completed" /\ c = es[k].call
<1>1. /\ Len(history') = Len(history) + Len(es) /\ DOMAIN history' = 1 .. Len(history')
      /\ DOMAIN history = 1 .. Len(history)
      /\ \A i \in DOMAIN history : history'[i] = history[i]
      /\ \A i \in DOMAIN history' :
            i \in DOMAIN history \/ \E k \in DOMAIN es : i = Len(history) + k /\ history'[i] = es[k]
  <2>1. Extends(es, S, T)
    BY Longer
  <2> QED
    BY <2>1 DEF Extends
<1>2. DOMAIN es = 1 .. Len(es) /\ Len(es) \in Nat /\ Len(history) \in Nat
  OBVIOUS
<1>3. ASSUME NEW k \in DOMAIN es
      PROVE  /\ Len(history) + k \in DOMAIN history' /\ Len(history) + k \notin DOMAIN history
             /\ history'[Len(history) + k] = es[k]
  <2>1. Len(history) + k \in DOMAIN history' /\ Len(history) + k \notin DOMAIN history
    BY <1>1, <1>2
  <2>2. PICK l \in DOMAIN es : Len(history) + k = Len(history) + l
                               /\ history'[Len(history) + k] = es[l]
    BY <1>1, <2>1
  <2>3. l = k
    BY <1>2, <2>2
  <2> QED
    BY <2>1, <2>2, <2>3
<1>4. \A i \in DOMAIN history : i \in DOMAIN history'
  BY <1>1, <1>2
<1>5. ASSUME NEW i
      PROVE  \/ i \in DOMAIN history /\ i \in DOMAIN history' /\ history'[i] = history[i]
                /\ ~\E k \in DOMAIN es : i = Len(history) + k
             \/ i \notin DOMAIN history /\ i \notin DOMAIN history'
                /\ ~\E k \in DOMAIN es : i = Len(history) + k
             \/ i \notin DOMAIN history /\ i \in DOMAIN history'
                /\ \E k \in DOMAIN es : /\ i = Len(history) + k /\ history'[i] = es[k]
                                        /\ \A l \in DOMAIN es : i = Len(history) + l => l = k
  <2>1. \A k, l \in DOMAIN es : Len(history) + k = Len(history) + l => k = l
    BY <1>2
  <2> QED
    BY <1>1, <1>3, <1>4, <2>1
<1> QED
  BY <1>5 DEF Proposes, Returns, Finishes

TraceTypes == {"assistant", "result", "completed"}

LEMMA ExchangesGrow ==
    ASSUME NEW S, history \in Seq(S), NEW T, NEW es \in Seq(T), Emit(es), Exchanges,
           \A k, l \in DOMAIN es :
               es[k].type \in TraceTypes /\ es[l].type \in TraceTypes => k = l,
           \A k \in DOMAIN es :
               /\ es[k].type = "assistant" => es[k].calls \cap Proposed = {}
               /\ es[k].type = "result" => es[k].calls \subseteq Unanswered
               /\ es[k].type = "completed" => es[k].call \in Unanswered
    PROVE  Exchanges'
<1> DEFINE n == Len(history)
           P(i, c) == \E k \in DOMAIN es : /\ i = n + k
                                           /\ es[k].type = "assistant" /\ c \in es[k].calls
           R(i, c) == \E k \in DOMAIN es : /\ i = n + k
                                           /\ es[k].type = "result" /\ c \in es[k].calls
           F(i, c) == \E k \in DOMAIN es : /\ i = n + k
                                           /\ es[k].type = "completed" /\ c = es[k].call
<1>1. /\ \A i, c : Proposes(i, c)' <=> Proposes(i, c) \/ P(i, c)
      /\ \A i, c : Returns(i, c)' <=> Returns(i, c) \/ R(i, c)
      /\ \A i, c : Finishes(i, c)' <=> Finishes(i, c) \/ F(i, c)
  BY TracesGrow, Zenon
<1>2. /\ \A i, c : Proposes(i, c) \/ Returns(i, c) \/ Finishes(i, c) => i \in Nat /\ i <= n
      /\ \A i, c : P(i, c) \/ R(i, c) \/ F(i, c) => i \in Nat /\ n < i
  BY DEF Proposes, Returns, Finishes
<1>3. \A i, j, c, d : (P(i, c) \/ R(i, c) \/ F(i, c)) /\ (P(j, d) \/ R(j, d) \/ F(j, d))
                          => i = j
  <2>1. ASSUME NEW i, NEW c, P(i, c) \/ R(i, c) \/ F(i, c)
        PROVE  \E k \in DOMAIN es : i = n + k /\ es[k].type \in TraceTypes
    BY <2>1 DEF TraceTypes
  <2> HIDE DEF P, R, F
  <2> QED
    BY <2>1
<1>4. \A i, j, c, d : ~(F(i, c) /\ (P(j, d) \/ R(j, d)))
  <2> SUFFICES ASSUME NEW i, NEW j, NEW c, NEW d, F(i, c), P(j, d) \/ R(j, d) PROVE FALSE
    OBVIOUS
  <2>1. PICK k \in DOMAIN es : es[k].type = "completed"
    OBVIOUS
  <2>2. PICK l \in DOMAIN es : es[l].type \in {"assistant", "result"}
    OBVIOUS
  <2>3. k = l
    BY <2>1, <2>2 DEF TraceTypes
  <2> QED
    BY <2>1, <2>2, <2>3
<1>5. /\ \A i, j, c : P(i, c) => ~Proposes(j, c)
      /\ \A i, j, c : R(i, c) \/ F(i, c) => ~Returns(j, c)
      /\ \A i, c : R(i, c) \/ F(i, c) => \E j : Proposes(j, c)
  <2>1. ASSUME NEW i, NEW j, NEW c, P(i, c) PROVE ~Proposes(j, c)
    BY <2>1, ProposedIs
  <2>2. ASSUME NEW i, NEW c, R(i, c) \/ F(i, c) PROVE c \in Unanswered
    BY <2>2
  <2> QED
    BY <2>1, <2>2, ProposedIs DEF Unanswered
<1> HIDE DEF P, R, F, n
<1>6. ASSUME NEW i, NEW j, NEW c, Proposes(i, c)', Proposes(j, c)' PROVE i = j
  <2>0. (Proposes(i, c) \/ P(i, c)) /\ (Proposes(j, c) \/ P(j, c))
    BY <1>1, <1>6
  <2>1. CASE Proposes(i, c) /\ Proposes(j, c)
    BY <2>1 DEF Exchanges
  <2>2. CASE P(i, c) /\ P(j, c)
    BY <1>3, <2>2
  <2>3. CASE (Proposes(i, c) /\ P(j, c)) \/ (P(i, c) /\ Proposes(j, c))
    BY <1>5, <2>3
  <2> QED
    BY <2>0, <2>1, <2>2, <2>3
<1>7. ASSUME NEW i, NEW j, NEW c, Returns(i, c)', Returns(j, c)' PROVE i = j
  <2>0. (Returns(i, c) \/ R(i, c)) /\ (Returns(j, c) \/ R(j, c))
    BY <1>1, <1>7
  <2>1. CASE Returns(i, c) /\ Returns(j, c)
    BY <2>1 DEF Exchanges
  <2>2. CASE R(i, c) /\ R(j, c)
    BY <1>3, <2>2
  <2>3. CASE (Returns(i, c) /\ R(j, c)) \/ (R(i, c) /\ Returns(j, c))
    BY <1>5, <2>3
  <2> QED
    BY <2>0, <2>1, <2>2, <2>3
<1>8. ASSUME NEW j, NEW c, Returns(j, c)' \/ Finishes(j, c)'
      PROVE  \E i : Proposes(i, c)' /\ i < j
  <2>1. CASE Returns(j, c) \/ Finishes(j, c)
    BY <1>1, <2>1 DEF Exchanges
  <2>2. CASE R(j, c) \/ F(j, c)
    <3>1. PICK i : Proposes(i, c)
      BY <1>5, <2>2
    <3>2. i < j
      <4>1. n \in Nat
        BY DEF n
      <4> QED
        BY <1>2, <2>2, <3>1, <4>1
    <3> QED
      BY <1>1, <3>1, <3>2
  <2> QED
    BY <1>1, <1>8, <2>1, <2>2
<1>9. ASSUME NEW i, NEW j, NEW c, Finishes(i, c)', Returns(j, c)' PROVE i < j
  <2>1. CASE Finishes(i, c) /\ Returns(j, c)
    BY <2>1 DEF Exchanges
  <2>2. CASE Finishes(i, c) /\ R(j, c)
    <3>1. n \in Nat
      BY DEF n
    <3> QED
      BY <1>2, <2>2, <3>1
  <2>3. CASE F(i, c)
    BY <1>1, <1>4, <1>5, <1>9, <2>3
  <2> QED
    BY <1>1, <1>9, <2>1, <2>2, <2>3
<1> QED
  BY <1>6, <1>7, <1>8, <1>9 DEF Exchanges
-----------------------------------------------------------------------------
\* Events that may come next in the log.
Continues(es) ==
    /\ \E T : es \in Seq(T)
    /\ \A k, l \in DOMAIN es :
          es[k].type \in TraceTypes /\ es[l].type \in TraceTypes => k = l
    /\ \A k \in DOMAIN es :
          /\ es[k].type = "assistant" => /\ es[k].calls \cap Proposed = {}
                                         /\ \E n \in Nat : Proposed \cup es[k].calls = 1 .. n
          /\ es[k].type = "result" => es[k].calls \subseteq Unanswered
          /\ es[k].type = "completed" => es[k].call \in Unanswered
          /\ es[k].type = "resolved" => \E j \in Asked : history[j].approval = es[k].approval
    /\ history # <<>> \/ (1 \in DOMAIN es /\ es[1].type = "user")

\* The log stays well-formed with events that may come next.
LEMMA LogGrows == ASSUME LogInv, NEW es, Continues(es), Emit(es) PROVE LogInv'
<1> PICK S : history \in Seq(S)
  BY DEF LogInv
<1> PICK T : es \in Seq(T)
  BY DEF Continues
<1>1. /\ history' \in Seq(S \cup T)
      /\ Len(history') = Len(history) + Len(es) /\ DOMAIN history' = 1 .. Len(history')
      /\ DOMAIN history = 1 .. Len(history)
      /\ \A i \in DOMAIN history : history'[i] = history[i]
      /\ \A i \in DOMAIN history' :
            i \in DOMAIN history \/ \E k \in DOMAIN es : i = Len(history) + k /\ history'[i] = es[k]
  <2>1. Extends(es, S, T)
    BY Longer
  <2> QED
    BY <2>1 DEF Extends
<1>2. DOMAIN es = 1 .. Len(es) /\ Len(es) \in Nat /\ Len(history) \in Nat
      /\ \A i \in DOMAIN history : i \in DOMAIN history' /\ i <= Len(history)
  BY <1>1
<1>3. Exchanges'
  <2>1. /\ Exchanges
        /\ \A k, l \in DOMAIN es :
               es[k].type \in TraceTypes /\ es[l].type \in TraceTypes => k = l
        /\ \A k \in DOMAIN es :
               /\ es[k].type = "assistant" => es[k].calls \cap Proposed = {}
               /\ es[k].type = "result" => es[k].calls \subseteq Unanswered
               /\ es[k].type = "completed" => es[k].call \in Unanswered
    BY DEF LogInv, Continues
  <2> QED
    BY <2>1, ExchangesGrow
<1>4. \E n \in Nat : Proposed' = 1 .. n
  <2>0. \A i, c : Proposes(i, c)' <=>
           \/ Proposes(i, c)
           \/ \E k \in DOMAIN es : /\ i = Len(history) + k
                                   /\ es[k].type = "assistant" /\ c \in es[k].calls
    BY TracesGrow
  <2>1. \A c : c \in Proposed' <=> \E i : Proposes(i, c)'
    BY DEF Proposed, Proposes, EventsOf
  <2>2. CASE \E k \in DOMAIN es : es[k].type = "assistant"
    <3>1. PICK k \in DOMAIN es : es[k].type = "assistant"
      BY <2>2
    <3>2. \A l \in DOMAIN es : es[l].type = "assistant" => l = k
      BY <3>1 DEF Continues, TraceTypes
    <3>3. \A c : c \in Proposed' <=> c \in Proposed \/ c \in es[k].calls
      BY <2>0, <2>1, <3>1, <3>2, ProposedIs
    <3>4. Proposed' = Proposed \cup es[k].calls
      BY <3>3
    <3> QED
      BY <3>1, <3>4 DEF Continues
  <2>3. CASE ~\E k \in DOMAIN es : es[k].type = "assistant"
    <3>1. \A c : c \in Proposed' <=> c \in Proposed
      BY <2>0, <2>1, <2>3, ProposedIs
    <3>2. Proposed' = Proposed
      BY <3>1
    <3> QED
      BY <3>2 DEF LogInv
  <2> QED
    BY <2>2, <2>3
<1>5. ASSUME NEW i \in DOMAIN history', history'[i].type = "resolved"
      PROVE  \E j \in DOMAIN history' : /\ j < i /\ history'[j].type = "requested"
                                        /\ history'[j].approval = history'[i].approval
  <2>1. CASE i \in DOMAIN history
    <3>1. PICK j \in DOMAIN history : /\ j < i /\ history[j].type = "requested"
                                      /\ history[j].approval = history[i].approval
      BY <1>1, <1>5, <2>1 DEF LogInv
    <3> QED
      BY <1>1, <1>2, <2>1, <3>1
  <2>2. CASE i \notin DOMAIN history
    <3>1. PICK k \in DOMAIN es : i = Len(history) + k /\ history'[i] = es[k]
      BY <1>1, <2>2
    <3>2. PICK j \in Asked : history[j].approval = es[k].approval
      BY <1>5, <3>1 DEF Continues
    <3>3. j \in DOMAIN history /\ history[j].type = "requested" /\ j < i
      BY <1>1, <1>2, <2>2, <3>1, <3>2 DEF Asked, EventsOf
    <3> QED
      BY <1>1, <1>2, <3>1, <3>2, <3>3
  <2> QED
    BY <2>1, <2>2
<1>6. history' = <<>> \/ history'[1].type = "user"
  <2>1. CASE history = <<>>
    <3>1. 1 \in DOMAIN es /\ es[1].type = "user" /\ Len(history) = 0
      BY <2>1 DEF Continues
    <3>2. 1 \in DOMAIN history' /\ 1 \notin DOMAIN history
      BY <1>1, <1>2, <3>1
    <3>3. PICK k \in DOMAIN es : 1 = Len(history) + k /\ history'[1] = es[k]
      BY <1>1, <3>2
    <3> QED
      BY <1>2, <3>1, <3>3
  <2>2. CASE history # <<>>
    <3>1. 1 \in DOMAIN history
      BY <1>1, <1>2, <2>2
    <3> QED
      BY <1>1, <2>2, <3>1 DEF LogInv
  <2> QED
    BY <2>1, <2>2
<1> QED
  BY <1>1, <1>3, <1>4, <1>5, <1>6 DEF LogInv

\* What is settled stays settled.
LEMMA SettledGrows ==
    ASSUME NEW S, history \in Seq(S), NEW T, NEW es \in Seq(T), Emit(es),
           NEW n \in Nat, n <= Len(history), Settled(n)
    PROVE  Settled(n)'
<1>1. /\ \A i, c : Proposes(i, c)' <=>
            \/ Proposes(i, c)
            \/ \E k \in DOMAIN es : /\ i = Len(history) + k
                                    /\ es[k].type = "assistant" /\ c \in es[k].calls
      /\ \A i, c : Returns(i, c)' <=>
            \/ Returns(i, c)
            \/ \E k \in DOMAIN es : /\ i = Len(history) + k
                                    /\ es[k].type = "result" /\ c \in es[k].calls
  BY TracesGrow
<1>2. ASSUME NEW i, NEW c, Proposes(i, c)', i <= n
      PROVE  \E j : Returns(j, c)' /\ j <= n
  <2>1. ~\E k \in DOMAIN es : i = Len(history) + k
    BY <1>2
  <2>2. Proposes(i, c)
    BY <1>1, <1>2, <2>1
  <2>3. PICK j : Returns(j, c) /\ j <= n
    BY <1>2, <2>2 DEF Settled
  <2> QED
    BY <1>1, <2>3
<1> QED
  BY <1>2 DEF Settled

\* If no call is open, all that the log holds is settled.
LEMMA AllSettled ==
    ASSUME NEW S, history \in Seq(S), Unanswered = {}
    PROVE  Settled(Len(history))
<1>1. ASSUME NEW i, NEW c, Proposes(i, c) PROVE \E j : Returns(j, c) /\ j <= Len(history)
  <2>1. PICK j : Returns(j, c)
    BY <1>1, ProposedIs DEF Unanswered
  <2>2. j <= Len(history)
    BY <2>1 DEF Returns
  <2> QED
    BY <2>1, <2>2
<1> QED
  BY <1>1 DEF Settled
-----------------------------------------------------------------------------
(* One projection of a log and two, one after the other.                   *)

\* The events after the first m of n.
After(m, n) == {i \in 1 .. n : i > m}

SameTrace(c, X, Y) ==
    /\ CompletionOf(c, X) = CompletionOf(c, Y)
    /\ ResultOf(c, X) = ResultOf(c, Y)
    /\ CallOf(c, X) = CallOf(c, Y)

NoTrace(c, X) == CompletionOf(c, X) = {} /\ ResultOf(c, X) = {} /\ CallOf(c, X) = {}

\* The events B are A and D, and those of a call are all in A or all in D.
Splits(B, A, D) ==
    \A c : \/ SameTrace(c, B, A) /\ NoTrace(c, D)
           \/ SameTrace(c, B, D) /\ NoTrace(c, A)

\* If the first m events are settled, the events of a call are all among them, or all
\* among those that follow.
LEMMA TraceSplits ==
    ASSUME NEW S, history \in Seq(S), Exchanges, NEW m \in Nat, NEW n \in Nat, m <= n,
           n <= Len(history), Settled(m), NEW c
    PROVE  \/ SameTrace(c, 1 .. n, 1 .. m) /\ NoTrace(c, After(m, n))
           \/ SameTrace(c, 1 .. n, After(m, n)) /\ NoTrace(c, 1 .. m)
<1>1. ASSUME NEW X, \A x \in X : x \in DOMAIN history
      PROVE  /\ \A i : i \in CompletionOf(c, X) <=> i \in X /\ Finishes(i, c)
             /\ \A i : i \in ResultOf(c, X) <=> i \in X /\ Returns(i, c)
             /\ \A i : i \in CallOf(c, X) <=> i \in X /\ Proposes(i, c)
  <2>1. \A i : i \in CompletionOf(c, X) <=> i \in X /\ Finishes(i, c)
    BY <1>1 DEF CompletionOf, EventsOf, Finishes
  <2>2. \A i : i \in ResultOf(c, X) <=> i \in X /\ Returns(i, c)
    BY <1>1 DEF ResultOf, EventsOf, Returns
  <2>3. \A i : i \in CallOf(c, X) <=> i \in X /\ Proposes(i, c)
    BY <1>1 DEF CallOf, EventsOf, Proposes
  <2> QED
    BY <2>1, <2>2, <2>3
<1> DEFINE A == 1 .. m
           B == 1 .. n
           D == After(m, n)
<1>2. /\ \A i : i \in B <=> i \in A \/ i \in D
      /\ \A i : i \in A <=> i \in B /\ i <= m
      /\ \A i \in D : m < i
      /\ \A i \in A : i \in DOMAIN history
      /\ \A i \in B : i \in DOMAIN history
      /\ \A i \in D : i \in DOMAIN history
  BY DEF After
<1>6. ASSUME NEW X, NEW Y, \A x \in X : x \in DOMAIN history, \A x \in Y : x \in DOMAIN history,
             \A k : Proposes(k, c) \/ Returns(k, c) \/ Finishes(k, c) => (k \in X <=> k \in Y)
      PROVE  SameTrace(c, X, Y)
  <2>1. \A k : k \in CompletionOf(c, X) <=> k \in CompletionOf(c, Y)
    BY <1>1, <1>6
  <2>2. \A k : k \in ResultOf(c, X) <=> k \in ResultOf(c, Y)
    BY <1>1, <1>6
  <2>3. \A k : k \in CallOf(c, X) <=> k \in CallOf(c, Y)
    BY <1>1, <1>6
  <2>4. CompletionOf(c, X) = CompletionOf(c, Y) /\ ResultOf(c, X) = ResultOf(c, Y)
    BY <2>1, <2>2
  <2>5. CallOf(c, X) = CallOf(c, Y)
    BY <2>3
  <2> QED
    BY <2>4, <2>5 DEF SameTrace
<1>3. \A i : Proposes(i, c) \/ Returns(i, c) \/ Finishes(i, c) => i \in Nat
  BY DEF Proposes, Returns, Finishes
<1> HIDE DEF A, B, D
<1>4. CASE \E i : Proposes(i, c) /\ i <= m
  <2>1. PICK i : Proposes(i, c) /\ i <= m
    BY <1>4
  <2>2. PICK j : Returns(j, c) /\ j <= m
    BY <2>1 DEF Settled
  <2>3. \A k : Proposes(k, c) => k <= m
    BY <2>1 DEF Exchanges
  <2>4. \A k : Returns(k, c) => k <= m
    BY <2>2 DEF Exchanges
  <2>5. \A k : Finishes(k, c) => k <= m
    <3>1. ASSUME NEW k, Finishes(k, c) PROVE k <= m
      <4>1. k < j
        BY <2>2, <3>1 DEF Exchanges
      <4> QED
        BY <1>3, <2>2, <3>1, <4>1
    <3> QED
      BY <3>1
  <2>6. \A k \in D : ~(k <= m)
    <3>1. \A k \in D : k \in Nat
      BY DEF D, After
    <3> QED
      BY <1>2, <3>1
  <2>7. NoTrace(c, D)
    BY <1>1, <1>2, <2>3, <2>4, <2>5, <2>6 DEF NoTrace
  <2>8. SameTrace(c, B, A)
    BY <1>2, <1>6, <2>3, <2>4, <2>5
  <2> QED
    BY <2>7, <2>8 DEF A, B, D
<1>5. CASE ~\E i : Proposes(i, c) /\ i <= m
  <2>1. \A k : Returns(k, c) \/ Finishes(k, c) => ~(k <= m)
    <3>1. ASSUME NEW k, Returns(k, c) \/ Finishes(k, c), k <= m PROVE FALSE
      <4>1. PICK i : Proposes(i, c) /\ i < k
        BY <3>1 DEF Exchanges
      <4>2. i <= m
        BY <1>3, <3>1, <4>1
      <4> QED
        BY <1>5, <4>1, <4>2
    <3> QED
      BY <3>1
  <2>2. NoTrace(c, A)
    BY <1>1, <1>2, <1>5, <2>1 DEF NoTrace
  <2>3. \A k : Proposes(k, c) \/ Returns(k, c) \/ Finishes(k, c) => (k \in B <=> k \in D)
    BY <1>2, <1>5, <2>1
  <2>4. SameTrace(c, B, D)
    BY <1>2, <1>6, <2>3
  <2> QED
    BY <2>2, <2>4 DEF A, B, D
<1> QED
  BY <1>4, <1>5

\* The projections of the events of tools.
Good(S) == {c \in Calls : Ended(c, S) /\ ~Failed(c, S)}
Failures(S) == {Fact("failures", c, Evidence(c, S)) : c \in {d \in Calls : Ended(d, S) /\ Failed(d, S)}}
Checks(S) == {Fact("verified", c, Evidence(c, S)) :
                 c \in {d \in Good(S) : \E i \in CompletionOf(d, S) : history[i].verified}}
Writes(p, S) == {i \in EventsOf("completed", S) : history[i].call \in Good(S) /\ history[i].path = p}
LastWrite(p, S) == Fact("files", p, Evidence(history[Max(Writes(p, S))].call, S))
Files(S) == {LastWrite(p, S) : p \in {q \in Paths : Writes(q, S) # {}}}
NewFacts(S) == Failures(S) \cup Checks(S) \cup Files(S)

\* A fact of S says something new of what f is about.
Overrides(S, f) == \E g \in NewFacts(S) : g.field = f.field /\ g.key = f.key

\* The projection of tool events: new facts, and prior ones that they do not override.
LEMMA ToolFactsIs ==
    ASSUME NEW X, NEW S
    PROVE  ToolFacts(X, S) = {f \in X : ~Overrides(S, f)} \cup NewFacts(S)
BY DEF ToolFacts, Overrides, NewFacts, Files, LastWrite, Writes, Checks, Failures, Good

LEMMA TraceFacts ==
    ASSUME NEW c, NEW X, NEW Y, SameTrace(c, X, Y)
    PROVE  /\ Ended(c, X) <=> Ended(c, Y)
           /\ Failed(c, X) <=> Failed(c, Y)
           /\ Evidence(c, X) = Evidence(c, Y)
           /\ CompletionOf(c, X) = CompletionOf(c, Y)
BY DEF SameTrace, Ended, Failed, Evidence

\* Failures and checks that passed.
LEMMA CallFactsSplit ==
    ASSUME NEW A, NEW B, NEW D, Splits(B, A, D)
    PROVE  /\ Good(B) = Good(A) \cup Good(D)
           /\ Failures(B) = Failures(A) \cup Failures(D)
           /\ Checks(B) = Checks(A) \cup Checks(D)
           /\ \A c : ~(Ended(c, A) /\ Ended(c, D))
           /\ \A c : Ended(c, A) => Evidence(c, B) = Evidence(c, A)
           /\ \A c : Ended(c, D) => Evidence(c, B) = Evidence(c, D)
<1>1. \A c : NoTrace(c, A) => ~Ended(c, A)
  BY DEF NoTrace, Ended
<1>2. \A c : NoTrace(c, D) => ~Ended(c, D)
  BY DEF NoTrace, Ended
<1>3. ASSUME NEW c
      PROVE  \/ /\ Ended(c, B) <=> Ended(c, A)
                /\ Failed(c, B) <=> Failed(c, A)
                /\ Evidence(c, B) = Evidence(c, A)
                /\ CompletionOf(c, B) = CompletionOf(c, A)
                /\ ~Ended(c, D)
             \/ /\ Ended(c, B) <=> Ended(c, D)
                /\ Failed(c, B) <=> Failed(c, D)
                /\ Evidence(c, B) = Evidence(c, D)
                /\ CompletionOf(c, B) = CompletionOf(c, D)
                /\ ~Ended(c, A)
  BY <1>1, <1>2, TraceFacts DEF Splits
<1>4. \A c : c \in Good(B) <=> c \in Good(A) \/ c \in Good(D)
  BY <1>3 DEF Good
<1>5. \A f : f \in Failures(B) <=> f \in Failures(A) \/ f \in Failures(D)
  <2>1. ASSUME NEW f, NEW d \in Calls, Ended(d, B), Failed(d, B),
               f = Fact("failures", d, Evidence(d, B))
        PROVE  f \in Failures(A) \/ f \in Failures(D)
    BY <1>3, <2>1 DEF Failures
  <2>2. ASSUME NEW f, NEW d \in Calls, Ended(d, A), Failed(d, A),
               f = Fact("failures", d, Evidence(d, A))
        PROVE  f \in Failures(B)
    BY <1>3, <2>2 DEF Failures
  <2>3. ASSUME NEW f, NEW d \in Calls, Ended(d, D), Failed(d, D),
               f = Fact("failures", d, Evidence(d, D))
        PROVE  f \in Failures(B)
    BY <1>3, <2>3 DEF Failures
  <2> QED
    BY <2>1, <2>2, <2>3 DEF Failures
<1>6. \A f : f \in Checks(B) <=> f \in Checks(A) \/ f \in Checks(D)
  <2> DEFINE V(d, X) == \E i \in CompletionOf(d, X) : history[i].verified
  <2>0. \A f, X : f \in Checks(X) <=>
                     \E d \in Good(X) : V(d, X) /\ f = Fact("verified", d, Evidence(d, X))
    BY DEF Checks
  <2>1. ASSUME NEW d
        PROVE  /\ d \in Good(A) => d \in Good(B) /\ (V(d, A) <=> V(d, B))
                                   /\ Evidence(d, B) = Evidence(d, A)
               /\ d \in Good(D) => d \in Good(B) /\ (V(d, D) <=> V(d, B))
                                   /\ Evidence(d, B) = Evidence(d, D)
    BY <1>3, <1>4 DEF Good
  <2> HIDE DEF V
  <2> QED
    BY <1>4, <2>0, <2>1
<1> QED
  BY <1>3, <1>4, <1>5, <1>6
-----------------------------------------------------------------------------
(* The messages, the state in force, and the compaction in flight.         *)

\* The state in force, or none.
Latest == Previous(Compactions)

\* The state message that the messages start with.
Summary == IF Compactions = {} THEN <<>>
           ELSE <<Message(Max(Compactions), history[Max(Compactions)])>>

\* Behind the state message follow the messages from position a on: what came before is
\* settled, and the state covers it.
Shown(r, a) == Shows(Summary, r, a) /\ a - 1 <= Latest.cursor

\* The state covers some of the log, and all of it is settled.
CursorFits ==
    /\ Latest.cursor \in Nat /\ Latest.cursor <= Len(history)
    /\ history # <<>> => Latest.cursor < Len(history)
    /\ Settled(Latest.cursor)

\* The events that a client or an application may append while a compaction waits.
Outside == {"resolved", "deleted"}

\* What a compaction has read is what it replaces: the messages are still the same, and
\* only events from outside have followed those it reads.
InFlight ==
    /\ \E a : Shown(inflight.raw, a)
    /\ inflight.prior = Latest
    /\ inflight.summaries = IF Compactions = {} THEN {} ELSE {Max(Compactions)}
    /\ 2 <= Cardinality(GroupStarts(inflight.raw))
    /\ \E n \in DOMAIN history :
          /\ inflight.delta = After(Latest.cursor, n)
          /\ Latest.cursor < n
          /\ Settled(n)
          /\ \A i \in DOMAIN history : i > n => history[i].type \in Outside

ViewInv ==
    /\ LogInv
    /\ \E r, a : Shown(r, a)
    /\ CursorFits
    /\ inflight.open => InFlight

\* The state in force does not change when no compaction is appended.
LEMMA LatestStays ==
    ASSUME NEW S, history \in Seq(S), NEW T, NEW es \in Seq(T), Emit(es),
           \A k \in DOMAIN es : es[k].type # "compaction"
    PROVE  Compactions' = Compactions /\ Latest' = Latest /\ Summary' = Summary
<1>1. /\ DOMAIN history \subseteq DOMAIN history'
      /\ \A i \in DOMAIN history : history'[i] = history[i]
      /\ \A i \in DOMAIN history' :
            i \in DOMAIN history \/ \E k \in DOMAIN es : history'[i] = es[k]
  <2>1. /\ Len(history') = Len(history) + Len(es) /\ DOMAIN history' = 1 .. Len(history')
        /\ DOMAIN history = 1 .. Len(history)
        /\ \A i \in DOMAIN history : history'[i] = history[i]
        /\ \A i \in DOMAIN history' :
              i \in DOMAIN history \/ \E k \in DOMAIN es : i = Len(history) + k /\ history'[i] = es[k]
    <3>1. Extends(es, S, T)
      BY Longer
    <3> QED
      BY <3>1 DEF Extends
  <2>2. Len(history) \in Nat /\ Len(es) \in Nat
    OBVIOUS
  <2> QED
    BY <2>1, <2>2
<1>2. Compactions' = Compactions
  <2>1. \A i : i \in Compactions' <=> i \in Compactions
    BY <1>1 DEF Compactions, EventsOf
  <2> QED
    BY <2>1
<1>3. Compactions # {} =>
        Max(Compactions) \in DOMAIN history /\ history'[Max(Compactions)] = history[Max(Compactions)]
  <2>1. Compactions \subseteq 1 .. Len(history) /\ Len(history) \in Nat /\ DOMAIN history = 1 .. Len(history)
    BY DEF Compactions, EventsOf
  <2>2. Compactions # {} => Max(Compactions) \in Compactions
    BY <2>1, LastOf
  <2> QED
    BY <1>1, <2>1, <2>2
<1>4. Latest' = Latest
  BY <1>2, <1>3 DEF Latest, Previous
<1>5. Summary' = Summary
  BY <1>2, <1>3 DEF Summary, Message
<1> QED
  BY <1>2, <1>4, <1>5
-----------------------------------------------------------------------------
\* The messages when the log has grown by events that are no compaction.
LEMMA ShownGrows ==
    ASSUME LogInv, NEW es, Continues(es), Emit(es), \A k \in DOMAIN es : es[k].type # "compaction",
           CursorFits, NEW r, NEW a, Shown(r, a)
    PROVE  /\ \E q : Shown(q, a)'
           /\ (\A k \in DOMAIN es : es[k].type \in Outside) => Shown(r, a)'
<1> PICK S : history \in Seq(S)
  BY DEF LogInv
<1> PICK T : es \in Seq(T)
  BY DEF Continues
<1>1. /\ Len(history') = Len(history) + Len(es) /\ DOMAIN history' = 1 .. Len(history')
      /\ DOMAIN history = 1 .. Len(history)
      /\ \A i \in DOMAIN history : history'[i] = history[i]
      /\ \A i \in DOMAIN history' :
            i \in DOMAIN history \/ \E k \in DOMAIN es : i = Len(history) + k /\ history'[i] = es[k]
  <2>1. Extends(es, S, T)
    BY Longer
  <2> QED
    BY <2>1 DEF Extends
<1>2. PICK m, n : m = Len(history) /\ n = Len(history')
  OBVIOUS
<1>3. m \in Nat /\ n \in Nat /\ m <= n
  BY <1>1, <1>2
<1>4. \A i \in m + 1 .. n : \E k \in DOMAIN es : history'[i] = es[k]
  BY <1>1, <1>2
<1>5. PICK f : Unrolls(f, history', n) /\ f[m] = View /\ f[n] = View'
  BY <1>2, ViewGrows
<1>6. PICK s : s = Summary
  OBVIOUS
<1>7. /\ Shows(s, r, a) /\ a - 1 <= Latest.cursor
      /\ Latest.cursor \in Nat /\ Latest.cursor <= m
  BY <1>2, <1>6 DEF Shown, CursorFits
<1>8. a \in Nat \ {0} /\ View = s \o r /\ Lists(r, history, a, m) /\ Settled(a - 1)
  BY <1>2, <1>7 DEF Shows
<1>9. a <= m + 1 /\ a - 1 \in Nat /\ a - 1 <= m
  BY <1>3, <1>7, <1>8
<1>10. Lists(r, history', a, m)
  <2>1. \A i \in a .. m : history'[i] = history[i]
    BY <1>1, <1>2, <1>8
  <2> QED
    BY <1>8, <2>1, ListsSame
<1>11. Settled(a - 1)'
  <2> DEFINE b == a - 1
  <2>1. b \in Nat /\ b <= Len(history) /\ Settled(b)
    BY <1>2, <1>8, <1>9
  <2> HIDE DEF b
  <2>2. Settled(b)'
    BY <2>1, SettledGrows
  <2> QED
    BY <2>2 DEF b
<1>12. PICK h : h = history'
  OBVIOUS
<1>13. Summary' = s /\ Latest' = Latest
  BY <1>6, LatestStays
<1>14. ASSUME NEW q, View' = s \o q, Lists(q, h, a, n) PROVE Shown(q, a)'
  <2>1. /\ \E U : s \in Seq(U)
        /\ \A k \in DOMAIN s : s[k].kind = "compaction" /\ s[k].calls = {} /\ s[k].results = {}
    BY <1>7 DEF Shows
  <2>2. Lists(q, history, a, Len(history))'
    BY <1>2, <1>12, <1>14
  <2>3. Shows(Summary, q, a)'
    BY <1>8, <1>11, <1>13, <1>14, <2>1, <2>2 DEF Shows
  <2> QED
    BY <1>7, <1>13, <2>3 DEF Shown
<1>15. \E q : View' = s \o q /\ Lists(q, h, a, n)
  <2>1. PICK U : s \in Seq(U)
    BY <1>7 DEF Shows
  <2>2. Lacks(h, m, n, {"compaction"})
    BY <1>4, <1>12 DEF Lacks
  <2>3. Unrolls(f, h, n) /\ Follows(f, h, m, s, a) /\ a \in Nat
    BY <1>5, <1>8, <1>10, <1>12 DEF Follows
  <2>4. Follows(f, h, n, s, a)
    BY <1>3, <1>9, <2>1, <2>2, <2>3, ListsLater, Zenon
  <2> QED
    BY <1>5, <2>4 DEF Follows
<1>16. ASSUME \A k \in DOMAIN es : es[k].type \in Outside PROVE Shown(r, a)'
  <2>1. /\ Lacks(h, m, n, ViewTypes)
        /\ Lacks(h, m, n, MessageTypes)
    BY <1>4, <1>12, <1>16 DEF Outside, MessageTypes, ViewTypes, Lacks
  <2>2. Unrolls(f, h, n) /\ Lists(r, h, a, m) /\ a \in Nat
    BY <1>5, <1>8, <1>10, <1>12
  <2>3. f[n] = f[m]
    <3>1. n <= n
      BY <1>3
    <3> QED
      BY <1>3, <2>1, <2>2, <3>1, SilentEvents
  <2>4. Lists(r, h, a, n)
    BY <1>3, <2>1, <2>2, ListsSilent
  <2> QED
    BY <1>5, <1>8, <1>14, <2>3, <2>4
<1> QED
  BY <1>14, <1>15, <1>16

\* The invariant as the log grows by such events.
LEMMA ViewSteps ==
    ASSUME ViewInv, NEW es, Continues(es), Emit(es), \A k \in DOMAIN es : es[k].type # "compaction",
           inflight' = inflight,
           inflight.open => \A k \in DOMAIN es : es[k].type \in Outside
    PROVE  ViewInv'
<1>0. LogInv /\ CursorFits
  BY DEF ViewInv
<1> PICK S : history \in Seq(S)
  BY <1>0 DEF LogInv
<1> PICK T : es \in Seq(T)
  BY DEF Continues
<1>1. /\ Len(history') = Len(history) + Len(es) /\ DOMAIN history' = 1 .. Len(history')
      /\ DOMAIN history = 1 .. Len(history)
      /\ \A i \in DOMAIN history : history'[i] = history[i]
      /\ \A i \in DOMAIN history' :
            i \in DOMAIN history \/ \E k \in DOMAIN es : i = Len(history) + k /\ history'[i] = es[k]
  <2>1. Extends(es, S, T)
    BY Longer
  <2> QED
    BY <2>1 DEF Extends
<1>2. Len(history) \in Nat /\ Len(es) \in Nat /\ Len(history) <= Len(history')
      /\ \A i \in DOMAIN history : i \in DOMAIN history' /\ i \in Nat /\ i <= Len(history)
  BY <1>1
<1>3. Latest' = Latest /\ Compactions' = Compactions
  BY LatestStays
<1>4. LogInv'
  BY <1>0, LogGrows
<1>5. \E r, a : Shown(r, a)'
  <2>1. PICK r, a : Shown(r, a)
    BY DEF ViewInv
  <2> QED
    BY <1>0, <2>1, ShownGrows
<1>6. CursorFits'
  <2>1. Latest.cursor \in Nat /\ Latest.cursor <= Len(history) /\ Settled(Latest.cursor)
    BY <1>0 DEF CursorFits
  <2>2. Settled(Latest.cursor)'
    <3>1. PICK c : c = Latest.cursor
      OBVIOUS
    <3>2. Settled(c)'
      BY <2>1, <3>1, SettledGrows
    <3> QED
      BY <1>3, <3>1, <3>2
  <2>3. history' # <<>> => Latest.cursor < Len(history')
    <3>1. CASE history # <<>>
      BY <1>0, <1>2, <2>1, <3>1 DEF CursorFits
    <3>2. CASE history = <<>>
      <4>1. 1 \in DOMAIN es /\ Len(history) = 0
        BY <3>2 DEF Continues
      <4>2. Len(es) > 0
        BY <4>1
      <4> QED
        BY <1>1, <1>2, <2>1, <4>1, <4>2
    <3> QED
      BY <3>1, <3>2
  <2> QED
    BY <1>1, <1>2, <1>3, <2>1, <2>2, <2>3 DEF CursorFits
<1>7. ASSUME inflight'.open PROVE InFlight'
  <2>1. inflight.open /\ InFlight /\ \A k \in DOMAIN es : es[k].type \in Outside
    BY <1>7 DEF ViewInv
  <2>2. \E a : Shown(inflight.raw, a)'
    <3>1. PICK a : Shown(inflight.raw, a)
      BY <2>1 DEF InFlight
    <3>2. PICK r : r = inflight.raw
      OBVIOUS
    <3>3. Shown(r, a)'
      BY <1>0, <2>1, <3>1, <3>2, ShownGrows
    <3> QED
      BY <3>2, <3>3
  <2>3. PICK n \in DOMAIN history :
          /\ inflight.delta = After(Latest.cursor, n)
          /\ Latest.cursor < n
          /\ Settled(n)
          /\ \A i \in DOMAIN history : i > n => history[i].type \in Outside
    BY <2>1 DEF InFlight
  <2>4. Settled(n)'
    BY <1>2, <2>3, SettledGrows
  <2>5. \A i \in DOMAIN history' : i > n => history'[i].type \in Outside
    BY <1>1, <2>1, <2>3
  <2>7. /\ n \in DOMAIN history' /\ inflight'.delta = After(Latest'.cursor, n)
        /\ Latest'.cursor < n
    BY <1>2, <1>3, <2>3
  <2>8. /\ inflight'.prior = Latest'
        /\ inflight'.summaries = IF Compactions' = {} THEN {} ELSE {Max(Compactions')}
        /\ 2 <= Cardinality(GroupStarts(inflight'.raw))
    BY <1>3, <2>1 DEF InFlight
  <2>9. \E a : Shown(inflight.raw, a)' /\ inflight'.raw = inflight.raw
    BY <2>2
  <2> QED
    BY <2>4, <2>5, <2>7, <2>8, <2>9 DEF InFlight
<1> QED
  BY <1>4, <1>5, <1>6, <1>7 DEF ViewInv
-----------------------------------------------------------------------------
(* The operations on the log, but for compactions.                         *)

LEMMA OpenShown ==
    ASSUME ViewInv
    PROVE  /\ Open = Unanswered
           /\ Open # {} => history # <<>>
<1>1. PICK S : history \in Seq(S)
  BY DEF ViewInv, LogInv
<1>2. Exchanges
  BY DEF ViewInv, LogInv
<1>3. PICK r, a : Shows(Summary, r, a)
  BY DEF ViewInv, Shown
<1>4. Open = Unanswered
  BY <1>1, <1>2, <1>3, OpenIs
<1>5. ASSUME NEW c \in Unanswered PROVE history # <<>>
  <2>1. PICK i : Proposes(i, c)
    BY ProposedIs DEF Unanswered
  <2> QED
    BY <2>1 DEF Proposes
<1> QED
  BY <1>4, <1>5

\* One event that is no compaction and comes from a run or from outside.
LEMMA OneStep ==
    ASSUME ViewInv, NEW e, e.type # "compaction", Continues(<<e>>), Emit(<<e>>),
           inflight' = inflight, inflight.open => e.type \in Outside
    PROVE  ViewInv'
<1> DEFINE es == <<e>>
<1>1. DOMAIN es = {1} /\ es[1] = e
  OBVIOUS
<1>2. Emit(es) /\ Continues(es)
  OBVIOUS
<1> HIDE DEF es
<1>3. \A k \in DOMAIN es : es[k].type # "compaction"
  BY <1>1
<1>4. inflight.open => \A k \in DOMAIN es : es[k].type \in Outside
  BY <1>1
<1> QED
  BY <1>2, <1>3, <1>4, ViewSteps

\* An event may come next if it does not disturb the exchanges.
LEMMA MayCome ==
    ASSUME ViewInv, NEW e, history # <<>>,
           /\ e.type = "assistant" => /\ e.calls \cap Proposed = {}
                                      /\ \E n \in Nat : Proposed \cup e.calls = 1 .. n
           /\ e.type = "result" => e.calls \subseteq Unanswered
           /\ e.type = "completed" => e.call \in Unanswered
           /\ e.type = "resolved" => \E j \in Asked : history[j].approval = e.approval
    PROVE  Continues(<<e>>)
<1> DEFINE es == <<e>>
<1>1. es \in Seq({e}) /\ DOMAIN es = {1} /\ es[1] = e
  OBVIOUS
<1> HIDE DEF es
<1>2. Continues(es)
  BY <1>1 DEF Continues
<1> QED
  BY <1>2 DEF es

LEMMA StartView == ASSUME ViewInv, StartRun PROVE ViewInv'
<1> DEFINE e == [type |-> "user"]
           c == [type |-> "result", calls |-> Open, error |-> TRUE]
           es == <<e>> \o IF Open = {} THEN <<>> ELSE <<c>>
<1>1. Emit(es) /\ ~inflight.open /\ inflight' = inflight
  BY DEF StartRun, Running
<1>2. e.type = "user" /\ c.type = "result" /\ c.calls = Open
  OBVIOUS
<1>3. Open = Unanswered
  BY OpenShown
<1> HIDE DEF e, c
<1>4. es \in Seq({e, c}) /\ es[1] = e /\ 1 \in DOMAIN es
      /\ \A k \in DOMAIN es : k = 1 \/ (k = 2 /\ es[k] = c)
  <2>1. CASE Open = {}
    <3>1. es = <<e>>
      BY <2>1
    <3> QED
      BY <3>1
  <2>2. CASE Open # {}
    <3>1. es = <<e>> \o <<c>>
      BY <2>2
    <3>2. <<e>> \in Seq({e, c}) /\ <<c>> \in Seq({e, c})
          /\ Len(<<e>>) = 1 /\ Len(<<c>>) = 1 /\ <<e>>[1] = e /\ <<c>>[1] = c
      OBVIOUS
    <3> HIDE DEF es
    <3>3. /\ es \in Seq({e, c}) /\ Len(es) = 2
          /\ \A k \in 1 .. 2 : es[k] = IF k <= 1 THEN <<e>>[k] ELSE <<c>>[k - 1]
      BY <3>1, <3>2, ConcatProperties
    <3>4. DOMAIN es = {1, 2} /\ es[1] = e /\ es[2] = c
      BY <3>2, <3>3
    <3> QED
      BY <3>3, <3>4
  <2> QED
    BY <2>1, <2>2
<1> HIDE DEF es
<1>5. \A k \in DOMAIN es : es[k] = e \/ es[k] = c
  BY <1>4
<1>6. \A k, l \in DOMAIN es : es[k].type \in TraceTypes /\ es[l].type \in TraceTypes => k = l
  BY <1>2, <1>4 DEF TraceTypes
<1>7. Continues(es)
  BY <1>2, <1>3, <1>4, <1>5, <1>6 DEF Continues
<1>8. \A k \in DOMAIN es : es[k].type # "compaction"
  BY <1>2, <1>5
<1> QED
  BY <1>1, <1>7, <1>8, ViewSteps

LEMMA AnswerView == ASSUME ViewInv, NEW n \in 0 .. 2, Answer(n) PROVE ViewInv'
<1> DEFINE N == Cardinality(Proposed)
           e == [type |-> "assistant", calls |-> N + 1 .. N + n]
<1>1. Emit(<<e>>) /\ ~inflight.open /\ inflight' = inflight /\ history # <<>>
  BY DEF Answer, Running
<1>2. e.type = "assistant" /\ e.calls = N + 1 .. N + n
  OBVIOUS
<1> HIDE DEF e
<1>3. PICK m \in Nat : Proposed = 1 .. m
  BY DEF ViewInv, LogInv
<1>4. N = m
  BY <1>3, FS_Interval
<1> HIDE DEF N
<1>5. e.calls \cap Proposed = {}
  BY <1>2, <1>3, <1>4
<1>6. Proposed \cup e.calls = 1 .. m + n /\ m + n \in Nat
  BY <1>2, <1>3, <1>4
<1>7. Continues(<<e>>)
  BY <1>1, <1>2, <1>5, <1>6, MayCome
<1> QED
  BY <1>1, <1>2, <1>7, OneStep

LEMMA CompleteView == ASSUME ViewInv, NEW c \in Calls, Complete(c) PROVE ViewInv'
<1>1. PICK o : Emit(<<[type |-> "completed", call |-> c, error |-> o.error, path |-> o.path,
                       verified |-> o.verified]>>)
  BY DEF Complete
<1>2. PICK e : e = [type |-> "completed", call |-> c, error |-> o.error, path |-> o.path,
                    verified |-> o.verified]
  OBVIOUS
<1>3. e.type = "completed" /\ e.call = c /\ Emit(<<e>>)
  BY <1>1, <1>2
<1>4. c \in Unanswered /\ history # <<>> /\ ~inflight.open /\ inflight' = inflight
  BY OpenShown DEF Complete, Running
<1>5. Continues(<<e>>)
  BY <1>3, <1>4, MayCome
<1> QED
  BY <1>3, <1>4, <1>5, OneStep

LEMMA CommitView == ASSUME ViewInv, NEW c \in Calls, Commit(c) PROVE ViewInv'
<1>1. PICK e : e = [type |-> "result", calls |-> {c},
                    error |-> \A i \in CompletionOf(c, DOMAIN history) : history[i].error]
  OBVIOUS
<1>2. e.type = "result" /\ e.calls = {c} /\ Emit(<<e>>)
  BY <1>1 DEF Commit
<1>3. Open # {} /\ c = Min(Open) /\ ~inflight.open /\ inflight' = inflight
  BY DEF Commit, Running
<1>4. Open = Unanswered /\ history # <<>>
  BY <1>3, OpenShown
<1>5. c \in Unanswered
  <2>1. PICK m \in Nat : Proposed = 1 .. m
    BY DEF ViewInv, LogInv
  <2>2. Open \subseteq Nat
    BY <1>4, <2>1 DEF Unanswered
  <2>3. \E x \in Open : \A y \in Open : x <= y
    BY <1>3, <2>2, FirstOf
  <2>4. c \in Open
    BY <1>3, <2>3 DEF Min
  <2> QED
    BY <1>4, <2>4
<1>6. Continues(<<e>>)
  BY <1>2, <1>4, <1>5, MayCome
<1> QED
  BY <1>2, <1>3, <1>6, OneStep

LEMMA DeleteView == ASSUME ViewInv, NEW c \in Calls, Delete(c) PROVE ViewInv'
<1>1. PICK e : e = [type |-> "deleted", call |-> c]
  OBVIOUS
<1>2. e.type = "deleted" /\ Emit(<<e>>) /\ inflight' = inflight
  BY <1>1 DEF Delete
<1>3. history # <<>>
  <2>1. PICK i : i \in DOMAIN history
    BY DEF Delete, Recorded, EventsOf
  <2> QED
    BY <2>1
<1>4. Continues(<<e>>)
  BY <1>2, <1>3, MayCome
<1> QED
  BY <1>2, <1>4, OneStep DEF Outside

LEMMA AskView == ASSUME ViewInv, NEW a \in Approvals, Ask(a) PROVE ViewInv'
<1>1. PICK e : e = [type |-> "requested", approval |-> a]
  OBVIOUS
<1>2. e.type = "requested" /\ Emit(<<e>>) /\ inflight' = inflight /\ ~inflight.open
  BY <1>1 DEF Ask, Running
<1>3. history # <<>>
  BY OpenShown DEF Ask
<1>4. Continues(<<e>>)
  BY <1>2, <1>3, MayCome
<1> QED
  BY <1>2, <1>4, OneStep

LEMMA ResolveView == ASSUME ViewInv, NEW a \in Approvals, Resolve(a) PROVE ViewInv'
<1>1. PICK e : e = [type |-> "resolved", approval |-> a]
  OBVIOUS
<1>2. e.type = "resolved" /\ e.approval = a /\ Emit(<<e>>) /\ inflight' = inflight
  BY <1>1 DEF Resolve
<1>3. PICK j \in Asked : history[j].approval = a
  BY DEF Resolve, Requested, Asked
<1>4. history # <<>>
  BY <1>3 DEF Asked, EventsOf
<1>5. Continues(<<e>>)
  BY <1>2, <1>3, <1>4, MayCome
<1> QED
  BY <1>2, <1>5, OneStep DEF Outside

LEMMA RequestView == ASSUME ContextInv, ViewInv, Request PROVE ViewInv'
<1>1. PICK es : es = Created(Materialized(View) \ known)
  OBVIOUS
<1>2. Emit(es) /\ ~inflight.open /\ inflight' = inflight
  BY <1>1 DEF Request, Running
<1>3. PICK T : es \in Seq(T) /\ \A k \in DOMAIN es : es[k].type = "created"
  <2> DEFINE new == Materialized(View) \ known
  <2>1. IsFiniteSet(new)
    BY MaterializedIsFinite, FS_Subset
  <2> HIDE DEF new
  <2>2. \E T : Created(new) \in Seq(T) /\ \A k \in DOMAIN Created(new) : Created(new)[k].type = "created"
    BY <2>1, CreatedIs
  <2> QED
    BY <1>1, <2>2 DEF new
<1>4. history # <<>>
  <2>1. \E c : CompletionOf(c, DOMAIN history) # {}
    BY DEF Request, Materialized
  <2> QED
    BY <2>1 DEF CompletionOf, EventsOf
<1>5. Continues(es)
  BY <1>3, <1>4 DEF Continues, TraceTypes
<1>6. \A k \in DOMAIN es : es[k].type # "compaction"
  BY <1>3
<1> QED
  BY <1>2, <1>5, <1>6, ViewSteps
-----------------------------------------------------------------------------
(* The steps that leave the log alone.                                     *)

LEMMA ViewStays ==
    ASSUME history' = history, Len(history) \in Nat
    PROVE  View' = View
<1>1. Unrolls(Projected, history, Len(history))
  BY UnrollingIs DEF Projected
<1>2. Unrolls(Projected', history', Len(history'))
  BY UnrollingIs DEF Projected
<1>3. PICK f, g, h, n : f = Projected /\ g = Projected' /\ h = history /\ n = Len(history)
  OBVIOUS
<1>4. Unrolls(f, h, n) /\ Unrolls(g, h, n) /\ n \in Nat
  BY <1>1, <1>2, <1>3
<1>5. n <= n /\ n \in 0 .. n /\ \A i \in 1 .. n : h[i] = h[i]
  BY <1>4
<1>6. \A i \in 0 .. n : g[i] = f[i]
  BY <1>4, <1>5, SameBeginning
<1> QED
  BY <1>3, <1>5, <1>6 DEF View

\* What is said of the log only does not change with it.
LEMMA SameLog ==
    ASSUME history' = history, LogInv, CursorFits
    PROVE  /\ LogInv' /\ CursorFits'
           /\ Latest' = Latest /\ Compactions' = Compactions
           /\ \A r, a : Shown(r, a) => Shown(r, a)'
           /\ \A n : Settled(n) => Settled(n)'
<1>1. \A i, c : /\ Proposes(i, c)' <=> Proposes(i, c)
                /\ Returns(i, c)' <=> Returns(i, c)
                /\ Finishes(i, c)' <=> Finishes(i, c)
  BY DEF Proposes, Returns, Finishes
<1>2. Exchanges' <=> Exchanges
  BY <1>1 DEF Exchanges
<1>3. Proposed' = Proposed /\ Compactions' = Compactions
  BY DEF Proposed, Compactions, EventsOf
<1>4. LogInv'
  BY <1>2, <1>3 DEF LogInv
<1>5. \A n : Settled(n) => Settled(n)'
  BY <1>1 DEF Settled
<1>6. Latest' = Latest /\ Summary' = Summary
  BY <1>3 DEF Latest, Previous, Summary, Message
<1>7. CursorFits'
  BY <1>5, <1>6 DEF CursorFits
<1>8. ASSUME NEW r, NEW a, Shown(r, a) PROVE Shown(r, a)'
  <2>1. Len(history) \in Nat
    BY DEF LogInv
  <2>2. View' = View
    BY <2>1, ViewStays
  <2> QED
    BY <1>5, <1>6, <1>8, <2>2 DEF Shown, Shows
<1> QED
  BY <1>3, <1>4, <1>5, <1>6, <1>7, <1>8

LEMMA SameInFlight ==
    ASSUME history' = history, inflight' = inflight, ViewInv
    PROVE  ViewInv'
<1>1. LogInv /\ CursorFits
  BY DEF ViewInv
<1>2. /\ LogInv' /\ CursorFits'
      /\ Latest' = Latest /\ Compactions' = Compactions
      /\ \A r, a : Shown(r, a) => Shown(r, a)'
      /\ \A n : Settled(n) => Settled(n)'
  BY <1>1, SameLog
<1>3. InFlight => InFlight'
  BY <1>2 DEF InFlight
<1> QED
  BY <1>2, <1>3 DEF ViewInv

LEMMA LoseView == ASSUME ViewInv, LoseCompact PROVE ViewInv'
<1>1. LogInv /\ CursorFits
  BY DEF ViewInv
<1>2. history' = history /\ ~inflight'.open
  BY DEF LoseCompact, Idle
<1>3. /\ LogInv' /\ CursorFits'
      /\ \A r, a : Shown(r, a) => Shown(r, a)'
  BY <1>1, <1>2, SameLog
<1> QED
  BY <1>2, <1>3 DEF ViewInv

\* The messages without the state message are those of the log, and the state message
\* is the one that counts.
LEMMA ShownParts ==
    ASSUME LogInv, NEW r, NEW a, Shown(r, a)
    PROVE  /\ Raw(View) = r
           /\ EventsOf("compaction", {i \in DOMAIN history : \E m \in ToSet(View) : m.id = i})
                = IF Compactions = {} THEN {} ELSE {Max(Compactions)}
<1> PICK S : history \in Seq(S)
  BY DEF LogInv
<1>0. Len(history) \in Nat /\ DOMAIN history = 1 .. Len(history)
  OBVIOUS
<1> PICK s : s = Summary
  OBVIOUS
<1>1. /\ View = s \o r /\ Shows(s, r, a)
      /\ \A k \in DOMAIN s : s[k].kind = "compaction"
      /\ Lists(r, history, a, Len(history)) /\ a \in Nat \ {0}
  BY DEF Shown, Shows
<1>2. ASSUME NEW k \in DOMAIN r
      PROVE  /\ r[k].id \in DOMAIN history /\ r[k].kind # "compaction"
             /\ history[r[k].id].type # "compaction"
  BY <1>0, <1>1 DEF Lists, Message, MessageTypes
<1> PICK T : /\ s \in Seq(T) /\ r \in Seq(T)
             /\ View \in Seq(T) /\ Len(View) = Len(s) + Len(r)
             /\ \A k \in 1 .. Len(s) + Len(r) :
                   View[k] = IF k <= Len(s) THEN s[k] ELSE r[k - Len(s)]
  BY <1>1, ShownTypes
<1>3. Raw(View) = r
  BY <1>1, <1>2, RawIs
<1>4. /\ Compactions = {} => s = <<>>
      /\ Compactions # {} => /\ Len(s) = 1 /\ s[1].id = Max(Compactions)
                             /\ Max(Compactions) \in DOMAIN history
                             /\ history[Max(Compactions)].type = "compaction"
  <2>1. Compactions \subseteq 1 .. Len(history)
    BY <1>0 DEF Compactions, EventsOf
  <2>2. Compactions # {} => Max(Compactions) \in Compactions
    BY <1>0, <2>1, LastOf
  <2> QED
    BY <2>2 DEF Summary, Message, Compactions, EventsOf
<1>5. ASSUME NEW m \in ToSet(View)
      PROVE  (\E k \in DOMAIN s : m = s[k]) \/ (\E k \in DOMAIN r : m = r[k])
  <2>1. Len(s) \in Nat /\ Len(r) \in Nat /\ DOMAIN s = 1 .. Len(s) /\ DOMAIN r = 1 .. Len(r)
    OBVIOUS
  <2>2. PICK k \in DOMAIN View : m = View[k]
    BY DEF ToSet
  <2>3. k \in 1 .. Len(s) + Len(r)
    OBVIOUS
  <2>4. CASE k <= Len(s)
    BY <2>1, <2>2, <2>3, <2>4
  <2>5. CASE ~(k <= Len(s))
    <3>1. k - Len(s) \in DOMAIN r
      BY <2>1, <2>3, <2>5
    <3> QED
      BY <2>2, <2>3, <2>5, <3>1
  <2> QED
    BY <2>4, <2>5
<1>6. Compactions # {} => s[1] \in ToSet(View)
  <2>1. SUFFICES ASSUME Compactions # {} PROVE s[1] \in ToSet(View)
    OBVIOUS
  <2>2. Len(s) = 1 /\ Len(r) \in Nat
    BY <1>4, <2>1
  <2>3. 1 \in 1 .. Len(s) + Len(r) /\ 1 <= Len(s)
    BY <2>2
  <2>4. View[1] = s[1] /\ 1 \in DOMAIN View
    BY <2>3
  <2> QED
    BY <2>4 DEF ToSet
<1> DEFINE X == EventsOf("compaction", {i \in DOMAIN history : \E m \in ToSet(View) : m.id = i})
<1>7. \A i : i \in X <=> /\ i \in DOMAIN history /\ history[i].type = "compaction"
                         /\ \E m \in ToSet(View) : m.id = i
  BY DEF EventsOf
<1> HIDE DEF X
<1>8. CASE Compactions = {}
  <2>1. \A i : i \notin X
    BY <1>7, <1>8 DEF Compactions, EventsOf
  <2> QED
    BY <1>3, <1>8, <2>1 DEF X
<1>9. CASE Compactions # {}
  <2>1. Max(Compactions) \in X
    BY <1>4, <1>6, <1>7, <1>9
  <2>2. ASSUME NEW i \in X PROVE i = Max(Compactions)
    <3>1. PICK m \in ToSet(View) : m.id = i
      BY <1>7
    <3>2. history[m.id].type = "compaction"
      BY <1>7, <3>1
    <3>3. PICK k \in DOMAIN s : m = s[k]
      BY <1>2, <1>5, <3>2
    <3>4. k = 1
      <4>1. k \in 1 .. 1
        BY <1>4, <1>9
      <4> QED
        BY <4>1
    <3> QED
      BY <1>4, <1>9, <3>1, <3>3, <3>4
  <2>3. X = {Max(Compactions)}
    BY <2>1, <2>2
  <2> QED
    BY <1>3, <1>9, <2>3 DEF X
<1> QED
  BY <1>8, <1>9
-----------------------------------------------------------------------------
(* Compactions.                                                            *)

LEMMA BeginView == ASSUME ViewInv, BeginCompact PROVE ViewInv'
<1>0. LogInv /\ CursorFits
  BY DEF ViewInv
<1> PICK S : history \in Seq(S)
  BY <1>0 DEF LogInv
<1>1. PICK r, a : Shown(r, a)
  BY DEF ViewInv
<1>2. Raw(View) = r
      /\ EventsOf("compaction", {i \in DOMAIN history : \E m \in ToSet(View) : m.id = i})
           = IF Compactions = {} THEN {} ELSE {Max(Compactions)}
  BY <1>0, <1>1, ShownParts
<1> PICK X : X = IF Compactions = {} THEN {} ELSE {Max(Compactions)}
  OBVIOUS
<1>3. Previous(X) = Latest
  <2>1. CASE Compactions = {}
    BY <2>1 DEF Latest, Previous
  <2>2. CASE Compactions # {}
    <3>1. Compactions \subseteq 1 .. Len(history) /\ Len(history) \in Nat
      BY DEF Compactions, EventsOf
    <3>2. Max(Compactions) \in Compactions
      BY <2>2, <3>1, LastOf
    <3>3. PICK x : x = Max(Compactions)
      OBVIOUS
    <3>5. x \in Nat
      <4>1. \A i \in Compactions : i \in Nat
        BY DEF Compactions, EventsOf
      <4> QED
        BY <3>2, <3>3, <4>1
    <3>4. Max({x}) = x
      BY <3>5 DEF Max
    <3> QED
      BY <2>2, <3>3, <3>4 DEF Latest, Previous
  <2> QED
    BY <2>1, <2>2
<1>4. /\ ~inflight.open /\ Open = {} /\ history' = history
      /\ Cardinality(GroupStarts(r)) >= 2
      /\ inflight' = [open |-> TRUE, raw |-> r, prior |-> Latest, summaries |-> X,
                      delta |-> {i \in DOMAIN history : i > Latest.cursor},
                      artifacts |-> known \cup Materialized(r)]
  BY <1>2, <1>3 DEF BeginCompact, Running
<1>5. /\ LogInv' /\ CursorFits'
      /\ Latest' = Latest /\ Compactions' = Compactions
      /\ \A q, b : Shown(q, b) => Shown(q, b)'
      /\ \A n : Settled(n) => Settled(n)'
  BY <1>0, <1>4, SameLog
<1>6. Settled(Len(history))
  <2>1. Unanswered = {}
    BY <1>4, OpenShown
  <2> QED
    BY <2>1, AllSettled
<1>7. history # <<>>
  <2>1. GroupStarts(r) # {}
    <3>1. GroupStarts(r) = {} => Cardinality(GroupStarts(r)) = 0
      BY FS_EmptySet
    <3>2. ~(0 >= 2)
      OBVIOUS
    <3> QED
      BY <1>4, <3>1, <3>2
  <2>2. PICK k \in DOMAIN r : TRUE
    BY <2>1 DEF GroupStarts
  <2>3. r[k].id \in a .. Len(history) /\ a \in Nat \ {0}
    BY <1>1 DEF Shown, Shows, Lists
  <2> QED
    BY <2>3
<1>8. InFlight'
  <2>1. Latest.cursor < Len(history) /\ Len(history) \in DOMAIN history
        /\ Latest.cursor \in Nat /\ DOMAIN history = 1 .. Len(history)
    BY <1>0, <1>7 DEF CursorFits
  <2>2. {i \in DOMAIN history : i > Latest.cursor} = After(Latest.cursor, Len(history))
    BY <2>1 DEF After
  <2>3. \A i \in DOMAIN history : ~(i > Len(history))
    BY <2>1
  <2>4. /\ inflight'.raw = r /\ inflight'.prior = Latest' /\ inflight'.summaries = X
        /\ inflight'.delta = After(Latest'.cursor, Len(history))
    BY <1>4, <1>5, <2>2
  <2>5. \E n \in DOMAIN history' :
          /\ inflight'.delta = After(Latest'.cursor, n)
          /\ Latest'.cursor < n
          /\ Settled(n)'
          /\ \A i \in DOMAIN history' : i > n => history'[i].type \in Outside
    BY <1>4, <1>5, <1>6, <2>1, <2>3, <2>4
  <2>6. \E b : Shown(inflight.raw, b)'
    BY <1>1, <1>5, <2>4
  <2>7. 2 <= Cardinality(GroupStarts(inflight'.raw))
    <3>1. PICK n : n = Cardinality(GroupStarts(r))
      OBVIOUS
    <3>2. n \in Nat
      <4>1. PICK T : r \in Seq(T)
        BY <1>1 DEF Shown, Shows, Lists
      <4>2. DOMAIN r = 1 .. Len(r) /\ IsFiniteSet(1 .. Len(r))
        BY <4>1, FS_Interval
      <4>3. GroupStarts(r) \subseteq DOMAIN r
        BY DEF GroupStarts
      <4>4. IsFiniteSet(GroupStarts(r))
        BY <4>2, <4>3, FS_Subset
      <4> QED
        BY <3>1, <4>4, FS_CardinalityType
    <3>3. 2 <= n
      BY <1>4, <3>1, <3>2
    <3> QED
      BY <2>4, <3>1, <3>3
  <2>8. inflight'.summaries = IF Compactions' = {} THEN {} ELSE {Max(Compactions')}
    BY <1>5, <2>4
  <2> QED
    BY <2>4, <2>5, <2>6, <2>7, <2>8 DEF InFlight
<1>9. \E q, b : Shown(q, b)'
  BY <1>1, <1>5
<1> QED
  BY <1>5, <1>8, <1>9 DEF ViewInv

\* Some groups are retained, and not all.
LEMMA RetainedIs ==
    ASSUME NEW S, inflight.raw \in Seq(S), 2 <= Cardinality(GroupStarts(inflight.raw)), NEW notes
    PROVE  Retained(notes) \in 1 .. Cardinality(GroupStarts(inflight.raw)) - 1
<1> DEFINE raw == inflight.raw
           n == Cardinality(GroupStarts(raw))
           fit == {k \in 1 .. n : k = 1 \/ Len(Newest(raw, k)) <= TailBudget}
           tail == InitialTail(raw)
           kept == {1} \cup {k \in 1 .. tail : Tokens(k, notes) <= Target}
<1>1. n \in Nat
  <2>1. GroupStarts(raw) \subseteq 1 .. Len(raw)
    BY DEF GroupStarts
  <2>2. IsFiniteSet(1 .. Len(raw))
    BY FS_Interval
  <2>3. IsFiniteSet(GroupStarts(raw))
    BY <2>1, <2>2, FS_Subset
  <2> QED
    BY <2>3, FS_CardinalityType
<1>2. n >= 2
  BY <1>1
<1>3. tail = IF Max(fit) = n THEN n - 1 ELSE Max(fit)
  BY DEF InitialTail
<1>4. Retained(notes) = Max(kept)
  BY DEF Retained
<1> HIDE DEF n, raw, tail
<1>5. Max(fit) \in 1 .. n
  <2>1. fit \subseteq 1 .. n /\ 1 \in fit
    BY <1>1, <1>2
  <2> HIDE DEF fit
  <2>2. Max(fit) \in fit
    BY <1>1, <2>1, LastOf
  <2> QED
    BY <2>1, <2>2
<1>6. tail \in 1 .. n - 1
  BY <1>1, <1>2, <1>3, <1>5
<1>7. Max(kept) \in 1 .. tail
  <2>1. tail \in Nat
    BY <1>6
  <2>2. kept \subseteq 1 .. tail /\ 1 \in kept
    BY <1>6
  <2> HIDE DEF kept
  <2>3. Max(kept) \in kept
    BY <2>1, <2>2, LastOf
  <2> QED
    BY <2>2, <2>3
<1> QED
  BY <1>1, <1>4, <1>6, <1>7 DEF n, raw
-----------------------------------------------------------------------------
\* The events es are the artifacts fresh and then the compaction c.
Record(es, fresh, c) ==
    /\ c.type = "compaction"
    /\ es = Created(fresh) \o <<c>>
    /\ \E T : es \in Seq(T)
    /\ Len(es) \in Nat \ {0}
    /\ es[Len(es)] = c
    /\ \A k \in DOMAIN es : k = Len(es) \/ es[k].type = "created"

\* A compaction is appended behind the artifacts that its state names.
LEMMA RecordIs ==
    ASSUME NEW fresh, IsFiniteSet(fresh), NEW c, c.type = "compaction"
    PROVE  \E es : Record(es, fresh, c)
<1>0. PICK es : es = Created(fresh) \o <<c>>
  OBVIOUS
<1> PICK T : Created(fresh) \in Seq(T)
             /\ \A k \in DOMAIN Created(fresh) : Created(fresh)[k].type = "created"
  BY CreatedIs
<1>1. Created(fresh) \in Seq(T \cup {c}) /\ <<c>> \in Seq(T \cup {c})
  OBVIOUS
<1>2. /\ es \in Seq(T \cup {c}) /\ Len(es) = Len(Created(fresh)) + 1
      /\ \A i \in 1 .. Len(es) :
            es[i] = IF i <= Len(Created(fresh)) THEN Created(fresh)[i] ELSE <<c>>[i - Len(Created(fresh))]
  BY <1>0, <1>1, ConcatProperties
<1>3. DOMAIN es = 1 .. Len(es) /\ DOMAIN Created(fresh) = 1 .. Len(Created(fresh))
      /\ Len(Created(fresh)) \in Nat /\ Len(es) \in Nat
  BY <1>1, <1>2
<1>4. ASSUME NEW k \in DOMAIN es, k # Len(es) PROVE es[k].type = "created"
  <2>1. k \in DOMAIN Created(fresh) /\ es[k] = Created(fresh)[k]
    BY <1>2, <1>3, <1>4
  <2> QED
    BY <2>1
<1>5. es[Len(es)] = <<c>>[1] /\ Len(es) \in Nat \ {0}
  BY <1>2, <1>3
<1> QED
  BY <1>0, <1>2, <1>4, <1>5 DEF Record

\* What the log is then.
LEMMA RecordAppended ==
    ASSUME LogInv, history # <<>>, NEW fresh, NEW c,
           NEW es, Record(es, fresh, c), Emit(es)
    PROVE  LET n == Len(history') IN
           /\ LogInv'
           /\ n \in Nat /\ Len(history) < n
           /\ history'[n] = c /\ n \in DOMAIN history'
           /\ \A i \in DOMAIN history : i \in DOMAIN history' /\ history'[i] = history[i]
           /\ \A i \in Len(history) + 1 .. n : history'[i].type \in {"created", "compaction"}
           /\ Compactions' = Compactions \cup {n} /\ Max(Compactions') = n
           /\ \A k \in Nat : k <= Len(history) /\ Settled(k) => Settled(k)'
           /\ \E f : /\ Unrolls(f, history', n)
                     /\ View' = Project(View, n, c)
<1> PICK S : history \in Seq(S)
  BY DEF LogInv
<1>0. c.type = "compaction"
  BY DEF Record
<1>1. PICK T : /\ es \in Seq(T) /\ Len(es) \in Nat \ {0} /\ es[Len(es)] = c
               /\ \A k \in DOMAIN es : k = Len(es) \/ es[k].type = "created"
  BY DEF Record
<1>2. es \in Seq(T)
  BY <1>1
<1>3. /\ history' \in Seq(S \cup T)
      /\ Len(history') = Len(history) + Len(es) /\ DOMAIN history' = 1 .. Len(history')
      /\ DOMAIN history = 1 .. Len(history)
      /\ \A i \in DOMAIN history : history'[i] = history[i]
      /\ \A i \in DOMAIN history' :
            i \in DOMAIN history \/ \E k \in DOMAIN es : i = Len(history) + k /\ history'[i] = es[k]
  <2>1. Extends(es, S, T)
    BY <1>2, Longer
  <2> QED
    BY <2>1 DEF Extends
<1> DEFINE m == Len(history)
           n == Len(history')
<1>4. m \in Nat /\ n \in Nat /\ m < n /\ n = m + Len(es) /\ n \in DOMAIN history'
      /\ DOMAIN es = 1 .. Len(es)
  BY <1>1, <1>3
<1> HIDE DEF m, n
<1>5. \A i \in m + 1 .. n :
         \E k \in DOMAIN es : i = m + k /\ history'[i] = es[k]
  <2>1. ASSUME NEW i \in m + 1 .. n PROVE i \in DOMAIN history' /\ i \notin DOMAIN history
    BY <1>3, <1>4 DEF m, n
  <2>2. \A i \in DOMAIN history' :
            i \in DOMAIN history \/ \E k \in DOMAIN es : i = m + k /\ history'[i] = es[k]
    BY <1>3 DEF m
  <2> QED
    BY <2>1, <2>2
<1>6. history'[n] = c
  BY <1>1, <1>4, <1>5
<1>7. \A i \in m + 1 .. n : i = n \/ history'[i].type = "created"
  BY <1>1, <1>4, <1>5
<1>8. Compactions' = Compactions \cup {n}
  <2>1. \A i : i \in DOMAIN history' <=> i \in DOMAIN history \/ i \in m + 1 .. n
    BY <1>3, <1>4 DEF m, n
  <2>2. \A i \in DOMAIN history : i # n
    BY <1>3, <1>4 DEF m
  <2>3. \A i : i \in Compactions' <=> i \in Compactions \/ i = n
    BY <1>0, <1>3, <1>4, <1>6, <1>7, <2>1, <2>2 DEF Compactions, EventsOf
  <2> QED
    BY <2>3
<1>9. Max(Compactions') = n
  <2> PICK C : C = Compactions'
    OBVIOUS
  <2>1. \A i \in C : i \in Nat /\ i <= n
    BY <1>3, <1>4 DEF Compactions, EventsOf, m, n
  <2>2. n \in C /\ \A x \in C : n >= x
    BY <1>4, <1>8, <2>1
  <2>3. \A x \in C : (\A y \in C : x >= y) => x = n
    BY <1>4, <2>1, <2>2
  <2>4. Max(C) = n
    BY <2>2, <2>3 DEF Max
  <2> QED
    BY <2>4
<1>10. LogInv'
  <2>1. Continues(es)
    BY <1>0, <1>1, <1>2 DEF Continues, TraceTypes
  <2> QED
    BY <1>2, <2>1, LogGrows
<1>11. \E f : Unrolls(f, history', n) /\ View' = Project(View, n, c)
  <2>1. PICK f : Unrolls(f, history', n) /\ f[m] = View /\ f[n] = View'
    BY <1>1, <1>2, ViewGrows DEF m, n
  <2>2. PICK h, b : h = history' /\ b = n - 1
    OBVIOUS
  <2>3. b \in Nat /\ m <= b /\ b <= n /\ Unrolls(f, h, n) /\ n \in 1 .. n
    BY <1>4, <2>1, <2>2
  <2>4. Lacks(h, m, b, ViewTypes)
    <3>1. ASSUME NEW i \in m + 1 .. b PROVE h[i].type \notin ViewTypes
      <4>1. i \in m + 1 .. n /\ i # n
        BY <1>4, <2>2
      <4> QED
        BY <1>7, <2>2, <4>1 DEF ViewTypes
    <3> QED
      BY <3>1 DEF Lacks
  <2>5. f[b] = f[m]
    BY <1>4, <2>3, <2>4, SilentEvents
  <2>6. f[n] = Project(f[b], n, h[n])
    BY <2>2, <2>3 DEF Unrolls
  <2> QED
    BY <1>6, <2>1, <2>2, <2>5, <2>6
<1>12. \A k \in Nat : k <= Len(history) /\ Settled(k) => Settled(k)'
  BY <1>1, <1>2, SettledGrows
<1>13. \A i \in m + 1 .. n : history'[i].type \in {"created", "compaction"}
  BY <1>0, <1>6, <1>7
<1>14. \A i \in DOMAIN history : i \in DOMAIN history' /\ history'[i] = history[i]
  BY <1>3, <1>4 DEF m, n
<1> QED
  BY <1>4, <1>6, <1>8, <1>9, <1>10, <1>11, <1>12, <1>13, <1>14 DEF m, n
-----------------------------------------------------------------------------
\* The compaction c, which retains g groups, ends the events es.
Compacts(es, c, g, notes) ==
    /\ c.type = "compaction"
    /\ c.state = Bound(Unbounded(g, notes))
    /\ c.replaced = inflight.summaries \cup {m.id : m \in ToSet(Omitted(inflight.raw, g))}
    /\ Record(es, inflight.artifacts \ known, c)
    /\ Emit(es)
    /\ evicted' = evicted \cup (Unbounded(g, notes).facts \ c.state.facts)

LEMMA FinishIs ==
    ASSUME ContextInv, ViewInv, FinishCompact
    PROVE  /\ inflight.open /\ ~inflight'.open /\ InFlight
           /\ \E es, c, notes, g : /\ g \in 1 .. Cardinality(GroupStarts(inflight.raw)) - 1
                                   /\ Compacts(es, c, g, notes)
<1>1. inflight.open /\ ~inflight'.open /\ InFlight
  BY DEF FinishCompact, Idle, ViewInv
<1>2. PICK notes : LET g == Retained(notes) IN
         /\ Emit(Created(inflight.artifacts \ known)
                 \o <<[type |-> "compaction", state |-> Bound(Unbounded(g, notes)),
                       replaced |-> inflight.summaries
                                    \cup {m.id : m \in ToSet(Omitted(inflight.raw, g))}]>>)
         /\ evicted' = evicted \cup (Unbounded(g, notes).facts \ Bound(Unbounded(g, notes)).facts)
  BY DEF FinishCompact
<1>3. PICK g : g = Retained(notes)
  OBVIOUS
<1>4. PICK c : c = [type |-> "compaction", state |-> Bound(Unbounded(g, notes)),
                    replaced |-> inflight.summaries
                                 \cup {m.id : m \in ToSet(Omitted(inflight.raw, g))}]
  OBVIOUS
<1>5. /\ Emit(Created(inflight.artifacts \ known) \o <<c>>)
      /\ evicted' = evicted \cup (Unbounded(g, notes).facts \ Bound(Unbounded(g, notes)).facts)
  BY <1>2, <1>3, <1>4
<1>6. PICK fresh : fresh = inflight.artifacts \ known
  OBVIOUS
<1>7. c.type = "compaction" /\ IsFiniteSet(fresh)
  BY <1>1, <1>4, <1>6, FS_Subset DEF ContextInv
<1>8. PICK es : Record(es, fresh, c)
  BY <1>7, RecordIs
<1>9. Emit(es)
  BY <1>5, <1>6, <1>8 DEF Record
<1>10. Compacts(es, c, g, notes)
  BY <1>4, <1>5, <1>6, <1>8, <1>9 DEF Compacts
<1>11. g \in 1 .. Cardinality(GroupStarts(inflight.raw)) - 1
  <2>1. \E S : inflight.raw \in Seq(S)
    BY <1>1 DEF InFlight, Shown, Shows, Lists
  <2> QED
    BY <1>1, <1>3, <2>1, RetainedIs DEF InFlight
<1> QED
  BY <1>1, <1>10, <1>11

\* The state of a compaction covers the events that it has read.
LEMMA NewCursor ==
    ASSUME NEW n \in Nat, NEW m \in Nat, m < n, inflight.delta = After(m, n), NEW g, NEW notes
    PROVE  Bound(Unbounded(g, notes)).cursor = n
<1> PICK D : D = After(m, n)
  OBVIOUS
<1>1. n \in D /\ \A x \in D : x \in Nat /\ n >= x
  BY DEF After
<1>2. \A x \in D : (\A y \in D : x >= y) => x = n
  BY <1>1
<1>3. Max(D) = n
  BY <1>1, <1>2 DEF Max
<1>4. Unbounded(g, notes).cursor = n
  BY <1>1, <1>3 DEF Unbounded, ProjectState
<1>5. Bound(Unbounded(g, notes)).cursor = Unbounded(g, notes).cursor
  BY DEF Bound, Unbounded, ProjectState
<1> QED
  BY <1>4, <1>5

\* A compaction leaves the state message and the retained groups, which are a list from
\* the first retained message on; and the cursor is where the events read end.
LEMMA FinishView == ASSUME ContextInv, ViewInv, FinishCompact PROVE ViewInv'
<1>0. LogInv /\ CursorFits
  BY DEF ViewInv
<1> PICK S : history \in Seq(S)
  BY <1>0 DEF LogInv
<1>1. /\ inflight.open /\ ~inflight'.open /\ InFlight
      /\ \E es, c, notes, g : /\ g \in 1 .. Cardinality(GroupStarts(inflight.raw)) - 1
                              /\ Compacts(es, c, g, notes)
  BY FinishIs
<1>2. PICK es, c, notes, g : /\ g \in 1 .. Cardinality(GroupStarts(inflight.raw)) - 1
                             /\ Compacts(es, c, g, notes)
  BY <1>1
<1>3. PICK r : r = inflight.raw
  OBVIOUS
<1>4. PICK a : Shown(r, a)
  BY <1>1, <1>3 DEF InFlight
<1>5. PICK s : s = Summary
  OBVIOUS
<1>6. /\ View = s \o r /\ a \in Nat \ {0} /\ Lists(r, history, a, Len(history))
      /\ Shows(s, r, a) /\ a - 1 <= Latest.cursor
      /\ \A k \in DOMAIN s : s[k].kind = "compaction"
  BY <1>4, <1>5 DEF Shown, Shows
<1>7. PICK T : s \in Seq(T) /\ r \in Seq(T)
  BY <1>6, ShownTypes
<1>8. PICK n \in DOMAIN history :
          /\ inflight.delta = After(Latest.cursor, n)
          /\ Latest.cursor < n
          /\ Settled(n)
          /\ \A i \in DOMAIN history : i > n => history[i].type \in Outside
  BY <1>1 DEF InFlight
<1>9. n \in Nat /\ n <= Len(history) /\ Len(history) \in Nat /\ DOMAIN history = 1 .. Len(history)
      /\ history # <<>>
  BY <1>8
<1>10. PICK k \in GroupStarts(r) :
          /\ k \in 2 .. Len(r)
          /\ Newest(r, g) = SubSeq(r, k, Len(r))
          /\ Omitted(r, g) = SubSeq(r, 1, k - 1)
  BY <1>2, <1>3, <1>7, NewestIs
<1>11. PICK b : b = r[k].id
  OBVIOUS
<1>12. k \in DOMAIN r /\ Settled(b - 1)
  BY <1>6, <1>10, <1>11, GroupSettles
<1>13. /\ DOMAIN r = 1 .. Len(r) /\ Len(r) \in Nat /\ k - 1 \in 1 .. Len(r) /\ k \in Nat
  BY <1>7, <1>10
<1>14. \A l \in DOMAIN r : /\ r[l].id \in Nat /\ r[l].id \in DOMAIN history
                           /\ history[r[l].id].type \in MessageTypes
  BY <1>6, <1>9 DEF Lists
<1>15. b <= n
  <2>1. history[b].type \notin Outside
    BY <1>11, <1>12, <1>14 DEF MessageTypes, Outside
  <2> QED
    BY <1>8, <1>9, <1>11, <1>12, <1>14, <2>1
<1>16. b \in Nat \ {0} /\ b - 1 \in Nat /\ b - 1 <= Len(history)
  BY <1>6, <1>9, <1>11, <1>12, <1>14, <1>15
<1>17. c.state.cursor = n
  <2>1. Latest.cursor \in Nat
    BY <1>0 DEF CursorFits
  <2> QED
    BY <1>2, <1>8, <1>9, <2>1, NewCursor DEF Compacts
<1> DEFINE N == Len(history')
<1>18. /\ LogInv'
       /\ N \in Nat /\ Len(history) < N
       /\ history'[N] = c /\ N \in DOMAIN history'
       /\ \A i \in DOMAIN history : i \in DOMAIN history' /\ history'[i] = history[i]
       /\ \A i \in Len(history) + 1 .. N : history'[i].type \in {"created", "compaction"}
       /\ Compactions' = Compactions \cup {N} /\ Max(Compactions') = N
       /\ \A i \in Nat : i <= Len(history) /\ Settled(i) => Settled(i)'
       /\ View' = Project(View, N, c)
  <2>1. c.type = "compaction" /\ Record(es, inflight.artifacts \ known, c) /\ Emit(es)
    BY <1>2 DEF Compacts
  <2> QED
    BY <1>0, <1>9, <2>1, RecordAppended
<1> HIDE DEF N
<1>19. Latest' = c.state /\ Summary' = <<Message(N, c)>>
  <2>1. Compactions' # {} /\ history'[Max(Compactions')] = c
    BY <1>18
  <2>2. Latest' = c.state
    BY <2>1 DEF Latest, Previous
  <2> QED
    BY <1>18, <2>1, <2>2 DEF Summary, Message
<1>20. View' = <<Message(N, c)>> \o SubSeq(r, k, Len(r))
  <2>1. \A i : i \in c.replaced <=>
                 \/ i \in inflight.summaries
                 \/ \E l \in 1 .. k - 1 : i = r[l].id
    <3>1. c.replaced = inflight.summaries \cup {m.id : m \in ToSet(SubSeq(r, 1, k - 1))}
      BY <1>2, <1>3, <1>10 DEF Compacts
    <3>2. ToSet(SubSeq(r, 1, k - 1)) = {r[l] : l \in 1 .. k - 1}
      <4>1. /\ DOMAIN SubSeq(r, 1, k - 1) = 1 .. k - 1
            /\ \A l \in 1 .. k - 1 : SubSeq(r, 1, k - 1)[l] = r[l]
        BY <1>7, <1>13
      <4> QED
        BY <4>1 DEF ToSet
    <3> QED
      BY <3>1, <3>2
  <2>2. inflight.summaries = IF Compactions = {} THEN {} ELSE {Max(Compactions)}
    BY <1>1 DEF InFlight
  <2>3. \A i \in inflight.summaries : i \in DOMAIN history /\ history[i].type = "compaction"
    <3>1. \A i \in Compactions : i \in DOMAIN history /\ history[i].type = "compaction"
      BY DEF Compactions, EventsOf
    <3>2. Compactions # {} => Max(Compactions) \in Compactions
      <4>1. Compactions \subseteq 1 .. Len(history)
        BY <1>9 DEF Compactions, EventsOf
      <4> QED
        BY <1>9, <4>1, LastOf
    <3> QED
      BY <2>2, <3>1, <3>2
  <2>4. ASSUME NEW l \in DOMAIN s PROVE s[l].id \in c.replaced
    <3>1. Compactions # {} /\ s = <<Message(Max(Compactions), history[Max(Compactions)])>>
      BY <1>5 DEF Summary
    <3>2. l = 1 /\ s[1].id = Max(Compactions)
      BY <3>1 DEF Message
    <3> QED
      BY <2>1, <2>2, <3>1, <3>2
  <2>5. ASSUME NEW l \in DOMAIN r PROVE r[l].id \in c.replaced <=> l <= k - 1
    <3>1. r[l].id \notin inflight.summaries
      BY <1>14, <2>3 DEF MessageTypes
    <3>2. \A p \in DOMAIN r : r[p].id = r[l].id => p = l
      <4>1. \A p, q \in DOMAIN r : p < q => r[p].id < r[q].id
        BY <1>6 DEF Lists
      <4>2. ASSUME NEW p \in DOMAIN r, r[p].id = r[l].id PROVE p = l
        <5>1. ~(p < l) /\ ~(l < p)
          BY <1>14, <4>1, <4>2
        <5> QED
          BY <1>13, <5>1
      <4> QED
        BY <4>2
    <3>3. \A p \in 1 .. k - 1 : p \in DOMAIN r
      BY <1>13
    <3>4. l \in 1 .. k - 1 <=> l <= k - 1
      BY <1>13
    <3> QED
      BY <2>1, <3>1, <3>2, <3>3, <3>4
  <2>6. PICK p : p = k - 1
    OBVIOUS
  <2>7. p \in 1 .. Len(r) /\ p + 1 = k /\ \A l \in DOMAIN r : r[l].id \in c.replaced <=> l <= p
    BY <1>13, <2>5, <2>6
  <2>8. c.type = "compaction"
    BY <1>2 DEF Compacts
  <2>9. Project(s \o r, N, c) = <<Message(N, c)>> \o SubSeq(r, p + 1, Len(r))
    <3>1. Replaces(c, s, r, p)
      BY <2>4, <2>7, <2>8 DEF Replaces
    <3> QED
      BY <1>7, <2>7, <3>1, CompactionProjects
  <2> QED
    BY <1>6, <1>18, <2>7, <2>9
<1>21. Lists(SubSeq(r, k, Len(r)), history', b, N)
  <2>1. PICK q, h, m : q = SubSeq(r, k, Len(r)) /\ h = history' /\ m = Len(history)
    OBVIOUS
  <2>2. Lists(q, history, b, m)
    BY <1>6, <1>9, <1>11, <1>12, <2>1, ListsSuffix
  <2>3. Lists(q, h, b, m)
    <3>1. \A i \in b .. m : h[i] = history[i]
      BY <1>9, <1>16, <1>18, <2>1
    <3> QED
      BY <2>2, <3>1, ListsSame
  <2>4. Lacks(h, m, N, MessageTypes)
    BY <1>18, <2>1 DEF Lacks, MessageTypes
  <2>5. m \in Nat /\ N \in Nat /\ m <= N /\ b \in Nat
    BY <1>9, <1>16, <1>18, <2>1
  <2>6. Lists(q, h, b, N)
    BY <2>3, <2>4, <2>5, ListsSilent
  <2> QED
    BY <2>1, <2>6
<1>22. Shown(SubSeq(r, k, Len(r)), b)'
  <2>1. PICK q : q = SubSeq(r, k, Len(r))
    OBVIOUS
  <2>2. PICK M : M = Message(N, c)
    OBVIOUS
  <2>3. M.kind = "compaction" /\ M.calls = {} /\ M.results = {}
    BY <1>2, <2>2 DEF Compacts, Message
  <2>4. /\ \E U : <<M>> \in Seq(U)
        /\ \A l \in DOMAIN <<M>> : <<M>>[l].kind = "compaction"
                                   /\ <<M>>[l].calls = {} /\ <<M>>[l].results = {}
    <3>1. <<M>> \in Seq({M}) /\ DOMAIN <<M>> = {1} /\ <<M>>[1] = M
      OBVIOUS
    <3> QED
      BY <2>3, <3>1
  <2>5. Settled(b - 1)'
    BY <1>12, <1>16, <1>18
  <2>6. /\ View' = <<M>> \o q /\ Summary' = <<M>>
        /\ Lists(q, history', b, Len(history'))
    BY <1>19, <1>20, <1>21, <2>1, <2>2 DEF N
  <2>7. Shows(Summary, q, b)'
    BY <1>16, <2>4, <2>5, <2>6 DEF Shows
  <2>8. b - 1 <= Latest'.cursor
    BY <1>9, <1>15, <1>16, <1>17, <1>19
  <2> QED
    BY <2>1, <2>7, <2>8 DEF Shown
<1>23. CursorFits'
  <2>1. Settled(n)'
    BY <1>8, <1>9, <1>18
  <2>2. Latest'.cursor = n
    BY <1>17, <1>19
  <2>3. Settled(Latest.cursor)'
    <3>1. PICK x : x = Latest'.cursor
      OBVIOUS
    <3>2. Settled(x)'
      BY <2>1, <2>2, <3>1
    <3> QED
      BY <3>1, <3>2
  <2> QED
    BY <1>9, <1>18, <2>2, <2>3 DEF CursorFits, N
<1> QED
  BY <1>1, <1>18, <1>22, <1>23 DEF ViewInv
-----------------------------------------------------------------------------
LEMMA ViewStarts == ContextInit => ViewInv
<1> SUFFICES ASSUME ContextInit PROVE ViewInv
  OBVIOUS
<1>1. history = <<>> /\ ~inflight.open
  BY DEF ContextInit, Idle
<1>2. history \in Seq({}) /\ Len(history) = 0 /\ DOMAIN history = {}
  BY <1>1
<1>3. \A i, c : ~Proposes(i, c) /\ ~Returns(i, c) /\ ~Finishes(i, c)
  BY <1>2 DEF Proposes, Returns, Finishes
<1>4. Proposed = {} /\ Compactions = {}
  BY <1>2 DEF Proposed, Compactions, EventsOf
<1>5. LogInv
  <2>1. {} = 1 .. 0 /\ 0 \in Nat
    OBVIOUS
  <2>2. Exchanges
    BY <1>3 DEF Exchanges
  <2>3. \E n \in Nat : Proposed = 1 .. n
    BY <1>4, <2>1
  <2> QED
    BY <1>1, <1>2, <2>2, <2>3 DEF LogInv
<1>6. Latest.cursor = 0 /\ Summary = <<>>
  BY <1>4 DEF Latest, Previous, NoState, Summary
<1>7. \A n : Settled(n)
  BY <1>3 DEF Settled
<1>8. CursorFits
  BY <1>1, <1>2, <1>6, <1>7 DEF CursorFits
<1>9. View = <<>>
  <2>1. Unrolls(Projected, history, Len(history))
    BY <1>2, UnrollingIs DEF Projected
  <2>2. PICK f : f = Projected
    OBVIOUS
  <2>3. f[0] = <<>>
    BY <2>1, <2>2 DEF Unrolls
  <2> QED
    BY <1>2, <2>2, <2>3 DEF View
<1>10. Shown(<<>>, 1)
  <2>1. Lists(<<>>, history, 1, Len(history))
    <3>1. <<>> \in Seq({}) /\ DOMAIN <<>> = {} /\ \A i : i \notin 1 .. 0
      OBVIOUS
    <3> QED
      BY <1>2, <3>1 DEF Lists
  <2>2. <<>> \o <<>> = <<>> /\ 1 \in Nat \ {0}
    OBVIOUS
  <2>3. Shows(<<>>, <<>>, 1)
    <3>1. <<>> \in Seq({}) /\ DOMAIN <<>> = {}
      OBVIOUS
    <3> QED
      BY <1>7, <1>9, <2>1, <2>2, <3>1 DEF Shows
  <2> QED
    BY <1>6, <2>3 DEF Shown
<1> QED
  BY <1>1, <1>5, <1>8, <1>10 DEF ViewInv

\* Every step keeps the invariant of the messages.
LEMMA ViewKeeps == ASSUME ContextInv, ViewInv, [ContextNext]_contextVars PROVE ViewInv'
<1>1. CASE UNCHANGED contextVars
  BY <1>1, SameInFlight DEF contextVars
<1>2. CASE StartRun
  BY <1>2, StartView
<1>3. CASE ResumeRun
  BY <1>3, SameInFlight DEF ResumeRun
<1>4. CASE \E n \in 0 .. 2 : Answer(n)
  BY <1>4, AnswerView
<1>5. CASE \E k \in Calls : Complete(k) \/ Commit(k) \/ Delete(k)
  BY <1>5, CompleteView, CommitView, DeleteView
<1>6. CASE \E a \in Approvals : Ask(a) \/ Resolve(a)
  BY <1>6, AskView, ResolveView
<1>7. CASE Request
  BY <1>7, RequestView
<1>8. CASE BeginCompact
  BY <1>8, BeginView
<1>9. CASE FinishCompact
  BY <1>9, FinishView
<1>10. CASE LoseCompact
  BY <1>10, LoseView
<1> QED
  BY <1>1, <1>2, <1>3, <1>4, <1>5, <1>6, <1>7, <1>8, <1>9, <1>10 DEF ContextNext

\* The messages that reach the model hold each tool result behind its call, and each call
\* with the result that the log has for it, whatever compactions have replaced
\* (group_tool_exchanges, the retained groups of compact, project_messages).
THEOREM ExchangesStayWholeCorrect == ContextSpec => []ExchangesStayWhole
<1>1. ContextInit => ContextInv /\ ViewInv
  BY ContextStarts, ViewStarts
<1>2. ContextInv /\ ViewInv /\ [ContextNext]_contextVars => ContextInv' /\ ViewInv'
  BY ContextSteps, ViewKeeps
<1>3. ViewInv => ExchangesStayWhole
  <2> SUFFICES ASSUME ViewInv PROVE ExchangesStayWhole
    OBVIOUS
  <2>1. PICK S : history \in Seq(S)
    BY DEF ViewInv, LogInv
  <2>2. PICK r, a : Shows(Summary, r, a)
    BY DEF ViewInv, Shown
  <2>3. Exchanges
    BY DEF ViewInv, LogInv
  <2> QED
    BY <2>1, <2>2, <2>3, ShownWhole
<1> QED
  BY <1>1, <1>2, <1>3, PTL DEF ContextSpec
-----------------------------------------------------------------------------
(* Files: the last write counts.                                           *)

\* A call that completed among the first events, or among the next, ended there.
LEMMA WritesSplit ==
    ASSUME NEW A, NEW B, NEW D, \A i : i \in B <=> i \in A \/ i \in D,
           Splits(B, A, D), NEW p
    PROVE  \A i : i \in Writes(p, B) <=> i \in Writes(p, A) \/ i \in Writes(p, D)
<1>1. ASSUME NEW S, NEW i
      PROVE  i \in Writes(p, S) <=> /\ i \in S /\ history[i].type = "completed"
                                    /\ history[i].call \in Good(S) /\ history[i].path = p
  BY DEF Writes, EventsOf
<1>2. ASSUME NEW c, SameTrace(c, B, A) PROVE c \in Good(B) <=> c \in Good(A)
  BY <1>2, TraceFacts DEF Good
<1>3. ASSUME NEW c, SameTrace(c, B, D) PROVE c \in Good(B) <=> c \in Good(D)
  BY <1>3, TraceFacts DEF Good
<1>4. ASSUME NEW S, NEW i \in S, history[i].type = "completed"
      PROVE  ~NoTrace(history[i].call, S)
  BY <1>4 DEF NoTrace, CompletionOf, EventsOf
<1>5. ASSUME NEW i \in A, history[i].type = "completed"
      PROVE  history[i].call \in Good(B) <=> history[i].call \in Good(A)
  <2>1. ~NoTrace(history[i].call, A)
    BY <1>4, <1>5
  <2> QED
    BY <1>2, <2>1 DEF Splits
<1>6. ASSUME NEW i \in D, history[i].type = "completed"
      PROVE  history[i].call \in Good(B) <=> history[i].call \in Good(D)
  <2>1. ~NoTrace(history[i].call, D)
    BY <1>4, <1>6
  <2> QED
    BY <1>3, <2>1 DEF Splits
<1> QED
  BY <1>1, <1>5, <1>6

\* Z holds the positions X, of the first m, and Y, of those after them.
Joins(Z, X, Y, m, n) ==
    /\ m \in Nat /\ n \in Nat /\ m <= n
    /\ \A i \in X : i \in 1 .. m
    /\ \A i \in Y : i \in 1 .. n /\ i > m
    /\ \A i : i \in Z <=> i \in X \/ i \in Y

\* Positions of a later part come last.
LEMMA LastOfJoin ==
    ASSUME NEW n, NEW m, NEW X, NEW Y, NEW Z, Joins(Z, X, Y, m, n)
    PROVE  /\ Y # {} => Max(Z) \in Y /\ Max(Y) = Max(Z)
           /\ Y = {} => Z = X
<1>0. /\ m \in Nat /\ n \in Nat /\ m <= n
      /\ \A i \in X : i \in 1 .. m
      /\ \A i \in Y : i \in 1 .. n /\ i > m
      /\ \A i : i \in Z <=> i \in X \/ i \in Y
  BY DEF Joins
<1>1. CASE Y = {}
  BY <1>0, <1>1
<1>2. CASE Y # {}
  <2>1. /\ \A i \in Z : i \in 1 .. n
        /\ Y \subseteq 1 .. n
    BY <1>0
  <2>2. Max(Y) \in Y /\ \A y \in Y : y <= Max(Y)
    BY <1>0, <1>2, <2>1, LastOf
  <2>3. PICK t : t = Max(Y)
    OBVIOUS
  <2>4. t \in Y /\ \A y \in Y : y <= t
    BY <2>2, <2>3
  <2>5. t \in Nat /\ t > m
    BY <1>0, <2>4
  <2>6. \A z \in Z : z \in Nat /\ t >= z
    <3>1. ASSUME NEW z \in X PROVE z \in Nat /\ t >= z
      BY <1>0, <2>5
    <3>2. ASSUME NEW z \in Y PROVE z \in Nat /\ t >= z
      BY <1>0, <2>4, <2>5
    <3> QED
      BY <1>0, <3>1, <3>2
  <2>7. \A z \in Z : (\A y \in Z : z >= y) => z = t
    BY <1>0, <2>4, <2>5, <2>6
  <2>8. Max(Z) = t
    BY <1>0, <2>4, <2>6, <2>7 DEF Max
  <2> QED
    BY <1>2, <2>3, <2>4, <2>8
<1> QED
  BY <1>1, <1>2
-----------------------------------------------------------------------------
\* The first m of n events are settled.
Parts(m, n) ==
    /\ m \in Nat /\ n \in Nat /\ m <= n /\ n <= Len(history)
    /\ Settled(m)

LEMMA PartsSplit ==
    ASSUME LogInv, NEW m, NEW n, Parts(m, n)
    PROVE  /\ \A i : i \in 1 .. n <=> i \in 1 .. m \/ i \in After(m, n)
           /\ Splits(1 .. n, 1 .. m, After(m, n))
<1>1. m \in Nat /\ n \in Nat /\ m <= n /\ n <= Len(history) /\ Settled(m)
  BY DEF Parts
<1>2. \A i : i \in 1 .. n <=> i \in 1 .. m \/ i \in After(m, n)
  BY <1>1 DEF After
<1>3. PICK S : history \in Seq(S)
  BY DEF LogInv
<1>4. Exchanges
  BY DEF LogInv
<1>5. ASSUME NEW c
      PROVE  \/ SameTrace(c, 1 .. n, 1 .. m) /\ NoTrace(c, After(m, n))
             \/ SameTrace(c, 1 .. n, After(m, n)) /\ NoTrace(c, 1 .. m)
  BY <1>1, <1>3, <1>4, TraceSplits
<1> QED
  BY <1>2, <1>5 DEF Splits

\* The last write of a file, if the later events write it, and if they do not.
LEMMA LastWriteIs ==
    ASSUME LogInv, NEW m, NEW n, Parts(m, n), NEW p
    PROVE  /\ Writes(p, After(m, n)) # {} =>
                /\ Writes(p, 1 .. n) # {}
                /\ LastWrite(p, 1 .. n) = LastWrite(p, After(m, n))
           /\ Writes(p, After(m, n)) = {} =>
                /\ Writes(p, 1 .. n) = Writes(p, 1 .. m)
                /\ Writes(p, 1 .. m) # {} => LastWrite(p, 1 .. n) = LastWrite(p, 1 .. m)
<1>0. PICK A, B, D : A = 1 .. m /\ B = 1 .. n /\ D = After(m, n)
  OBVIOUS
<1>1. /\ \A i : i \in B <=> i \in A \/ i \in D
      /\ Splits(B, A, D)
  BY <1>0, PartsSplit
<1>2. m \in Nat /\ n \in Nat /\ m <= n
  BY DEF Parts
<1>3. \A i : i \in Writes(p, B) <=> i \in Writes(p, A) \/ i \in Writes(p, D)
  BY <1>1, WritesSplit
<1>4. /\ \A i \in Writes(p, A) : i \in 1 .. m
      /\ \A i \in Writes(p, D) : i \in 1 .. n /\ i > m
  BY <1>0 DEF Writes, EventsOf, After
<1>5. /\ Writes(p, D) # {} => Max(Writes(p, B)) \in Writes(p, D)
                              /\ Max(Writes(p, D)) = Max(Writes(p, B))
      /\ Writes(p, D) = {} => Writes(p, B) = Writes(p, A)
  <2>1. Joins(Writes(p, B), Writes(p, A), Writes(p, D), m, n)
    BY <1>2, <1>3, <1>4 DEF Joins
  <2> QED
    BY <2>1, LastOfJoin
<1>6. \A S, i : i \in Writes(p, S) => Ended(history[i].call, S)
  BY DEF Writes, Good
<1>7. /\ \A c : Ended(c, A) => Evidence(c, B) = Evidence(c, A)
      /\ \A c : Ended(c, D) => Evidence(c, B) = Evidence(c, D)
  BY <1>1, CallFactsSplit
<1>8. CASE Writes(p, D) # {}
  <2>1. PICK x : x = Max(Writes(p, B))
    OBVIOUS
  <2>2. x \in Writes(p, D) /\ Max(Writes(p, D)) = x
    BY <1>5, <1>8, <2>1
  <2>3. Evidence(history[x].call, B) = Evidence(history[x].call, D)
    BY <1>6, <1>7, <2>2
  <2>4. LastWrite(p, B) = LastWrite(p, D)
    BY <2>1, <2>2, <2>3 DEF LastWrite
  <2> QED
    BY <1>0, <1>3, <1>8, <2>2, <2>4
<1>9. CASE Writes(p, D) = {}
  <2>1. Writes(p, B) = Writes(p, A)
    BY <1>5, <1>9
  <2>2. ASSUME Writes(p, A) # {} PROVE LastWrite(p, B) = LastWrite(p, A)
    <3>1. PICK x : x = Max(Writes(p, A))
      OBVIOUS
    <3>2. x \in Writes(p, A)
      <4>1. Writes(p, A) \subseteq 1 .. m
        BY <1>4
      <4> QED
        BY <1>2, <2>2, <3>1, <4>1, LastOf
    <3>3. Evidence(history[x].call, B) = Evidence(history[x].call, A)
      BY <1>6, <1>7, <3>2
    <3> QED
      BY <2>1, <3>1, <3>3 DEF LastWrite
  <2> QED
    BY <1>0, <1>9, <2>1, <2>2
<1> QED
  BY <1>0, <1>8, <1>9
-----------------------------------------------------------------------------
(* All facts.                                                              *)

\* The field and the key of a fact of each kind.
LEMMA NewFactsAre ==
    ASSUME NEW S, NEW f
    PROVE  /\ f \in Failures(S) => /\ f.field = "failures" /\ f.key \in Calls
                                   /\ Ended(f.key, S)
           /\ f \in Checks(S) => /\ f.field = "verified" /\ f.key \in Calls
                                 /\ Ended(f.key, S)
           /\ f \in Files(S) => /\ f.field = "files" /\ f.key \in Paths
                                /\ Writes(f.key, S) # {} /\ f = LastWrite(f.key, S)
           /\ \A p \in Paths : Writes(p, S) # {} =>
                 /\ LastWrite(p, S) \in Files(S)
                 /\ LastWrite(p, S).field = "files" /\ LastWrite(p, S).key = p
<1>1. ASSUME f \in Failures(S)
      PROVE  f.field = "failures" /\ f.key \in Calls /\ Ended(f.key, S)
  <2>1. PICK c \in Calls : Ended(c, S) /\ f = Fact("failures", c, Evidence(c, S))
    BY <1>1 DEF Failures
  <2> QED
    BY <2>1, FactIs
<1>2. ASSUME f \in Checks(S)
      PROVE  f.field = "verified" /\ f.key \in Calls /\ Ended(f.key, S)
  <2>1. PICK c \in Good(S) : f = Fact("verified", c, Evidence(c, S))
    BY <1>2 DEF Checks
  <2>2. c \in Calls /\ Ended(c, S)
    BY DEF Good
  <2> QED
    BY <2>1, <2>2, FactIs
<1>3. \A p : LastWrite(p, S).field = "files" /\ LastWrite(p, S).key = p
  BY FactIs DEF LastWrite
<1>4. \A p \in Paths : Writes(p, S) # {} => LastWrite(p, S) \in Files(S)
  BY DEF Files
<1>5. ASSUME f \in Files(S)
      PROVE  /\ f.field = "files" /\ f.key \in Paths
             /\ Writes(f.key, S) # {} /\ f = LastWrite(f.key, S)
  <2>1. PICK p \in Paths : Writes(p, S) # {} /\ f = LastWrite(p, S)
    BY <1>5 DEF Files
  <2> QED
    BY <1>3, <2>1
<1> QED
  BY <1>1, <1>2, <1>3, <1>4, <1>5

LEMMA OverridesIs ==
    ASSUME NEW S, NEW f
    PROVE  /\ f.field = "failures" => (Overrides(S, f) <=> \E g \in Failures(S) : g.key = f.key)
           /\ f.field = "verified" => (Overrides(S, f) <=> \E g \in Checks(S) : g.key = f.key)
           /\ f.field = "files" => (Overrides(S, f) <=> \E g \in Files(S) : g.key = f.key)
           /\ f.field \in {"decisions", "pending_approvals"} => ~Overrides(S, f)
<1>1. /\ \A g \in Failures(S) : g.field = "failures"
      /\ \A g \in Checks(S) : g.field = "verified"
      /\ \A g \in Files(S) : g.field = "files"
  BY NewFactsAre
<1> QED
  BY <1>1 DEF Overrides, NewFacts

\* The facts of n events are those of the later ones, and those of the first ones that
\* the later do not override.
LEMMA ToolFactsJoin ==
    ASSUME LogInv, NEW m, NEW n, Parts(m, n), NEW f
    PROVE  f \in NewFacts(1 .. n) <=>
              \/ f \in NewFacts(After(m, n))
              \/ f \in NewFacts(1 .. m) /\ ~Overrides(After(m, n), f)
<1>0. PICK A, B, D : A = 1 .. m /\ B = 1 .. n /\ D = After(m, n)
  OBVIOUS
<1>1. Splits(B, A, D)
  BY <1>0, PartsSplit
<1>2. /\ Failures(B) = Failures(A) \cup Failures(D)
      /\ Checks(B) = Checks(A) \cup Checks(D)
      /\ \A c : ~(Ended(c, A) /\ Ended(c, D))
  BY <1>1, CallFactsSplit
<1>3. \A p : /\ Writes(p, D) # {} => /\ Writes(p, B) # {}
                                     /\ LastWrite(p, B) = LastWrite(p, D)
             /\ Writes(p, D) = {} =>
                  /\ Writes(p, B) = Writes(p, A)
                  /\ Writes(p, A) # {} => LastWrite(p, B) = LastWrite(p, A)
  BY <1>0, LastWriteIs
<1>4. f \in Failures(A) => ~Overrides(D, f)
  <2> SUFFICES ASSUME f \in Failures(A), Overrides(D, f) PROVE FALSE
    OBVIOUS
  <2>1. f.field = "failures" /\ Ended(f.key, A)
    BY NewFactsAre
  <2>2. PICK g \in Failures(D) : g.key = f.key
    BY <2>1, OverridesIs
  <2>3. Ended(g.key, D)
    BY NewFactsAre
  <2> QED
    BY <1>2, <2>1, <2>2, <2>3
<1>5. f \in Checks(A) => ~Overrides(D, f)
  <2> SUFFICES ASSUME f \in Checks(A), Overrides(D, f) PROVE FALSE
    OBVIOUS
  <2>1. f.field = "verified" /\ Ended(f.key, A)
    BY NewFactsAre
  <2>2. PICK g \in Checks(D) : g.key = f.key
    BY <2>1, OverridesIs
  <2>3. Ended(g.key, D)
    BY NewFactsAre
  <2> QED
    BY <1>2, <2>1, <2>2, <2>3
<1>6. f \in Files(B) <=> f \in Files(D) \/ (f \in Files(A) /\ ~Overrides(D, f))
  <2>1. ASSUME f \in Files(B) PROVE f \in Files(D) \/ (f \in Files(A) /\ ~Overrides(D, f))
    <3>1. PICK p \in Paths : /\ f.field = "files" /\ f.key = p
                             /\ Writes(p, B) # {} /\ f = LastWrite(p, B)
      BY <2>1, NewFactsAre
    <3>2. CASE Writes(p, D) # {}
      BY <1>3, <3>1, <3>2, NewFactsAre
    <3>3. CASE Writes(p, D) = {}
      <4>1. f = LastWrite(p, A) /\ Writes(p, A) # {}
        BY <1>3, <3>1, <3>3
      <4>2. f \in Files(A)
        BY <4>1, NewFactsAre
      <4>3. ~Overrides(D, f)
        <5>1. SUFFICES ASSUME Overrides(D, f) PROVE FALSE
          OBVIOUS
        <5>2. PICK g \in Files(D) : g.key = p
          BY <3>1, <5>1, OverridesIs
        <5>3. Writes(g.key, D) # {}
          BY NewFactsAre
        <5> QED
          BY <3>3, <5>2, <5>3
      <4> QED
        BY <4>2, <4>3
    <3> QED
      BY <3>2, <3>3
  <2>2. ASSUME f \in Files(D) PROVE f \in Files(B)
    <3>1. PICK p \in Paths : Writes(p, D) # {} /\ f = LastWrite(p, D)
      BY <2>2, NewFactsAre
    <3>2. Writes(p, B) # {} /\ f = LastWrite(p, B)
      BY <1>3, <3>1
    <3> QED
      BY <3>2, NewFactsAre
  <2>3. ASSUME f \in Files(A), ~Overrides(D, f) PROVE f \in Files(B)
    <3>1. PICK p \in Paths : /\ f.field = "files" /\ f.key = p
                             /\ Writes(p, A) # {} /\ f = LastWrite(p, A)
      BY <2>3, NewFactsAre
    <3>2. Writes(p, D) = {}
      <4>1. SUFFICES ASSUME Writes(p, D) # {} PROVE FALSE
        OBVIOUS
      <4>2. LastWrite(p, D) \in Files(D) /\ LastWrite(p, D).key = p
        BY <4>1, NewFactsAre
      <4> QED
        BY <2>3, <3>1, <4>2, OverridesIs
    <3>3. Writes(p, B) # {} /\ f = LastWrite(p, B)
      BY <1>3, <3>1, <3>2
    <3> QED
      BY <3>3, NewFactsAre
  <2> QED
    BY <2>1, <2>2, <2>3
<1>7. f \in NewFacts(B) <=> f \in NewFacts(D) \/ (f \in NewFacts(A) /\ ~Overrides(D, f))
  BY <1>2, <1>4, <1>5, <1>6 DEF NewFacts
<1> QED
  BY <1>0, <1>7
-----------------------------------------------------------------------------
\* Approvals that are asked for and not resolved.
Closed(S) == {history[i].approval : i \in EventsOf("resolved", S)}
Asks(S) == {Fact("pending_approvals", history[i].approval, {i}) : i \in EventsOf("requested", S)}
Pending(S) == {f \in Asks(S) : f.key \notin Closed(S)}

LEMMA AsksAre ==
    ASSUME NEW S, NEW f
    PROVE  /\ f \in Asks(S) <=>
                \E i \in S : /\ history[i].type = "requested"
                             /\ f = Fact("pending_approvals", history[i].approval, {i})
           /\ f \in Asks(S) =>
                /\ f.field = "pending_approvals"
                /\ \E i \in S : history[i].type = "requested" /\ f.key = history[i].approval
<1>1. f \in Asks(S) <=>
         \E i \in S : /\ history[i].type = "requested"
                      /\ f = Fact("pending_approvals", history[i].approval, {i})
  BY DEF Asks, EventsOf
<1>2. ASSUME f \in Asks(S)
      PROVE  /\ f.field = "pending_approvals"
             /\ \E i \in S : history[i].type = "requested" /\ f.key = history[i].approval
  <2>1. PICK i \in S : /\ history[i].type = "requested"
                       /\ f = Fact("pending_approvals", history[i].approval, {i})
    BY <1>1, <1>2
  <2>2. f.field = "pending_approvals" /\ f.key = history[i].approval
    BY <2>1, FactIs
  <2> QED
    BY <2>1, <2>2
<1> QED
  BY <1>1, <1>2

LEMMA ApprovalFactsIs ==
    ASSUME NEW X, NEW S
    PROVE  /\ \A f : f \in ApprovalFacts(X, S) <=>
                 \/ f \in X /\ (f.field # "pending_approvals" \/ f.key \notin Closed(S))
                 \/ f \in Pending(S)
           /\ \A f \in Pending(S) : f.field = "pending_approvals"
<1>1. \A f \in Asks(S) : f.field = "pending_approvals"
  BY AsksAre
<1>2. ApprovalFacts(X, S) = {f \in X \cup Asks(S) : f.field # "pending_approvals" \/ f.key \notin Closed(S)}
  BY DEF ApprovalFacts, Asks, Closed
<1> QED
  BY <1>1, <1>2 DEF Pending

\* Approvals that are pending after n events: later ones, and first ones not resolved since.
LEMMA PendingJoin ==
    ASSUME LogInv, OnceAsked, NEW m, NEW n, Parts(m, n), NEW f
    PROVE  f \in Pending(1 .. n) <=>
              \/ f \in Pending(After(m, n))
              \/ f \in Pending(1 .. m) /\ f.key \notin Closed(After(m, n))
<1>0. PICK A, B, D : A = 1 .. m /\ B = 1 .. n /\ D = After(m, n)
  OBVIOUS
<1>1. /\ \A i : i \in B <=> i \in A \/ i \in D
  BY <1>0, PartsSplit
<1>2. \A i \in B : i \in DOMAIN history
  <2>1. m \in Nat /\ n \in Nat /\ m <= n /\ n <= Len(history) /\ \E S : history \in Seq(S)
    BY DEF Parts, LogInv
  <2> QED
    BY <1>0, <2>1
<1>3. \A S, t, i : i \in EventsOf(t, S) <=> i \in S /\ history[i].type = t
  BY DEF EventsOf
<1>4. \A k : k \in Closed(B) <=> k \in Closed(A) \/ k \in Closed(D)
  BY <1>1, <1>3 DEF Closed
<1>5. f \in Asks(B) <=> f \in Asks(A) \/ f \in Asks(D)
  <2> DEFINE Q(i) == /\ history[i].type = "requested"
                     /\ f = Fact("pending_approvals", history[i].approval, {i})
  <2>1. ASSUME NEW S PROVE f \in Asks(S) <=> \E i \in S : Q(i)
    BY DEF Asks, EventsOf
  <2> HIDE DEF Q
  <2> QED
    BY <1>1, <2>1
<1>6. f \in Asks(D) => f.key \notin Closed(A)
  <2> SUFFICES ASSUME f \in Asks(D), f.key \in Closed(A) PROVE FALSE
    OBVIOUS
  <2>1. PICK i \in D : history[i].type = "requested" /\ f.key = history[i].approval
    BY AsksAre
  <2>2. PICK j \in A : history[j].type = "resolved" /\ f.key = history[j].approval
    BY <1>3 DEF Closed
  <2>3. PICK l \in DOMAIN history : /\ l < j /\ history[l].type = "requested"
                                    /\ history[l].approval = history[j].approval
    BY <1>1, <1>2, <2>2 DEF LogInv
  <2>4. i \in Asked /\ l \in Asked /\ history[i].approval = history[l].approval
    BY <1>1, <1>2, <1>3, <2>1, <2>2, <2>3 DEF Asked
  <2>5. i = l
    BY <2>4 DEF OnceAsked
  <2>6. i > m /\ j <= m /\ i \in Nat /\ j \in Nat /\ m \in Nat
    BY <1>0, <2>1, <2>2 DEF After, Parts
  <2> QED
    BY <2>3, <2>5, <2>6
<1>7. f \in Pending(B) <=> f \in Pending(D) \/ (f \in Pending(A) /\ f.key \notin Closed(D))
  BY <1>4, <1>5, <1>6 DEF Pending
<1> QED
  BY <1>0, <1>7
-----------------------------------------------------------------------------
\* What one projection of the events S says, and what it makes of prior facts.
Full(S) == ApprovalFacts(ToolFacts({}, S), S)
Rolls(P, S) == ApprovalFacts(ToolFacts(P, S), S)

LEMMA NewFields ==
    ASSUME NEW S, NEW f \in NewFacts(S)
    PROVE  f.field \in {"failures", "verified", "files"}
<1>1. f \in Failures(S) \/ f \in Checks(S) \/ f \in Files(S)
  BY DEF NewFacts
<1> QED
  BY <1>1, NewFactsAre

\* What the events S make of the facts P.
LEMMA RollsIs ==
    ASSUME NEW P, NEW S, NEW f
    PROVE  f \in Rolls(P, S) <=>
              \/ /\ f \in P /\ ~Overrides(S, f)
                 /\ f.field # "pending_approvals" \/ f.key \notin Closed(S)
              \/ f \in NewFacts(S)
              \/ f \in Pending(S)
<1>1. f \in Rolls(P, S) <=>
         \/ f \in ToolFacts(P, S) /\ (f.field # "pending_approvals" \/ f.key \notin Closed(S))
         \/ f \in Pending(S)
  BY ApprovalFactsIs DEF Rolls
<1>2. f \in ToolFacts(P, S) <=> (f \in P /\ ~Overrides(S, f)) \/ f \in NewFacts(S)
  BY ToolFactsIs
<1>3. f \in NewFacts(S) => f.field # "pending_approvals"
  BY NewFields
<1> QED
  BY <1>1, <1>2, <1>3

LEMMA FullIs ==
    ASSUME NEW S, NEW f
    PROVE  /\ f \in Full(S) <=> f \in NewFacts(S) \/ f \in Pending(S)
           /\ f \in Full(S) => f.field # "decisions"
<1>1. Full(S) = Rolls({}, S)
  BY DEF Full, Rolls
<1>2. f \in Full(S) <=> f \in NewFacts(S) \/ f \in Pending(S)
  BY <1>1, RollsIs
<1>3. f \in NewFacts(S) => f.field # "decisions"
  BY NewFields
<1>4. f \in Pending(S) => f.field # "decisions"
  BY ApprovalFactsIs
<1> QED
  BY <1>2, <1>3, <1>4

\* Facts that are among those of the first events and are advanced by the later ones are
\* among those of all, and what they lack of these they lacked before.
LEMMA StaysExact ==
    ASSUME LogInv, OnceAsked, NEW m, NEW n, Parts(m, n), NEW P, NEW f
    PROVE  /\ (/\ f \in Rolls(P, After(m, n)) /\ f.field # "decisions"
               /\ f \in P => f \in Full(1 .. m)) => f \in Full(1 .. n)
           /\ (f \in Full(1 .. n) /\ f \notin Rolls(P, After(m, n)))
                  => f \in Full(1 .. m) /\ f \notin P
<1>0. PICK A, B, D : A = 1 .. m /\ B = 1 .. n /\ D = After(m, n)
  OBVIOUS
<1>1. f \in NewFacts(B) <=> f \in NewFacts(D) \/ (f \in NewFacts(A) /\ ~Overrides(D, f))
  BY <1>0, ToolFactsJoin
<1>2. f \in Pending(B) <=> f \in Pending(D) \/ (f \in Pending(A) /\ f.key \notin Closed(D))
  BY <1>0, PendingJoin
<1>3. f \in Rolls(P, D) <=>
         \/ /\ f \in P /\ ~Overrides(D, f)
            /\ f.field # "pending_approvals" \/ f.key \notin Closed(D)
         \/ f \in NewFacts(D)
         \/ f \in Pending(D)
  BY RollsIs
<1>4. /\ f \in Full(A) <=> f \in NewFacts(A) \/ f \in Pending(A)
      /\ f \in Full(B) <=> f \in NewFacts(B) \/ f \in Pending(B)
  BY FullIs
<1>5. f \in NewFacts(A) => f.field # "pending_approvals"
  BY NewFields
<1>6. f \in Pending(A) => f.field = "pending_approvals" /\ ~Overrides(D, f)
  BY ApprovalFactsIs, OverridesIs
<1>7. /\ (f \in Rolls(P, D) /\ f.field # "decisions" /\ (f \in P => f \in Full(A))) => f \in Full(B)
      /\ (f \in Full(B) /\ f \notin Rolls(P, D)) => f \in Full(A) /\ f \notin P
  BY <1>1, <1>2, <1>3, <1>4, <1>5, <1>6
<1> QED
  BY <1>0, <1>7
-----------------------------------------------------------------------------
\* What the first events say does not change as the log grows.
LEMMA FullStays ==
    ASSUME NEW m \in Nat, \A i \in 1 .. m : history'[i] = history[i]
    PROVE  Full(1 .. m)' = Full(1 .. m)
<1>0. PICK S : S = 1 .. m
  OBVIOUS
<1>1. ASSUME NEW t PROVE EventsOf(t, S)' = EventsOf(t, S)
  BY <1>0 DEF EventsOf
<1>2. \A i \in S : history'[i] = history[i]
  BY <1>0
<1>3. ASSUME NEW c
      PROVE  /\ CompletionOf(c, S)' = CompletionOf(c, S)
             /\ ResultOf(c, S)' = ResultOf(c, S)
             /\ CallOf(c, S)' = CallOf(c, S)
  BY <1>2 DEF CompletionOf, ResultOf, CallOf, EventsOf
<1>4. \A c : \A i \in CompletionOf(c, S) \cup ResultOf(c, S) : i \in S
  BY DEF CompletionOf, ResultOf, EventsOf
<1>5. ASSUME NEW c
      PROVE  /\ Ended(c, S)' <=> Ended(c, S)
             /\ Failed(c, S)' <=> Failed(c, S)
             /\ Evidence(c, S)' = Evidence(c, S)
             /\ (\E i \in CompletionOf(c, S) : history[i].verified)'
                  <=> (\E i \in CompletionOf(c, S) : history[i].verified)
  <2>1. /\ CompletionOf(c, S)' = CompletionOf(c, S)
        /\ ResultOf(c, S)' = ResultOf(c, S)
        /\ CallOf(c, S)' = CallOf(c, S)
    BY <1>3
  <2>2. Ended(c, S)' <=> Ended(c, S)
    BY <2>1 DEF Ended
  <2>3. Failed(c, S)' <=> Failed(c, S)
    BY <1>2, <1>4, <2>1 DEF Failed
  <2>4. Evidence(c, S)' = Evidence(c, S)
    BY <2>1 DEF Evidence
  <2>5. (\E i \in CompletionOf(c, S) : history[i].verified)'
            <=> (\E i \in CompletionOf(c, S) : history[i].verified)
    BY <1>2, <1>4, <2>1
  <2> QED
    BY <2>2, <2>3, <2>4, <2>5
<1>6. Good(S)' = Good(S) /\ \A c \in Good(S) : c \in Calls
  BY <1>5 DEF Good
<1>7. Failures(S)' = Failures(S)
  BY <1>5 DEF Failures
<1>8. Checks(S)' = Checks(S)
  BY <1>5, <1>6 DEF Checks
<1>9. ASSUME NEW p PROVE Writes(p, S)' = Writes(p, S)
  BY <1>2, <1>6 DEF Writes, EventsOf
<1>10. ASSUME NEW p, Writes(p, S) # {} PROVE LastWrite(p, S)' = LastWrite(p, S)
  <2>1. Writes(p, S) \subseteq 1 .. m
    BY <1>0 DEF Writes, EventsOf
  <2>2. PICK x : x = Max(Writes(p, S))
    OBVIOUS
  <2>3. x \in S
    BY <1>0, <1>10, <2>1, <2>2, LastOf
  <2>4. Max(Writes(p, S)') = x /\ history'[x] = history[x]
    BY <1>2, <1>9, <2>2, <2>3
  <2>5. Evidence(history[x].call, S)' = Evidence(history[x].call, S)
    <3>1. PICK c : c = history[x].call
      OBVIOUS
    <3>2. Evidence(c, S)' = Evidence(c, S)
      BY <1>5
    <3> QED
      BY <2>4, <3>1, <3>2 DEF Evidence, CompletionOf, ResultOf, CallOf, EventsOf
  <2> QED
    BY <2>2, <2>4, <2>5 DEF LastWrite, Fact
<1>11. Files(S)' = Files(S)
  BY <1>9, <1>10 DEF Files
<1>12. NewFacts(S)' = NewFacts(S)
  BY <1>7, <1>8, <1>11 DEF NewFacts
<1>13. Pending(S)' = Pending(S)
  <2>1. Closed(S)' = Closed(S)
    BY <1>2 DEF Closed, EventsOf
  <2>2. Asks(S)' = Asks(S)
    BY <1>2 DEF Asks, EventsOf, Fact
  <2> QED
    BY <2>1, <2>2 DEF Pending
<1>14. ToolFacts({}, S) = NewFacts(S) /\ ToolFacts({}, S)' = NewFacts(S)'
  BY DEF ToolFacts, NewFacts, Files, LastWrite, Writes, Checks, Failures, Good
<1>15. Full(S)' = Full(S)
  <2>1. Full(S) = {f \in NewFacts(S) \cup Asks(S) : f.field # "pending_approvals" \/ f.key \notin Closed(S)}
    BY <1>14 DEF Full, ApprovalFacts, Asks, Closed
  <2>2. Full(S)' = ({f \in NewFacts(S) \cup Asks(S) : f.field # "pending_approvals" \/ f.key \notin Closed(S)})'
    BY <1>14 DEF Full, ApprovalFacts, Asks, Closed
  <2>3. Closed(S)' = Closed(S)
    BY <1>2 DEF Closed, EventsOf
  <2>4. Asks(S)' = Asks(S)
    BY <1>2 DEF Asks, EventsOf, Fact
  <2> QED
    BY <1>12, <2>1, <2>2, <2>3, <2>4
<1> QED
  BY <1>0, <1>15
-----------------------------------------------------------------------------
(* The rolling state.                                                      *)

Rolling(state) == {f \in state.facts : f.field # "decisions"}
Users(n) == EventsOf("user", 1 .. n)

\* The state in force says of the events that it covers what one projection of them says,
\* but for what its bound has dropped.
StateInv ==
    /\ Compactions # {} => Latest.cursor # 0
    /\ Rolling(Latest) \subseteq Full(1 .. Latest.cursor)
    /\ Full(1 .. Latest.cursor) \ Rolling(Latest) \subseteq evicted
    /\ Latest.cursor # 0 => Latest.objective \in {ModelWords, Max(Users(Latest.cursor))}

\* The requests among the messages are those of the log from position a on.
LEMMA UsersShown ==
    ASSUME NEW a, NEW r, Lists(r, history, a, Len(history)), NEW i
    PROVE  i \in UserTexts(r) <=> i \in a .. Len(history) /\ history[i].type = "user"
<1>1. i \in UserTexts(r) <=> \E k \in DOMAIN r : r[k].kind = "user" /\ r[k].id = i
  <2>1. UserTexts(r) = {m.id : m \in {x \in ToSet(r) : x.kind = "user"}}
    BY DEF UserTexts
  <2>2. ToSet(r) = {r[k] : k \in DOMAIN r}
    BY DEF ToSet
  <2> QED
    BY <2>1, <2>2
<1>2. \A k \in DOMAIN r : /\ r[k].id \in a .. Len(history)
                          /\ r[k].kind = history[r[k].id].type
  BY DEF Lists, Message
<1>3. i \in a .. Len(history) /\ history[i].type = "user" => \E k \in DOMAIN r : r[k].id = i
  BY DEF Lists, MessageTypes
<1> QED
  BY <1>1, <1>2, <1>3

\* The last request of the first n events, if there is one from position a on, and if not.
LEMMA LastUser ==
    ASSUME NEW n \in Nat, NEW m \in Nat, m <= n, NEW a \in Nat \ {0}, a - 1 <= m, NEW X,
           \A i : i \in X <=> i \in a .. n /\ history[i].type = "user"
    PROVE  /\ X # {} => Max(X) = Max(Users(n))
           /\ X = {} => Users(n) = Users(m)
<1>1. \A k, i : i \in Users(k) <=> i \in 1 .. k /\ history[i].type = "user"
  BY DEF Users, EventsOf
<1>2. CASE X = {}
  <2>1. \A i : i \in Users(n) <=> i \in Users(m)
    <3>1. \A i \in 1 .. n : i \in a .. n \/ i \in 1 .. m
      OBVIOUS
    <3>2. \A i \in 1 .. m : i \in 1 .. n
      OBVIOUS
    <3> QED
      BY <1>1, <1>2, <3>1, <3>2
  <2> QED
    BY <1>2, <2>1
<1>3. CASE X # {}
  <2>1. PICK Y : \A i : i \in Y <=> i \in 1 .. a - 1 /\ history[i].type = "user"
    <3>1. \A i : i \in {j \in 1 .. a - 1 : history[j].type = "user"}
                   <=> i \in 1 .. a - 1 /\ history[i].type = "user"
      OBVIOUS
    <3> QED
      BY <3>1
  <2>2. Joins(Users(n), Y, X, IF a - 1 <= n THEN a - 1 ELSE n, n)
    <3>1. a - 1 \in Nat /\ a - 1 <= n /\ n \in Nat
      OBVIOUS
    <3>2. \A i \in 1 .. n : i \in a .. n \/ i \in 1 .. a - 1
      OBVIOUS
    <3>3. /\ \A i \in Y : i \in 1 .. a - 1 /\ i \in 1 .. n
          /\ \A i \in X : i \in 1 .. n /\ i > a - 1
      BY <2>1
    <3> QED
      BY <1>1, <2>1, <3>1, <3>2, <3>3 DEF Joins
  <2>3. Max(X) = Max(Users(n))
    BY <1>3, <2>2, LastOfJoin
  <2> QED
    BY <1>3, <2>3
<1> QED
  BY <1>2, <1>3

\* The bound of a state only drops facts.
LEMMA BoundDrops ==
    ASSUME NEW g, NEW notes, NEW state, state = Bound(Unbounded(g, notes))
    PROVE  /\ state.facts \subseteq Unbounded(g, notes).facts
           /\ state.objective = Unbounded(g, notes).objective
<1>1. PICK u, F, A, o, c : /\ u = Unbounded(g, notes)
                           /\ u = [facts |-> F, artifacts |-> A, objective |-> o, cursor |-> c]
  BY DEF Unbounded, ProjectState
<1>2. Bound(u).facts \subseteq u.facts /\ Bound(u).objective = u.objective
  BY <1>1 DEF Bound
<1> QED
  BY <1>1, <1>2

\* What a compaction advances the state to, before its bound.
LEMMA UnboundedIs ==
    ASSUME NEW g, NEW notes
    PROVE  /\ \A f : f.field # "decisions" =>
                 (f \in Unbounded(g, notes).facts <=> f \in Rolls(inflight.prior.facts, inflight.delta))
           /\ Unbounded(g, notes).objective = Objective(inflight.raw, inflight.prior.objective, notes)
<1>1. PICK o : o = Omitted(inflight.raw, g)
  OBVIOUS
<1>2. \A f \in Enrichment(notes, o, inflight.delta) : f.field = "decisions"
  BY FactIs DEF Enrichment
<1>3. /\ Unbounded(g, notes).facts = Rolls(inflight.prior.facts, inflight.delta)
                                     \cup Enrichment(notes, o, inflight.delta)
      /\ Unbounded(g, notes).objective = Objective(inflight.raw, inflight.prior.objective, notes)
  BY <1>1 DEF Unbounded, ProjectState, Rolls
<1> QED
  BY <1>2, <1>3
-----------------------------------------------------------------------------
LEMMA StateStarts == ContextInit => StateInv
<1> SUFFICES ASSUME ContextInit PROVE StateInv
  OBVIOUS
<1>1. DOMAIN history = {}
  BY DEF ContextInit
<1>2. Compactions = {}
  BY <1>1 DEF Compactions, EventsOf
<1>3. Latest.facts = {} /\ Latest.cursor = 0
  BY <1>2 DEF Latest, Previous, NoState
<1>4. PICK S : S = 1 .. Latest.cursor
  OBVIOUS
<1>5. \A i : i \notin S
  BY <1>3, <1>4
<1>6. Good(S) = {} /\ \A p : Writes(p, S) = {}
  BY <1>5 DEF Good, Ended, CompletionOf, ResultOf, Writes, EventsOf
<1>7. NewFacts(S) = {}
  <2>1. Failures(S) = {}
    BY <1>5 DEF Failures, Ended, CompletionOf, ResultOf, EventsOf
  <2>2. Checks(S) = {} /\ Files(S) = {}
    BY <1>6 DEF Checks, Files
  <2> QED
    BY <2>1, <2>2 DEF NewFacts
<1>8. Pending(S) = {}
  BY <1>5 DEF Pending, Asks, EventsOf
<1>9. \A f : f \notin Full(S)
  BY <1>7, <1>8, FullIs
<1> QED
  BY <1>2, <1>3, <1>4, <1>9 DEF StateInv, Rolling

\* The state stays true while the log grows.
LEMMA StateStays ==
    ASSUME StateInv, CursorFits, LogInv, evicted' = evicted, Compactions' = Compactions,
           Latest' = Latest, \A i \in DOMAIN history : history'[i] = history[i]
    PROVE  StateInv'
<1>1. PICK m : m = Latest.cursor
  OBVIOUS
<1>2. m \in Nat /\ \A i \in 1 .. m : history'[i] = history[i]
  <2>1. m \in Nat /\ m <= Len(history) /\ Len(history) \in Nat /\ DOMAIN history = 1 .. Len(history)
    BY <1>1 DEF CursorFits, LogInv
  <2> QED
    BY <2>1
<1>3. Full(1 .. m)' = Full(1 .. m)
  BY <1>2, FullStays
<1>4. Users(m)' = Users(m)
  BY <1>2 DEF Users, EventsOf
<1>5. /\ Rolling(Latest)' = Rolling(Latest)
      /\ Latest'.cursor = m
  BY <1>1 DEF Rolling
<1>6. /\ Compactions # {} => m # 0
      /\ Rolling(Latest) \subseteq Full(1 .. m)
      /\ Full(1 .. m) \ Rolling(Latest) \subseteq evicted
      /\ m # 0 => Latest.objective \in {ModelWords, Max(Users(m))}
  BY <1>1 DEF StateInv
<1>7. Full(1 .. Latest.cursor)' = Full(1 .. m)' /\ Users(Latest.cursor)' = Users(m)'
  BY <1>5
<1>8. Latest'.cursor # 0 => Latest'.objective \in {ModelWords, Max(Users(Latest.cursor)')}
  BY <1>4, <1>5, <1>6, <1>7
<1> QED
  BY <1>3, <1>5, <1>6, <1>7, <1>8 DEF StateInv
-----------------------------------------------------------------------------
\* The log is left alone, or grows by events that are no compaction.
Quiet ==
    \/ history' = history
    \/ \E T : \E es \in Seq(T) : Emit(es) /\ \A k \in DOMAIN es : es[k].type # "compaction"

LEMMA QuietOne == ASSUME NEW e, e.type # "compaction", Emit(<<e>>) PROVE Quiet
<1>1. PICK es : es = <<e>>
  OBVIOUS
<1>2. es \in Seq({e}) /\ \A k \in DOMAIN es : es[k] = e
  BY <1>1
<1> QED
  BY <1>1, <1>2 DEF Quiet

LEMMA QuietState ==
    ASSUME ContextInv, ViewInv, StateInv, Quiet, evicted' = evicted
    PROVE  StateInv'
<1>0. LogInv /\ CursorFits
  BY DEF ViewInv
<1>1. CASE history' = history
  <2>1. Compactions' = Compactions
    BY <1>1 DEF Compactions, EventsOf
  <2>2. Latest' = Latest
    BY <1>1, <2>1 DEF Latest, Previous
  <2> QED
    BY <1>0, <1>1, <2>1, <2>2, StateStays
<1>2. CASE \E T : \E es \in Seq(T) : Emit(es) /\ \A k \in DOMAIN es : es[k].type # "compaction"
  <2>1. PICK T : \E es \in Seq(T) : Emit(es) /\ \A k \in DOMAIN es : es[k].type # "compaction"
    BY <1>2
  <2>2. PICK es \in Seq(T) : Emit(es) /\ \A k \in DOMAIN es : es[k].type # "compaction"
    BY <2>1
  <2>3. PICK S : history \in Seq(S)
    BY <1>0 DEF LogInv
  <2>4. Compactions' = Compactions /\ Latest' = Latest
    BY <2>2, <2>3, LatestStays
  <2>5. \A i \in DOMAIN history : history'[i] = history[i]
    BY <2>2, <2>3, Grown
  <2> QED
    BY <1>0, <2>4, <2>5, StateStays
<1> QED
  BY <1>1, <1>2 DEF Quiet

LEMMA QuietStart == ASSUME StartRun PROVE Quiet
<1> DEFINE e == [type |-> "user"]
           c == [type |-> "result", calls |-> Open, error |-> TRUE]
<1>1. Emit(<<e>> \o IF Open = {} THEN <<>> ELSE <<c>>)
  BY DEF StartRun
<1>2. e.type # "compaction" /\ c.type # "compaction"
  OBVIOUS
<1> HIDE DEF e, c
<1>3. CASE Open = {}
  <2>1. Emit(<<e>>)
    <3>1. <<e>> \o <<>> = <<e>>
      OBVIOUS
    <3> QED
      BY <1>1, <1>3, <3>1
  <2> QED
    BY <1>2, <2>1, QuietOne
<1>4. CASE Open # {}
  <2>1. PICK es : es = <<e>> \o <<c>>
    OBVIOUS
  <2>2. Emit(es)
    BY <1>1, <1>4, <2>1
  <2>3. es \in Seq({e, c}) /\ \A k \in DOMAIN es : es[k] \in {e, c}
    BY <2>1
  <2>4. \A k \in DOMAIN es : es[k].type # "compaction"
    BY <1>2, <2>3
  <2> QED
    BY <2>2, <2>3, <2>4 DEF Quiet
<1> QED
  BY <1>3, <1>4

LEMMA QuietRequest == ASSUME ContextInv, Request PROVE Quiet
<1>1. PICK new : new = Materialized(View) \ known
  OBVIOUS
<1>2. IsFiniteSet(new)
  BY <1>1, MaterializedIsFinite, FS_Subset
<1>3. Emit(Created(new))
  BY <1>1 DEF Request
<1>4. \E T : Created(new) \in Seq(T) /\ \A k \in DOMAIN Created(new) : Created(new)[k].type = "created"
  BY <1>2, CreatedIs
<1>5. PICK es : es = Created(new)
  OBVIOUS
<1>6. Emit(es) /\ \E T : es \in Seq(T) /\ \A k \in DOMAIN es : es[k].type # "compaction"
  BY <1>3, <1>4, <1>5
<1> QED
  BY <1>6 DEF Quiet

\* The steps of calls and of approvals append one event that is no compaction.
LEMMA QuietCall ==
    ASSUME NEW c, Complete(c) \/ Commit(c) \/ Delete(c)
    PROVE  Quiet /\ evicted' = evicted
<1>1. CASE Complete(c)
  <2>1. PICK o : Emit(<<[type |-> "completed", call |-> c, error |-> o.error, path |-> o.path,
                         verified |-> o.verified]>>)
    BY <1>1 DEF Complete
  <2> QED
    BY <1>1, <2>1, QuietOne DEF Complete
<1>2. CASE Commit(c)
  <2>1. PICK e : e = [type |-> "result", calls |-> {c},
                      error |-> \A i \in CompletionOf(c, DOMAIN history) : history[i].error]
    OBVIOUS
  <2>2. e.type # "compaction" /\ Emit(<<e>>)
    BY <1>2, <2>1 DEF Commit
  <2> QED
    BY <1>2, <2>2, QuietOne DEF Commit
<1>3. CASE Delete(c)
  BY <1>3, QuietOne DEF Delete
<1> QED
  BY <1>1, <1>2, <1>3

LEMMA QuietApproval ==
    ASSUME NEW a, Ask(a) \/ Resolve(a)
    PROVE  Quiet /\ evicted' = evicted
<1>1. CASE Ask(a)
  BY <1>1, QuietOne DEF Ask
<1>2. CASE Resolve(a)
  BY <1>2, QuietOne DEF Resolve
<1> QED
  BY <1>1, <1>2

LEMMA QuietAnswer == ASSUME NEW n, Answer(n) PROVE Quiet
<1>1. PICK e : /\ e.type # "compaction"
               /\ Emit(<<e>>)
  BY DEF Answer
<1> QED
  BY <1>1, QuietOne
-----------------------------------------------------------------------------
\* The objective of a compaction is the last request it has read, or words of the model.
LEMMA ObjectiveIs ==
    ASSUME ContextInv, ViewInv, StateInv, InFlight, NEW m \in Nat, m = Latest.cursor,
           NEW n \in DOMAIN history, m < n,
           \A i \in DOMAIN history : i > n => history[i].type \in Outside,
           NEW notes
    PROVE  Objective(inflight.raw, Latest.objective, notes) \in {ModelWords, Max(Users(n))}
<1> PICK S : history \in Seq(S)
  BY DEF ViewInv, LogInv
<1>1. n \in Nat \ {0} /\ n <= Len(history) /\ Len(history) \in Nat /\ DOMAIN history = 1 .. Len(history)
  OBVIOUS
<1>2. PICK r : r = inflight.raw
  OBVIOUS
<1>3. PICK a : Shown(r, a)
  BY <1>2 DEF InFlight
<1>4. a \in Nat \ {0} /\ Lists(r, history, a, Len(history)) /\ a - 1 <= m
  BY <1>3 DEF Shown, Shows
<1>5. PICK X : X = UserTexts(r)
  OBVIOUS
<1>6. ASSUME NEW i PROVE i \in X <=> i \in a .. n /\ history[i].type = "user"
  <2>1. i \in X <=> i \in a .. Len(history) /\ history[i].type = "user"
    BY <1>4, <1>5, UsersShown
  <2>2. i \in a .. Len(history) /\ history[i].type = "user" => i \in a .. n
    BY <1>1, <1>4 DEF Outside
  <2>3. i \in a .. n => i \in a .. Len(history)
    BY <1>1, <1>4
  <2> QED
    BY <2>1, <2>2, <2>3
<1>7. /\ X # {} => Max(X) = Max(Users(n))
      /\ X = {} => Users(n) = Users(m)
  <2>1. m <= n /\ n \in Nat
    BY <1>1
  <2> QED
    BY <1>4, <1>6, <2>1, LastUser
<1>8. CASE X # {}
  BY <1>2, <1>5, <1>7, <1>8 DEF Objective
<1>9. CASE X = {} /\ notes # {}
  BY <1>2, <1>5, <1>9 DEF Objective
<1>10. CASE X = {} /\ notes = {}
  <2>1. Objective(inflight.raw, Latest.objective, notes) = Latest.objective
    BY <1>2, <1>5, <1>10 DEF Objective
  <2>2. m # 0
    <3>1. SUFFICES ASSUME m = 0 PROVE FALSE
      OBVIOUS
    <3>2. a = 1
      BY <1>4, <3>1
    <3>3. history # <<>>
      BY <1>1
    <3>4. history[1].type = "user"
      BY <3>3 DEF ViewInv, LogInv
    <3>5. 1 \in a .. n
      BY <1>1, <3>2
    <3>6. 1 \in X
      BY <1>6, <3>4, <3>5
    <3> QED
      BY <1>10, <3>6
  <2>3. Latest.objective \in {ModelWords, Max(Users(m))}
    BY <2>2 DEF StateInv
  <2>4. Users(n) = Users(m)
    BY <1>7, <1>10
  <2> QED
    BY <2>1, <2>3, <2>4
<1> QED
  BY <1>8, <1>9, <1>10

\* A compaction rolls the state forward by the events it has read, and bounds it.
LEMMA FinishState ==
    ASSUME ContextInv, ViewInv, StateInv, FinishCompact
    PROVE  StateInv'
<1>0. LogInv /\ CursorFits /\ OnceAsked
  BY DEF ViewInv, ContextInv
<1> PICK S : history \in Seq(S)
  BY <1>0 DEF LogInv
<1>1. /\ InFlight
      /\ \E es, c, notes, g : /\ g \in 1 .. Cardinality(GroupStarts(inflight.raw)) - 1
                              /\ Compacts(es, c, g, notes)
  BY FinishIs
<1>2. PICK es, c, notes, g : Compacts(es, c, g, notes)
  BY <1>1
<1>3. PICK m : m = Latest.cursor
  OBVIOUS
<1>4. PICK n \in DOMAIN history :
          /\ inflight.delta = After(m, n)
          /\ m < n
          /\ Settled(n)
          /\ \A i \in DOMAIN history : i > n => history[i].type \in Outside
  BY <1>1, <1>3 DEF InFlight
<1>5. /\ n \in Nat \ {0} /\ n <= Len(history) /\ Len(history) \in Nat /\ DOMAIN history = 1 .. Len(history)
      /\ history # <<>> /\ m \in Nat /\ Settled(m) /\ m <= n
  BY <1>0, <1>3, <1>4 DEF CursorFits
<1>6. Parts(m, n)
  BY <1>5 DEF Parts
<1>7. PICK u : u = Unbounded(g, notes)
  OBVIOUS
<1>8. PICK P : P = Latest.facts
  OBVIOUS
<1>9. /\ c.state.facts \subseteq u.facts
      /\ c.state.objective = u.objective
      /\ c.state.cursor = n
      /\ evicted' = evicted \cup (u.facts \ c.state.facts)
  <2>1. c.state = Bound(Unbounded(g, notes))
    BY <1>2 DEF Compacts
  <2>2. c.state.cursor = n
    BY <1>4, <1>5, <2>1, NewCursor
  <2>3. evicted' = evicted \cup (u.facts \ c.state.facts)
    BY <1>2, <1>7 DEF Compacts
  <2> QED
    BY <1>7, <2>1, <2>2, <2>3, BoundDrops
<1>10. /\ \A f : f.field # "decisions" => (f \in u.facts <=> f \in Rolls(P, After(m, n)))
       /\ u.objective \in {ModelWords, Max(Users(n))}
  <2>1. inflight.prior = Latest
    BY <1>1 DEF InFlight
  <2>2. /\ \A f : f.field # "decisions" =>
             (f \in u.facts <=> f \in Rolls(inflight.prior.facts, inflight.delta))
        /\ u.objective = Objective(inflight.raw, inflight.prior.objective, notes)
    BY <1>7, UnboundedIs
  <2>3. Objective(inflight.raw, Latest.objective, notes) \in {ModelWords, Max(Users(n))}
    BY <1>1, <1>3, <1>4, <1>5, ObjectiveIs
  <2> QED
    BY <1>4, <1>8, <2>1, <2>2, <2>3
<1>11. \A f : f \in Rolling(Latest) <=> f \in P /\ f.field # "decisions"
  BY <1>8 DEF Rolling
<1>12. \A f : f \in Rolling(c.state) <=> f \in c.state.facts /\ f.field # "decisions"
  BY DEF Rolling
<1>13. Rolling(Latest) \subseteq Full(1 .. m) /\ Full(1 .. m) \ Rolling(Latest) \subseteq evicted
  BY <1>3 DEF StateInv
<1>14. ASSUME NEW f \in Rolling(c.state) PROVE f \in Full(1 .. n)
  <2>1. f \in Rolls(P, After(m, n)) /\ f.field # "decisions"
    BY <1>9, <1>10, <1>12, <1>14
  <2>2. f \in P => f \in Full(1 .. m)
    BY <1>11, <1>13, <2>1
  <2> QED
    BY <1>0, <1>6, <2>1, <2>2, StaysExact
<1>15. ASSUME NEW f \in Full(1 .. n), f \notin Rolling(c.state) PROVE f \in evicted'
  <2>1. f.field # "decisions"
    BY <1>15, FullIs
  <2>2. f \notin c.state.facts
    BY <1>12, <1>15, <2>1
  <2>3. CASE f \in u.facts
    BY <1>9, <2>2, <2>3
  <2>4. CASE f \notin u.facts
    <3>1. f \notin Rolls(P, After(m, n))
      BY <1>10, <2>1, <2>4
    <3>2. f \in Full(1 .. m) /\ f \notin P
      BY <1>0, <1>6, <1>15, <3>1, StaysExact
    <3> QED
      BY <1>9, <1>11, <1>13, <3>2
  <2> QED
    BY <2>3, <2>4
<1>16. /\ Latest' = c.state
       /\ \A i \in 1 .. n : history'[i] = history[i]
  <2>1. Record(es, inflight.artifacts \ known, c) /\ Emit(es)
    BY <1>2 DEF Compacts
  <2>2. PICK N : N = Len(history')
    OBVIOUS
  <2>3. /\ history'[N] = c
        /\ \A i \in DOMAIN history : history'[i] = history[i]
        /\ Compactions' = Compactions \cup {N} /\ Max(Compactions') = N
    BY <1>0, <1>5, <2>1, <2>2, RecordAppended
  <2>4. Compactions' # {} /\ history'[Max(Compactions')] = c
    BY <2>3
  <2>5. Latest' = c.state
    BY <2>4 DEF Latest, Previous
  <2> QED
    BY <1>5, <2>3, <2>5
<1>17. Full(1 .. n)' = Full(1 .. n) /\ Users(n)' = Users(n)
  <2>1. Full(1 .. n)' = Full(1 .. n)
    BY <1>5, <1>16, FullStays
  <2>2. Users(n)' = Users(n)
    BY <1>16 DEF Users, EventsOf
  <2> QED
    BY <2>1, <2>2
<1>18. /\ Latest'.cursor = n
       /\ Rolling(Latest)' = Rolling(c.state)
  BY <1>9, <1>16 DEF Rolling
<1>19. Full(1 .. Latest.cursor)' = Full(1 .. n) /\ Users(Latest.cursor)' = Users(n)
  BY <1>17, <1>18
<1>20. Latest'.objective \in {ModelWords, Max(Users(Latest.cursor)')}
  BY <1>9, <1>10, <1>16, <1>19
<1>21. Latest'.cursor # 0
  BY <1>5, <1>18
<1> QED
  BY <1>14, <1>15, <1>18, <1>19, <1>20, <1>21 DEF StateInv
-----------------------------------------------------------------------------
\* Every step keeps the invariant of the state.
LEMMA StateKeeps ==
    ASSUME ContextInv, ViewInv, StateInv, [ContextNext]_contextVars
    PROVE  StateInv'
<1>1. CASE Quiet /\ evicted' = evicted
  BY <1>1, QuietState
<1>2. CASE UNCHANGED contextVars
  BY <1>1, <1>2 DEF contextVars, Quiet
<1>3. CASE StartRun
  BY <1>1, <1>3, QuietStart DEF StartRun
<1>4. CASE ResumeRun
  BY <1>1, <1>4 DEF ResumeRun, Quiet
<1>5. CASE \E n \in 0 .. 2 : Answer(n)
  BY <1>1, <1>5, QuietAnswer DEF Answer
<1>6. CASE \E k \in Calls : Complete(k) \/ Commit(k) \/ Delete(k)
  BY <1>1, <1>6, QuietCall
<1>7. CASE \E a \in Approvals : Ask(a) \/ Resolve(a)
  BY <1>1, <1>7, QuietApproval
<1>8. CASE Request
  BY <1>1, <1>8, QuietRequest DEF Request
<1>9. CASE BeginCompact
  BY <1>1, <1>9 DEF BeginCompact, Quiet
<1>10. CASE FinishCompact
  BY <1>10, FinishState
<1>11. CASE LoseCompact
  BY <1>1, <1>11 DEF LoseCompact, Quiet
<1> QED
  BY <1>2, <1>3, <1>4, <1>5, <1>6, <1>7, <1>8, <1>9, <1>10, <1>11 DEF ContextNext

\* A state that was advanced over several compactions says what one projection of all the
\* events it covers says, but for the facts that its bound has dropped; its objective is
\* the latest request among them, or in the words of the summary model
\* (project_context_state with previous and the events after its cursor).
THEOREM RollingStateIsExactCorrect == ContextSpec => []RollingStateIsExact
<1>1. ContextInit => ContextInv /\ ViewInv /\ StateInv
  BY ContextStarts, ViewStarts, StateStarts
<1>2. ContextInv /\ ViewInv /\ StateInv /\ [ContextNext]_contextVars
        => ContextInv' /\ ViewInv' /\ StateInv'
  BY ContextSteps, ViewKeeps, StateKeeps
<1>3. ViewInv /\ StateInv => RollingStateIsExact
  <2> SUFFICES ASSUME ViewInv, StateInv, Compactions # {}
               PROVE  LET rolling == {f \in State.facts : f.field # "decisions"}
                          full == ApprovalFacts(ToolFacts({}, Covered), Covered)
                      IN  /\ rolling \subseteq full
                          /\ full \ rolling \subseteq evicted
                          /\ State.objective \in {ModelWords, Max(EventsOf("user", Covered))}
    BY DEF RollingStateIsExact
  <2>1. State = Latest
    BY DEF State, Latest, Previous
  <2>2. Covered = 1 .. Latest.cursor
    <3>1. /\ Latest.cursor \in Nat /\ Latest.cursor <= Len(history)
          /\ Len(history) \in Nat /\ DOMAIN history = 1 .. Len(history)
      BY DEF ViewInv, CursorFits, LogInv
    <3> QED
      BY <2>1, <3>1 DEF Covered
  <2>3. Latest.cursor # 0
    BY DEF StateInv
  <2> QED
    BY <2>1, <2>2, <2>3 DEF StateInv, Rolling, Full, Users
<1> QED
  BY <1>1, <1>2, <1>3, PTL DEF ContextSpec
=============================================================================
