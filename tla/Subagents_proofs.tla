--------------------------- MODULE Subagents_proofs ---------------------------
(***************************************************************************)
(* Proofs about Subagents for any tools, delegated authority, limits and   *)
(* number of runs: a child stays within its budget and within what was     *)
(* delegated to it, and the runs of a tree are nested in task calls.       *)
(***************************************************************************)
EXTENDS Subagents, FiniteSetTheorems, NaturalsInduction, WellFoundedInduction,
        SequenceTheorems, TLAPS

ToolCalls == [tool : Tools, stage : {"due", "started", "body", "done"}]

RunStates ==
    [state : {"none", "running", "completed", "failed", "suspended", "interrupted", "cancelled"},
     parent : Runs, caps : SUBSET Capabilities, access : AccessModes, tools : SUBSET Tools,
     calls : Seq(ToolCalls), turns : Nat, cancel : BOOLEAN, limit : Nat, started : Nat,
     ran : Nat, overspent : BOOLEAN, approved : SUBSET Tools, denied : BOOLEAN, kids : Nat,
     node : {"none", "running", "waiting", "completed", "failed"}]

RunsType == mode \in RunModes /\ run \in [Runs -> RunStates]

\* A call is begun when those before it are done, unless all of them are parallel.
InOrder(calls) ==
    \A i, j \in DOMAIN calls :
        i < j /\ calls[j].stage # "due" =>
            \/ calls[i].stage = "done"
            \/ calls[i].stage # "due" /\ IsParallel(calls[i].tool) /\ IsParallel(calls[j].tool)

InFlight(s) == {i \in DOMAIN s.calls : s.calls[i].stage \in {"started", "body"}}
Announced(s) == {i \in DOMAIN s.calls : s.calls[i].stage = "started"}

\* What the policy allowed of a call when it was announced still holds.
Permitted(s) ==
    \A i \in InFlight(s) :
        LET t == s.calls[i].tool IN
        /\ Needs(t) \subseteq s.caps
        /\ Privileged(t) => mode = "execute" /\ s.access # "read_only"
        /\ AsksHuman(t) => s.access = "full_access" \/ t \in s.approved

\* Only a run under way has calls under way, and a suspended one waits for a call.
CallsFit(s) ==
    /\ InOrder(s.calls) /\ Permitted(s)
    /\ s.state # "running" => InFlight(s) = {}
    /\ s.state = "suspended" => s.calls # <<>>
    /\ \A t \in s.tools : Needs(t) \subseteq s.caps

\* The calls announced and not yet begun still fit in the budget of a child, unless
\* its cancel event is set; of a child that has ended nothing is left.
ChildFits(s) ==
    /\ s.ran <= s.limit
    /\ s.ran + Cardinality(Announced(s)) <= s.started
    /\ ~s.cancel => s.started <= s.limit /\ ~s.overspent
    /\ s.caps \subseteq Authority
    /\ s.node = "running" <=> s.state = "running"
    /\ s.node = "completed" <=> s.state = "completed"
    /\ s.state # "running" => s.access = "read_only"

TaskBody == [tool |-> "task", stage |-> "body"]
InTask(s) == \E i \in DOMAIN s.calls : s.calls[i] = TaskBody

\* A running child, its parent, and its siblings.
Nested ==
    \A c \in Started \ {Top} : Running(c) =>
        LET p == run[c].parent IN
        /\ Running(p) /\ InTask(run[p])
        /\ Rank(run[c].access) <= Rank(run[p].access)
        /\ \A d \in Started \ {Top} : Running(d) /\ run[d].parent = p => d = c

\* Runs are numbered as they start.
Numbered ==
    /\ \E n \in Runs : Started = 0 .. n
    /\ \A c \in Started \ {Top} : run[c].parent \in Started /\ run[c].parent < c

Fits ==
    /\ \A r \in Runs : CallsFit(run[r])
    /\ \A r \in Runs \ {Top} : ChildFits(run[r])

SubagentsInv == RunsType /\ Numbered /\ Fits /\ Nested
-----------------------------------------------------------------------------
(* Values.                                                                 *)

USE SubagentsAssumption DEF Top, Runs

\* The ranks of the access modes.
LEMMA RankIs ==
    /\ Rank("read_only") = 0
    /\ \A a \in AccessModes : Rank(a) \in 0 .. 2
BY DEF Rank, AccessModes

\* A narrowed access mode is never above the one it narrows.
LEMMA NarrowIs ==
    ASSUME NEW own \in AccessModes, NEW caps
    PROVE  NarrowAccess(own, caps) \in AccessModes /\ Rank(NarrowAccess(own, caps)) <= Rank(own)
<1>1. AccessFor(caps) \in AccessModes
  BY DEF AccessFor, AccessModes
<1>2. "read_only" \in AccessModes
  BY DEF AccessModes
<1> QED
  BY <1>1, <1>2, RankIs DEF NarrowAccess

LEMMA NoRunType == NoRun \in RunStates /\ CallsFit(NoRun) /\ ChildFits(NoRun)
<1>1. NoRun \in RunStates
  BY DEF NoRun, RunStates, Capabilities, AccessModes
<1>2. /\ NoRun.calls = <<>> /\ NoRun.state = "none" /\ NoRun.tools = {} /\ NoRun.ran = 0
      /\ NoRun.limit = 0 /\ NoRun.started = 0 /\ ~NoRun.overspent /\ NoRun.caps = {}
      /\ NoRun.node = "none" /\ NoRun.access = "read_only"
  BY DEF NoRun
<1> HIDE DEF NoRun
<1>3. InFlight(NoRun) = {} /\ Announced(NoRun) = {} /\ InOrder(NoRun.calls)
  BY <1>2 DEF InFlight, Announced, InOrder
<1>4. Cardinality({}) = 0
  BY FS_EmptySet
<1> QED
  BY <1>1, <1>2, <1>3, <1>4 DEF CallsFit, ChildFits, Permitted

\* What an allowed call may do.
LEMMA AllowMeans ==
    ASSUME mode \in RunModes, NEW t, NEW own, NEW approved,
           Decision(t, own, approved) = "allow"
    PROVE  /\ Privileged(t) => mode = "execute" /\ own # "read_only"
           /\ AsksHuman(t) => own = "full_access" \/ t \in approved
BY DEF Decision, RunModes

\* A parallel tool never asks.
LEMMA ParallelIsAllowed ==
    ASSUME NEW t, NEW own, NEW approved, IsParallel(t)
    PROVE  Decision(t, own, approved) # "ask"
BY DEF IsParallel, Decision, AsksHuman, Mutates, Needs

\* A set of numbers that has an element has a least one.
LEMMA LeastOf ==
    ASSUME NEW S, S \subseteq Nat, S # {}
    PROVE  \E x \in S : \A y \in S : x <= y
<1> DEFINE R == {p \in Nat \X Nat : p[1] < p[2]}
<1>1. IsWellFoundedOn(R, Nat)
  BY NatLessThanWellFounded DEF OpToRel
<1> HIDE DEF R
<1>2. PICK x \in S : \A y \in S : <<y, x>> \notin R
  BY <1>1, WFMin
<1>3. \A y \in S : ~(y < x)
  BY <1>2, Zenon DEF R
<1> QED
  BY <1>3

\* The group that is dispatched next: its first call is the first that is not done.
LEMMA GroupIs ==
    ASSUME RunsType, NEW r \in Runs, ~CallsDone(r)
    PROVE  \E first \in DOMAIN run[r].calls :
              /\ run[r].calls[first].stage # "done"
              /\ \A j \in 1 .. first - 1 : run[r].calls[j].stage = "done"
              /\ Group(r) = {j \in first .. Len(run[r].calls) :
                               j = first \/ \A k \in first .. j : IsParallel(run[r].calls[k].tool)}
<1> DEFINE calls == run[r].calls
           open == {i \in DOMAIN calls : calls[i].stage # "done"}
<1>1. calls \in Seq(ToolCalls)
  BY DEF RunsType, RunStates
<1>2. DOMAIN calls = 1 .. Len(calls) /\ Len(calls) \in Nat
  BY <1>1
<1>3. open # {} /\ open \subseteq Nat
  BY SMTT(30), <1>2 DEF CallsDone
<1> HIDE DEF calls
<1>4. PICK x \in open : \A y \in open : x <= y
  BY <1>3, LeastOf
<1>5. x \in DOMAIN calls /\ calls[x].stage # "done" /\ \A j \in 1 .. x - 1 : calls[j].stage = "done"
  BY <1>2, <1>4
<1> DEFINE first == CHOOSE i \in DOMAIN calls :
                      calls[i].stage # "done" /\ \A j \in 1 .. i - 1 : calls[j].stage = "done"
<1>6. /\ first \in DOMAIN calls /\ calls[first].stage # "done"
      /\ \A j \in 1 .. first - 1 : calls[j].stage = "done"
  BY <1>5
<1>7. Group(r) = {j \in first .. Len(calls) :
                    j = first \/ \A k \in first .. j : IsParallel(calls[k].tool)}
  BY DEF Group, calls
<1> HIDE DEF first
<1> QED
  BY <1>6, <1>7 DEF calls

-----------------------------------------------------------------------------
(* Steps of runs.                                                          *)

\* Nobody runs for r.
NoChild(r) == \A c \in Started \ {Top} : Running(c) => run[c].parent # r

\* One run changes and keeps its place in the tree.
Only(r) ==
    /\ UNCHANGED mode
    /\ run' \in [Runs -> RunStates]
    /\ \A x \in Runs \ {r} : run'[x] = run[x]
    /\ run[r].state # "none" /\ run'[r].state # "none" /\ run'[r].parent = run[r].parent

\* A step in which one run moves.
LEMMA StepOfOne ==
    ASSUME SubagentsInv, NEW r \in Runs, Only(r),
           CallsFit(run[r])', r # Top => ChildFits(run'[r]),
           r # Top /\ Running(r)' => Running(r) /\ run'[r].access = run[r].access,
           ~NoChild(r) => /\ Running(r)' /\ InTask(run'[r])
                          /\ run'[r].access = run[r].access
    PROVE  SubagentsInv'
<1>1. Started' = Started /\ r \in Started /\ Started \subseteq Runs
  BY DEF Only, Started
<1>2. RunsType'
  BY DEF SubagentsInv, RunsType, Only
<1>3. Numbered'
  BY <1>1 DEF SubagentsInv, Numbered, Only, RunsType
<1>4. Fits'
  BY DEF SubagentsInv, Fits, CallsFit, Permitted, Only
<1>5. Nested'
  <2> SUFFICES ASSUME NEW c \in Started \ {Top}, run'[c].state = "running", NEW p, p = run'[c].parent
               PROVE  /\ run'[p].state = "running" /\ InTask(run'[p])
                      /\ Rank(run'[c].access) <= Rank(run'[p].access)
                      /\ \A d \in Started \ {Top} :
                            run'[d].state = "running" /\ run'[d].parent = p => d = c
    BY <1>1 DEF Nested, Running
  <2>1. \A d \in Started \ {Top} : run'[d].state = "running" => Running(d) /\ run'[d].access = run[d].access
    BY <1>1 DEF Only, Running
  <2>2. p = run[c].parent /\ p \in Started /\ \A d \in Started : run'[d].parent = run[d].parent
    BY <1>1 DEF Only, SubagentsInv, Numbered
  <2>3. /\ Running(p) /\ InTask(run[p]) /\ Rank(run[c].access) <= Rank(run[p].access)
        /\ \A d \in Started \ {Top} : Running(d) /\ run[d].parent = p => d = c
    BY <2>1, <2>2 DEF SubagentsInv, Nested
  <2>4. run'[p].state = "running" /\ InTask(run'[p]) /\ run'[p].access = run[p].access
    <3>1. CASE p = r
      BY <2>1, <2>2, <3>1 DEF NoChild, Running
    <3>2. CASE p # r
      BY <1>1, <2>2, <2>3, <3>2 DEF Only, Running
    <3> QED
      BY <3>1, <3>2
  <2> QED
    BY <2>1, <2>2, <2>3, <2>4
<1> QED
  BY <1>2, <1>3, <1>4, <1>5 DEF SubagentsInv

\* A child ends, and the call of its parent returns.
LEMMA StepOfChild ==
    ASSUME SubagentsInv, NEW r \in Runs \ {Top}, NEW p \in Runs, p = run[r].parent,
           Running(r), NoChild(r), UNCHANGED mode, run' \in [Runs -> RunStates],
           \A x \in Runs \ {r, p} : run'[x] = run[x],
           run'[r].state \notin {"none", "running"}, run'[r].parent = p,
           run'[p].state = run[p].state, run'[p].parent = run[p].parent,
           run'[p].access = run[p].access,
           CallsFit(run[r])', ChildFits(run'[r]),
           CallsFit(run[p])', p # Top => ChildFits(run'[p])
    PROVE  SubagentsInv'
<1>1. r \in Started /\ Started \subseteq Runs /\ p \in Started /\ p < r /\ p # r
  BY DEF Started, Running, SubagentsInv, Numbered
<1>2. Started' = Started
  BY <1>1 DEF Started
<1>3. RunsType'
  BY DEF SubagentsInv, RunsType
<1>4. \A d \in Started : run'[d].parent = run[d].parent
  BY <1>1
<1>5. Numbered'
  BY <1>2, <1>4 DEF SubagentsInv, Numbered
<1>6. Fits'
  <2>1. \A x \in Runs \ {r, p} : CallsFit(run[x])'
    BY DEF SubagentsInv, Fits, CallsFit, Permitted
  <2>2. \A x \in Runs \ {r, p, Top} : ChildFits(run[x])'
    BY DEF SubagentsInv, Fits
  <2> QED
    BY <2>1, <2>2 DEF Fits
<1>7. Nested'
  <2> SUFFICES ASSUME NEW c \in Started \ {Top}, run'[c].state = "running", NEW q, q = run'[c].parent
               PROVE  /\ run'[q].state = "running" /\ InTask(run'[q])
                      /\ Rank(run'[c].access) <= Rank(run'[q].access)
                      /\ \A d \in Started \ {Top} :
                            run'[d].state = "running" /\ run'[d].parent = q => d = c
    BY SMTT(30), <1>2 DEF Nested, Running
  <2> q = run[c].parent
    BY <1>4
  <2>1. \A d \in Started : run'[d].state = "running" => d # r /\ Running(d) /\ run'[d].access = run[d].access
    BY <1>1 DEF Running
  <2>2. /\ Running(q) /\ InTask(run[q]) /\ Rank(run[c].access) <= Rank(run[q].access)
        /\ \A d \in Started \ {Top} : Running(d) /\ run[d].parent = q => d = c
    BY <2>1 DEF SubagentsInv, Nested
  <2>3. q \in Started /\ q # r /\ q # p
    BY <1>1, <2>1, <2>2 DEF NoChild, SubagentsInv, Numbered
  <2>4. run'[q] = run[q]
    BY <1>1, <2>3
  <2> QED
    BY <1>4, <2>1, <2>2, <2>4 DEF Running
<1> QED
  BY <1>3, <1>5, <1>6, <1>7 DEF SubagentsInv

\* A call under way ends or goes on, or the next one is refused.
AtStage(s, i, new) == [s EXCEPT !.calls[i].stage = new]
Moves(s, t, i, new) == t.calls = [s.calls EXCEPT ![i].stage = new]

\* One call of a run moves on to another stage.
LEMMA StageMoves ==
    ASSUME NEW s \in RunStates, NEW t \in RunStates, CallsFit(s), s.state = "running",
           t.state = "running", t.caps = s.caps, t.access = s.access, t.tools = s.tools,
           t.approved = s.approved, NEW i \in DOMAIN s.calls, NEW new \in {"body", "done"},
           Moves(s, t, i, new),
           \/ s.calls[i].stage = "started"
           \/ s.calls[i].stage = "body"
           \/ new = "done" /\ \A j \in 1 .. i - 1 : s.calls[j].stage = "done"
    PROVE  /\ CallsFit(t) /\ Announced(t) = Announced(s) \ {i}
           /\ DOMAIN t.calls = DOMAIN s.calls
           /\ \A j \in DOMAIN s.calls : j # i => t.calls[j] = s.calls[j]
<1>1. s.calls \in Seq(ToolCalls) /\ DOMAIN s.calls = 1 .. Len(s.calls)
  BY DEF RunStates
<1>2. /\ DOMAIN t.calls = DOMAIN s.calls
      /\ \A j \in DOMAIN s.calls : j # i => t.calls[j] = s.calls[j]
      /\ \A j \in DOMAIN s.calls : t.calls[j].tool = s.calls[j].tool
      /\ t.calls[i].stage = new
  BY <1>1 DEF Moves, ToolCalls
<1> DEFINE From(j) == s.calls[j].stage
           To(j) == t.calls[j].stage
<1>a. \A j \in DOMAIN s.calls : /\ From(j) = "done" => To(j) = "done"
                                /\ From(j) # "due" => To(j) # "due"
                                /\ To(j) # "due" => \/ From(j) # "due"
                                                   \/ \A k \in 1 .. j - 1 : From(k) = "done"
  BY <1>2
<1>3. InOrder(t.calls)
  <2> SUFFICES ASSUME NEW a \in DOMAIN s.calls, NEW b \in DOMAIN s.calls, a < b, To(b) # "due"
               PROVE  \/ To(a) = "done"
                      \/ To(a) # "due" /\ IsParallel(s.calls[a].tool) /\ IsParallel(s.calls[b].tool)
    BY <1>2 DEF InOrder
  <2>1. CASE From(b) # "due"
    BY <1>a, <2>1 DEF CallsFit, InOrder
  <2>2. CASE \A k \in 1 .. b - 1 : From(k) = "done"
    <3>1. a \in 1 .. b - 1
      <4>1. DOMAIN s.calls = 1 .. Len(s.calls) /\ Len(s.calls) \in Nat
        BY <1>1
      <4> QED
        BY <4>1
    <3>2. From(a) = "done"
      BY <2>2, <3>1
    <3> QED
      BY <1>a, <3>2
  <2> QED
    BY <1>a, <2>1, <2>2
<1>4. InFlight(t) \subseteq InFlight(s)
  BY <1>2 DEF InFlight
<1>5. Permitted(t)
  <2> SUFFICES ASSUME NEW j \in InFlight(t), NEW tool, tool = t.calls[j].tool
               PROVE  /\ Needs(tool) \subseteq t.caps
                      /\ Privileged(tool) => mode = "execute" /\ t.access # "read_only"
                      /\ AsksHuman(tool) => t.access = "full_access" \/ tool \in t.approved
    BY DEF Permitted
  <2>1. j \in InFlight(s) /\ tool = s.calls[j].tool
    BY <1>2, <1>4 DEF InFlight
  <2> QED
    BY <2>1 DEF CallsFit, Permitted
<1>6. Announced(t) = Announced(s) \ {i}
  BY <1>2 DEF Announced
<1> QED
  BY <1>2, <1>3, <1>5, <1>6 DEF CallsFit

\* That is what the actions do to a call; the rest of the run stays.
LEMMA StagedRun ==
    ASSUME NEW s \in RunStates, NEW i \in DOMAIN s.calls, NEW new \in {"body", "done"},
           NEW t, t = AtStage(s, i, new)
    PROVE  /\ t \in RunStates /\ Moves(s, t, i, new)
           /\ t.state = s.state /\ t.parent = s.parent /\ t.caps = s.caps /\ t.access = s.access
           /\ t.tools = s.tools /\ t.cancel = s.cancel /\ t.limit = s.limit
           /\ t.started = s.started /\ t.ran = s.ran /\ t.overspent = s.overspent
           /\ t.approved = s.approved /\ t.node = s.node
<1> DEFINE one == [s.calls[i] EXCEPT !.stage = new]
           calls == [s.calls EXCEPT ![i] = one]
<1>1. s.calls \in Seq(ToolCalls)
  BY DEF RunStates
<1>2. one \in ToolCalls
  <2>1. s.calls[i] \in ToolCalls
    BY <1>1
  <2> QED
    BY <2>1 DEF ToolCalls
<1>3. calls = [s.calls EXCEPT ![i].stage = new]
  BY <1>1
<1> HIDE DEF one
<1>4. calls \in Seq(ToolCalls)
  BY <1>1, <1>2
<1> HIDE DEF calls
<1>5. [s EXCEPT !.calls[i].stage = new] = [s EXCEPT !.calls = calls]
  BY <1>3
<1> t = [s EXCEPT !.calls = calls]
  BY <1>5 DEF AtStage
<1>6. t \in RunStates /\ t.calls = calls
  BY <1>4 DEF RunStates
<1>7. /\ t.state = s.state /\ t.parent = s.parent /\ t.caps = s.caps /\ t.access = s.access
      /\ t.tools = s.tools /\ t.cancel = s.cancel /\ t.limit = s.limit
      /\ t.started = s.started /\ t.ran = s.ran /\ t.overspent = s.overspent
      /\ t.approved = s.approved /\ t.node = s.node
  OBVIOUS
<1> QED
  BY <1>3, <1>5, <1>6, <1>7 DEF Moves

\* Both at once.
LEMMA StagedFits ==
    ASSUME NEW s \in RunStates, CallsFit(s), s.state = "running", NEW i \in DOMAIN s.calls,
           NEW new \in {"body", "done"}, NEW t, t = AtStage(s, i, new),
           \/ s.calls[i].stage = "started"
           \/ s.calls[i].stage = "body"
           \/ new = "done" /\ \A j \in 1 .. i - 1 : s.calls[j].stage = "done"
    PROVE  /\ CallsFit(t) /\ Announced(t) = Announced(s) \ {i}
           /\ \A j \in DOMAIN s.calls : j # i => t.calls[j] = s.calls[j]
           /\ DOMAIN t.calls = DOMAIN s.calls
           /\ t \in RunStates
           /\ t.state = s.state /\ t.parent = s.parent /\ t.caps = s.caps /\ t.access = s.access
           /\ t.tools = s.tools /\ t.cancel = s.cancel /\ t.limit = s.limit
           /\ t.started = s.started /\ t.ran = s.ran /\ t.overspent = s.overspent
           /\ t.approved = s.approved /\ t.node = s.node
<1>1. /\ t \in RunStates /\ Moves(s, t, i, new)
      /\ t.state = s.state /\ t.parent = s.parent /\ t.caps = s.caps /\ t.access = s.access
      /\ t.tools = s.tools /\ t.cancel = s.cancel /\ t.limit = s.limit
      /\ t.started = s.started /\ t.ran = s.ran /\ t.overspent = s.overspent
      /\ t.approved = s.approved /\ t.node = s.node
  BY StagedRun
<1>2. t.state = "running"
  BY <1>1
<1> QED
  BY <1>1, <1>2, StageMoves

LEMMA AnnouncedIsFinite ==
    ASSUME NEW s \in RunStates
    PROVE  IsFiniteSet(Announced(s)) /\ Cardinality(Announced(s)) \in Nat
<1>1. DOMAIN s.calls = 1 .. Len(s.calls) /\ Len(s.calls) \in Nat
  BY DEF RunStates
<1>2. IsFiniteSet(1 .. Len(s.calls))
  <2>1. 1 \in Int /\ Len(s.calls) \in Int
    BY <1>1
  <2> QED
    BY <2>1, FS_Interval
<1> QED
  BY <1>1, <1>2, FS_Subset, FS_CardinalityType DEF Announced

\* No more bodies have run than calls were announced.
LEMMA RanIsAnnounced ==
    ASSUME NEW s \in RunStates, ChildFits(s)
    PROVE  s.ran + 0 <= s.started
<1>1. s.ran \in Nat /\ s.started \in Nat /\ Cardinality(Announced(s)) \in Nat
  BY AnnouncedIsFinite DEF RunStates
<1>2. s.ran + Cardinality(Announced(s)) <= s.started
  BY DEF ChildFits
<1> QED
  BY <1>1, <1>2

\* Calls that are all due, or none at all, are nobody's business.
LEMMA DueFits ==
    ASSUME NEW s, \A i \in DOMAIN s.calls : s.calls[i].stage = "due",
           s.state = "suspended" => s.calls # <<>>,
           \A t \in s.tools : Needs(t) \subseteq s.caps
    PROVE  CallsFit(s) /\ InFlight(s) = {} /\ Announced(s) = {} /\ Cardinality(Announced(s)) = 0
<1>1. InFlight(s) = {} /\ Announced(s) = {} /\ InOrder(s.calls)
  BY DEF InFlight, Announced, InOrder
<1> QED
  BY <1>1, FS_EmptySet DEF CallsFit, Permitted

\* A run without a child may end with calls that are all due, or none.
LEMMA EndedFits ==
    ASSUME SubagentsInv, NEW r \in Runs, Running(r), NoChild(r), UNCHANGED mode,
           NEW state \in {"completed", "failed", "suspended", "interrupted"},
           NEW rest \in Seq(ToolCalls), \A i \in DOMAIN rest : rest[i].stage = "due",
           state = "suspended" => rest # <<>>,
           state = "completed" => ~run[r].cancel,
           run' = Ended(r, state, rest)
    PROVE  SubagentsInv'
<1>1. run \in [Runs -> RunStates] /\ run[r] \in RunStates /\ CallsFit(run[r])
  BY DEF SubagentsInv, RunsType, Fits
<1>2. CASE r = Top
  <2>1. run' = [run EXCEPT ![r].state = state, ![r].calls = rest]
    BY <1>2 DEF Ended
  <2> DEFINE t == [run[r] EXCEPT !.state = state, !.calls = rest]
  <2>2. t \in RunStates /\ t.state = state /\ t.calls = rest /\ t.parent = run[r].parent
        /\ t.tools = run[r].tools /\ t.caps = run[r].caps
    BY <1>1 DEF RunStates
  <2>3. run'[r] = t /\ \A x \in Runs \ {r} : run'[x] = run[x]
    BY <1>1, <2>1
  <2>4. DOMAIN run' = Runs /\ run' = [x \in Runs |-> run'[x]]
    BY <1>1, <2>1
  <2> HIDE DEF t
  <2>5. run' \in [Runs -> RunStates]
    BY SMTT(30), <1>1, <2>2, <2>3, <2>4
  <2>6. CallsFit(run'[r])
    BY SMTT(30), <1>1, <2>2, <2>3, DueFits DEF CallsFit
  <2>7. CallsFit(run[r])'
    BY <2>6 DEF CallsFit, Permitted
  <2> QED
    BY <1>2, <2>2, <2>3, <2>5, <2>7, StepOfOne DEF Only, Running
<1>3. CASE r # Top
  <2>a. PICK p \in Runs : p = run[r].parent
    BY <1>1 DEF RunStates
  <2>b. PICK i : i = TaskCall(p)
    OBVIOUS
  <2> DEFINE n == [NoRun EXCEPT !.state = state, !.parent = p, !.calls = rest,
                                !.node = TaskState(r, state)]
  <2>c. PICK t : t = [run[p] EXCEPT !.calls[i].stage = "done"]
    OBVIOUS
  <2>1. r \in Started /\ r \in Runs \ {Top} /\ p \in Runs /\ p # r
    BY <1>1, <1>3, <2>a DEF Running, Started, SubagentsInv, Numbered
  <2>2. Running(p) /\ InTask(run[p])
    BY <1>3, <2>1, <2>a DEF SubagentsInv, Nested
  <2>3. /\ i \in DOMAIN run[p].calls /\ run[p].calls[i].tool = "task"
        /\ run[p].calls[i].stage = "body"
    <3>1. PICK k \in DOMAIN run[p].calls : run[p].calls[k] = TaskBody
      BY <2>2 DEF InTask
    <3>2. run[p].calls[k].tool = "task" /\ run[p].calls[k].stage = "body"
      BY <3>1 DEF TaskBody
    <3> QED
      BY <2>b, <3>2 DEF TaskCall
  <2>4. run' = [run EXCEPT ![r] = n, ![p].calls[i].stage = "done"]
    BY <1>3, <2>a, <2>b DEF Ended
  <2>5. run[p] \in RunStates
    BY <1>1, <2>1
  <2>6. run'[r] = n /\ run'[p] = t /\ \A x \in Runs \ {r, p} : run'[x] = run[x]
    BY <1>1, <2>1, <2>4, <2>c
  <2>7. DOMAIN run' = Runs /\ run' = [x \in Runs |-> run'[x]]
    BY <1>1, <2>4
  <2>d. PICK s, done : s = run[p] /\ done = "done"
    OBVIOUS
  <2>e. s \in RunStates /\ CallsFit(s) /\ s.state = "running" /\ done \in {"body", "done"}
    BY <1>1, <2>1, <2>2, <2>d DEF Running, SubagentsInv, Fits
  <2>f. i \in DOMAIN s.calls /\ s.calls[i].stage = "body" /\ t = AtStage(s, i, done)
    BY <2>3, <2>c, <2>d DEF AtStage
  <2>g. /\ CallsFit(t) /\ Announced(t) = Announced(s) \ {i} /\ t \in RunStates
        /\ t.state = s.state /\ t.parent = s.parent /\ t.caps = s.caps /\ t.access = s.access
        /\ t.cancel = s.cancel /\ t.limit = s.limit /\ t.started = s.started
        /\ t.ran = s.ran /\ t.overspent = s.overspent /\ t.node = s.node
    BY <2>e, <2>f, StagedFits
  <2>8. /\ t \in RunStates
        /\ t.state = run[p].state /\ t.parent = run[p].parent /\ t.caps = run[p].caps
        /\ t.access = run[p].access /\ t.cancel = run[p].cancel
        /\ t.limit = run[p].limit /\ t.started = run[p].started /\ t.ran = run[p].ran
        /\ t.overspent = run[p].overspent /\ t.node = run[p].node
    BY <2>d, <2>g
  <2>9. /\ TaskState(r, state) \in {"waiting", "completed", "failed"}
        /\ TaskState(r, state) = "completed" <=> state = "completed"
    <3>1. ~run[r].cancel => ~Exceeded(r)
      <4>1. ~run[r].cancel => run[r].started <= run[r].limit /\ ~run[r].overspent
        BY <1>1, <2>1 DEF SubagentsInv, Fits, ChildFits
      <4>2. run[r].started \in Nat /\ run[r].limit \in Nat
        BY <1>1 DEF RunStates
      <4> QED
        BY SMTT(30), <4>1, <4>2 DEF Exceeded
    <3> QED
      BY <3>1 DEF TaskState
  <2>10. /\ n \in RunStates /\ n.state = state /\ n.parent = p /\ n.calls = rest
         /\ n.node = TaskState(r, state) /\ n.tools = {} /\ n.caps = {} /\ n.ran = 0
         /\ n.limit = 0 /\ n.started = 0 /\ ~n.overspent /\ n.access = "read_only"
    <3>1. NoRun \in RunStates /\ p \in Runs
      BY <2>1, NoRunType
    <3>2. /\ NoRun.tools = {} /\ NoRun.caps = {} /\ NoRun.ran = 0 /\ NoRun.limit = 0
          /\ NoRun.started = 0 /\ ~NoRun.overspent /\ NoRun.access = "read_only"
      BY DEF NoRun
    <3> HIDE DEF NoRun
    <3>3. n \in RunStates /\ n.state = state /\ n.parent = p /\ n.calls = rest
          /\ n.node = TaskState(r, state)
      BY <2>9, <3>1 DEF RunStates
    <3>4. n.tools = NoRun.tools /\ n.caps = NoRun.caps /\ n.ran = NoRun.ran
          /\ n.limit = NoRun.limit /\ n.started = NoRun.started
          /\ n.overspent = NoRun.overspent /\ n.access = NoRun.access
      BY <3>1
    <3> QED
      BY <3>2, <3>3, <3>4
  <2> HIDE DEF n
  <2>11. run' \in [Runs -> RunStates]
    <3>1. \A x \in Runs : run'[x] \in RunStates
      BY SMTT(30), <1>1, <2>6, <2>8, <2>10
    <3> QED
      BY <2>7, <3>1
  <2>12. CallsFit(n) /\ Cardinality(Announced(n)) = 0
    BY <2>10, DueFits
  <2>13. ChildFits(n)
    BY <2>9, <2>10, <2>12 DEF ChildFits
  <2>14. CallsFit(t) /\ Announced(t) = Announced(run[p]) \ {i}
    BY <2>d, <2>g
  <2>15. Announced(t) = Announced(run[p])
    BY <2>3, <2>14 DEF Announced
  <2>16. p # Top => ChildFits(t)
    BY <2>1, <2>8, <2>15 DEF ChildFits, SubagentsInv, Fits
  <2>17. CallsFit(run[r])' /\ CallsFit(run[p])'
    <3>1. CallsFit(run'[r]) /\ CallsFit(run'[p])
      BY <2>6, <2>12, <2>14
    <3> QED
      BY <3>1 DEF CallsFit, Permitted
  <2>18. run'[r].state \notin {"none", "running"} /\ run'[r].parent = p
         /\ run'[p].state = run[p].state /\ run'[p].parent = run[p].parent
         /\ run'[p].access = run[p].access /\ ChildFits(run'[r])
         /\ (p # Top => ChildFits(run'[p]))
    BY <2>6, <2>8, <2>10, <2>13, <2>16
  <2> QED
    BY <2>a, <2>1, <2>6, <2>11, <2>17, <2>18, StepOfChild
<1> QED
  BY <1>2, <1>3

-----------------------------------------------------------------------------
(* Actions.                                                                *)

\* A run that dispatches, or whose calls are done, has no child: the call that runs
\* a child is under way.
LEMMA WaitsForNobody ==
    ASSUME SubagentsInv, NEW r \in Runs,
           \A i \in DOMAIN run[r].calls : run[r].calls[i].stage # "body"
    PROVE  NoChild(r)
BY DEF SubagentsInv, Nested, NoChild, InTask, TaskBody

\* A run ends: its children have ended before it.
LEMMA EndingKeeps ==
    ASSUME SubagentsInv, NEW r \in Runs, Complete(r) \/ Fail(r) \/ Interrupt(r)
    PROVE  SubagentsInv'
<1>1. <<>> \in Seq(ToolCalls) /\ \A i \in DOMAIN <<>> : <<>>[i].stage = "due"
  OBVIOUS
<1>2. CASE Complete(r) \/ Fail(r)
  <2>1. NoChild(r)
    BY <1>2, WaitsForNobody DEF Complete, Fail, CallsDone
  <2> QED
    BY <1>1, <1>2, <2>1, EndedFits DEF Complete, Fail
<1>3. CASE Interrupt(r)
  <2>1. NoChild(r)
    BY <1>3 DEF Interrupt, NoChild, ActiveChildren, Children
  <2> QED
    BY <1>1, <1>3, <2>1, EndedFits DEF Interrupt
<1> QED
  BY <1>2, <1>3

Signalled(s, t) ==
    /\ t.calls = s.calls /\ t.state = s.state /\ t.parent = s.parent
    /\ t.caps = s.caps /\ t.access = s.access /\ t.tools = s.tools
    /\ t.node = s.node /\ t.ran = s.ran /\ t.limit = s.limit
    /\ t.started = s.started /\ s.approved \subseteq t.approved
    /\ t.cancel \/ (t.cancel = s.cancel /\ t.overspent = s.overspent)

\* The event of a run is set, or a human decides, and its calls stay.
LEMMA SignalKeeps ==
    ASSUME SubagentsInv, NEW r \in Runs,
           Overspend(r) \/ Timeout(r) \/ ResolveApproval(r) \/ (UserCancel /\ r = Top)
    PROVE  SubagentsInv'
<1>1. run \in [Runs -> RunStates] /\ run[r] \in RunStates /\ CallsFit(run[r])
      /\ (r # Top => ChildFits(run[r])) /\ mode \in RunModes
  BY DEF SubagentsInv, RunsType, Fits
<1>2. run[r].state # "none" /\ UNCHANGED mode
  BY DEF Overspend, Timeout, ResolveApproval, UserCancel, Running
<1>3. ASSUME NEW tool \in Tools
      PROVE  [run[r] EXCEPT !.approved = @ \cup {tool}] \in RunStates
  <2>1. run[r].approved \cup {tool} \in SUBSET Tools
    BY <1>1 DEF RunStates
  <2> QED
    BY <1>1, <2>1 DEF RunStates
<1>4. run[r].state = "suspended" => run[r].calls[1].tool \in Tools
  <2> SUFFICES ASSUME run[r].state = "suspended" PROVE run[r].calls[1] \in ToolCalls
    BY DEF ToolCalls
  <2>1. run[r].calls \in Seq(ToolCalls) /\ run[r].calls # <<>>
    BY <1>1 DEF CallsFit, RunStates
  <2> QED
    BY <2>1
<1>5. \E t \in RunStates :
         run' = [run EXCEPT ![r] = t] /\ Signalled(run[r], t)
  <2>1. CASE Overspend(r)
    <3> DEFINE t == [run[r] EXCEPT !.overspent = TRUE, !.cancel = TRUE]
    <3>1. t \in RunStates /\ run' = [run EXCEPT ![r] = t]
      BY <1>1, <2>1 DEF Overspend, RunStates
    <3>2. Signalled(run[r], t)
      BY <1>1 DEF Signalled, RunStates
    <3> QED
      BY <3>1, <3>2
  <2>2. CASE Timeout(r) \/ (UserCancel /\ r = Top)
    <3> DEFINE t == [run[r] EXCEPT !.cancel = TRUE]
    <3>1. t \in RunStates /\ run' = [run EXCEPT ![r] = t]
      BY <1>1, <2>2 DEF Timeout, UserCancel, RunStates
    <3>2. Signalled(run[r], t)
      BY <1>1 DEF Signalled, RunStates
    <3> QED
      BY <3>1, <3>2
  <2>3. CASE ResolveApproval(r)
    <3> DEFINE t == [run[r] EXCEPT !.approved = @ \cup {run[r].calls[1].tool}]
               u == [run[r] EXCEPT !.denied = TRUE]
    <3>1. t \in RunStates /\ u \in RunStates
      BY <1>1, <1>3, <1>4, <2>3 DEF ResolveApproval, RunStates
    <3>2. run' = [run EXCEPT ![r] = t] \/ run' = [run EXCEPT ![r] = u]
      BY <1>1, <2>3 DEF ResolveApproval
    <3>3. Signalled(run[r], t) /\ Signalled(run[r], u)
      BY <1>1 DEF Signalled, RunStates
    <3> QED
      BY <3>1, <3>2, <3>3
  <2> QED
    BY <2>1, <2>2, <2>3
<1>6. PICK t \in RunStates :
         run' = [run EXCEPT ![r] = t] /\ Signalled(run[r], t)
  BY <1>5
<1>7. run'[r] = t /\ run' \in [Runs -> RunStates] /\ \A x \in Runs \ {r} : run'[x] = run[x]
  BY <1>1, <1>6
<1>8. CallsFit(t)
  BY <1>1, <1>6 DEF Signalled, CallsFit, Permitted, InFlight
<1>9. CallsFit(run[r])'
  BY <1>2, <1>7, <1>8 DEF CallsFit, Permitted
<1>10. r # Top => ChildFits(t)
  BY <1>1, <1>6 DEF Signalled, ChildFits, Announced
<1>11. Only(r)
  BY <1>2, <1>6, <1>7 DEF Signalled, Only
<1>12. ~NoChild(r) => Running(r)' /\ InTask(run'[r]) /\ run'[r].access = run[r].access
  BY SMTT(30), <1>6, <1>7 DEF Signalled, NoChild, SubagentsInv, Nested, InTask, Running
<1>13. Running(r)' => Running(r) /\ run'[r].access = run[r].access
  BY <1>6, <1>7 DEF Signalled, Running
<1> QED
  BY <1>7, <1>9, <1>10, <1>11, <1>12, <1>13, StepOfOne

\* The calls of a message, and of a run that is resumed or given up.
LEMMA RestartKeeps ==
    ASSUME SubagentsInv, NEW r \in Runs, Propose(r) \/ Resume(r) \/ Abandon(r)
    PROVE  SubagentsInv'
<1>1. run \in [Runs -> RunStates] /\ run[r] \in RunStates /\ CallsFit(run[r])
      /\ (r # Top => ChildFits(run[r]))
  BY DEF SubagentsInv, RunsType, Fits
<1>2. run[r].state # "none" /\ UNCHANGED mode /\ NoChild(r)
  <2>1. CASE Propose(r)
    BY <2>1, WaitsForNobody DEF Propose, CallsDone, Running
  <2>2. CASE Resume(r) \/ Abandon(r)
    BY <2>2 DEF Resume, Abandon, SubagentsInv, Nested, NoChild, Running
  <2> QED
    BY <2>1, <2>2
<1>3. CASE Propose(r)
  <2>a. PICK n \in 1 .. CallLimit(r) : \E tools \in [1 .. n -> Tools] :
           run' = [run EXCEPT ![r].turns = @ + 1,
                              ![r].calls = [i \in 1 .. n |-> [tool |-> tools[i], stage |-> "due"]]]
    BY <1>3 DEF Propose
  <2>1. PICK tools \in [1 .. n -> Tools] :
           run' = [run EXCEPT ![r].turns = @ + 1,
                              ![r].calls = [i \in 1 .. n |-> [tool |-> tools[i], stage |-> "due"]]]
    BY <2>a
  <2> DEFINE calls == [i \in 1 .. n |-> [tool |-> tools[i], stage |-> "due"]]
             turns == run[r].turns + 1
             t == [run[r] EXCEPT !.turns = turns, !.calls = calls]
  <2>2. calls \in Seq(ToolCalls) /\ \A i \in DOMAIN calls : calls[i].stage = "due"
    <3>1. n \in Nat
      BY DEF CallLimit
    <3>2. calls \in [1 .. n -> ToolCalls]
      BY DEF ToolCalls
    <3> QED
      BY <3>1, <3>2
  <2>3. turns \in Nat
    BY SMTT(30), <1>1 DEF RunStates
  <2>4. run' = [run EXCEPT ![r] = t]
    BY <1>1, <2>1
  <2> HIDE DEF calls, turns
  <2>5. /\ t \in RunStates /\ t.calls = calls /\ t.state = run[r].state
        /\ t.parent = run[r].parent /\ t.access = run[r].access /\ t.caps = run[r].caps
        /\ t.tools = run[r].tools /\ t.node = run[r].node /\ t.ran = run[r].ran
        /\ t.limit = run[r].limit /\ t.started = run[r].started /\ t.cancel = run[r].cancel
        /\ t.overspent = run[r].overspent
    BY <1>1, <2>2, <2>3 DEF RunStates
  <2> HIDE DEF t
  <2>6. run'[r] = t /\ run' \in [Runs -> RunStates] /\ \A x \in Runs \ {r} : run'[x] = run[x]
    BY <1>1, <2>4, <2>5
  <2>7. CallsFit(t) /\ Cardinality(Announced(t)) = 0
    <3>1. t.state # "suspended"
      BY <1>3, <2>5 DEF Propose, Running
    <3>2. \A i \in DOMAIN t.calls : t.calls[i].stage = "due"
      BY <2>2, <2>5
    <3>3. \A tool \in t.tools : Needs(tool) \subseteq t.caps
      BY <1>1, <2>5 DEF CallsFit
    <3> QED
      BY <3>1, <3>2, <3>3, DueFits
  <2>8. CallsFit(run[r])'
    BY <1>2, <2>6, <2>7 DEF CallsFit, Permitted
  <2>9. r # Top => ChildFits(t)
    BY <1>1, <2>5, <2>7, RanIsAnnounced DEF ChildFits
  <2>10. Only(r) /\ (Running(r)' => Running(r) /\ run'[r].access = run[r].access)
    BY <1>2, <2>5, <2>6 DEF Only, Running
  <2> QED
    BY <1>2, <2>6, <2>8, <2>9, <2>10, StepOfOne
<1>4. CASE Resume(r)
  <2>1. r = Top
    BY <1>4 DEF Resume, SameConfiguration, Prompt
  <2> DEFINE t == [run[r] EXCEPT !.state = "running", !.cancel = FALSE, !.kids = 0]
  <2>2. run' = [run EXCEPT ![r] = t]
    BY <1>1, <1>4 DEF Resume
  <2>3. /\ t \in RunStates /\ t.state = "running" /\ t.calls = run[r].calls
        /\ t.parent = run[r].parent /\ t.access = run[r].access /\ t.caps = run[r].caps
        /\ t.tools = run[r].tools /\ t.approved = run[r].approved
    BY <1>1 DEF RunStates
  <2> HIDE DEF t
  <2>4. run'[r] = t /\ run' \in [Runs -> RunStates] /\ \A x \in Runs \ {r} : run'[x] = run[x]
    BY <1>1, <2>2, <2>3
  <2>5. CallsFit(t)
    BY <1>1, <2>3 DEF CallsFit, Permitted, InFlight
  <2>6. CallsFit(run[r])'
    BY <1>2, <2>4, <2>5 DEF CallsFit, Permitted
  <2>7. Only(r)
    BY <1>2, <2>3, <2>4 DEF Only
  <2> QED
    BY <1>2, <2>1, <2>6, <2>7, StepOfOne
<1>5. CASE Abandon(r)
  <2> DEFINE t == [run[r] EXCEPT !.state = "cancelled", !.calls = <<>>]
  <2>1. run' = [run EXCEPT ![r] = t] /\ run[r].state = "suspended"
    BY <1>1, <1>5 DEF Abandon
  <2>2. /\ t \in RunStates /\ t.state = "cancelled" /\ t.calls = <<>>
        /\ t.parent = run[r].parent /\ t.access = run[r].access /\ t.caps = run[r].caps
        /\ t.tools = run[r].tools /\ t.node = run[r].node /\ t.ran = run[r].ran
        /\ t.limit = run[r].limit /\ t.started = run[r].started /\ t.cancel = run[r].cancel
        /\ t.overspent = run[r].overspent
    <3>1. <<>> \in Seq(ToolCalls)
      OBVIOUS
    <3> QED
      BY <1>1, <3>1 DEF RunStates
  <2> HIDE DEF t
  <2>3. run'[r] = t /\ run' \in [Runs -> RunStates] /\ \A x \in Runs \ {r} : run'[x] = run[x]
    BY <1>1, <2>1, <2>2
  <2>4. CallsFit(t) /\ Cardinality(Announced(t)) = 0
    BY <1>1, <2>2, DueFits DEF CallsFit
  <2>5. CallsFit(run[r])'
    BY <1>2, <2>3, <2>4 DEF CallsFit, Permitted
  <2>6. r # Top => ChildFits(t)
    BY <1>1, <2>1, <2>2, <2>4, RanIsAnnounced DEF ChildFits
  <2>7. Only(r) /\ ~Running(r)'
    BY <1>2, <2>1, <2>2, <2>3 DEF Only, Running
  <2> QED
    BY <1>2, <2>3, <2>5, <2>6, <2>7, StepOfOne
<1> QED
  BY <1>3, <1>4, <1>5

\* A run whose call has moved on, whatever it counts.
AlikeBut(t, u) ==
    /\ u \in RunStates /\ u.calls = t.calls /\ u.state = t.state
    /\ u.parent = t.parent /\ u.caps = t.caps /\ u.access = t.access /\ u.tools = t.tools
    /\ u.cancel = t.cancel /\ u.limit = t.limit /\ u.started = t.started
    /\ u.overspent = t.overspent /\ u.approved = t.approved /\ u.node = t.node

\* A body that begins is one of those announced and is counted; one that ends is not.
LEMMA BodyFits ==
    ASSUME NEW s \in RunStates, CallsFit(s), s.state = "running", ChildFits(s),
           NEW i \in DOMAIN s.calls, NEW new \in {"body", "done"}, NEW t, t = AtStage(s, i, new),
           s.calls[i].stage \in {"started", "body"}, NEW u, AlikeBut(t, u),
           \/ u.ran = s.ran
           \/ u.ran = s.ran + 1 /\ s.calls[i].stage = "started" /\ ~s.cancel
    PROVE  ChildFits(u)
<1>0. /\ Announced(t) = Announced(s) \ {i}
      /\ t.state = s.state /\ t.caps = s.caps /\ t.access = s.access
      /\ t.cancel = s.cancel /\ t.limit = s.limit /\ t.started = s.started
      /\ t.overspent = s.overspent /\ t.node = s.node
  BY StagedFits
<1>1. Announced(u) = Announced(s) \ {i}
  BY <1>0 DEF AlikeBut, Announced
<1> DEFINE n == Cardinality(Announced(s))
           m == Cardinality(Announced(u))
<1>2. n \in Nat
  BY AnnouncedIsFinite
<1>3. m = IF s.calls[i].stage = "started" THEN n - 1 ELSE n
  <2>1. IsFiniteSet(Announced(s)) /\ (i \in Announced(s) <=> s.calls[i].stage = "started")
    BY AnnouncedIsFinite DEF Announced
  <2>2. CASE i \in Announced(s)
    <3>1. Cardinality(Announced(s) \ {i}) = Cardinality(Announced(s)) - 1
      BY <2>1, <2>2, FS_RemoveElement
    <3> QED
      BY <1>1, <2>1, <2>2, <3>1
  <2>3. CASE i \notin Announced(s)
    <3>1. Announced(u) = Announced(s)
      BY <1>1, <2>3
    <3> QED
      BY <2>1, <2>3, <3>1
  <2> QED
    BY <2>2, <2>3
<1>4. m \in Nat
  BY AnnouncedIsFinite DEF AlikeBut
<1>5. /\ s.ran <= s.limit /\ s.ran + n <= s.started /\ (~s.cancel => s.started <= s.limit)
      /\ s.ran \in Nat /\ s.limit \in Nat /\ s.started \in Nat
  BY DEF ChildFits, RunStates
<1> HIDE DEF n, m
<1>6. u.ran <= s.limit /\ u.ran + m <= s.started
  BY <1>2, <1>3, <1>4, <1>5
<1> QED
  BY <1>0, <1>6 DEF AlikeBut, ChildFits, m

\* A tool body begins or ends, or a delegation is refused.
LEMMA ToolKeeps ==
    ASSUME SubagentsInv, NEW r \in Runs, NEW i \in DOMAIN run[r].calls,
           BeginTool(r, i) \/ FinishTool(r, i) \/ DenyDelegation(r, i)
    PROVE  SubagentsInv'
<1>1. run \in [Runs -> RunStates] /\ run[r] \in RunStates /\ CallsFit(run[r])
      /\ (r # Top => ChildFits(run[r]))
  BY DEF SubagentsInv, RunsType, Fits
<1>2. run[r].state = "running" /\ UNCHANGED mode
  BY DEF BeginTool, FinishTool, DenyDelegation, Running
<1>a. PICK s : s = run[r]
  OBVIOUS
<1>b. PICK new \in {"body", "done"}, ran \in Nat :
         /\ run' = [run EXCEPT ![r] = [AtStage(s, i, new) EXCEPT !.ran = ran]]
         /\ s.calls[i].stage \in {"started", "body"} /\ s.calls[i] # TaskBody
         /\ r # Top => \/ ran = s.ran
                       \/ ran = s.ran + 1 /\ s.calls[i].stage = "started" /\ ~s.cancel
  <2> DEFINE more == IF r = Top THEN s.ran ELSE s.ran + 1
  <2>1. more \in Nat /\ s.ran \in Nat /\ (r # Top => more = s.ran + 1)
    BY SMTT(30), <1>1, <1>a DEF RunStates
  <2>2. CASE BeginTool(r, i)
    <3>1. run' = [run EXCEPT ![r] = [AtStage(s, i, "body") EXCEPT !.ran = more]]
      BY <1>1, <1>a, <2>2 DEF BeginTool, AtStage
    <3>2. /\ s.calls[i].stage \in {"started", "body"} /\ s.calls[i] # TaskBody
          /\ "body" \in {"body", "done"} /\ s.calls[i].stage = "started" /\ ~s.cancel
      BY <1>a, <2>2 DEF BeginTool, TaskBody
    <3> HIDE DEF more
    <3> QED
      BY <2>1, <3>1, <3>2
  <2>3. CASE FinishTool(r, i)
    <3>1. run' = [run EXCEPT ![r] = [AtStage(s, i, "done") EXCEPT !.ran = s.ran]]
      <4> DEFINE done == AtStage(s, i, "done")
      <4>1. run' = [run EXCEPT ![r] = done]
        BY <1>1, <1>a, <2>3 DEF FinishTool, AtStage
      <4>2. [done EXCEPT !.ran = s.ran] = done
        BY <1>1, <1>a DEF RunStates, AtStage
      <4> QED
        BY <4>1, <4>2
    <3>2. /\ s.calls[i].stage \in {"started", "body"} /\ s.calls[i] # TaskBody
          /\ "done" \in {"body", "done"}
      BY <1>a, <2>3 DEF FinishTool, TaskBody
    <3> HIDE DEF more
    <3> QED
      BY <2>1, <3>1, <3>2
  <2>4. CASE DenyDelegation(r, i)
    <3>1. run' = [run EXCEPT ![r] = [AtStage(s, i, "done") EXCEPT !.ran = more]]
      BY <1>1, <1>a, <2>4 DEF DenyDelegation, AtStage
    <3>2. /\ s.calls[i].stage \in {"started", "body"} /\ s.calls[i] # TaskBody
          /\ "done" \in {"body", "done"} /\ s.calls[i].stage = "started" /\ ~s.cancel
      BY <1>a, <2>4 DEF DenyDelegation, TaskBody
    <3> HIDE DEF more
    <3> QED
      BY <2>1, <3>1, <3>2
  <2> QED
    BY <2>2, <2>3, <2>4
<1>c. PICK t : t = AtStage(s, i, new)
  OBVIOUS
<1>3. /\ s = run[r] /\ t = AtStage(s, i, new)
      /\ run' = [run EXCEPT ![r] = [t EXCEPT !.ran = ran]]
      /\ s.calls[i].stage \in {"started", "body"} /\ s.calls[i] # TaskBody
      /\ r # Top => \/ ran = s.ran
                    \/ ran = s.ran + 1 /\ s.calls[i].stage = "started" /\ ~s.cancel
  BY <1>a, <1>b, <1>c
<1> DEFINE u == [t EXCEPT !.ran = ran]
<1>4. /\ CallsFit(t) /\ Announced(t) = Announced(s) \ {i}
      /\ \A j \in DOMAIN s.calls : j # i => t.calls[j] = s.calls[j]
      /\ DOMAIN t.calls = DOMAIN s.calls
      /\ t \in RunStates
      /\ t.state = s.state /\ t.parent = s.parent /\ t.caps = s.caps /\ t.access = s.access
      /\ t.tools = s.tools /\ t.cancel = s.cancel /\ t.limit = s.limit
      /\ t.started = s.started /\ t.ran = s.ran /\ t.overspent = s.overspent
      /\ t.approved = s.approved /\ t.node = s.node
  BY <1>1, <1>2, <1>3, StagedFits
<1>5. /\ u \in RunStates /\ u.ran = ran /\ u.calls = t.calls /\ u.state = t.state
      /\ u.parent = t.parent /\ u.caps = t.caps /\ u.access = t.access /\ u.tools = t.tools
      /\ u.cancel = t.cancel /\ u.limit = t.limit /\ u.started = t.started
      /\ u.overspent = t.overspent /\ u.approved = t.approved /\ u.node = t.node
  BY <1>4 DEF RunStates
<1>6. run' = [run EXCEPT ![r] = u]
  BY <1>3
<1> HIDE DEF u
<1>7. run'[r] = u /\ run' \in [Runs -> RunStates] /\ \A x \in Runs \ {r} : run'[x] = run[x]
  BY <1>1, <1>5, <1>6
<1>8. CallsFit(u)
  BY <1>4, <1>5 DEF CallsFit, Permitted, InFlight
<1>9. CallsFit(run[r])'
  BY <1>2, <1>7, <1>8 DEF CallsFit, Permitted
<1>10. r # Top => ChildFits(u)
  <2> SUFFICES ASSUME r # Top PROVE ChildFits(u)
    OBVIOUS
  <2>1. AlikeBut(t, u)
    BY <1>5 DEF AlikeBut
  <2>2. s \in RunStates /\ CallsFit(s) /\ s.state = "running" /\ ChildFits(s)
    BY <1>1, <1>2, <1>3
  <2>3. u.ran = s.ran \/ (u.ran = s.ran + 1 /\ s.calls[i].stage = "started" /\ ~s.cancel)
    BY <1>3, <1>5
  <2> QED
    BY <1>3, <2>1, <2>2, <2>3, BodyFits
<1>11. Only(r) /\ Running(r)' /\ Running(r) /\ run'[r].access = run[r].access
  BY <1>2, <1>3, <1>4, <1>5, <1>7 DEF Only, Running
<1>12. ~NoChild(r) => InTask(run'[r])
  <2> SUFFICES ASSUME ~NoChild(r) PROVE InTask(u)
    BY <1>7
  <2>1. InTask(s)
    BY <1>3 DEF NoChild, SubagentsInv, Nested
  <2> QED
    BY <1>3, <1>4, <1>5, <2>1 DEF InTask
<1> QED
  BY <1>7, <1>9, <1>10, <1>11, <1>12, StepOfOne

\* The calls from one that waits on.
LEMMA RestIsDue ==
    ASSUME NEW calls \in Seq(ToolCalls), NEW i \in 1 .. Len(calls),
           \A k \in i .. Len(calls) : calls[k].stage = "due"
    PROVE  LET rest == SubSeq(calls, i, Len(calls)) IN
           /\ rest \in Seq(ToolCalls) /\ rest # <<>>
           /\ \A k \in DOMAIN rest : rest[k].stage = "due"
<1> DEFINE n == Len(calls)
           rest == SubSeq(calls, i, n)
<1>1. n \in Int /\ i \in Int /\ i <= n /\ \A k \in i .. n : calls[k] \in ToolCalls
  OBVIOUS
<1>2. /\ rest \in Seq(ToolCalls) /\ Len(rest) = n - i + 1
      /\ \A k \in 1 .. n - i + 1 : rest[k] = calls[i + k - 1]
  BY <1>1, SubSeqProperties
<1> HIDE DEF rest
<1>3. rest # <<>>
  BY <1>1, <1>2
<1>4. DOMAIN rest = 1 .. n - i + 1
  BY <1>2
<1>5. \A k \in 1 .. n - i + 1 : i + k - 1 \in i .. n
  BY SMTT(30), <1>1
<1> HIDE DEF n
<1>6. \A k \in DOMAIN rest : rest[k].stage = "due"
  <2> TAKE k \in DOMAIN rest
  <2>1. k \in 1 .. n - i + 1 /\ i + k - 1 \in i .. n
    BY <1>4, <1>5
  <2>2. rest[k] = calls[i + k - 1]
    BY <1>2, <2>1
  <2>3. calls[i + k - 1].stage = "due"
    BY <2>1 DEF n
  <2> QED
    BY <2>2, <2>3
<1> QED
  BY <1>2, <1>3, <1>6 DEF rest, n

\* What Ask and Dispatch share: the group is due, all before it is done, and all that
\* follows is due.
LEMMA DispatchFrom ==
    ASSUME SubagentsInv, NEW r \in Runs, CanDispatch(r)
    PROVE  \E first \in DOMAIN run[r].calls :
              /\ \A i \in DOMAIN run[r].calls :
                    run[r].calls[i].stage = IF i < first THEN "done" ELSE "due"
              /\ Group(r) \subseteq DOMAIN run[r].calls
              /\ \A i \in Group(r) : first <= i
              /\ \A i \in DOMAIN run[r].calls, j \in Group(r) :
                    first <= i /\ i < j => /\ i \in Group(r)
                                           /\ IsParallel(run[r].calls[i].tool)
                                           /\ IsParallel(run[r].calls[j].tool)
<1>1. run[r] \in RunStates /\ CallsFit(run[r]) /\ ~CallsDone(r)
  BY DEF SubagentsInv, RunsType, Fits, CanDispatch
<1>2. /\ run[r].calls \in Seq(ToolCalls) /\ Len(run[r].calls) \in Nat
      /\ DOMAIN run[r].calls = 1 .. Len(run[r].calls)
  <2>1. run[r].calls \in Seq(ToolCalls)
    BY <1>1 DEF RunStates
  <2> QED
    BY <2>1
<1>3. PICK first \in DOMAIN run[r].calls :
         /\ run[r].calls[first].stage # "done"
         /\ \A j \in 1 .. first - 1 : run[r].calls[j].stage = "done"
         /\ Group(r) = {j \in first .. Len(run[r].calls) :
                          j = first \/ \A k \in first .. j : IsParallel(run[r].calls[k].tool)}
  BY <1>1, GroupIs DEF SubagentsInv
<1>4. first \in Group(r) /\ run[r].calls[first].stage = "due"
  BY <1>2, <1>3 DEF CanDispatch
<1>5. \A i \in DOMAIN run[r].calls : first < i => run[r].calls[i].stage = "due"
  BY <1>1, <1>4 DEF CallsFit, InOrder
<1>6. \A i \in DOMAIN run[r].calls :
         run[r].calls[i].stage = IF i < first THEN "done" ELSE "due"
  <2> SUFFICES ASSUME NEW i \in DOMAIN run[r].calls
               PROVE  run[r].calls[i].stage = IF i < first THEN "done" ELSE "due"
    OBVIOUS
  <2> i \in Nat /\ i >= 1 /\ first \in Nat
    BY <1>2
  <2>1. CASE i < first
    <3>1. i \in 1 .. first - 1
      BY <2>1
    <3> QED
      BY <1>3, <2>1, <3>1
  <2>2. CASE ~(i < first)
    BY <1>4, <1>5, <2>2
  <2> QED
    BY <2>1, <2>2
<1>7. Group(r) \subseteq DOMAIN run[r].calls /\ \A i \in Group(r) : first <= i
  BY <1>2, <1>3
<1>8. ASSUME NEW i \in DOMAIN run[r].calls, NEW j \in Group(r), first <= i, i < j
      PROVE  /\ i \in Group(r) /\ IsParallel(run[r].calls[i].tool)
             /\ IsParallel(run[r].calls[j].tool)
  <2>1. \A k \in first .. j : IsParallel(run[r].calls[k].tool)
    BY SMTT(30), <1>2, <1>3, <1>8
  <2>2. i \in first .. j /\ j \in first .. j /\ first .. i \subseteq first .. j
        /\ i \in first .. Len(run[r].calls)
    BY SMTT(30), <1>2, <1>3, <1>7, <1>8
  <2> QED
    BY <1>3, <2>1, <2>2
<1> QED
  BY <1>6, <1>7, <1>8

\* A run suspends at a call that a human has to decide.
LEMMA AskKeeps ==
    ASSUME SubagentsInv, NEW r \in Runs, Ask(r)
    PROVE  SubagentsInv'
<1>1. run \in [Runs -> RunStates] /\ run[r] \in RunStates /\ CallsFit(run[r])
      /\ (r # Top => ChildFits(run[r]))
  BY DEF SubagentsInv, RunsType, Fits
<1>2. run[r].state = "running" /\ UNCHANGED mode /\ CanDispatch(r)
  BY DEF Ask, CanDispatch, Running
<1>3. PICK i \in Group(r) :
         /\ DecisionOn(r, i) = "ask"
         /\ run' = IF run[r].denied
                   THEN [run EXCEPT ![r].calls[i].stage = "done", ![r].denied = FALSE]
                   ELSE Ended(r, "suspended", SubSeq(run[r].calls, i, Len(run[r].calls)))
  BY DEF Ask
<1>4. PICK first \in DOMAIN run[r].calls :
         /\ \A k \in DOMAIN run[r].calls :
               run[r].calls[k].stage = IF k < first THEN "done" ELSE "due"
         /\ Group(r) \subseteq DOMAIN run[r].calls
         /\ \A k \in Group(r) : first <= k
         /\ \A k \in DOMAIN run[r].calls, j \in Group(r) :
               first <= k /\ k < j => /\ k \in Group(r)
                                      /\ IsParallel(run[r].calls[k].tool)
                                      /\ IsParallel(run[r].calls[j].tool)
  BY <1>2, DispatchFrom
<1>5. /\ run[r].calls \in Seq(ToolCalls) /\ Len(run[r].calls) \in Nat
      /\ DOMAIN run[r].calls = 1 .. Len(run[r].calls)
  <2>1. run[r].calls \in Seq(ToolCalls)
    BY <1>1 DEF RunStates
  <2> QED
    BY <2>1
<1>6. i = first
  <2>1. ~IsParallel(run[r].calls[i].tool)
    BY <1>3, ParallelIsAllowed DEF DecisionOn
  <2>2. i \in DOMAIN run[r].calls /\ first <= i
    BY <1>3, <1>4
  <2>3. ASSUME first < i PROVE FALSE
    <3>1. first \in DOMAIN run[r].calls /\ first <= first
      BY <1>4, <1>5
    <3>2. i \in Group(r)
      BY <1>3
    <3>3. first <= first /\ first < i => IsParallel(run[r].calls[i].tool)
      BY <1>4, <3>1, <3>2
    <3> QED
      BY <2>1, <2>3, <3>1, <3>3
  <2> QED
    BY <1>5, <2>2, <2>3
<1>7. NoChild(r)
  BY <1>4, WaitsForNobody
<1>8. CASE ~run[r].denied
  <2> DEFINE rest == SubSeq(run[r].calls, i, Len(run[r].calls))
  <2>1. /\ rest \in Seq(ToolCalls) /\ rest # <<>>
        /\ \A k \in DOMAIN rest : rest[k].stage = "due"
    <3>1. i \in 1 .. Len(run[r].calls) /\ \A k \in i .. Len(run[r].calls) : run[r].calls[k].stage = "due"
      <4>1. first \in 1 .. Len(run[r].calls)
        BY <1>4, <1>5
      <4>2. SUFFICES ASSUME NEW k \in first .. Len(run[r].calls)
                     PROVE  run[r].calls[k].stage = "due"
        BY <1>6, <4>1
      <4>3. k \in 1 .. Len(run[r].calls) /\ ~(k < first)
        BY <1>5, <4>1
      <4> QED
        BY <1>4, <1>5, <4>3
    <3> QED
      BY <1>5, <3>1, RestIsDue
  <2>2. run' = Ended(r, "suspended", rest)
    BY <1>3, <1>8
  <2> HIDE DEF rest
  <2> QED
    BY <1>2, <1>7, <2>1, <2>2, EndedFits DEF Running
<1>9. CASE run[r].denied
  <2>1. PICK s, done, t : s = run[r] /\ done = "done" /\ t = AtStage(s, i, done)
    OBVIOUS
  <2> DEFINE u == [t EXCEPT !.denied = FALSE]
  <2>2. run' = [run EXCEPT ![r] = u]
    BY <1>1, <1>3, <1>9, <2>1 DEF AtStage
  <2>3. done \in {"body", "done"} /\ \A k \in 1 .. i - 1 : s.calls[k].stage = "done"
    <3>1. \A k \in 1 .. first - 1 : k \in DOMAIN run[r].calls /\ k < first
      BY SMTT(30), <1>5
    <3> QED
      BY <1>4, <1>6, <2>1, <3>1
  <2>4. /\ CallsFit(t) /\ Announced(t) = Announced(s) \ {i} /\ t \in RunStates
        /\ t.state = s.state /\ t.parent = s.parent /\ t.caps = s.caps /\ t.access = s.access
        /\ t.tools = s.tools /\ t.cancel = s.cancel /\ t.limit = s.limit
        /\ t.started = s.started /\ t.ran = s.ran /\ t.overspent = s.overspent
        /\ t.approved = s.approved /\ t.node = s.node
    BY <1>1, <1>2, <1>6, <2>1, <2>3, StagedFits
  <2>5. /\ u \in RunStates /\ u.ran = t.ran /\ u.calls = t.calls /\ u.state = t.state
        /\ u.parent = t.parent /\ u.caps = t.caps /\ u.access = t.access /\ u.tools = t.tools
        /\ u.cancel = t.cancel /\ u.limit = t.limit /\ u.started = t.started
        /\ u.overspent = t.overspent /\ u.approved = t.approved /\ u.node = t.node
    BY <2>4 DEF RunStates
  <2> HIDE DEF u
  <2>6. run'[r] = u /\ run' \in [Runs -> RunStates] /\ \A x \in Runs \ {r} : run'[x] = run[x]
    BY <1>1, <2>2, <2>5
  <2>7. CallsFit(u)
    BY <2>4, <2>5 DEF CallsFit, Permitted, InFlight
  <2>8. CallsFit(run[r])'
    BY <1>2, <2>6, <2>7 DEF CallsFit, Permitted
  <2>9. r # Top => ChildFits(u)
    <3>1. Announced(u) = Announced(s)
      BY <1>4, <1>6, <2>1, <2>4, <2>5 DEF Announced
    <3> QED
      BY <1>1, <2>1, <2>4, <2>5, <3>1 DEF ChildFits
  <2>10. Only(r) /\ Running(r)' /\ Running(r) /\ run'[r].access = run[r].access
    BY <1>2, <2>1, <2>4, <2>5, <2>6 DEF Only, Running
  <2> QED
    BY <1>7, <2>6, <2>8, <2>9, <2>10, StepOfOne
<1> QED
  BY <1>8, <1>9

\* A group of calls is announced, as far as the budget lets it.
LEMMA DispatchKeeps ==
    ASSUME SubagentsInv, NEW r \in Runs, Dispatch(r)
    PROVE  SubagentsInv'
<1>1. run \in [Runs -> RunStates] /\ run[r] \in RunStates /\ CallsFit(run[r])
      /\ (r # Top => ChildFits(run[r])) /\ mode \in RunModes
  BY DEF SubagentsInv, RunsType, Fits
<1>2. run[r].state = "running" /\ UNCHANGED mode /\ CanDispatch(r) /\ ~run[r].cancel
  BY DEF Dispatch, CanDispatch, Running
<1>3. PICK s : s = run[r]
  OBVIOUS
<1>4. PICK first \in DOMAIN s.calls :
         /\ \A k \in DOMAIN s.calls :
               s.calls[k].stage = IF k < first THEN "done" ELSE "due"
         /\ Group(r) \subseteq DOMAIN s.calls
         /\ \A k \in Group(r) : first <= k
         /\ \A k \in DOMAIN s.calls, j \in Group(r) :
               first <= k /\ k < j => /\ k \in Group(r)
                                      /\ IsParallel(s.calls[k].tool)
                                      /\ IsParallel(s.calls[j].tool)
  BY <1>2, <1>3, DispatchFrom
<1> DEFINE Calls(allowed) ==
             [i \in DOMAIN s.calls |->
                IF i \in allowed THEN [s.calls[i] EXCEPT !.stage = "started"]
                ELSE IF i \in Group(r) THEN [s.calls[i] EXCEPT !.stage = "done"]
                ELSE s.calls[i]]
           Dispatched(allowed) == [s EXCEPT !.calls = Calls(allowed)]
<1>5. PICK allowed \in SUBSET Group(r) :
         /\ \A i \in allowed : s.calls[i].tool \in s.tools /\ DecisionOn(r, i) = "allow"
         /\ run' = [run EXCEPT ![r] = IF r = Top THEN Dispatched(allowed)
                                      ELSE Observe(Dispatched(allowed), Cardinality(allowed))]
  <2>1. PICK refused \in SUBSET Group(r) :
           LET allowed == {i \in Group(r) \ refused :
                              s.calls[i].tool \in s.tools /\ DecisionOn(r, i) = "allow"}
           IN run' = [run EXCEPT ![r] =
                        IF r = Top THEN Dispatched(allowed)
                        ELSE Observe(Dispatched(allowed), Cardinality(allowed))]
    BY <1>3 DEF Dispatch
  <2> QED
    BY <2>1
<1>6. /\ s.calls \in Seq(ToolCalls) /\ Len(s.calls) \in Nat /\ DOMAIN s.calls = 1 .. Len(s.calls)
  <2>1. s.calls \in Seq(ToolCalls)
    BY <1>1, <1>3 DEF RunStates
  <2> QED
    BY <2>1
<1>7. IsFiniteSet(allowed) /\ Cardinality(allowed) \in Nat
  <2>1. 1 \in Int /\ Len(s.calls) \in Int /\ allowed \subseteq 1 .. Len(s.calls)
    BY <1>4, <1>6
  <2> QED
    <3>1. IsFiniteSet(1 .. Len(s.calls))
      BY <2>1, FS_Interval
    <3>2. IsFiniteSet(allowed)
      BY <2>1, <3>1, FS_Subset
    <3> QED
      BY <3>2, FS_CardinalityType
<1> DEFINE calls == Calls(allowed)
           t == Dispatched(allowed)
<1>8. /\ calls \in Seq(ToolCalls) /\ DOMAIN calls = DOMAIN s.calls
      /\ \A i \in DOMAIN s.calls :
           /\ calls[i].tool = s.calls[i].tool
           /\ calls[i].stage = IF i \in allowed THEN "started"
                               ELSE IF i \in Group(r) THEN "done" ELSE s.calls[i].stage
  <2>1. \A i \in DOMAIN s.calls : s.calls[i] \in ToolCalls
    BY <1>6
  <2>2. \A i \in DOMAIN s.calls :
           /\ calls[i] \in ToolCalls
           /\ calls[i].tool = s.calls[i].tool
           /\ calls[i].stage = IF i \in allowed THEN "started"
                               ELSE IF i \in Group(r) THEN "done" ELSE s.calls[i].stage
    BY <2>1 DEF ToolCalls
  <2>3. calls \in [1 .. Len(s.calls) -> ToolCalls]
    BY <1>6, <2>2
  <2> QED
    BY <1>6, <2>2, <2>3
<1> HIDE DEF Calls
<1>9. /\ t \in RunStates /\ t.calls = calls /\ t.state = s.state /\ t.parent = s.parent
      /\ t.caps = s.caps /\ t.access = s.access /\ t.tools = s.tools /\ t.cancel = s.cancel
      /\ t.limit = s.limit /\ t.started = s.started /\ t.ran = s.ran
      /\ t.overspent = s.overspent /\ t.approved = s.approved /\ t.node = s.node
  BY <1>1, <1>3, <1>8 DEF RunStates
<1> HIDE DEF Dispatched
<1> DEFINE u == IF r = Top THEN t ELSE Observe(t, Cardinality(allowed))
<1>10. /\ u \in RunStates /\ u.calls = calls /\ u.state = s.state /\ u.parent = s.parent
       /\ u.caps = s.caps /\ u.access = s.access /\ u.tools = s.tools
       /\ u.limit = s.limit /\ u.ran = s.ran
       /\ u.overspent = s.overspent /\ u.approved = s.approved /\ u.node = s.node
       /\ r # Top => /\ u.started = s.started + Cardinality(allowed)
                     /\ ~u.cancel => ~(u.started > s.limit)
  <2>1. CASE r = Top
    BY <1>9, <2>1
  <2>2. CASE r # Top
    <3> DEFINE seen == t.started + Cardinality(allowed)
               late == t.cancel \/ seen > t.limit
               v == [t EXCEPT !.started = seen, !.cancel = late]
    <3>1. seen \in Nat /\ late \in BOOLEAN /\ seen = s.started + Cardinality(allowed)
          /\ (~late => ~(seen > s.limit))
      <4>1. t.started \in Nat /\ t.limit \in Nat /\ t.cancel \in BOOLEAN
        BY <1>9 DEF RunStates
      <4> QED
        BY <1>7, <1>9, <4>1
    <3>2. u = v
      BY <2>2 DEF Observe
    <3> HIDE DEF seen, late
    <3>3. /\ v \in RunStates /\ v.started = seen /\ v.cancel = late
          /\ v.calls = t.calls /\ v.state = t.state /\ v.parent = t.parent
          /\ v.caps = t.caps /\ v.access = t.access /\ v.tools = t.tools
          /\ v.limit = t.limit /\ v.ran = t.ran
          /\ v.overspent = t.overspent /\ v.approved = t.approved /\ v.node = t.node
      BY <1>9, <3>1 DEF RunStates
    <3> HIDE DEF v, u, t
    <3> QED
      BY <1>9, <2>2, <3>1, <3>2, <3>3
  <2> QED
    BY <2>1, <2>2
<1>11. run' = [run EXCEPT ![r] = u]
  BY <1>5
<1> HIDE DEF u, t, calls
<1>12. run'[r] = u /\ run' \in [Runs -> RunStates] /\ \A x \in Runs \ {r} : run'[x] = run[x]
  BY <1>1, <1>10, <1>11
<1>13. Announced(u) = allowed /\ InFlight(u) = allowed
  BY SMTT(30), <1>4, <1>8, <1>10 DEF Announced, InFlight
<1>14. InOrder(calls)
  <2> SUFFICES ASSUME NEW a \in DOMAIN calls, NEW b \in DOMAIN calls, a < b, calls[b].stage # "due"
               PROVE  \/ calls[a].stage = "done"
                      \/ /\ calls[a].stage # "due"
                         /\ IsParallel(calls[a].tool) /\ IsParallel(calls[b].tool)
    BY DEF InOrder
  <2> a \in Nat /\ b \in Nat /\ first \in Nat /\ a \in DOMAIN s.calls /\ b \in DOMAIN s.calls
    BY <1>6, <1>8
  <2>1. CASE a < first
    <3>1. a \notin Group(r) /\ s.calls[a].stage = "done"
      BY <1>4, <2>1
    <3> QED
      BY <1>8, <3>1
  <2>2. CASE ~(a < first)
    <3>1. s.calls[b].stage = "due"
      BY <1>4, <2>2
    <3>2. b \in Group(r)
      BY <1>8, <3>1
    <3>3. a \in Group(r) /\ IsParallel(s.calls[a].tool) /\ IsParallel(s.calls[b].tool)
      BY <1>4, <2>2, <3>2
    <3> QED
      BY <1>8, <3>3
  <2> QED
    BY <2>1, <2>2
<1>15. Permitted(u)
  <2> SUFFICES ASSUME NEW j \in allowed, NEW tool, tool = u.calls[j].tool
               PROVE  /\ Needs(tool) \subseteq u.caps
                      /\ Privileged(tool) => mode = "execute" /\ u.access # "read_only"
                      /\ AsksHuman(tool) => u.access = "full_access" \/ tool \in u.approved
    BY <1>13 DEF Permitted
  <2>1. tool = s.calls[j].tool /\ tool \in s.tools /\ DecisionOn(r, j) = "allow"
    BY <1>4, <1>5, <1>8, <1>10
  <2>2. Needs(tool) \subseteq s.caps
    BY <1>1, <1>3, <2>1 DEF CallsFit
  <2>3. Decision(tool, s.access, s.approved) = "allow"
    BY <1>3, <2>1 DEF DecisionOn
  <2> QED
    BY <1>1, <1>10, <2>2, <2>3, AllowMeans
<1>16. CallsFit(u)
  BY <1>1, <1>2, <1>3, <1>10, <1>14, <1>15 DEF CallsFit
<1>17. CallsFit(run[r])'
  BY <1>2, <1>12, <1>16 DEF CallsFit, Permitted
<1>18. r # Top => ChildFits(u)
  <2> SUFFICES ASSUME r # Top PROVE ChildFits(u)
    OBVIOUS
  <2>1. s \in RunStates /\ ChildFits(s) /\ s.ran + 0 <= s.started
    BY <1>1, <1>3, RanIsAnnounced
  <2>2. s.ran \in Nat /\ s.started \in Nat /\ s.limit \in Nat /\ u.started \in Nat
    BY <1>10, <2>1 DEF RunStates
  <2>3. u.ran + Cardinality(Announced(u)) <= u.started
    BY <1>7, <1>10, <1>13, <2>1, <2>2
  <2>4. ~u.cancel => u.started <= u.limit
    BY <1>10, <2>2
  <2>5. ~s.overspent /\ s.ran <= s.limit /\ s.caps \subseteq Authority
        /\ (s.node = "running" <=> s.state = "running")
        /\ (s.node = "completed" <=> s.state = "completed")
    BY <1>2, <1>3, <2>1 DEF ChildFits
  <2>6. u.state = "running"
    BY <1>2, <1>3, <1>10
  <2> QED
    BY <1>10, <2>3, <2>4, <2>5, <2>6 DEF ChildFits
<1>19. Only(r) /\ Running(r)' /\ Running(r) /\ run'[r].access = run[r].access
  BY <1>2, <1>3, <1>10, <1>12 DEF Only, Running
<1>20. NoChild(r)
  BY <1>3, <1>4, WaitsForNobody
<1> QED
  BY <1>12, <1>17, <1>18, <1>19, <1>20, StepOfOne

\* A child is started in the call of the task tool.
LEMMA DelegateKeeps ==
    ASSUME SubagentsInv, NEW r \in Runs, NEW i \in DOMAIN run[r].calls, Delegate(r, i)
    PROVE  SubagentsInv'
<1>1. run \in [Runs -> RunStates] /\ run[r] \in RunStates /\ CallsFit(run[r])
      /\ (r # Top => ChildFits(run[r]))
  BY DEF SubagentsInv, RunsType, Fits
<1>2. PICK s, body : s = run[r] /\ body = "body"
  OBVIOUS
<1>3. /\ s.state = "running" /\ s.calls[i].stage = "started" /\ ~s.cancel
      /\ s.calls[i].tool = "task" /\ UNCHANGED mode /\ i \in DOMAIN s.calls
      /\ s \in RunStates /\ CallsFit(s) /\ (r # Top => ChildFits(s))
  BY <1>1, <1>2 DEF Delegate, Running
<1> DEFINE c == Cardinality(Started)
           Parent(t) == [t EXCEPT !.kids = s.kids + 1, !.ran = IF r = Top THEN s.ran ELSE s.ran + 1]
<1>4. PICK type \in Types, request \in Requests \cup {DefaultRequest}, limit \in 1 .. MaxToolCalls :
         LET caps == ChildCaps(type, request) IN
         /\ MaySpawn(r, caps) /\ c \in Runs
         /\ run' = [run EXCEPT
                      ![r].calls[i].stage = "body",
                      ![r].kids = @ + 1,
                      ![r].ran = IF r = Top THEN @ ELSE @ + 1,
                      ![c] = NewChild(r, type, caps, limit)]
  BY DEF Delegate
<1>5. PICK caps : caps = ChildCaps(type, request)
  OBVIOUS
<1>6. caps \subseteq Authority /\ caps \subseteq Capabilities
  BY <1>4, <1>5 DEF MaySpawn
<1>7. PICK n \in Runs : Started = 0 .. n
  BY DEF SubagentsInv, Numbered
<1>8. c = n + 1 /\ c \notin Started /\ r \in Started /\ c # r /\ c # Top /\ r < c /\ c \in Runs
  <2>1. 0 \in Int /\ n \in Int
    BY <1>7
  <2>2. c = n + 1
    BY <1>7, <2>1, FS_Interval
  <2>3. r \in Started
    BY <1>2, <1>3 DEF Started
  <2> QED
    BY <1>4, <1>7, <2>2, <2>3
<1> HIDE DEF c
<1>9. PICK t : t = AtStage(s, i, body)
  OBVIOUS
<1>10. /\ run'[r] = Parent(t) /\ run'[c] = NewChild(r, type, caps, limit)
       /\ \A x \in Runs \ {r, c} : run'[x] = run[x]
  BY <1>1, <1>2, <1>4, <1>5, <1>8, <1>9 DEF AtStage
<1>11. DOMAIN run' = Runs /\ run' = [x \in Runs |-> run'[x]]
  BY <1>1, <1>4
<1>12. /\ CallsFit(t) /\ \A j \in DOMAIN s.calls : j # i => t.calls[j] = s.calls[j]
       /\ DOMAIN t.calls = DOMAIN s.calls /\ t \in RunStates
       /\ t.state = s.state /\ t.parent = s.parent /\ t.caps = s.caps /\ t.access = s.access
       /\ t.tools = s.tools /\ t.approved = s.approved
  BY <1>2, <1>3, <1>9, StagedFits
<1>13. t.calls[i] = TaskBody
  <2>1. s.calls \in Seq(ToolCalls)
    BY <1>3 DEF RunStates
  <2>2. s.calls[i] \in ToolCalls
    BY <1>3, <2>1
  <2>3. s.calls[i] = [tool |-> "task", stage |-> "started"]
    BY <1>3, <2>2 DEF ToolCalls
  <2>4. t.calls[i] = [s.calls[i] EXCEPT !.stage = "body"]
    <3>1. Moves(s, t, i, body)
      BY <1>2, <1>3, <1>9, StagedRun
    <3> QED
      BY <1>2, <1>3, <2>1, <3>1 DEF Moves
  <2> QED
    BY <2>3, <2>4 DEF TaskBody
<1> DEFINE u == Parent(t)
           v == NewChild(r, type, caps, limit)
<1>14. AlikeBut(t, u) /\ (r # Top => u.ran = s.ran + 1)
  <2> DEFINE kids == s.kids + 1
             ran == IF r = Top THEN s.ran ELSE s.ran + 1
  <2>1. kids \in Nat /\ ran \in Nat
    <3>1. s \in RunStates
      BY <1>3
    <3>2. s.kids \in Nat /\ s.ran \in Nat
      BY <3>1 DEF RunStates
    <3> QED
      BY <3>2
  <2>2. u = [t EXCEPT !.kids = kids, !.ran = ran] /\ (r # Top => ran = s.ran + 1)
    OBVIOUS
  <2> HIDE DEF kids, ran
  <2> QED
    BY <1>12, <2>1, <2>2 DEF AlikeBut, RunStates
<1>15. /\ v \in RunStates /\ v.state = "running" /\ v.parent = r /\ v.caps = caps
       /\ v.access = NarrowAccess(run[r].access, caps) /\ v.tools = Registry(type, caps)
       /\ v.limit = limit /\ v.node = "running" /\ v.calls = <<>> /\ v.ran = 0
       /\ v.started = 0 /\ ~v.overspent
  <2>1. NarrowAccess(run[r].access, caps) \in AccessModes
    BY <1>1, NarrowIs DEF RunStates
  <2>2. Registry(type, caps) \subseteq Tools
    BY DEF Registry
  <2>3. limit \in Nat
    OBVIOUS
  <2>4. NoRun.calls = <<>> /\ NoRun.ran = 0 /\ NoRun.started = 0 /\ ~NoRun.overspent
    BY DEF NoRun
  <2> HIDE DEF NoRun
  <2>5. NoRun \in RunStates
    BY NoRunType
  <2> QED
    BY <1>6, <2>1, <2>2, <2>3, <2>4, <2>5 DEF RunStates, NewChild
<1> HIDE DEF Parent
<1>16. run' \in [Runs -> RunStates]
  <2>1. \A x \in Runs : run'[x] \in RunStates
    BY <1>1, <1>10, <1>14, <1>15 DEF AlikeBut
  <2> QED
    BY <1>11, <2>1
<1>17. CallsFit(u) /\ CallsFit(v) /\ Cardinality(Announced(v)) = 0
  <2>1. CallsFit(u)
    BY <1>12, <1>14 DEF AlikeBut, CallsFit, Permitted, InFlight
  <2>2. \A tool \in v.tools : Needs(tool) \subseteq v.caps
    BY <1>15 DEF Registry
  <2> QED
    BY <1>15, <2>1, <2>2, DueFits
<1>18. r # Top => ChildFits(u)
  <2>1. s.calls[i].stage \in {"started", "body"} /\ body \in {"body", "done"}
    BY <1>2, <1>3
  <2> QED
    BY <1>2, <1>3, <1>9, <1>14, <2>1, BodyFits
<1>19. ChildFits(v)
  BY <1>6, <1>15, <1>17 DEF ChildFits
<1>20. Fits'
  <2>1. \A x \in Runs : CallsFit(run'[x]) /\ (x # Top => ChildFits(run'[x]))
    BY <1>8, <1>10, <1>17, <1>18, <1>19 DEF SubagentsInv, Fits
  <2> QED
    BY <1>3, <2>1 DEF Fits, CallsFit, Permitted
<1>21. Started' = Started \cup {c}
  BY SMTT(30), <1>2, <1>3, <1>8, <1>10, <1>12, <1>14, <1>15 DEF Started, AlikeBut
<1>22. \A x \in Started : run'[x].parent = run[x].parent /\ run'[x].state = run[x].state
                          /\ run'[x].access = run[x].access
  BY <1>2, <1>8, <1>10, <1>12, <1>14 DEF AlikeBut, Started
<1>23. Numbered'
  <2>1. Started' = 0 .. n + 1 /\ n + 1 \in Runs
    BY <1>7, <1>8, <1>21
  <2>2. ASSUME NEW x \in Started' \ {Top}
        PROVE  run'[x].parent \in Started' /\ run'[x].parent < x
    <3>1. CASE x = c
      BY <1>8, <1>10, <1>15, <1>21, <3>1
    <3>2. CASE x # c
      BY <1>21, <1>22, <3>2 DEF SubagentsInv, Numbered
    <3> QED
      BY <3>1, <3>2
  <2> QED
    BY <2>1, <2>2 DEF Numbered
<1>24. NoChild(r)
  <2>1. \A j \in DOMAIN s.calls : s.calls[j].stage # "body"
    <3> SUFFICES ASSUME NEW j \in DOMAIN s.calls, s.calls[j].stage = "body" PROVE FALSE
      OBVIOUS
    <3>1. DOMAIN s.calls = 1 .. Len(s.calls) /\ Len(s.calls) \in Nat
      BY <1>3 DEF RunStates
    <3>2. ~IsParallel(s.calls[i].tool)
      BY <1>3 DEF IsParallel
    <3>3. j < i \/ i < j
      BY SMTT(30), <1>3, <3>1
    <3> QED
      BY <1>3, <3>2, <3>3 DEF CallsFit, InOrder
  <2> QED
    BY <1>2, <2>1, WaitsForNobody
<1>25. Nested'
  <2> SUFFICES ASSUME NEW x \in Started' \ {Top}, run'[x].state = "running", NEW p, p = run'[x].parent
               PROVE  /\ run'[p].state = "running" /\ InTask(run'[p])
                      /\ Rank(run'[x].access) <= Rank(run'[p].access)
                      /\ \A d \in Started' \ {Top} :
                            run'[d].state = "running" /\ run'[d].parent = p => d = x
    BY DEF Nested, Running
  <2>1. CASE x = c
    <3>1. p = r /\ run'[p] = u
      BY <1>10, <1>15, <2>1
    <3>2. u.state = "running" /\ InTask(u) /\ u.access = run[r].access
      BY <1>2, <1>3, <1>12, <1>13, <1>14 DEF AlikeBut, InTask
    <3>3. Rank(run'[x].access) <= Rank(u.access)
      <4>1. run[r].access \in AccessModes
        BY <1>1 DEF RunStates
      <4>2. run'[x].access = NarrowAccess(run[r].access, caps)
        BY <1>10, <1>15, <2>1
      <4> QED
        BY <3>2, <4>1, <4>2, NarrowIs
    <3>4. \A d \in Started \ {Top} : run'[d].state = "running" => run'[d].parent # r
      BY <1>22, <1>24 DEF NoChild, Running
    <3> QED
      BY <1>21, <2>1, <3>1, <3>2, <3>3, <3>4
  <2>2. CASE x # c
    <3>1. x \in Started \ {Top} /\ Running(x) /\ p = run[x].parent /\ p # r
      BY <1>21, <1>22, <1>24, <2>2 DEF NoChild, Running
    <3>2. /\ Running(p) /\ InTask(run[p]) /\ Rank(run[x].access) <= Rank(run[p].access)
          /\ \A d \in Started \ {Top} : Running(d) /\ run[d].parent = p => d = x
      BY <3>1 DEF SubagentsInv, Nested
    <3>3. p \in Started /\ Started \subseteq Runs
      BY <3>1 DEF SubagentsInv, Numbered, Started
    <3>4. run'[p] = run[p] /\ run'[c].parent # p
      BY <1>8, <1>10, <1>15, <3>1, <3>3
    <3> QED
      BY <1>21, <1>22, <3>1, <3>2, <3>3, <3>4 DEF Running
  <2> QED
    BY <2>1, <2>2
<1>26. RunsType'
  BY <1>3, <1>16 DEF RunsType, SubagentsInv
<1> QED
  BY <1>20, <1>23, <1>25, <1>26 DEF SubagentsInv

LEMMA SubagentsStart == TreeInit => SubagentsInv
<1> SUFFICES ASSUME TreeInit PROVE SubagentsInv
  OBVIOUS
<1> DEFINE t == [NoRun EXCEPT !.state = "running", !.caps = Capabilities,
                              !.access = access, !.tools = Tools]
<1>1. run = [r \in Runs |-> IF r = Top THEN t ELSE NoRun]
  BY DEF TreeInit
<1>2. NoRun.state = "none" /\ NoRun.calls = <<>>
  BY DEF NoRun
<1> HIDE DEF NoRun
<1>3. /\ t \in RunStates /\ t.state = "running" /\ t.calls = <<>> /\ t.caps = Capabilities
      /\ t.tools = Tools
  BY <1>2, NoRunType DEF TreeInit, RunStates
<1> HIDE DEF t
<1>4. \A tool \in Tools : Needs(tool) \subseteq Capabilities
  BY DEF Needs, Capabilities
<1>5. CallsFit(t)
  <2>1. t.state # "suspended" /\ \A i \in DOMAIN t.calls : t.calls[i].stage = "due"
    BY <1>3
  <2>2. \A tool \in t.tools : Needs(tool) \subseteq t.caps
    BY <1>3, <1>4
  <2> QED
    BY <2>1, <2>2, DueFits
<1>6. RunsType /\ Fits
  BY <1>1, <1>3, <1>5, NoRunType DEF TreeInit, RunsType, Fits
<1>7. Started = {0} /\ 0 .. 0 = {0} /\ 0 \in Runs
  BY <1>1, <1>2, <1>3 DEF Started
<1> QED
  BY <1>6, <1>7 DEF SubagentsInv, Numbered, Nested

\* Every step keeps the invariant.
LEMMA SubagentsStep == SubagentsInv /\ [TreeNext]_treeVars => SubagentsInv'
<1> SUFFICES ASSUME SubagentsInv, [TreeNext]_treeVars PROVE SubagentsInv'
  OBVIOUS
<1>1. CASE TreeNext
  <2>1. CASE UserCancel
    BY <2>1, SignalKeeps
  <2>2. ASSUME NEW r \in Runs,
               \/ Propose(r) \/ Complete(r) \/ Fail(r) \/ Overspend(r)
               \/ Dispatch(r) \/ Ask(r)
               \/ Timeout(r) \/ Interrupt(r)
               \/ ResolveApproval(r) \/ Resume(r) \/ Abandon(r)
        PROVE  SubagentsInv'
    BY <2>2, RestartKeeps, EndingKeeps, SignalKeeps, DispatchKeeps, AskKeeps
  <2>3. ASSUME NEW r \in Runs, NEW i \in DOMAIN run[r].calls,
               \/ BeginTool(r, i) \/ FinishTool(r, i)
               \/ Delegate(r, i) \/ DenyDelegation(r, i)
        PROVE  SubagentsInv'
    BY <2>3, ToolKeeps, DelegateKeeps
  <2> QED
    BY <1>1, <2>1, <2>2, <2>3 DEF TreeNext
<1>2. CASE UNCHANGED treeVars
  BY <1>2 DEF treeVars, SubagentsInv, RunsType, Numbered, Fits, Nested, CallsFit, Permitted, Started,
       Running
<1> QED
  BY <1>1, <1>2

\* Every reachable tree of runs keeps the budgets, the order of calls, the
\* delegated authority and the nesting of its runs together: none of them is
\* inductive alone, as a child is started from what its parent's calls say.
THEOREM SubagentsInvariance == TreeSpec => []SubagentsInv
<1> QED
  BY SubagentsStart, SubagentsStep, PTL DEF TreeSpec

\* For any budget, any tools and any number of parallel calls, a child executes no
\* more tool bodies than its budget: an announced call that does not fit sets the
\* cancel event before any later body begins (DelegationBudget, dispatch).
THEOREM BudgetHoldsCorrect == TreeSpec => []BudgetHolds
<1>1. SubagentsInv => BudgetHolds
  BY DEF SubagentsInv, Fits, ChildFits, BudgetHolds, Started
<1> QED
  BY <1>1, SubagentsInvariance, PTL

\* The invariant bounds what any run of the tree may do.
LEMMA NarrowsNow == SubagentsInv => AuthorityNarrows
<1> SUFFICES ASSUME SubagentsInv, NEW r \in Started PROVE
      /\ r # Top =>
            /\ run[r].caps \subseteq Authority
            /\ Rank(run[r].access) <= Rank(run[run[r].parent].access)
      /\ \A i \in DOMAIN run[r].calls :
            LET t == run[r].calls[i].tool IN
            run[r].calls[i].stage = "body" =>
                /\ Needs(t) \subseteq run[r].caps
                /\ Privileged(t) => mode = "execute" /\ run[r].access # "read_only"
                /\ AsksHuman(t) => run[r].access = "full_access" \/ t \in run[r].approved
  BY DEF AuthorityNarrows
<1>1. r \in Runs /\ CallsFit(run[r]) /\ (r # Top => ChildFits(run[r]))
  BY DEF SubagentsInv, Fits, Started
<1>2. ASSUME r # Top PROVE Rank(run[r].access) <= Rank(run[run[r].parent].access)
  <2>1. CASE Running(r)
    BY <1>2, <2>1 DEF SubagentsInv, Nested
  <2>2. CASE ~Running(r)
    <3>1. run[r].access = "read_only"
      BY <1>1, <1>2, <2>2 DEF ChildFits, Running
    <3>2. run[run[r].parent].access \in AccessModes
      BY <1>1 DEF SubagentsInv, RunsType, RunStates
    <3> QED
      BY <3>1, <3>2, RankIs
  <2> QED
    BY <2>1, <2>2
<1> QED
  BY <1>1, <1>2 DEF CallsFit, ChildFits, Permitted, InFlight

\* However deep the tree and whatever its runs request, what a child may do is
\* within the delegated capabilities and its parent's access mode, and a tool body
\* under way is allowed by what the policy knew when it was announced
\* (narrow_access, Registry, the decision in dispatch).
THEOREM AuthorityNarrowsCorrect == TreeSpec => []AuthorityNarrows
<1> QED
  BY NarrowsNow, SubagentsInvariance, PTL

\* The invariant nests the runs.
LEMMA NestedNow == SubagentsInv => TreeIsNested
<1> SUFFICES ASSUME SubagentsInv, NEW c \in Started \ {Top} PROVE
      /\ run[c].node = "running" <=> Running(c)
      /\ run[c].node = "completed" <=> run[c].state = "completed"
      /\ Running(c) =>
            /\ Running(run[c].parent)
            /\ ActiveChildren(run[c].parent) = {c}
            /\ \E i \in DOMAIN run[run[c].parent].calls :
                  run[run[c].parent].calls[i] = [tool |-> "task", stage |-> "body"]
  BY DEF TreeIsNested
<1>1. ChildFits(run[c])
  BY DEF SubagentsInv, Fits, Started
<1>2. ASSUME Running(c)
      PROVE  /\ Running(run[c].parent) /\ InTask(run[run[c].parent])
             /\ ActiveChildren(run[c].parent) = {c}
  BY <1>2 DEF SubagentsInv, Nested, ActiveChildren, Children
<1> QED
  BY <1>1, <1>2 DEF ChildFits, Running, InTask, TaskBody

\* For any tree a running child has a running parent, inside a task call in which it
\* is the only child, and its node in the task graph runs exactly as long
\* (SubagentTool.run and what it awaits).
THEOREM TreeIsNestedCorrect == TreeSpec => []TreeIsNested
<1> QED
  BY NestedNow, SubagentsInvariance, PTL
====
