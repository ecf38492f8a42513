---------------------------- MODULE Hosting_proofs ----------------------------
(***************************************************************************)
(* Proofs about the process that hosts the runs, and what it lets run.     *)
(*                                                                         *)
(* Worker, for any number of sessions, runs, frames and pool threads: what *)
(* the registry of the supervisor excludes, and what a worker that exits   *)
(* has reported.                                                           *)
(*                                                                         *)
(* Skills, Plugins and Hooks, for any number of documents, manifests,      *)
(* directories, hosts and handlers: a run is given the skills that were    *)
(* trusted when it was built (for one process that changes the lockfile at *)
(* a time), a plugin runs as it was trusted when it was started, and a     *)
(* hook that mutates runs only in an emission that was allowed.            *)
(***************************************************************************)
EXTENDS Worker, Skills, Plugins, Hooks, FiniteSetTheorems, TLAPS

-----------------------------------------------------------------------------
(* The worker.                                                             *)

WorkerType ==
    /\ incoming \in Seq(Frames \cup Marks)
    /\ backlog \in Seq(RunIds)
    /\ running \subseteq RunIds
    /\ done \subseteq RunIds
    /\ byRun \in [RunIds -> Sessions \cup {None}]
    /\ bySession \in [Sessions -> RunIds \cup {None}]

\* A registered run is the run of its session.
Registered == \A r \in RunIds : byRun[r] # None => bySession[byRun[r]] = r

Items(b) == {b[i] : i \in DOMAIN b}
Distinct(b) == \A i, j \in DOMAIN b : b[i] = b[j] => i = j

\* A run waits, executes or is done, one of them, and is registered as long.
OnePlace ==
    /\ running \cup Waiting \cup done \subseteq Active
    /\ running \cap done = {}
    /\ Waiting \cap (running \cup done) = {}
    /\ Distinct(backlog)

\* While a request abandons a run its session has no registered run.
Abandoned ==
    /\ handling # NoRunWork => pc = "handle"
    /\ handling.work = "abandon" /\ handling.request =>
          handling.session \in Sessions /\ bySession[handling.session] = None

\* An acknowledged run whose end is not told is not over, or its end is in the queue
\* of notifications or of failures; and the queues are empty once nothing is active.
Answered ==
    /\ owed \subseteq running \cup Waiting \cup notes \cup failed
    /\ failed \subseteq done
    /\ pc # "emit" => notes \subseteq done
    /\ pc \in {"closing", "waiting", "exited"} /\ code = 0 => Active = {} /\ owed = {}

WorkerInv == WorkerType /\ Registered /\ OnePlace /\ Abandoned /\ Answered
-----------------------------------------------------------------------------
USE WorkerAssumption

LEMMA Enqueued ==
    ASSUME NEW b \in Seq(RunIds), NEW r \in RunIds, r \notin Items(b), Distinct(b)
    PROVE  /\ Append(b, r) \in Seq(RunIds)
           /\ Items(Append(b, r)) = Items(b) \cup {r}
           /\ Distinct(Append(b, r))
<1>1. /\ DOMAIN Append(b, r) = 1 .. Len(b) + 1
      /\ \A i \in 1 .. Len(b) : Append(b, r)[i] = b[i]
      /\ Append(b, r)[Len(b) + 1] = r
      /\ DOMAIN b = 1 .. Len(b) /\ Len(b) \in Nat
  OBVIOUS
<1>2. 1 .. Len(b) + 1 = (1 .. Len(b)) \cup {Len(b) + 1}
  BY <1>1
<1>3. Items(Append(b, r)) = Items(b) \cup {r}
  BY <1>1, <1>2 DEF Items
<1>4. Distinct(Append(b, r))
  BY <1>1, <1>2 DEF Items, Distinct
<1> QED
  BY <1>3, <1>4

LEMMA Dequeued ==
    ASSUME NEW b \in Seq(RunIds), b # <<>>, Distinct(b)
    PROVE  /\ Head(b) \in Items(b) /\ Head(b) \in RunIds
           /\ Tail(b) \in Seq(RunIds)
           /\ Items(Tail(b)) = Items(b) \ {Head(b)}
           /\ Distinct(Tail(b))
<1>1. /\ Len(b) \in Nat \ {0} /\ DOMAIN b = 1 .. Len(b)
      /\ DOMAIN Tail(b) = 1 .. Len(b) - 1
      /\ \A i \in 1 .. Len(b) - 1 : Tail(b)[i] = b[i + 1]
      /\ Head(b) = b[1] /\ Tail(b) \in Seq(RunIds)
  OBVIOUS
<1>2. Head(b) \in Items(b) /\ Head(b) \in RunIds
  BY <1>1 DEF Items
<1>3. \A i \in 1 .. Len(b) - 1 : i + 1 \in 1 .. Len(b) /\ i + 1 # 1
  BY <1>1
<1>4. \A i \in 2 .. Len(b) : i - 1 \in 1 .. Len(b) - 1 /\ (i - 1) + 1 = i
  BY <1>1
<1>5. 1 \in DOMAIN b /\ \A i \in DOMAIN b : i = 1 \/ i \in 2 .. Len(b)
  BY <1>1
<1>6. Items(Tail(b)) = Items(b) \ {Head(b)}
  <2>1. ASSUME NEW i \in 1 .. Len(b) - 1 PROVE Tail(b)[i] \in Items(b) \ {Head(b)}
    BY <1>1, <1>3, <1>5 DEF Items, Distinct
  <2>2. ASSUME NEW i \in 2 .. Len(b) PROVE b[i] \in Items(Tail(b))
    <3>1. Tail(b)[i - 1] = b[i] /\ i - 1 \in DOMAIN Tail(b)
      BY <1>1, <1>4
    <3> QED
      BY <3>1 DEF Items
  <2> QED
    BY <1>1, <1>5, <2>1, <2>2 DEF Items
<1>7. Distinct(Tail(b))
  <2> SUFFICES ASSUME NEW i \in DOMAIN Tail(b), NEW j \in DOMAIN Tail(b), Tail(b)[i] = Tail(b)[j]
               PROVE  i = j
    BY DEF Distinct
  <2>1. b[i + 1] = b[j + 1] /\ i + 1 \in DOMAIN b /\ j + 1 \in DOMAIN b
    BY <1>1, <1>3
  <2>2. i + 1 = j + 1
    BY <2>1 DEF Distinct
  <2> QED
    BY <1>1, <2>2
<1> QED
  BY <1>1, <1>2, <1>6, <1>7

LEMMA Started == Init => WorkerInv
BY DEF Init, WorkerInv, WorkerType, Registered, OnePlace, Abandoned, Answered, Waiting, Active,
   Distinct, NoRunWork

\* A frame that asks for a run names a session and a run.
LEMMA RunFrame ==
    ASSUME WorkerType, NEW m \in {"run", "cancel"}, Take(m)
    PROVE  Head(incoming).session \in Sessions /\ Head(incoming).run \in RunIds
<1>1. Head(incoming).method = m /\ incoming # <<>> /\ incoming \in Seq(Frames \cup Marks)
  BY DEF WorkerType, Take
<1>2. Head(incoming) \in Frames \cup Marks
  BY <1>1
<1> QED
  BY <1>1, <1>2 DEF Frames, Marks

\* Steps that neither start nor end a run, nor forget one.
LEMMA ClientKeeps == ASSUME WorkerInv, ClientStep PROVE WorkerInv'
<1>1. UNCHANGED <<pc, handling, code, registry, pool, report>>
  BY DEF ClientStep, Send, EndStream
<1>2. PICK f \in Frames \cup Marks : incoming' = Append(incoming, f)
  BY DEF ClientStep, Send, EndStream
<1>3. incoming' \in Seq(Frames \cup Marks)
  <2> DEFINE F == Frames \cup Marks
  <2>1. incoming \in Seq(F) /\ f \in F
    BY DEF WorkerInv, WorkerType
  <2> HIDE DEF F
  <2>2. Append(incoming, f) \in Seq(F)
    BY <2>1
  <2> QED
    BY <1>2, <2>2 DEF F
<1> QED
  BY <1>1, <1>3 DEF WorkerInv, WorkerType, Registered, OnePlace, Abandoned, Answered, Waiting,
     Active, Distinct, registry, pool, report

LEMMA LoopKeeps ==
    ASSUME WorkerInv,
           \/ NothingToRead \/ ReadEof \/ ReadFrameError \/ ReadMalformed \/ ReadInitialize
           \/ ReadShutdown \/ ReadCommand \/ CloseSupervisor \/ ExitProcess
    PROVE  WorkerInv'
<1>1. UNCHANGED <<handling, registry, backlog, running, done, failed, report>>
  BY DEF NothingToRead, ReadEof, ReadFrameError, ReadMalformed, ReadInitialize, ReadShutdown,
     ReadCommand, CloseSupervisor, ExitProcess, Take, registry, pool, report
<1>2. /\ pc \notin {"emit", "handle"} /\ pc' # "emit"
      /\ pc' \in {"closing", "waiting", "exited"} /\ code' = 0 =>
            pc \in {"closing", "waiting", "exited"} /\ code = 0
  BY DEF NothingToRead, ReadEof, ReadFrameError, ReadMalformed, ReadInitialize, ReadShutdown,
     ReadCommand, CloseSupervisor, ExitProcess, Take
<1>3. incoming' \in Seq(Frames \cup Marks)
  <2>1. incoming' = incoming \/ (incoming # <<>> /\ incoming' = Tail(incoming))
    BY DEF NothingToRead, ReadEof, ReadFrameError, ReadMalformed, ReadInitialize, ReadShutdown,
       ReadCommand, CloseSupervisor, ExitProcess, Take
  <2> DEFINE F == Frames \cup Marks
  <2>2. incoming \in Seq(F)
    BY DEF WorkerInv, WorkerType
  <2> HIDE DEF F
  <2>3. incoming' \in Seq(F)
    BY <2>1, <2>2
  <2> QED
    BY <2>3 DEF F
<1> QED
  BY <1>1, <1>2, <1>3 DEF WorkerInv, WorkerType, Registered, OnePlace, Abandoned, Answered,
     Waiting, Active, Distinct, registry, pool, report

\* Only forgetting the done runs frees their sessions, and nothing is abandoned then.
LEMMA FinishKeeps == ASSUME WorkerInv, FinishRuns PROVE WorkerInv'
<1>1. WorkerType'
  BY DEF FinishRuns, WorkerInv, WorkerType
<1>2. Registered'
  BY DEF FinishRuns, WorkerInv, WorkerType, Registered
<1>3. OnePlace'
  BY DEF FinishRuns, WorkerInv, WorkerType, OnePlace, Active, Waiting, Distinct
<1>4. Abandoned' /\ Answered'
  BY DEF FinishRuns, WorkerInv, Abandoned, Answered, Waiting
<1> QED
  BY <1>1, <1>2, <1>3, <1>4 DEF WorkerInv

LEMMA ReportKeeps == ASSUME WorkerInv, EmitNotifications \/ CheckExit \/ Handled PROVE WorkerInv'
<1>1. UNCHANGED <<incoming, code, registry, backlog, running, done, failed>>
  BY DEF EmitNotifications, CheckExit, Handled, registry, pool
<1>2. WorkerType' /\ Registered' /\ OnePlace'
  BY <1>1 DEF WorkerInv, WorkerType, Registered, OnePlace, Active, Waiting, Distinct, registry
<1>3. Abandoned'
  <2>1. CASE EmitNotifications \/ CheckExit
    BY <1>1, <2>1 DEF EmitNotifications, CheckExit, WorkerInv, Abandoned, registry
  <2>2. CASE Handled
    BY <2>2 DEF Handled, Abandoned, NoRunWork
  <2> QED
    BY <2>1, <2>2
<1>4. Answered'
  <2>1. CASE CheckExit
    <3>1. UNCHANGED <<notes, owed>> /\ (pc' = "closing" => Active = {}) /\ pc' \in {"closing", "get"}
      BY <2>1 DEF CheckExit, report
    <3>2. pc = "check" /\ notes \subseteq done
      BY <2>1 DEF CheckExit, WorkerInv, Answered
    <3>3. pc' = "closing" => owed = {}
      BY <3>1, <3>2 DEF WorkerInv, Answered, OnePlace
    <3> QED
      BY <1>1, <3>1, <3>2, <3>3 DEF WorkerInv, Answered, Active, Waiting, registry
  <2>2. CASE EmitNotifications \/ Handled
    BY <1>1, <2>2 DEF EmitNotifications, Handled, WorkerInv, Answered, Active, Waiting, registry
  <2> QED
    BY <2>1, <2>2
<1> QED
  BY <1>2, <1>3, <1>4 DEF WorkerInv

LEMMA CancelKeeps == ASSUME WorkerInv, ReadCancel PROVE WorkerInv'
<1> DEFINE s == Head(incoming).session
<1>1. s \in Sessions
  BY RunFrame DEF ReadCancel, WorkerInv
<1>2. UNCHANGED <<code, registry, backlog, running, done, failed, report>>
  BY DEF ReadCancel, registry, report
<1>3. /\ pc = "get" /\ pc' \in {"drain", "handle"}
      /\ incoming # <<>> /\ incoming' = Tail(incoming)
  BY DEF ReadCancel, Take
<1>4. Abandoned'
  <2>1. \/ handling' = handling
        \/ /\ pc' = "handle" /\ bySession[s] = None
           /\ \/ handling' = NoRunWork
              \/ handling' = [work |-> "abandon", session |-> s, request |-> TRUE]
    BY DEF ReadCancel
  <2> QED
    BY <1>1, <1>2, <1>3, <2>1 DEF WorkerInv, Abandoned, NoRunWork, registry
<1> QED
  BY <1>2, <1>3, <1>4 DEF WorkerInv, WorkerType, Registered, OnePlace, Answered, Active, Waiting,
     Distinct, registry, report

\* What handle() does for a notification changes nothing in the registry.
LEMMA NotificationKeeps == ASSUME WorkerInv, ReadNotification PROVE WorkerInv'
<1>1. UNCHANGED <<code, registry, backlog, running, done, failed, report>>
  BY DEF ReadNotification, pool
<1>2. /\ pc = "get" /\ pc' = "handle"
      /\ incoming # <<>> /\ incoming' = Tail(incoming)
  BY DEF ReadNotification, Take
<1>3. Abandoned'
  <2>1. handling' = NoRunWork \/ ~handling'.request
    BY DEF ReadNotification
  <2> QED
    BY <1>2, <2>1 DEF Abandoned, NoRunWork
<1> QED
  BY <1>1, <1>2, <1>3 DEF WorkerInv, WorkerType, Registered, OnePlace, Answered, Active, Waiting,
     Distinct, registry, report

\* A run is registered only if neither its id nor its session is.
LEMMA SubmitKeeps == ASSUME WorkerInv, ReadRun PROVE WorkerInv'
<1> DEFINE s == Head(incoming).session
           r == Head(incoming).run
<1>1. s \in Sessions /\ r \in RunIds
  BY RunFrame DEF ReadRun, WorkerInv
<1>2. /\ pc = "get" /\ pc' = "drain"
      /\ incoming # <<>> /\ incoming' = Tail(incoming)
      /\ UNCHANGED <<handling, code, running, done, failed, notes>>
  BY DEF ReadRun, Take
<1>3. incoming' \in Seq(Frames \cup Marks) /\ handling = NoRunWork
  BY <1>2 DEF WorkerInv, WorkerType, Abandoned
<1>4. CASE bySession[s] = None /\ byRun[r] = None
  <2>1. /\ byRun' = [byRun EXCEPT ![r] = s]
        /\ bySession' = [bySession EXCEPT ![s] = r]
        /\ backlog' = Append(backlog, r)
        /\ owed' = owed \cup {r}
    BY <1>4 DEF ReadRun
  <2> HIDE DEF s, r
  <2>2. r \notin running \cup Waiting \cup done
    BY <1>4 DEF WorkerInv, OnePlace, Active
  <2>3. backlog' \in Seq(RunIds) /\ Waiting' = Waiting \cup {r} /\ Distinct(backlog')
    <3>1. backlog \in Seq(RunIds) /\ Distinct(backlog) /\ r \notin Items(backlog)
      BY <2>2 DEF WorkerInv, WorkerType, OnePlace, Waiting, Items
    <3>2. /\ Append(backlog, r) \in Seq(RunIds) /\ Distinct(Append(backlog, r))
          /\ Items(Append(backlog, r)) = Items(backlog) \cup {r}
      BY <1>1, <3>1, Enqueued
    <3> QED
      BY <2>1, <3>2 DEF Waiting, Items
  <2>4. WorkerType'
    BY <1>1, <1>2, <1>3, <2>1, <2>3 DEF WorkerInv, WorkerType
  <2>5. Registered'
    BY <1>1, <1>4, <2>1 DEF WorkerInv, WorkerType, Registered
  <2>6. Active' = Active \cup {r}
    BY <1>1, <2>1 DEF WorkerInv, WorkerType, Active
  <2>7. OnePlace'
    BY <1>2, <2>2, <2>3, <2>6 DEF WorkerInv, OnePlace
  <2>8. Abandoned' /\ Answered'
    BY <1>2, <1>3, <2>1, <2>3 DEF WorkerInv, Abandoned, Answered, NoRunWork
  <2> QED
    BY <2>4, <2>5, <2>7, <2>8 DEF WorkerInv
<1>5. CASE ~(bySession[s] = None /\ byRun[r] = None)
  <2>1. UNCHANGED <<registry, backlog, owed>>
    BY <1>5 DEF ReadRun
  <2> QED
    BY <1>2, <1>3, <2>1 DEF WorkerInv, WorkerType, Registered, OnePlace, Abandoned, Answered, Active,
       Waiting, Distinct, registry
<1> QED
  BY <1>4, <1>5

LEMMA PickUpKeeps == ASSUME WorkerInv, PickUp PROVE WorkerInv'
<1>1. /\ backlog # <<>> /\ running' = running \cup {Head(backlog)} /\ backlog' = Tail(backlog)
      /\ UNCHANGED <<incoming, pc, handling, code, byRun, bySession, done, failed, notes, owed>>
  BY DEF PickUp, registry, report
<1>2. /\ Head(backlog) \in Waiting /\ Head(backlog) \in RunIds
      /\ backlog' \in Seq(RunIds) /\ Waiting' = Waiting \ {Head(backlog)} /\ Distinct(backlog')
  BY <1>1, Dequeued DEF WorkerInv, WorkerType, OnePlace, Waiting, Items
<1>3. Active' = Active
  BY <1>1 DEF Active
<1>4. WorkerType' /\ Registered' /\ Abandoned'
  BY <1>1, <1>2 DEF WorkerInv, WorkerType, Registered, Abandoned
<1>5. OnePlace'
  BY <1>1, <1>2, <1>3 DEF WorkerInv, OnePlace
<1>6. Answered'
  BY <1>1, <1>2, <1>3 DEF WorkerInv, Answered
<1> QED
  BY <1>4, <1>5, <1>6 DEF WorkerInv

LEMMA EndRunKeeps == ASSUME WorkerInv, NEW r \in RunIds, EndRun(r) PROVE WorkerInv'
<1>1. /\ r \in running /\ running' = running \ {r} /\ done' = done \cup {r}
      /\ UNCHANGED <<incoming, pc, handling, code, byRun, bySession, backlog, owed>>
      /\ \/ notes' = notes \cup {r} /\ failed' = failed
         \/ failed' = failed \cup {r} /\ notes' = notes
  BY DEF EndRun, registry
<1>2. Active' = Active /\ Waiting' = Waiting
  BY <1>1 DEF Active, Waiting
<1>3. WorkerType' /\ Registered' /\ Abandoned'
  BY <1>1 DEF WorkerInv, WorkerType, Registered, Abandoned
<1>4. OnePlace'
  BY <1>1, <1>2 DEF WorkerInv, OnePlace, Distinct
<1>5. Answered'
  BY <1>1, <1>2 DEF WorkerInv, Answered, OnePlace
<1> QED
  BY <1>3, <1>4, <1>5 DEF WorkerInv

LEMMA Inductive == WorkerInv /\ [Next]_vars => WorkerInv'
<1> SUFFICES ASSUME WorkerInv, [Next]_vars PROVE WorkerInv'
  OBVIOUS
<1>1. CASE ClientStep
  BY <1>1, ClientKeeps
<1>2. CASE MainStep
  BY <1>2, LoopKeeps, FinishKeeps, ReportKeeps, CancelKeeps, SubmitKeeps,
     NotificationKeeps DEF MainStep
<1>3. CASE PickUp
  BY <1>3, PickUpKeeps
<1>4. ASSUME NEW r \in RunIds, EndRun(r) PROVE WorkerInv'
  BY <1>4, EndRunKeeps
<1>5. CASE UNCHANGED vars
  BY <1>5 DEF vars, WorkerInv, WorkerType, Registered, OnePlace, Abandoned, Answered, Waiting,
     Active, Distinct
<1> QED
  BY <1>1, <1>2, <1>3, <1>4, <1>5 DEF Next

LEMMA Invariance == Spec => []WorkerInv
BY Started, Inductive, PTL DEF Spec
-----------------------------------------------------------------------------
\* RunSupervisor.submit looks at _by_session and _by_run, and finish_runs forgets only
\* what is done: two runs of one session never execute together.
THEOREM ForegroundCorrect == Spec => []OneForegroundRunPerSession
<1>1. WorkerInv => OneForegroundRunPerSession
  BY DEF WorkerInv, WorkerType, Registered, OnePlace, Active, OneForegroundRunPerSession
<1> QED
  BY <1>1, Invariance, PTL

\* For a request handle() abandons a run of a session only after the look at
\* _by_session, and the frame loop registers nothing before it returns; for a
\* notification there is no look, and nothing is claimed.
THEOREM AbandonCorrect == Spec => []AbandonIsExclusive
<1>1. WorkerInv => AbandonIsExclusive
  BY DEF WorkerInv, WorkerType, Registered, OnePlace, Abandoned, Active, AbandonIsExclusive
<1> QED
  BY <1>1, Invariance, PTL

\* The frame loop leaves only with nothing active, after a drain that emitted what the
\* finished runs had queued.
THEOREM CleanExitCorrect == Spec => []CleanExitReportsAll
<1>1. WorkerInv => CleanExitReportsAll
  BY DEF WorkerInv, Answered, CleanExitReportsAll
<1> QED
  BY <1>1, Invariance, PTL
-----------------------------------------------------------------------------
(* Skills.                                                                 *)

\* Skill requests do not overlap.  FileSkillTrustStore writes its copy over whatever
\* another process has written since, so what follows needs it.
OneRequester == \A p, q \in Requesters : p = q

SkillRecords == [scope : Scopes, document : Documents, enabled : BOOLEAN]
SkillVerdicts == [document : Documents, scope : Scopes, allowed : BOOLEAN]

SkillRequestStates ==
    [op : {"none"}]
    \cup [op : Operations, copy : SUBSET SkillRecords, candidate : Candidate]

SkillRunStates ==
    [at : {"none"}]
    \cup [at : {"idle"}, records : SUBSET SkillRecords, asOf : Nat]
    \cup [at : {"asked", "effective", "verified"}, records : SUBSET SkillRecords, asOf : Nat,
          candidate : Candidate]

SkillsType ==
    /\ lockfile \subseteq SkillRecords
    /\ request \in [Requesters -> SkillRequestStates]
    /\ skillRun \in [SkillRuns -> SkillRunStates]
    /\ decisions \in Seq(SkillVerdicts)
    /\ loaded \subseteq [scope : Scopes, document : Documents, asOf : Nat]

\* The last of the first n decisions on the name, version and scope of a document
\* allows that document.
SkillAllowed(k, scope, n) ==
    \E i \in 1 .. n :
        /\ decisions[i] = [document |-> k, scope |-> scope, allowed |-> TRUE]
        /\ \A j \in i + 1 .. n : Key(decisions[j]) # Key(decisions[i])

\* What a copy of the records enables is what the first n decisions allow.
Amounts(records, n) ==
    \A r \in records : r.enabled => SkillAllowed(r.document, r.scope, n)

Built(r) ==
    LET s == skillRun[r]
    IN /\ s.at # "none" => s.asOf <= Len(decisions) /\ Amounts(s.records, s.asOf)
       /\ s.at = "verified" => Loadable(s.records, s.candidate)

SkillsInv ==
    /\ SkillsType
    /\ Amounts(lockfile, Len(decisions))
    /\ \A q \in Requesters : request[q].op # "none" => request[q].copy = lockfile
    /\ \A r \in SkillRuns : Built(r)
    /\ \A l \in loaded : l.asOf <= Len(decisions)
    /\ LoadedWasTrusted
-----------------------------------------------------------------------------
HIDE WorkerAssumption
USE SkillsAssumption

LEMMA SkillsStart == SkillsInit => SkillsInv
BY DEF SkillsInit, SkillsInv, SkillsType, SkillRequestStates, SkillRunStates, NoRequest, NoRun, Amounts,
   Built, LoadedWasTrusted

LEMMA SameDecisions ==
    ASSUME decisions' = decisions
    PROVE  \A records, n : Amounts(records, n)' <=> Amounts(records, n)
BY DEF Amounts, SkillAllowed

LEMMA Trusted ==
    LoadedWasTrusted <=>
        \A l \in loaded : l.scope = "builtin" \/ SkillAllowed(l.document, l.scope, l.asOf)
BY DEF LoadedWasTrusted, SkillAllowed

LEMMA CandidateType ==
    ASSUME NEW c \in Candidate
    PROVE  c.document \in Documents /\ c.dir \in Dirs /\ ScopeOf[c.dir] \in Scopes
BY DEF Candidate

LEMMA ResolvedType == \A n, v : Resolved(n, v) \subseteq Candidate
BY DEF Resolved, Catalog, Effective, Found

\* An edit, and a request that opens or ends.
LEMMA RequestKeeps ==
    ASSUME SkillsInv,
           \/ \E d \in Dirs, k \in Documents \cup {"absent", "broken"} : Edit(d, k)
           \/ \E q \in Requesters, op \in Operations, n \in Names, v \in Versions \cup {"any"} :
                 OpenRequest(q, op, n, v)
           \/ \E q \in Requesters : EndRequest(q)
    PROVE  SkillsInv'
<1>1. UNCHANGED <<lockfile, skillRun, decisions, loaded>> /\ SkillsType
  BY DEF Edit, OpenRequest, EndRequest, SkillsInv
<1>2. /\ request' \in [Requesters -> SkillRequestStates]
      /\ \A q \in Requesters : request'[q].op # "none" => request'[q].copy = lockfile
  <2>1. ASSUME NEW d \in Dirs, NEW k \in Documents \cup {"absent", "broken"}, Edit(d, k)
        PROVE  request' = request
    BY <2>1 DEF Edit
  <2>2. ASSUME NEW q \in Requesters, NEW op \in Operations, NEW n, NEW v, OpenRequest(q, op, n, v)
        PROVE  <1>2!1 /\ <1>2!2
    <3>1. PICK c \in Candidate :
             request' = [request EXCEPT ![q] = [op |-> op, copy |-> lockfile, candidate |-> c]]
      BY <2>2, ResolvedType DEF OpenRequest
    <3> DEFINE s == [op |-> op, copy |-> lockfile, candidate |-> c]
    <3>2. s \in SkillRequestStates /\ s.copy = lockfile
      BY <1>1 DEF SkillsType, SkillRequestStates
    <3> HIDE DEF s
    <3> QED
      BY <1>1, <3>1, <3>2 DEF s, SkillsInv, SkillsType
  <2>3. ASSUME NEW q \in Requesters, EndRequest(q)
        PROVE  <1>2!1 /\ <1>2!2
    <3>1. NoRequest \in SkillRequestStates /\ NoRequest.op = "none"
      BY DEF NoRequest, SkillRequestStates
    <3> QED
      BY <1>1, <2>3, <3>1 DEF EndRequest, SkillsInv, SkillsType
  <2> QED
    BY <1>1, <2>1, <2>2, <2>3 DEF SkillsInv, SkillsType
<1>3. \A r \in SkillRuns : Built(r)'
  BY <1>1, SameDecisions DEF SkillsInv, Built, Loadable, RecordOf
<1>4. SkillsType' /\ Amounts(lockfile, Len(decisions))'
  BY <1>1, <1>2, SameDecisions DEF SkillsInv, SkillsType
<1> QED
  BY <1>1, <1>2, <1>3, <1>4 DEF SkillsInv, LoadedWasTrusted

\* A decision leaves the last one on any other name, version and scope as it is.
LEMMA DecisionKeeps ==
    ASSUME SkillsType, NEW v \in SkillVerdicts, decisions' = Append(decisions, v)
    PROVE  /\ Len(decisions') = Len(decisions) + 1 /\ decisions' \in Seq(SkillVerdicts)
           /\ \A k, s, n : n \in 0 .. Len(decisions) /\ SkillAllowed(k, s, n) => SkillAllowed(k, s, n)'
           /\ \A r : /\ SkillAllowed(r.document, r.scope, Len(decisions))
                     /\ Key(r) # Key(v)
                     => SkillAllowed(r.document, r.scope, Len(decisions))'
           /\ v.allowed => SkillAllowed(v.document, v.scope, Len(decisions))'
<1>1. /\ Len(decisions) \in Nat /\ Len(decisions') = Len(decisions) + 1
      /\ decisions' \in Seq(SkillVerdicts)
      /\ \A i \in 1 .. Len(decisions) : decisions'[i] = decisions[i]
      /\ decisions'[Len(decisions) + 1] = v
  BY DEF SkillsType
<1>2. ASSUME NEW k, NEW s, NEW n \in 0 .. Len(decisions), SkillAllowed(k, s, n)
      PROVE  SkillAllowed(k, s, n)'
  <2>1. PICK i \in 1 .. n :
           /\ decisions[i] = [document |-> k, scope |-> s, allowed |-> TRUE]
           /\ \A j \in i + 1 .. n : Key(decisions[j]) # Key(decisions[i])
    BY <1>2 DEF SkillAllowed
  <2>2. \A j \in i .. n : decisions'[j] = decisions[j]
    BY <1>1
  <2>3. \A j \in i + 1 .. n : j \in i .. n
    OBVIOUS
  <2>4. decisions'[i] = decisions[i]
    BY <1>1
  <2> QED
    BY <2>1, <2>2, <2>3, <2>4 DEF SkillAllowed
<1>3. ASSUME NEW r, SkillAllowed(r.document, r.scope, Len(decisions)), Key(r) # Key(v)
      PROVE  SkillAllowed(r.document, r.scope, Len(decisions))'
  <2> DEFINE n == Len(decisions)
  <2>1. PICK i \in 1 .. n :
           /\ decisions[i] = [document |-> r.document, scope |-> r.scope, allowed |-> TRUE]
           /\ \A j \in i + 1 .. n : Key(decisions[j]) # Key(decisions[i])
    BY <1>3 DEF SkillAllowed
  <2>2. i \in 1 .. Len(decisions') /\ decisions'[i] = decisions[i]
    BY <1>1
  <2>3. Key(decisions[i]) = Key(r)
    BY <2>1 DEF Key
  <2>4. ASSUME NEW j \in i + 1 .. Len(decisions') PROVE Key(decisions'[j]) # Key(decisions'[i])
    <3>1. j \in i + 1 .. n \/ j = n + 1
      BY <1>1
    <3>2. CASE j \in i + 1 .. n
      <4>1. decisions'[j] = decisions[j]
        BY <1>1, <3>2
      <4> QED
        BY <2>1, <2>2, <3>2, <4>1
    <3>3. CASE j = n + 1
      BY <1>1, <1>3, <2>2, <2>3, <3>3
    <3> QED
      BY <3>1, <3>2, <3>3
  <2> QED
    BY <2>1, <2>2, <2>4 DEF SkillAllowed
<1>4. ASSUME v.allowed PROVE SkillAllowed(v.document, v.scope, Len(decisions))'
  <2>1. v = [document |-> v.document, scope |-> v.scope, allowed |-> TRUE]
    BY <1>4 DEF SkillVerdicts
  <2> DEFINE i == Len(decisions')
  <2>2. /\ i \in 1 .. Len(decisions') /\ decisions'[i] = v
        /\ \A j \in i + 1 .. Len(decisions') : FALSE
    BY <1>1
  <2> QED
    BY <2>1, <2>2 DEF SkillAllowed
<1> QED
  BY <1>1, <1>2, <1>3, <1>4

\* What a request writes amounts to the decisions with its own behind them.
LEMMA SaveKeeps ==
    ASSUME OneRequester, SkillsInv, NEW q \in Requesters, SaveRequest(q)
    PROVE  SkillsInv'
<1> DEFINE a == request[q]
           c == a.candidate
           v == [document |-> c.document, scope |-> ScopeOf[c.dir],
                 allowed |-> a.op \in {"trust", "enable"}]
<1>1. /\ SkillsType /\ a # NoRequest
      /\ lockfile' = Applied(a.op, a.copy, c) /\ decisions' = Append(decisions, v)
      /\ request' = [request EXCEPT ![q] = NoRequest]
      /\ UNCHANGED <<skillRun, loaded>>
  BY DEF SaveRequest, SkillsInv
<1>2. a.op \in Operations /\ c \in Candidate /\ a.copy = lockfile
  BY <1>1 DEF SkillsType, SkillRequestStates, NoRequest, SkillsInv, Operations
<1>3. v \in SkillVerdicts
  BY <1>2, CandidateType DEF SkillVerdicts
<1>4. \A e \in BOOLEAN : RecordOf(c, e) \in SkillRecords /\ Key(RecordOf(c, e)) = Key(v)
  BY <1>2, CandidateType DEF RecordOf, SkillRecords, Key
<1>5. \A r \in lockfile' :
         \/ r \in lockfile /\ Key(r) # Key(v)
         \/ \E e \in BOOLEAN : r = RecordOf(c, e) /\ (e => v.allowed)
  BY <1>1, <1>2, <1>4 DEF Applied, Put, Without, Operations
<1>6. /\ v.document = c.document /\ v.scope = ScopeOf[c.dir]
      /\ \A e : /\ RecordOf(c, e).document = c.document /\ RecordOf(c, e).enabled = e
                /\ RecordOf(c, e).scope = ScopeOf[c.dir]
  BY DEF RecordOf
<1> HIDE DEF v, a
<1>7. /\ Len(decisions') = Len(decisions) + 1 /\ decisions' \in Seq(SkillVerdicts)
      /\ Len(decisions) \in Nat
      /\ \A k, s, n : n \in 0 .. Len(decisions) /\ SkillAllowed(k, s, n) => SkillAllowed(k, s, n)'
  BY <1>1, <1>3, DecisionKeeps DEF SkillsType
<1>8. SkillsType'
  <2>1. lockfile' \subseteq SkillRecords
    BY <1>1, <1>4, <1>5 DEF SkillsType
  <2>2. NoRequest \in SkillRequestStates
    BY DEF NoRequest, SkillRequestStates
  <2> QED
    BY <1>1, <1>7, <2>1, <2>2 DEF SkillsType
<1>9. Amounts(lockfile, Len(decisions))'
  <2> SUFFICES ASSUME NEW r \in lockfile', r.enabled
               PROVE  SkillAllowed(r.document, r.scope, Len(decisions))'
    BY DEF Amounts
  <2>1. CASE r \in lockfile /\ Key(r) # Key(v)
    <3>1. SkillAllowed(r.document, r.scope, Len(decisions))
      BY <2>1 DEF SkillsInv, Amounts
    <3> QED
      BY <1>1, <1>3, <2>1, <3>1, DecisionKeeps
  <2>2. CASE \E e \in BOOLEAN : r = RecordOf(c, e) /\ (e => v.allowed)
    <3>1. v.allowed /\ r.document = v.document /\ r.scope = v.scope
      BY <1>6, <2>2
    <3> QED
      BY <1>1, <1>3, <3>1, DecisionKeeps
  <2> QED
    BY <1>5, <2>1, <2>2
<1>10. \A p \in Requesters : request'[p].op = "none"
  BY <1>1 DEF OneRequester, SkillsType, NoRequest
<1>11. ASSUME NEW r \in SkillRuns PROVE Built(r)'
  <2>1. skillRun[r] \in SkillRunStates /\ Built(r)
    BY <1>1 DEF SkillsType, SkillsInv
  <2>2. ASSUME skillRun[r].at # "none"
        PROVE  /\ skillRun[r].asOf <= Len(decisions')
               /\ Amounts(skillRun[r].records, skillRun[r].asOf)'
    <3>1. /\ skillRun[r].asOf \in 0 .. Len(decisions)
          /\ Amounts(skillRun[r].records, skillRun[r].asOf)
      BY <1>7, <2>1, <2>2 DEF SkillRunStates, Built
    <3> QED
      BY <1>1, <1>7, <3>1 DEF Amounts
  <2> QED
    BY <1>1, <2>1, <2>2 DEF Built, Loadable, RecordOf
<1>12. \A l \in loaded' : l.asOf <= Len(decisions')
  BY <1>1, <1>7 DEF SkillsInv, SkillsType
<1>13. LoadedWasTrusted'
  <2>1. \A l \in loaded : l.asOf \in 0 .. Len(decisions)
    BY <1>1 DEF SkillsInv, SkillsType
  <2>2. \A l \in loaded : l.scope = "builtin" \/ SkillAllowed(l.document, l.scope, l.asOf)
    BY Trusted DEF SkillsInv
  <2>3. \A l \in loaded : l.scope = "builtin" \/ SkillAllowed(l.document, l.scope, l.asOf)'
    BY <1>7, <2>1, <2>2
  <2> QED
    BY <1>1, <2>3 DEF LoadedWasTrusted, SkillAllowed
<1> QED
  BY <1>8, <1>9, <1>10, <1>11, <1>12, <1>13 DEF SkillsInv

\* A run is built, asks for a skill, verifies it, is given its body or refused it.
LEMMA RunKeeps ==
    ASSUME SkillsInv, NEW r \in SkillRuns,
           \/ BuildRun(r)
           \/ \E n \in Names, v \in Versions \cup {"any"} : AskSkill(r, n, v)
           \/ FindEffective(r) \/ VerifySkill(r) \/ ReadBody(r) \/ RefuseSkill(r)
    PROVE  SkillsInv'
<1>1. /\ UNCHANGED <<lockfile, request, decisions>> /\ SkillsType
      /\ Built(r) /\ skillRun[r] \in SkillRunStates
  BY DEF SkillsInv, SkillsType, BuildRun, AskSkill, FindEffective, VerifySkill, ReadBody,
     RefuseSkill, Move
<1>2. PICK s : skillRun' = [skillRun EXCEPT ![r] = s]
  BY DEF BuildRun, AskSkill, FindEffective, VerifySkill, ReadBody, RefuseSkill, Move
<1>3. skillRun'[r] = s /\ \A o \in SkillRuns \ {r} : skillRun'[o] = skillRun[o]
  BY <1>1, <1>2 DEF SkillsType
<1>4. s \in SkillRunStates /\ Built(r)'
  <2>1. CASE BuildRun(r)
    <3>1. s = [at |-> "idle", records |-> lockfile, asOf |-> Len(decisions)]
      BY <1>1, <1>3, <2>1 DEF BuildRun, SkillsType
    <3>2. Len(decisions) \in Nat /\ lockfile \in SUBSET SkillRecords
      BY <1>1 DEF SkillsType
    <3>3. /\ s \in SkillRunStates /\ s.at = "idle" /\ s.records = lockfile
          /\ s.asOf = Len(decisions)
      BY <3>1, <3>2 DEF SkillRunStates
    <3> QED
      BY <1>1, <1>3, <3>2, <3>3, SameDecisions DEF SkillsInv, Built
  <2>2. ASSUME NEW at \in {"asked", "effective", "verified"}, NEW c \in Candidate, Move(r, at, c),
               skillRun[r].at # "none", at = "verified" => Loadable(skillRun[r].records, c)
        PROVE  s \in SkillRunStates /\ Built(r)'
    <3>1. s = [at |-> at, records |-> skillRun[r].records, asOf |-> skillRun[r].asOf,
               candidate |-> c]
      BY <1>1, <1>3, <2>2 DEF Move, SkillsType
    <3>2. skillRun[r].records \in SUBSET SkillRecords /\ skillRun[r].asOf \in Nat
      BY <1>1, <2>2 DEF SkillRunStates
    <3>3. /\ s \in SkillRunStates /\ s.at = at /\ s.records = skillRun[r].records
          /\ s.asOf = skillRun[r].asOf /\ s.candidate = c
      BY <3>1, <3>2 DEF SkillRunStates
    <3>4. Loadable(s.records, s.candidate)' <=> Loadable(skillRun[r].records, c)
      BY <1>3, <3>3 DEF Loadable, RecordOf
    <3> QED
      BY <1>1, <1>3, <2>2, <3>3, <3>4, SameDecisions DEF Built, Loadable, RecordOf
  <2>3. ASSUME NEW n, NEW v, AskSkill(r, n, v) PROVE s \in SkillRunStates /\ Built(r)'
    <3>1. PICK c \in Candidate : Move(r, "asked", c)
      BY <2>3, ResolvedType DEF AskSkill
    <3> QED
      BY <2>2, <2>3, <3>1 DEF AskSkill
  <2>4. CASE FindEffective(r) \/ VerifySkill(r)
    <3>1. skillRun[r].at \in {"asked", "effective"}
      BY <2>4 DEF FindEffective, VerifySkill
    <3>2. skillRun[r].candidate \in Candidate
      BY <1>1, <3>1 DEF SkillRunStates
    <3> QED
      BY <2>2, <2>4, <3>1, <3>2 DEF FindEffective, VerifySkill
  <2>5. CASE ReadBody(r) \/ RefuseSkill(r)
    <3>1. s = Idle(r) /\ skillRun[r].at \in {"asked", "effective", "verified"}
      BY <1>1, <1>3, <2>5 DEF ReadBody, RefuseSkill, SkillsType
    <3>2. skillRun[r].records \in SUBSET SkillRecords /\ skillRun[r].asOf \in Nat
      BY <1>1, <3>1 DEF SkillRunStates
    <3>3. /\ s \in SkillRunStates /\ s.at = "idle" /\ s.records = skillRun[r].records
          /\ s.asOf = skillRun[r].asOf
      BY <3>1, <3>2 DEF SkillRunStates, Idle
    <3> QED
      BY <1>1, <1>3, <3>1, <3>3, SameDecisions DEF Built
  <2> QED
    BY <2>1, <2>3, <2>4, <2>5
<1>5. /\ loaded' \subseteq [scope : Scopes, document : Documents, asOf : Nat]
      /\ \A l \in loaded' : l.asOf <= Len(decisions)
      /\ \A l \in loaded' : l.scope = "builtin" \/ SkillAllowed(l.document, l.scope, l.asOf)
  <2>0. /\ loaded \subseteq [scope : Scopes, document : Documents, asOf : Nat]
        /\ \A l \in loaded : l.asOf <= Len(decisions)
        /\ \A l \in loaded : l.scope = "builtin" \/ SkillAllowed(l.document, l.scope, l.asOf)
    BY Trusted DEF SkillsInv, SkillsType
  <2>1. CASE ReadBody(r)
    <3> DEFINE c == skillRun[r].candidate
               l == [scope |-> ScopeOf[c.dir], document |-> Body(c), asOf |-> skillRun[r].asOf]
    <3>1. /\ skillRun[r].at = "verified" /\ Body(c) \in Documents
          /\ loaded' = loaded \cup {l}
      BY <2>1 DEF ReadBody
    <3>2. c \in Candidate /\ skillRun[r].asOf \in Nat
      BY <1>1, <3>1 DEF SkillRunStates
    <3>3. Body(c) = c.document
      BY <3>1 DEF Body
    <3>4. /\ Loadable(skillRun[r].records, c) /\ skillRun[r].asOf <= Len(decisions)
          /\ Amounts(skillRun[r].records, skillRun[r].asOf)
      BY <1>1, <3>1 DEF Built
    <3>5. ScopeOf[c.dir] = "builtin" \/ SkillAllowed(c.document, ScopeOf[c.dir], skillRun[r].asOf)
      BY <3>4 DEF Loadable, Builtin, RecordOf, Amounts
    <3>6. l \in [scope : Scopes, document : Documents, asOf : Nat]
      BY <3>1, <3>2, CandidateType
    <3>7. /\ l.scope = ScopeOf[c.dir] /\ l.document = c.document
          /\ l.asOf = skillRun[r].asOf
      BY <3>3
    <3> HIDE DEF l, c
    <3> QED
      BY <2>0, <3>1, <3>4, <3>5, <3>6, <3>7
  <2>2. CASE ~ReadBody(r)
    <3>1. loaded' = loaded
      BY <2>2 DEF BuildRun, AskSkill, FindEffective, VerifySkill, RefuseSkill, Move
    <3> QED
      BY <2>0, <3>1
  <2> QED
    BY <2>1, <2>2
<1>6. SkillsType'
  BY <1>1, <1>2, <1>4, <1>5 DEF SkillsType
<1>7. \A o \in SkillRuns \ {r} : Built(o)'
  BY <1>1, <1>3, SameDecisions DEF SkillsInv, Built, Loadable, RecordOf
<1>8. LoadedWasTrusted'
  BY <1>1, <1>5 DEF LoadedWasTrusted, SkillAllowed
<1> QED
  BY <1>1, <1>4, <1>5, <1>6, <1>7, <1>8, SameDecisions DEF SkillsInv

\* require_loadable compares the file with the record of its hash, and load_by_name
\* what it has read last with what was verified: no edit and no other scope slips in.
THEOREM SkillTrustCorrect == ASSUME OneRequester PROVE SkillsSpec => []LoadedWasTrusted
<1>1. SkillsInv /\ [SkillsNext]_skillVars => SkillsInv'
  <2> SUFFICES ASSUME SkillsInv, [SkillsNext]_skillVars PROVE SkillsInv'
    OBVIOUS
  <2>1. CASE SkillsNext
    BY <2>1, RequestKeeps, SaveKeeps, RunKeeps DEF SkillsNext
  <2>2. CASE UNCHANGED skillVars
    <3>1. UNCHANGED <<lockfile, request, skillRun, decisions, loaded>>
      BY <2>2 DEF skillVars
    <3>2. \A r \in SkillRuns : Built(r)'
      BY <3>1, SameDecisions DEF SkillsInv, Built, Loadable, RecordOf
    <3>3. SkillsType' /\ Amounts(lockfile, Len(decisions))'
      BY <3>1, SameDecisions DEF SkillsInv, SkillsType
    <3>4. LoadedWasTrusted'
      BY <3>1 DEF SkillsInv, LoadedWasTrusted
    <3> QED
      BY <3>1, <3>2, <3>3, <3>4 DEF SkillsInv
  <2> QED
    BY <2>1, <2>2
<1>2. SkillsInv => LoadedWasTrusted
  BY DEF SkillsInv
<1> QED
  BY <1>1, <1>2, SkillsStart, PTL DEF SkillsSpec

-----------------------------------------------------------------------------
(* Plugins.                                                                *)

PluginCandidates == [root : Roots, plugin : Plugin]
PluginRecords == [plugin : Plugin, enabled : BOOLEAN]
PluginVerdicts == [plugin : Plugin, allowed : BOOLEAN]

HostStates ==
    [at : {"none"}]
    \cup [at : {"off", "verifying"}, candidate : PluginCandidates]
    \cup [at : {"spawned"}, candidate : PluginCandidates, edited : BOOLEAN, stale : BOOLEAN,
           asOf : Nat]
    \cup [at : {"running"}, candidate : PluginCandidates, edited : BOOLEAN, stale : BOOLEAN,
           asOf : Nat, code : Codes \cup {"stale"}]

PluginsType ==
    /\ pluginDisk \in [Roots -> Directory \cup {Absent}]
    /\ trusted \subseteq PluginRecords
    /\ discovered \subseteq PluginCandidates
    /\ host \in [Hosts -> HostStates]
    /\ verdicts \in Seq(PluginVerdicts)

\* The last of the first n verdicts on the identity of p allows exactly p.
PluginAllowed(p, n) ==
    \E i \in 1 .. n :
        /\ verdicts[i] = [plugin |-> p, allowed |-> TRUE]
        /\ \A j \in i + 1 .. n : IdentityOf(verdicts[j].plugin) # IdentityOf(p)

\* The records are what the verdicts amount to.
RecordsAllow == \A r \in trusted : r.enabled => PluginAllowed(r.plugin, Len(verdicts))

\* A process was started on a verdict, and its directory holds what was hashed.
PluginStarted(h) ==
    LET s == host[h]
    IN /\ s.at \in {"spawned", "running"} =>
             s.asOf <= Len(verdicts) /\ PluginAllowed(s.candidate.plugin, s.asOf)
       /\ s.at = "spawned" /\ ~s.edited =>
             \/ pluginDisk[s.candidate.root] = Absent
             \/ /\ pluginDisk[s.candidate.root].code = s.candidate.plugin.code
                /\ pluginDisk[s.candidate.root].stale = s.stale
       /\ s.at = "running" /\ ~s.edited /\ ~s.stale => s.code = s.candidate.plugin.code

PluginsInv == PluginsType /\ RecordsAllow /\ \A h \in Hosts : PluginStarted(h)
-----------------------------------------------------------------------------
USE PluginsAssumption

LEMMA PluginsStart == PluginsInit => PluginsInv
BY DEF PluginsInit, PluginsInv, PluginsType, HostStates, RecordsAllow, PluginStarted

LEMMA SameVerdicts ==
    ASSUME verdicts' = verdicts
    PROVE  \A p, n : PluginAllowed(p, n)' <=> PluginAllowed(p, n)
BY DEF PluginAllowed

\* An editor marks the processes that have still to import what they have hashed.
LEMMA EditKeeps ==
    ASSUME PluginsInv, NEW d \in Roots, NEW p \in Directory \cup {Absent}, EditPlugin(d, p)
    PROVE  PluginsInv'
<1>1. /\ pluginDisk' = [pluginDisk EXCEPT ![d] = p]
      /\ UNCHANGED <<trusted, discovered, verdicts>> /\ PluginsType
      /\ host' = [h \in Hosts |->
                    IF host[h].at = "spawned" /\ host[h].candidate.root = d
                    THEN [host[h] EXCEPT !.edited = TRUE] ELSE host[h]]
  BY DEF EditPlugin, PluginsInv
<1>2. ASSUME NEW h \in Hosts PROVE host'[h] \in HostStates /\ PluginStarted(h)'
  <2>1. host[h] \in HostStates /\ PluginStarted(h)
    BY <1>1 DEF PluginsType, PluginsInv
  <2>2. CASE host[h].at = "spawned" /\ host[h].candidate.root = d
    <3>1. host[h] \in [at : {"spawned"}, candidate : PluginCandidates, edited : BOOLEAN,
                       stale : BOOLEAN, asOf : Nat]
      BY <2>1, <2>2 DEF HostStates
    <3>2. host'[h] = [host[h] EXCEPT !.edited = TRUE]
      BY <1>1, <2>2
    <3>3. /\ host'[h] \in HostStates /\ host'[h].at = "spawned" /\ host'[h].edited
          /\ host'[h].asOf = host[h].asOf /\ host'[h].candidate = host[h].candidate
      BY <3>1, <3>2 DEF HostStates
    <3> QED
      BY <1>1, <2>1, <2>2, <3>3, SameVerdicts DEF PluginStarted
  <2>3. CASE ~(host[h].at = "spawned" /\ host[h].candidate.root = d)
    <3>1. host'[h] = host[h]
      BY <1>1, <2>3
    <3>2. ASSUME host[h].at = "spawned"
          PROVE  pluginDisk'[host[h].candidate.root] = pluginDisk[host[h].candidate.root]
      <4>1. host[h].candidate.root \in Roots \ {d}
        BY <2>1, <2>3, <3>2 DEF HostStates, PluginCandidates
      <4> QED
        BY <1>1, <4>1 DEF PluginsType
    <3> QED
      BY <1>1, <2>1, <3>1, <3>2, SameVerdicts DEF PluginStarted
  <2> QED
    BY <2>2, <2>3
<1>3. PluginsType'
  BY <1>1, <1>2 DEF PluginsType
<1>4. RecordsAllow'
  BY <1>1, SameVerdicts DEF PluginsInv, RecordsAllow
<1> QED
  BY <1>2, <1>3, <1>4 DEF PluginsInv

LEMMA DiscoverKeeps == ASSUME PluginsInv, Discover PROVE PluginsInv'
<1>1. PluginsType'
  <2>1. \A d \in Roots : pluginDisk[d] # Absent => Hashed(pluginDisk[d]) \in Plugin
    BY DEF PluginsInv, PluginsType, Directory, Hashed, Plugin
  <2>2. discovered' \subseteq PluginCandidates
    BY <2>1 DEF Discover, PluginsInv, PluginsType, PluginCandidates
  <2> QED
    BY <2>2 DEF Discover, PluginsInv, PluginsType
<1> QED
  BY <1>1 DEF Discover, PluginsInv, RecordsAllow, PluginStarted, PluginAllowed

\* A verdict on one identity leaves the last one on any other as it is.
LEMMA VerdictKeeps ==
    ASSUME PluginsType, NEW v \in PluginVerdicts, verdicts' = Append(verdicts, v)
    PROVE  /\ Len(verdicts') = Len(verdicts) + 1 /\ verdicts' \in Seq(PluginVerdicts)
           /\ \A p, n : n \in 0 .. Len(verdicts) /\ PluginAllowed(p, n) => PluginAllowed(p, n)'
           /\ \A p : PluginAllowed(p, Len(verdicts)) /\ IdentityOf(v.plugin) # IdentityOf(p)
                       => PluginAllowed(p, Len(verdicts))'
           /\ v.allowed => PluginAllowed(v.plugin, Len(verdicts))'
<1>1. /\ Len(verdicts) \in Nat /\ Len(verdicts') = Len(verdicts) + 1
      /\ verdicts' \in Seq(PluginVerdicts)
      /\ \A i \in 1 .. Len(verdicts) : verdicts'[i] = verdicts[i]
      /\ verdicts'[Len(verdicts) + 1] = v
  BY DEF PluginsType
<1>2. ASSUME NEW p, NEW n \in 0 .. Len(verdicts), PluginAllowed(p, n) PROVE PluginAllowed(p, n)'
  <2>1. PICK i \in 1 .. n :
           /\ verdicts[i] = [plugin |-> p, allowed |-> TRUE]
           /\ \A j \in i + 1 .. n : IdentityOf(verdicts[j].plugin) # IdentityOf(p)
    BY <1>2 DEF PluginAllowed
  <2>2. \A j \in i .. n : verdicts'[j] = verdicts[j]
    BY <1>1
  <2>3. \A j \in i + 1 .. n : j \in i .. n
    OBVIOUS
  <2>4. verdicts'[i] = [plugin |-> p, allowed |-> TRUE]
    BY <1>1, <2>1
  <2> QED
    BY <2>1, <2>2, <2>3, <2>4 DEF PluginAllowed
<1>3. ASSUME NEW p, PluginAllowed(p, Len(verdicts)), IdentityOf(v.plugin) # IdentityOf(p)
      PROVE  PluginAllowed(p, Len(verdicts))'
  <2> DEFINE n == Len(verdicts)
  <2>1. PICK i \in 1 .. n :
           /\ verdicts[i] = [plugin |-> p, allowed |-> TRUE]
           /\ \A j \in i + 1 .. n : IdentityOf(verdicts[j].plugin) # IdentityOf(p)
    BY <1>3 DEF PluginAllowed
  <2>2. i \in 1 .. Len(verdicts') /\ verdicts'[i] = [plugin |-> p, allowed |-> TRUE]
    BY <1>1, <2>1
  <2>3. ASSUME NEW j \in i + 1 .. Len(verdicts')
        PROVE  IdentityOf(verdicts'[j].plugin) # IdentityOf(p)
    <3>1. n \in Nat /\ Len(verdicts') = n + 1 /\ verdicts'[n + 1] = v
      BY <1>1
    <3>2. i \in Nat /\ j \in i + 1 .. n + 1
      BY <3>1
    <3> HIDE DEF n
    <3>3. j \in i + 1 .. n \/ j = n + 1
      BY <3>1, <3>2
    <3>4. CASE j = n + 1
      BY <1>3, <3>1, <3>4
    <3>5. CASE j \in i + 1 .. n
      <4>1. j \in 1 .. n
        BY <3>1, <3>2, <3>5
      <4>2. verdicts'[j] = verdicts[j]
        BY <1>1, <4>1 DEF n
      <4> QED
        BY <2>1, <3>5, <4>2
    <3> QED
      BY <3>3, <3>4, <3>5
  <2> QED
    BY <2>2, <2>3 DEF PluginAllowed
<1>4. ASSUME v.allowed PROVE PluginAllowed(v.plugin, Len(verdicts))'
  <2>1. v = [plugin |-> v.plugin, allowed |-> TRUE]
    BY <1>4 DEF PluginVerdicts
  <2> DEFINE i == Len(verdicts')
  <2>2. /\ i \in 1 .. Len(verdicts') /\ verdicts'[i] = v
        /\ \A j \in i + 1 .. Len(verdicts') : FALSE
    BY <1>1
  <2> QED
    BY <2>1, <2>2 DEF PluginAllowed
<1> QED
  BY <1>1, <1>2, <1>3, <1>4

LEMMA DecideKeeps ==
    ASSUME PluginsInv, NEW c \in discovered, NEW op \in TrustOps, Decide(c.plugin, op)
    PROVE  PluginsInv'
<1> DEFINE p == c.plugin
           v == [plugin |-> p, allowed |-> Enables(op)]
<1>1. /\ PluginsType /\ p \in Plugin /\ v \in PluginVerdicts /\ verdicts' = Append(verdicts, v)
      /\ UNCHANGED <<pluginDisk, discovered, host>>
  BY DEF PluginsInv, PluginsType, PluginCandidates, Decide, PluginVerdicts, Enables
<1>2. trusted' \subseteq
         OtherRecords(p) \cup {[plugin |-> p, enabled |-> Enables(op)]}
  BY DEF Decide
<1>3. v.plugin = p /\ v.allowed = Enables(op)
  OBVIOUS
<1> HIDE DEF v, p
<1>4. PluginsType'
  <2>1. trusted' \subseteq PluginRecords
    <3>1. [plugin |-> p, enabled |-> Enables(op)] \in PluginRecords
      BY <1>1 DEF PluginRecords, Enables
    <3> QED
      BY <1>1, <1>2, <3>1 DEF PluginsType, OtherRecords
  <2> QED
    BY <1>1, <2>1, VerdictKeeps DEF PluginsType
<1>5. RecordsAllow'
  <2> SUFFICES ASSUME NEW r \in trusted', r.enabled PROVE PluginAllowed(r.plugin, Len(verdicts))'
    BY DEF RecordsAllow
  <2>1. CASE r \in OtherRecords(p)
    BY <1>1, <1>3, <2>1, VerdictKeeps DEF OtherRecords, PluginsInv, RecordsAllow
  <2>2. CASE r = [plugin |-> p, enabled |-> Enables(op)]
    BY <1>1, <1>3, <2>2, VerdictKeeps
  <2> QED
    BY <1>2, <2>1, <2>2
<1>6. ASSUME NEW h \in Hosts PROVE PluginStarted(h)'
  <2>1. host[h] \in HostStates /\ PluginStarted(h) /\ Len(verdicts) \in Nat
    BY <1>1 DEF PluginsType, PluginsInv
  <2>2. ASSUME host[h].at \in {"spawned", "running"}
        PROVE  /\ host[h].asOf <= Len(verdicts')
               /\ PluginAllowed(host[h].candidate.plugin, host[h].asOf)'
    <3>1. /\ host[h].asOf \in 0 .. Len(verdicts)
          /\ PluginAllowed(host[h].candidate.plugin, host[h].asOf)
      BY <2>1, <2>2 DEF PluginStarted, HostStates
    <3>2. Len(verdicts') = Len(verdicts) + 1
      BY <1>1, VerdictKeeps
    <3>3. \A q, n : n \in 0 .. Len(verdicts) /\ PluginAllowed(q, n) => PluginAllowed(q, n)'
      BY <1>1, VerdictKeeps
    <3> QED
      BY <1>1, <2>1, <3>1, <3>2, <3>3
  <2> QED
    BY <1>1, <2>1, <2>2 DEF PluginStarted
<1> QED
  BY <1>4, <1>5, <1>6 DEF PluginsInv

LEMMA HostKeeps ==
    ASSUME PluginsInv, NEW h \in Hosts,
           \/ \E c \in discovered : MakeHost(h, c)
           \/ ReadManifest(h) \/ SpawnHost(h) \/ ImportPlugin(h) \/ StopHost(h)
    PROVE  PluginsInv'
<1>1. PluginsType /\ UNCHANGED <<pluginDisk, trusted, discovered, verdicts>>
  BY DEF PluginsInv, MakeHost, ReadManifest, SpawnHost, ImportPlugin, StopHost
<1>2. PICK s : host' = [host EXCEPT ![h] = s]
  BY DEF MakeHost, ReadManifest, SpawnHost, ImportPlugin, StopHost
<1>3. host[h] \in HostStates /\ PluginStarted(h)
  BY <1>1 DEF PluginsInv, PluginsType
<1>4. host'[h] = s /\ \A g \in Hosts \ {h} : host'[g] = host[g]
  BY <1>1, <1>2 DEF PluginsType
<1>5. s \in HostStates /\ PluginStarted(h)'
  <2>1. ASSUME NEW c \in discovered, MakeHost(h, c) PROVE s \in HostStates /\ PluginStarted(h)'
    <3>1. s = [at |-> "off", candidate |-> c] /\ c \in PluginCandidates
      BY <1>1, <1>4, <2>1 DEF MakeHost, PluginsType
    <3> QED
      BY <1>4, <3>1 DEF HostStates, PluginStarted
  <2>2. CASE ReadManifest(h) \/ StopHost(h)
    <3>1. PICK a \in {"off", "verifying"} : s = [at |-> a, candidate |-> host[h].candidate]
      BY <1>1, <1>4, <2>2 DEF ReadManifest, StopHost, PluginsType
    <3>2. host[h].candidate \in PluginCandidates
      BY <1>3, <2>2 DEF ReadManifest, StopHost, HostStates
    <3> QED
      BY <1>4, <3>1, <3>2 DEF HostStates, PluginStarted
  <2>3. CASE SpawnHost(h)
    <3> DEFINE c == host[h].candidate
    <3>1. /\ s = [at |-> "spawned", candidate |-> c, edited |-> FALSE,
                  stale |-> Stale(pluginDisk[c.root]), asOf |-> Len(verdicts)]
          /\ ContentNow(h) = c.plugin.code /\ Activatable(c.plugin)
      BY <1>1, <1>4, <2>3 DEF SpawnHost, PluginsType
    <3>2. c \in PluginCandidates /\ Len(verdicts) \in Nat
      BY <1>1, <1>3, <2>3 DEF SpawnHost, HostStates, PluginsType
    <3>3. PluginAllowed(c.plugin, Len(verdicts))
      BY <3>1 DEF Activatable, PluginsInv, RecordsAllow
    <3>4. \/ pluginDisk[c.root] = Absent
          \/ /\ pluginDisk[c.root].code = c.plugin.code
             /\ pluginDisk[c.root].stale = s.stale
      <4>1. pluginDisk[c.root] = Absent \/ pluginDisk[c.root].stale \in BOOLEAN
        BY <1>1, <3>2 DEF PluginsType, PluginCandidates, Directory
      <4>2. s.stale = Stale(pluginDisk[c.root])
        BY <3>1
      <4> QED
        BY <3>1, <4>1, <4>2 DEF ContentNow, Stale
    <3>6. Stale(pluginDisk[c.root]) \in BOOLEAN
      BY <1>1, <3>2 DEF PluginsType, PluginCandidates, Directory, Stale
    <3> HIDE DEF c
    <3>5. /\ s.at = "spawned" /\ s.candidate = c /\ s.asOf = Len(verdicts) /\ s.edited = FALSE
          /\ s \in HostStates
      BY <3>1, <3>2, <3>6 DEF HostStates
    <3> QED
      BY <1>1, <1>4, <3>2, <3>3, <3>4, <3>5 DEF PluginStarted, PluginAllowed
  <2>4. CASE ImportPlugin(h)
    <3> DEFINE d == pluginDisk[host[h].candidate.root]
    <3>1. PICK what \in Imported(d) :
             /\ host[h].at = "spawned" /\ d # Absent
             /\ s = [at |-> "running", candidate |-> host[h].candidate, edited |-> host[h].edited,
                     stale |-> host[h].stale, asOf |-> host[h].asOf, code |-> what]
      BY <1>1, <1>4, <2>4 DEF ImportPlugin, PluginsType
    <3>2. /\ host[h].candidate \in PluginCandidates /\ host[h].edited \in BOOLEAN
          /\ host[h].stale \in BOOLEAN
          /\ host[h].asOf \in Nat /\ host[h].candidate.root \in Roots
      BY <1>3, <3>1 DEF HostStates, PluginCandidates
    <3>3. what \in Codes \cup {"stale"}
      BY <1>1, <3>1, <3>2 DEF PluginsType, Directory, Imported
    <3>4. ~host[h].edited /\ ~host[h].stale => what = host[h].candidate.plugin.code
      BY <1>3, <3>1 DEF PluginStarted, Imported
    <3>5. host[h].asOf <= Len(verdicts) /\ PluginAllowed(host[h].candidate.plugin, host[h].asOf)
      BY <1>3, <3>1 DEF PluginStarted
    <3> HIDE DEF d
    <3>6. /\ s.at = "running" /\ s.candidate = host[h].candidate /\ s.asOf = host[h].asOf
          /\ s.edited = host[h].edited /\ s.stale = host[h].stale
          /\ s.code = what /\ s \in HostStates
      BY <3>1, <3>2, <3>3 DEF HostStates
    <3> QED
      BY <1>1, <1>4, <3>4, <3>5, <3>6 DEF PluginStarted, PluginAllowed
  <2> QED
    BY <2>1, <2>2, <2>3, <2>4
<1>6. PluginsType'
  BY <1>1, <1>2, <1>5 DEF PluginsType
<1>7. \A g \in Hosts \ {h} : PluginStarted(g)'
  BY <1>1, <1>4 DEF PluginsInv, PluginStarted, PluginAllowed
<1> QED
  BY <1>1, <1>5, <1>6, <1>7 DEF PluginsInv, RecordsAllow, PluginAllowed

\* start compares what it reads with the candidate and the candidate with the records,
\* and awaits nothing in between; the records are what was decided last.
THEOREM PluginTrustCorrect == PluginsSpec => []PluginRunsAsTrusted
<1>1. PluginsInv /\ [PluginsNext]_pluginVars => PluginsInv'
  <2> SUFFICES ASSUME PluginsInv, [PluginsNext]_pluginVars PROVE PluginsInv'
    OBVIOUS
  <2>1. CASE PluginsNext
    BY <2>1, EditKeeps, DiscoverKeeps, DecideKeeps, HostKeeps DEF PluginsNext
  <2>2. CASE UNCHANGED pluginVars
    BY <2>2 DEF pluginVars, PluginsInv, PluginsType, RecordsAllow, PluginStarted, PluginAllowed
  <2> QED
    BY <2>1, <2>2
<1>2. PluginsInv => PluginRunsAsTrusted
  BY DEF PluginsInv, PluginStarted, PluginAllowed, PluginRunsAsTrusted
<1> QED
  BY <1>1, <1>2, PluginsStart, PTL DEF PluginsSpec

-----------------------------------------------------------------------------
(* Hooks.                                                                  *)

Registrations == [sequence : Nat, hook : Hooks]

\* Registrations that no two share a number.
Numbering(set) ==
    /\ set \subseteq Registrations /\ IsFiniteSet(set)
    /\ \A r, s \in set : r.sequence = s.sequence => r = s

InOrder(seq) == \A i, j \in DOMAIN seq : i < j => Before(seq[i], seq[j])

Emissions ==
    [at : {"none", "refused"}]
    \cup [at : {"running", "raised", "done"}, allowed : BOOLEAN, found : Seq(Registrations),
          ran : Seq(Registrations)]

\* What has run is the beginning of what was found, which was sorted and allowed.
Governed(e) ==
    e.at \in {"running", "raised", "done"} =>
       /\ InOrder(e.found) /\ Len(e.ran) <= Len(e.found)
       /\ \A i \in 1 .. Len(e.ran) : e.ran[i] = e.found[i]
       /\ e.at = "done" => Len(e.ran) = Len(e.found)
       /\ Mutates(e.found) => e.allowed

HooksInv ==
    /\ sequence \in Nat /\ Numbering(handlers) /\ \A r \in handlers : r.sequence <= sequence
    /\ emission \in [Emitters -> Emissions]
    /\ \A t \in Emitters : Governed(emission[t])
-----------------------------------------------------------------------------
LEMMA BeforeIsOrder ==
    ASSUME NEW set, Numbering(set)
    PROVE  /\ \A r \in set : ~Before(r, r)
           /\ \A r, s \in set : r = s \/ Before(r, s) \/ Before(s, r)
           /\ \A r, s, u \in set : Before(r, s) /\ Before(s, u) => Before(r, u)
<1>1. \A r \in set : r.sequence \in Int /\ r.hook.priority \in Int
  BY HooksAssumption DEF Numbering, Registrations
<1> QED
  BY <1>1 DEF Numbering, Before

\* Every set of registrations can be sorted: the place of each is one more than the
\* number of those before it.
LEMMA SortedIsInOrder ==
    ASSUME NEW set, Numbering(set)
    PROVE  /\ Sorted(set) \in Seq(Registrations) /\ InOrder(Sorted(set))
           /\ \A i \in DOMAIN Sorted(set) : Sorted(set)[i] \in set
<1> DEFINE n == Cardinality(set)
           earlier(r) == {s \in set : Before(s, r)}
           place == [r \in set |-> Cardinality(earlier(r)) + 1]
           seq == [i \in 1 .. n |-> CHOOSE r \in set : place[r] = i]
<1>1. n \in Nat /\ IsFiniteSet(set) /\ IsFiniteSet(1 .. n) /\ Cardinality(1 .. n) = n
  <2>1. n \in Nat /\ IsFiniteSet(set)
    BY FS_CardinalityType DEF Numbering
  <2> HIDE DEF n
  <2> QED
    BY <2>1, FS_Interval
<1>2. ASSUME NEW r \in set
      PROVE  /\ IsFiniteSet(earlier(r)) /\ Cardinality(earlier(r)) \in Nat
             /\ place[r] = Cardinality(earlier(r)) + 1 /\ place[r] \in 1 .. n
  <2>1. earlier(r) \in SUBSET set /\ earlier(r) # set
    BY BeforeIsOrder
  <2>2. IsFiniteSet(earlier(r)) /\ Cardinality(earlier(r)) <= n /\ Cardinality(earlier(r)) # n
    BY <1>1, <2>1, FS_Subset
  <2>3. Cardinality(earlier(r)) \in Nat
    BY <2>2, FS_CardinalityType
  <2> HIDE DEF n, earlier
  <2> QED
    BY <1>1, <2>2, <2>3
<1>3. ASSUME NEW r \in set, NEW s \in set, Before(r, s)
      PROVE  place[r] < place[s]
  <2>1. earlier(r) \in SUBSET earlier(s) /\ earlier(r) # earlier(s)
    BY <1>3, BeforeIsOrder
  <2>2. Cardinality(earlier(r)) <= Cardinality(earlier(s))
        /\ Cardinality(earlier(r)) # Cardinality(earlier(s))
    BY <1>2, <2>1, FS_Subset
  <2> HIDE DEF earlier
  <2> QED
    BY <1>2, <2>2
<1> HIDE DEF earlier, n, place
<1>4. \A r, s \in set : place[r] = place[s] => r = s
  BY <1>2, <1>3, BeforeIsOrder
<1>5. place \in Injection(set, 1 .. n)
  <2>1. place \in [set -> 1 .. n]
    BY <1>2 DEF place
  <2> QED
    BY <1>4, <2>1 DEF Injection, IsInjective
<1>6. place \in Surjection(set, 1 .. n)
  BY <1>1, <1>5, FS_Injection DEF n
<1>7. \A i \in 1 .. n : seq[i] \in set /\ place[seq[i]] = i
  BY <1>6 DEF Surjection
<1>8. /\ seq \in SetToSeqs(set)
      /\ \A i, j \in DOMAIN seq : i < j => Before(seq[i], seq[j])
  <2>1. seq \in [1 .. n -> set]
    BY <1>7
  <2>2. ASSUME NEW i \in 1 .. n, NEW j \in 1 .. n, i < j PROVE Before(seq[i], seq[j])
    <3>1. seq[i] # seq[j] /\ ~Before(seq[j], seq[i])
      BY <1>1, <1>3, <1>7, <2>2
    <3> QED
      BY <1>7, <3>1, BeforeIsOrder
  <2>3. \A i, j \in 1 .. n : i # j => seq[i] # seq[j]
    BY <1>7
  <2> HIDE DEF seq
  <2> QED
    BY <2>1, <2>2, <2>3 DEF SetToSeqs, n
<1>9. /\ Sorted(set) \in SetToSeqs(set)
      /\ \A i, j \in DOMAIN Sorted(set) : i < j => Before(Sorted(set)[i], Sorted(set)[j])
  BY <1>8 DEF Sorted
<1>10. Sorted(set) \in [1 .. n -> set]
  BY <1>9 DEF SetToSeqs, n
<1> QED
  BY <1>1, <1>9, <1>10 DEF InOrder, Numbering

LEMMA HooksStart == HooksInit => HooksInv
BY FS_EmptySet DEF HooksInit, HooksInv, Numbering, NoEmission, Emissions, Governed

LEMMA RegistersKeep ==
    ASSUME HooksInv, (\E h \in Hooks : Register(h)) \/ (\E r \in handlers : Unregister(r))
    PROVE  HooksInv'
<1>1. CASE \E h \in Hooks : Register(h)
  <2>1. PICK h \in Hooks : Register(h)
    BY <1>1
  <2> DEFINE r == [sequence |-> sequence', hook |-> h]
  <2>2. sequence \in Nat /\ sequence' = sequence + 1 /\ handlers' = handlers \cup {r}
    BY <2>1 DEF Register, HooksInv
  <2>3. r \in Registrations /\ r.sequence = sequence + 1
    BY <2>2 DEF Registrations
  <2> HIDE DEF r
  <2>4. IsFiniteSet(handlers')
    BY <2>2, FS_AddElement DEF HooksInv, Numbering
  <2>5. \A s \in handlers : s.sequence \in Nat /\ s.sequence <= sequence
    BY DEF HooksInv, Numbering, Registrations
  <2>6. Numbering(handlers')
    BY <2>2, <2>3, <2>4, <2>5 DEF HooksInv, Numbering
  <2>7. \A s \in handlers' : s.sequence <= sequence'
    BY <2>2, <2>3, <2>5
  <2> QED
    BY <2>1, <2>2, <2>6, <2>7 DEF HooksInv, Register
<1>2. CASE \E r \in handlers : Unregister(r)
  <2>1. PICK r \in handlers : Unregister(r)
    BY <1>2
  <2>2. Numbering(handlers')
    BY <2>1, FS_RemoveElement DEF HooksInv, Numbering, Unregister
  <2> QED
    BY <2>1, <2>2 DEF HooksInv, Unregister
<1> QED
  BY <1>1, <1>2

LEMMA BeginKeeps ==
    ASSUME HooksInv, NEW t \in Emitters, NEW allowed \in BOOLEAN, BeginEmit(t, allowed)
    PROVE  HooksInv'
<1> DEFINE found == Sorted(handlers)
           e == [at |-> "running", allowed |-> allowed, found |-> found, ran |-> <<>>]
<1>1. found \in Seq(Registrations) /\ InOrder(found)
  BY SortedIsInOrder DEF HooksInv
<1>2. CASE emission' = [emission EXCEPT ![t] = [at |-> "refused"]]
  <2>1. [at |-> "refused"] \in Emissions /\ Governed([at |-> "refused"])
    BY DEF Emissions, Governed
  <2> QED
    BY <1>2, <2>1 DEF HooksInv, BeginEmit
<1>3. CASE emission' = [emission EXCEPT ![t] = e] /\ (Mutates(found) => allowed)
  <2>1. <<>> \in Seq(Registrations) /\ Len(found) \in Nat
    BY <1>1
  <2> HIDE DEF found
  <2>2. e \in Emissions
    BY <1>1, <2>1 DEF Emissions
  <2>3. Governed(e)
    BY <1>1, <1>3, <2>1 DEF Governed
  <2> HIDE DEF e
  <2> QED
    BY <1>3, <2>2, <2>3 DEF HooksInv, BeginEmit
<1> QED
  BY <1>2, <1>3 DEF BeginEmit

LEMMA HandleKeeps ==
    ASSUME HooksInv, NEW t \in Emitters,
           (\E success \in BOOLEAN : Handle(t, success)) \/ EndEmit(t) \/ CancelEmit(t)
    PROVE  HooksInv'
<1> DEFINE e == emission[t]
<1>1. /\ e.at = "running" /\ e \in Emissions /\ Governed(e)
      /\ UNCHANGED <<handlers, sequence, emits>>
  BY DEF HooksInv, Handle, EndEmit, CancelEmit
<1>2. e \in [at : {"running", "raised", "done"}, allowed : BOOLEAN, found : Seq(Registrations),
             ran : Seq(Registrations)]
  BY <1>1 DEF Emissions
<1>3. ASSUME NEW s, emission' = [emission EXCEPT ![t] = s], s \in Emissions, Governed(s)
      PROVE  HooksInv'
  BY <1>1, <1>3 DEF HooksInv
<1>4. ASSUME NEW success \in BOOLEAN, Handle(t, success) PROVE HooksInv'
  <2> DEFINE next == Head(RemainingHandlers(t))
             at == IF success \/ ~next.hook.fail_fast THEN "running" ELSE "raised"
             n == Len(e.ran)
             ran == Append(e.ran, next)
             s == [e EXCEPT !.ran = ran, !.at = at]
  <2>1. emission' = [emission EXCEPT ![t] = s]
    BY <1>4 DEF Handle, HooksInv
  <2>2. e.found \in Seq(Registrations) /\ e.ran \in Seq(Registrations) /\ n \in Nat
    BY <1>2
  <2>3. n < Len(e.found) /\ next = e.found[n + 1] /\ next \in Registrations
    <3> DEFINE f == e.found
               m == Len(f)
               rest == SubSeq(f, n + 1, m)
    <3>1. rest # <<>> /\ next = Head(rest)
      BY <1>4 DEF Handle, RemainingHandlers
    <3>2. f \in Seq(Registrations) /\ n \in Nat /\ m \in Nat /\ n <= m
      BY <1>1, <2>2 DEF Governed
    <3> HIDE DEF f, n
    <3>3. rest \in Seq(Registrations) /\ Len(rest) = m - n
      BY <3>2
    <3>4. n < m
      BY <3>1, <3>2, <3>3
    <3>5. rest[1] = f[n + 1] /\ f[n + 1] \in Registrations
      BY <3>2, <3>4
    <3>6. Head(rest) = rest[1]
      BY <3>1, <3>3
    <3> QED
      BY <3>1, <3>4, <3>5, <3>6 DEF f, n
  <2>4. at \in {"running", "raised"}
    OBVIOUS
  <2> HIDE DEF next, at
  <2>5. /\ ran \in Seq(Registrations) /\ Len(ran) = n + 1 /\ ran[n + 1] = next
        /\ \A i \in 1 .. n : ran[i] = e.ran[i]
    BY <2>2, <2>3
  <2> HIDE DEF ran
  <2>6. /\ s \in Emissions /\ s.at = at /\ s.found = e.found /\ s.ran = ran
        /\ s.allowed = e.allowed
    BY <1>2, <2>4, <2>5 DEF Emissions
  <2> HIDE DEF s
  <2>7. \A i \in 1 .. n + 1 : ran[i] = e.found[i]
    <3>1. \A i \in 1 .. n : e.ran[i] = e.found[i]
      BY <1>1 DEF Governed
    <3>2. \A i \in 1 .. n + 1 : i = n + 1 \/ i \in 1 .. n
      BY <2>2
    <3> QED
      BY <2>3, <2>5, <3>1, <3>2
  <2>8. Governed(s)
    BY <1>1, <2>2, <2>3, <2>4, <2>5, <2>6, <2>7 DEF Governed
  <2> QED
    BY <1>3, <2>1, <2>6, <2>8
<1>5. ASSUME NEW at \in {"done", "raised"}, emission' = [emission EXCEPT ![t].at = at],
             at = "done" => RemainingHandlers(t) = <<>>
      PROVE  HooksInv'
  <2> DEFINE s == [e EXCEPT !.at = at]
  <2>1. /\ s \in Emissions /\ s.at = at /\ s.found = e.found /\ s.ran = e.ran
        /\ s.allowed = e.allowed
    BY <1>2 DEF Emissions
  <2>2. emission' = [emission EXCEPT ![t] = s]
    BY <1>5 DEF HooksInv
  <2> HIDE DEF s
  <2>3. ASSUME at = "done" PROVE Len(e.ran) = Len(e.found)
    <3> DEFINE f == e.found
               n == Len(e.ran)
               m == Len(f)
    <3>1. f \in Seq(Registrations) /\ n \in Nat /\ m \in Nat /\ n <= m
      BY <1>1, <1>2 DEF Governed
    <3>2. SubSeq(f, n + 1, m) = <<>>
      BY <1>5, <2>3 DEF RemainingHandlers
    <3> HIDE DEF f, n, m
    <3>3. n + 1 \in 1 .. m + 1 /\ m = Len(f)
      BY <3>1 DEF m
    <3>4. Len(SubSeq(f, n + 1, m)) = IF n + 1 <= m THEN m - (n + 1) + 1 ELSE 0
      BY <3>1, <3>3
    <3>5. Len(SubSeq(f, n + 1, m)) = 0
      <4>1. Len(<<>>) = 0
        OBVIOUS
      <4> QED
        BY <3>2, <4>1
    <3>6. n = m
      BY <3>1, <3>4, <3>5
    <3> QED
      BY <3>6 DEF f, n, m
  <2>4. Governed(s)
    BY <1>1, <2>1, <2>3 DEF Governed
  <2> QED
    BY <1>3, <2>1, <2>2, <2>4
<1> QED
  BY <1>4, <1>5 DEF EndEmit, CancelEmit

\* A mutating hook runs only in an emission that was allowed, and what has run is the
\* beginning of what emit found, in order and without a gap or a repetition, whoever
\* registers or unregisters while one is awaited (HookBus.emit works on the
\* registrations it found).
THEOREM MutationIsGovernedCorrect == HooksSpec => []MutationIsGoverned
<1>1. HooksInv /\ [HooksNext]_hookVars => HooksInv'
  <2> SUFFICES ASSUME HooksInv, [HooksNext]_hookVars PROVE HooksInv'
    OBVIOUS
  <2>1. CASE UNCHANGED hookVars
    BY <2>1 DEF hookVars, HooksInv
  <2> QED
    BY <2>1, RegistersKeep, BeginKeeps, HandleKeeps DEF HooksNext
<1>2. HooksInv => MutationIsGoverned
  <2> SUFFICES ASSUME HooksInv, NEW t \in Emitters, emission[t].at \in {"running", "raised", "done"}
               PROVE  LET ran == emission[t].ran
                          found == emission[t].found
                      IN  /\ Mutates(ran) => emission[t].allowed
                          /\ \A i, j \in DOMAIN ran : i < j => Before(ran[i], ran[j])
                          /\ ToSet(ran) \subseteq ToSet(found)
                          /\ \A r \in ToSet(found) :
                                emission[t].at = "done" \/ (\E s \in ToSet(ran) : Before(r, s))
                                   => r \in ToSet(ran)
    BY DEF MutationIsGoverned
  <2> DEFINE e == emission[t]
  <2>1. /\ Governed(e) /\ e.found \in Seq(Registrations) /\ e.ran \in Seq(Registrations)
    BY DEF HooksInv, Emissions
  <2>2. \A i \in DOMAIN e.ran : i \in DOMAIN e.found /\ e.ran[i] = e.found[i]
    BY <2>1 DEF Governed
  <2>3. Mutates(e.ran) => e.allowed
    BY <2>1, <2>2 DEF Mutates, Governed
  <2>4. \A i, j \in DOMAIN e.ran : i < j => Before(e.ran[i], e.ran[j])
    BY <2>1, <2>2 DEF Governed, InOrder
  <2>5. ToSet(e.ran) \subseteq ToSet(e.found)
    BY <2>2 DEF ToSet
  <2>6. ASSUME NEW r \in ToSet(e.found),
               e.at = "done" \/ (\E s \in ToSet(e.ran) : Before(r, s))
        PROVE  r \in ToSet(e.ran)
    <3>1. PICK k \in DOMAIN e.found : r = e.found[k]
      BY DEF ToSet
    <3>2. CASE e.at = "done"
      BY <2>1, <2>2, <3>1, <3>2 DEF Governed, ToSet
    <3>3. CASE \E s \in ToSet(e.ran) : Before(r, s)
      <4>1. PICK m \in DOMAIN e.ran : Before(r, e.ran[m])
        BY <3>3 DEF ToSet
      <4>2. m \in DOMAIN e.found /\ e.ran[m] = e.found[m]
        BY <2>2
      <4>3. \A a, b \in Registrations : Before(a, b) => ~Before(b, a)
        <5>1. \A a \in Registrations : a.sequence \in Int /\ a.hook.priority \in Int
          BY HooksAssumption DEF Registrations
        <5> QED
          BY <5>1 DEF Before
      <4>4. e.found[k] \in Registrations /\ e.found[m] \in Registrations
        BY <2>1, <4>2
      <4>5. ~(m < k) /\ m # k
        BY <2>1, <3>1, <4>1, <4>2, <4>3, <4>4 DEF Governed, InOrder
      <4>6. k \in DOMAIN e.ran
        BY <2>1, <4>2, <4>5
      <4> QED
        BY <2>2, <3>1, <4>6 DEF ToSet
    <3> QED
      BY <2>6, <3>2, <3>3
  <2> QED
    BY <2>3, <2>4, <2>5, <2>6
<1> QED
  BY <1>1, <1>2, HooksStart, PTL DEF HooksSpec
===============================================================================
