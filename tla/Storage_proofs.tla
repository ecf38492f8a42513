---------------------------- MODULE Storage_proofs ----------------------------
(***************************************************************************)
(* Proofs about what is kept on disk.  The event log: for any number of    *)
(* owners, a Session whose head is the store's has the whole log, and the  *)
(* owners implement AppendOnlyLog.  Memory: the audit events account for   *)
(* the store although no lock spans a write and its event.  Workspace: the *)
(* file tools lose no edit, for any number of calls and runs, as long as   *)
(* every write carries a digest and no text comes back.  Artifacts: what   *)
(* put returned can be read, whatever other agents of the directory do,    *)
(* unless they delete it.                                                  *)
(***************************************************************************)
EXTENDS SessionLog, Memory, Workspace, Artifacts, FiniteSetTheorems, SequenceTheorems, TLAPS

-----------------------------------------------------------------------------
(* The event log.                                                          *)

\* No two threads use the same Session object: every thread is a process.
Owners == \A t, u \in Threads : Object[t] = Object[u] => t = u

SessionPlaces == {"idle", "append", "count", "increment", "extend", "notify", "compare",
           "read", "recheck", "set_head", "set_events", "load"}

Starts(a, b) == Len(a) <= Len(b) /\ \A i \in 1 .. Len(a) : a[i] = b[i]

SessionType ==
    /\ log \in Seq(Events)
    /\ head \in [Objects -> Nat]
    /\ events \in [Objects -> Seq(Events)]
    /\ pc \in [Threads -> SessionPlaces]
    /\ expected \in [Threads -> Nat]
    /\ batch \in [Threads -> Seq(Events)]
    /\ info \in [Threads -> Nat]
    /\ copy \in [Threads -> Seq(Events)]

\* What an owner has cached begins the log, and reaches to its head.
Cached(t) ==
    /\ Starts(events[Object[t]], log)
    /\ head[Object[t]] <= Len(log)
    /\ pc[t] \in {"idle", "append", "notify", "compare", "read", "recheck", "set_head", "load"}
          => head[Object[t]] <= Len(events[Object[t]])

\* An append that the store has accepted continues what is cached, and its batch
\* stands in the log behind that.
Appending(t) ==
    /\ pc[t] = "append" => expected[t] = head[Object[t]]
    /\ pc[t] \in {"count", "increment", "extend", "notify"} => Len(batch[t]) >= 1
    /\ pc[t] \in {"count", "increment", "extend"} =>
          /\ Len(events[Object[t]]) = expected[t]
          /\ expected[t] + Len(batch[t]) <= Len(log)
          /\ \A i \in 1 .. Len(batch[t]) : log[expected[t] + i] = batch[t][i]
    /\ pc[t] \in {"count", "increment"} => head[Object[t]] = expected[t]
    /\ pc[t] = "increment" => info[t] = head[Object[t]]
    /\ pc[t] = "extend" => head[Object[t]] = expected[t] + Len(batch[t])

\* A head that was read lies between the cached one and the log's, and events that
\* were read belong to it once it has been compared again.
Reading(t) ==
    /\ pc[t] \in {"compare", "read", "recheck", "set_head", "load"} =>
          head[Object[t]] <= info[t] /\ info[t] <= Len(log)
    /\ pc[t] \in {"recheck", "set_head", "set_events"} => Starts(copy[t], log)
    /\ pc[t] = "recheck" => info[t] <= Len(copy[t])
    /\ pc[t] \in {"set_head", "set_events"} => Len(copy[t]) = info[t]
    /\ pc[t] = "set_events" => head[Object[t]] = info[t]

Owner(t) == Cached(t) /\ Appending(t) /\ Reading(t)

SessionInv == SessionType /\ \A t \in Threads : Owner(t)

\* What a thread has of its own does not change.
Still(t) ==
    /\ pc'[t] = pc[t] /\ expected'[t] = expected[t] /\ batch'[t] = batch[t]
    /\ info'[t] = info[t] /\ copy'[t] = copy[t]
    /\ head'[Object[t]] = head[Object[t]] /\ events'[Object[t]] = events[Object[t]]
-----------------------------------------------------------------------------
USE SessionAssumption

LEMMA ObjectType == ASSUME NEW t \in Threads PROVE Object[t] \in Objects
BY DEF SessionAssumption

LEMMA Joined ==
    ASSUME NEW a \in Seq(Events), NEW b \in Seq(Events)
    PROVE  /\ Len(a \o b) = Len(a) + Len(b)
           /\ \A i \in 1 .. Len(a) : (a \o b)[i] = a[i]
           /\ \A i \in 1 .. Len(b) : (a \o b)[Len(a) + i] = b[i]
OBVIOUS

\* Owners that do not move keep their invariant while the log grows.
LEMMA StillOwner ==
    ASSUME SessionType, SessionType', NEW t \in Threads, Owner(t), Still(t), Starts(log, log')
    PROVE  Owner(t)'
<1>1. /\ Object[t] \in Objects
      /\ events[Object[t]] \in Seq(Events) /\ copy[t] \in Seq(Events) /\ batch[t] \in Seq(Events)
      /\ expected[t] \in Nat /\ info[t] \in Nat /\ head[Object[t]] \in Nat
      /\ log \in Seq(Events) /\ log' \in Seq(Events)
  BY ObjectType DEF SessionType
<1>2. Cached(t)'
  <2>1. Starts(events[Object[t]], log)'
    BY <1>1, SMTT(30) DEF Owner, Cached, Still, Starts
  <2>2. (head[Object[t]] <= Len(log))'
    BY <1>1 DEF Owner, Cached, Still, Starts
  <2> QED
    BY <1>1, <2>1, <2>2 DEF Owner, Cached, Still
<1>3. Appending(t)'
  <2>1. ASSUME pc[t] \in {"count", "increment", "extend"}
        PROVE  /\ expected[t] + Len(batch[t]) <= Len(log')
               /\ \A i \in 1 .. Len(batch[t]) : log'[expected[t] + i] = batch[t][i]
    <3>1. /\ expected[t] + Len(batch[t]) <= Len(log)
          /\ \A i \in 1 .. Len(batch[t]) : log[expected[t] + i] = batch[t][i]
      BY <2>1 DEF Owner, Appending
    <3>2. \A i \in 1 .. Len(batch[t]) : expected[t] + i \in 1 .. Len(log)
      BY <1>1, <3>1, SMTT(30)
    <3>3. expected[t] + Len(batch[t]) <= Len(log')
      BY <1>1, <3>1 DEF Starts
    <3>4. ASSUME NEW i \in 1 .. Len(batch[t])
          PROVE  log'[expected[t] + i] = batch[t][i]
      <4>1. \A k \in 1 .. Len(log) : log[k] = log'[k]
        BY DEF Starts
      <4> QED
        BY <3>1, <3>2, <4>1
    <3> QED
      BY <3>3, <3>4
  <2> QED
    BY <1>1, <2>1 DEF Owner, Appending, Still
<1>4. Reading(t)'
  BY <1>1 DEF Owner, Reading, Still, Starts
<1> QED
  BY <1>2, <1>3, <1>4 DEF Owner

\* The batch that the store numbers is a sequence of events.
LEMMA PersistedType ==
    ASSUME SessionType, NEW t \in Threads, NEW n \in {1, 2}, expected[t] + n <= MaxEvents
    PROVE  /\ Persisted(t, n) \in Batches
           /\ Persisted(t, n) \in Seq(Events)
           /\ Len(Persisted(t, n)) = n
           /\ \A i \in 1 .. n : Persisted(t, n)[i].seq = expected[t] + i
<1>1. expected[t] \in Nat
  BY DEF SessionType
<1>2. \A i \in 1 .. n : [by |-> t, seq |-> expected[t] + i] \in Events
  BY <1>1 DEF SessionAssumption, Events
<1>3. Persisted(t, n) \in [1 .. n -> Events]
  BY <1>2 DEF Persisted
<1> QED
  BY <1>3, SMTT(30) DEF Persisted, Batches

LEMMA TypeStep == ASSUME SessionInv, [Next]_vars PROVE SessionType'
<1> SUFFICES ASSUME NEW t \in Threads, AppendStep(t) \/ RefreshStep(t) \/ LoadStep(t)
             PROVE  SessionType'
  BY DEF SessionInv, SessionType, Next, vars
<1> USE ObjectType DEF SessionInv, SessionPlaces, Moves, cache, locals
<1>1. CASE BeginAppend(t)
  BY <1>1 DEF SessionType, BeginAppend
<1>2. ASSUME NEW n \in {1, 2}, StoreAppend(t, n)
      PROVE  SessionType'
  <2>1. CASE Len(log) = expected[t]
    <3>1. Persisted(t, n) \in Seq(Events)
      <4>1. expected[t] + n <= MaxEvents
        BY <1>2, <2>1 DEF StoreAppend
      <4> QED
        BY <4>1, PersistedType
    <3>2. log' \in Seq(Events)
      <4>1. log \in Seq(Events) /\ log' = log \o Persisted(t, n)
        BY <1>2, <2>1 DEF SessionType, StoreAppend
      <4> QED
        BY <3>1, <4>1
    <3>3. batch' \in [Threads -> Seq(Events)]
      <4>1. batch \in [Threads -> Seq(Events)]
        BY DEF SessionType
      <4>2. batch' = [batch EXCEPT ![t] = Persisted(t, n)]
        BY <1>2, <2>1 DEF StoreAppend
      <4> DEFINE S == Seq(Events)
                 b == Persisted(t, n)
      <4> HIDE DEF S, b
      <4>3. batch \in [Threads -> S] /\ b \in S /\ batch' = [batch EXCEPT ![t] = b]
        BY <3>1, <4>1, <4>2 DEF S, b
      <4>4. batch' \in [Threads -> S]
        BY <4>3
      <4> QED
        BY <4>4 DEF S
    <3>4. pc' \in [Threads -> SessionPlaces]
      BY <1>2, <2>1 DEF SessionType, StoreAppend
    <3>5. UNCHANGED <<head, events, expected, info, copy>>
      BY <1>2 DEF StoreAppend
    <3> QED
      BY <3>2, <3>3, <3>4, <3>5 DEF SessionType
  <2>2. CASE Len(log) # expected[t]
    BY <1>2, <2>2 DEF SessionType, StoreAppend
  <2> QED
    BY <2>1, <2>2
<1>3. CASE LoadHead(t)
  BY <1>3 DEF SessionType, LoadHead
<1>4. CASE StoreHead(t)
  BY <1>4 DEF SessionType, StoreHead
<1>5. CASE ExtendEvents(t)
  BY <1>5 DEF SessionType, ExtendEvents
<1>6. CASE NotifyObservers(t)
  <2>1. batch[t] \in Seq(Events) /\ batch[t] # <<>>
    BY <1>6 DEF SessionType, NotifyObservers, Owner, Appending
  <2> QED
    BY <1>6, <2>1 DEF SessionType, NotifyObservers
<1>7. CASE BeginRefresh(t)
  BY <1>7 DEF SessionType, BeginRefresh
<1>8. CASE CompareHead(t)
  BY <1>8 DEF SessionType, CompareHead
<1>9. CASE ReadEvents(t)
  BY <1>9 DEF SessionType, ReadEvents
<1>10. CASE RecheckHead(t)
  <2>1. UNCHANGED <<log, head, events, expected, batch, copy>>
    BY <1>10 DEF RecheckHead
  <2>2. pc' \in [Threads -> SessionPlaces]
    BY <1>10 DEF SessionType, RecheckHead
  <2>3. info' = info \/ info' = [info EXCEPT ![t] = Len(log)]
    BY <1>10 DEF RecheckHead
  <2> QED
    BY <2>1, <2>2, <2>3, SMTT(30) DEF SessionType
<1>11. CASE SetHead(t)
  BY <1>11 DEF SessionType, SetHead
<1>12. CASE SetEvents(t)
  BY <1>12 DEF SessionType, SetEvents
<1>13. CASE BeginLoad(t)
  BY <1>13 DEF SessionType, BeginLoad
<1>14. CASE LoadEvents(t)
  BY <1>14 DEF SessionType, LoadEvents
<1> QED
  BY <1>1, <1>2, <1>3, <1>4, <1>5, <1>6, <1>7, <1>8, <1>9, <1>10, <1>11, <1>12, <1>13, <1>14
  DEF AppendStep, RefreshStep, LoadStep

OwnerStep(t) == AppendStep(t) \/ RefreshStep(t) \/ LoadStep(t)

\* No step of a thread touches what another owner has, and the log only grows.
LEMMA Elsewhere ==
    ASSUME Owners, SessionInv, SessionType', NEW t \in Threads, OwnerStep(t)
    PROVE  Starts(log, log') /\ \A u \in Threads \ {t} : Still(u)
<1> USE DEF Moves, cache, locals, OwnerStep, AppendStep, RefreshStep, LoadStep
<1>1. Starts(log, log')
  <2>1. CASE log' = log
    BY <2>1 DEF Starts
  <2>2. ASSUME NEW n \in {1, 2}, StoreAppend(t, n), Len(log) = expected[t]
        PROVE  Starts(log, log')
    <3>1. expected[t] + n <= MaxEvents /\ log' = log \o Persisted(t, n)
      BY <2>2 DEF StoreAppend
    <3>2. Persisted(t, n) \in Seq(Events)
      BY <3>1, PersistedType DEF SessionInv
    <3> QED
      BY <3>1, <3>2 DEF Starts, SessionInv, SessionType
  <2> QED
    BY <2>1, <2>2 DEF BeginAppend, StoreAppend, LoadHead, StoreHead, ExtendEvents,
       NotifyObservers, BeginRefresh, CompareHead, ReadEvents, RecheckHead, SetHead,
       SetEvents, BeginLoad, LoadEvents
<1>2. ASSUME NEW u \in Threads \ {t} PROVE Still(u)
  <2>1. Object[t] \in Objects /\ Object[u] \in Objects /\ Object[u] # Object[t]
    BY ObjectType DEF Owners
  <2>2. CASE AppendStep(t)
    <3>1. CASE BeginAppend(t) \/ LoadHead(t) \/ StoreHead(t)
      BY <2>1, <3>1 DEF SessionInv, SessionType, Still, BeginAppend, LoadHead, StoreHead
    <3>2. ASSUME NEW n \in {1, 2}, StoreAppend(t, n) PROVE Still(u)
      BY <2>1, <3>2 DEF SessionInv, SessionType, Still, StoreAppend
    <3>3. CASE ExtendEvents(t) \/ NotifyObservers(t)
      BY <2>1, <3>3 DEF SessionInv, SessionType, Still, ExtendEvents, NotifyObservers
    <3> QED
      BY <2>2, <3>1, <3>2, <3>3 DEF AppendStep
  <2>3. CASE RefreshStep(t)
    BY <2>1, <2>3 DEF SessionInv, SessionType, Still, BeginRefresh, CompareHead, ReadEvents,
       RecheckHead, SetHead, SetEvents
  <2>4. CASE LoadStep(t)
    BY <2>1, <2>4 DEF SessionInv, SessionType, Still, BeginLoad, LoadEvents
  <2> QED
    BY <2>2, <2>3, <2>4
<1> QED
  BY <1>1, <1>2

\* Its own steps keep what an owner knows of the log.
LEMMA OwnStep ==
    ASSUME SessionInv, SessionType', NEW t \in Threads, OwnerStep(t)
    PROVE  Owner(t)'
<1> DEFINE o == Object[t]
<1>0. /\ o \in Objects
      /\ head[o] \in Nat /\ events[o] \in Seq(Events) /\ log \in Seq(Events)
      /\ expected[t] \in Nat /\ info[t] \in Nat /\ batch[t] \in Seq(Events)
      /\ copy[t] \in Seq(Events) /\ Owner(t) /\ SessionType
  BY ObjectType DEF SessionInv, SessionType
<1> USE <1>0 DEF Moves, cache, locals
<1>1. CASE BeginAppend(t)
  BY <1>1 DEF SessionType, BeginAppend, Owner, Cached, Appending, Reading
<1>2. ASSUME NEW n \in {1, 2}, StoreAppend(t, n), Len(log) = expected[t]
      PROVE  Owner(t)'
  <2> DEFINE b == Persisted(t, n)
  <2>1. expected[t] + n <= MaxEvents /\ log' = log \o b
    BY <1>2 DEF StoreAppend
  <2>2. b \in Seq(Events) /\ Len(b) = n
    BY <2>1, PersistedType
  <2> HIDE DEF b
  <2>3. /\ pc'[t] = "count" /\ batch'[t] = b
        /\ UNCHANGED <<head, events, expected, info, copy>>
    BY <1>2 DEF StoreAppend, SessionType, b
  <2>4. pc[t] = "append" /\ expected[t] = head[o] /\ events[o] = log
    <3>1. /\ pc[t] = "append" /\ expected[t] = head[o] /\ Starts(events[o], log)
          /\ head[o] <= Len(events[o])
      BY <1>2 DEF StoreAppend, Owner, Cached, Appending
    <3>2. Len(events[o]) = Len(log)
      BY <1>2, <3>1 DEF Starts
    <3> QED
      BY <3>1, <3>2, SeqEqual DEF Starts
  <2>5. /\ Len(log') = Len(log) + n
        /\ \A i \in 1 .. Len(log) : log'[i] = log[i]
        /\ \A i \in 1 .. n : log'[Len(log) + i] = b[i]
    BY <2>1, <2>2
  <2>6. Cached(t)'
    <3>1. events'[o] = log /\ head'[o] = Len(log) /\ pc'[t] = "count"
      BY <1>2, <2>3, <2>4
    <3>2. Starts(events[o], log)'
      BY <2>5, <3>1 DEF Starts
    <3> QED
      BY <2>5, <3>1, <3>2 DEF Cached
  <2>7. Appending(t)'
    BY <1>2, <2>2, <2>3, <2>4, <2>5 DEF Appending
  <2>8. Reading(t)'
    BY <2>3 DEF Reading
  <2> QED
    BY <2>6, <2>7, <2>8 DEF Owner
<1>3. ASSUME NEW n \in {1, 2}, StoreAppend(t, n), Len(log) # expected[t]
      PROVE  Owner(t)'
  BY <1>3 DEF StoreAppend, SessionType, Owner, Cached, Appending, Reading
<1>4. CASE LoadHead(t)
  BY <1>4 DEF SessionType, LoadHead, Owner, Cached, Appending, Reading
<1>5. CASE StoreHead(t)
  BY <1>5 DEF SessionType, StoreHead, Owner, Cached, Appending, Reading
<1>6. CASE ExtendEvents(t)
  <2>1. /\ pc[t] = "extend" /\ pc'[t] = "notify" /\ events'[o] = events[o] \o batch[t]
        /\ UNCHANGED <<log, head, expected, batch, info, copy>>
    BY <1>6 DEF ExtendEvents, SessionType
  <2>2. /\ Len(events[o]) = expected[t] /\ head[o] = expected[t] + Len(batch[t])
        /\ head[o] <= Len(log) /\ Starts(events[o], log)
        /\ \A i \in 1 .. Len(batch[t]) : log[expected[t] + i] = batch[t][i]
    BY <2>1 DEF Owner, Cached, Appending
  <2>3. /\ Len(events'[o]) = head[o]
        /\ \A i \in 1 .. Len(batch[t]) : events'[o][expected[t] + i] = batch[t][i]
        /\ \A i \in 1 .. Len(events[o]) : events'[o][i] = events[o][i]
    <3> DEFINE x == events[o]
               y == batch[t]
    <3>1. x \in Seq(Events) /\ y \in Seq(Events)
      OBVIOUS
    <3>2. events'[o] = x \o y /\ Len(x) = expected[t] /\ head[o] = expected[t] + Len(y)
      BY <2>1, <2>2
    <3> HIDE DEF x, y
    <3>3. /\ Len(x \o y) = head[o]
          /\ \A i \in 1 .. Len(y) : (x \o y)[expected[t] + i] = y[i]
          /\ \A i \in 1 .. Len(x) : (x \o y)[i] = x[i]
      <4>1. /\ Len(x \o y) = Len(x) + Len(y)
            /\ \A i \in 1 .. Len(x) : (x \o y)[i] = x[i]
            /\ \A i \in 1 .. Len(y) : (x \o y)[Len(x) + i] = y[i]
        BY <3>1, Joined
      <4> QED
        BY <3>2, <4>1
    <3> QED
      BY <3>2, <3>3 DEF x, y
  <2>4. ASSUME NEW i \in 1 .. Len(events'[o]) PROVE events'[o][i] = log[i]
    <3>1. CASE i <= Len(events[o])
      BY <2>2, <2>3, <3>1 DEF Starts
    <3>2. CASE i > Len(events[o])
      <4>1. i - expected[t] \in 1 .. Len(batch[t])
        BY <2>2, <2>3, <3>2, SMTT(30)
      <4>2. events'[o][expected[t] + (i - expected[t])] = batch[t][i - expected[t]]
        BY <2>3, <4>1
      <4>3. log[expected[t] + (i - expected[t])] = batch[t][i - expected[t]]
        BY <2>2, <4>1
      <4>4. i \in Nat /\ expected[t] + (i - expected[t]) = i
        BY <2>3
      <4> QED
        BY <4>2, <4>3, <4>4
    <3> QED
      BY <2>3, <3>1, <3>2
  <2>5. Starts(events[o], log)'
    BY <2>1, <2>2, <2>3, <2>4 DEF Starts
  <2> QED
    BY <2>1, <2>2, <2>3, <2>5 DEF Owner, Cached, Appending, Reading
<1>7. CASE NotifyObservers(t)
  <2>1. /\ pc[t] = "notify" /\ batch'[t] = Tail(batch[t])
        /\ pc'[t] = IF Len(batch[t]) = 1 THEN "idle" ELSE "notify"
        /\ UNCHANGED <<log, head, events, expected, info, copy>>
    BY <1>7 DEF NotifyObservers, SessionType
  <2>2. Len(batch[t]) >= 1 /\ Len(Tail(batch[t])) = Len(batch[t]) - 1
    BY <2>1 DEF Owner, Appending
  <2>3. Cached(t)'
    BY <2>1 DEF Owner, Cached
  <2>4. pc'[t] = "notify" => Len(batch'[t]) >= 1
    <3>1. pc'[t] = "notify" => Len(batch[t]) # 1
      BY <2>1
    <3>2. Len(batch[t]) \in Nat
      OBVIOUS
    <3>3. Len(batch[t]) # 1 => Len(Tail(batch[t])) >= 1
      <4> DEFINE n == Len(batch[t])
                 m == Len(Tail(batch[t]))
      <4>1. n \in Nat /\ n >= 1 /\ m = n - 1
        BY <2>2, <3>2
      <4> HIDE DEF n, m
      <4>2. n # 1 => m >= 1
        BY <4>1
      <4> QED
        BY <4>2 DEF n, m
    <3> QED
      BY <2>1, <3>1, <3>3
  <2>5. Appending(t)' /\ Reading(t)'
    BY <2>1, <2>4 DEF Appending, Reading
  <2> QED
    BY <2>3, <2>5 DEF Owner
<1>8. CASE BeginRefresh(t)
  BY <1>8 DEF SessionType, BeginRefresh, Owner, Cached, Appending, Reading
<1>9. CASE CompareHead(t)
  BY <1>9 DEF SessionType, CompareHead, Owner, Cached, Appending, Reading
<1>10. CASE ReadEvents(t)
  BY <1>10 DEF SessionType, ReadEvents, Owner, Cached, Appending, Reading, Starts
<1>11. CASE RecheckHead(t)
  <2>1. /\ pc[t] = "recheck" /\ UNCHANGED <<log, head, events, expected, batch, copy>>
        /\ \/ pc'[t] = "set_head" /\ info'[t] = info[t] /\ Len(log) = info[t]
           \/ pc'[t] = "compare" /\ info'[t] = Len(log)
           \/ pc'[t] = "idle"
    BY <1>11 DEF RecheckHead, SessionType
  <2>2. Starts(copy[t], log) /\ info[t] <= Len(copy[t]) /\ head[o] <= info[t] /\ info[t] <= Len(log)
    BY <2>1 DEF Owner, Reading
  <2>3. Len(log) = info[t] => Len(copy[t]) = info[t]
    BY <2>2 DEF Starts
  <2> QED
    BY <2>1, <2>2, <2>3 DEF Owner, Cached, Appending, Reading
<1>12. CASE SetHead(t)
  BY <1>12 DEF SessionType, SetHead, Owner, Cached, Appending, Reading
<1>13. CASE SetEvents(t)
  BY <1>13 DEF SessionType, SetEvents, Owner, Cached, Appending, Reading
<1>14. CASE BeginLoad(t)
  BY <1>14 DEF SessionType, BeginLoad, Owner, Cached, Appending, Reading
<1>15. CASE LoadEvents(t)
  BY <1>15 DEF SessionType, LoadEvents, Owner, Cached, Appending, Reading, Starts
<1> QED
  BY <1>1, <1>2, <1>3, <1>4, <1>5, <1>6, <1>7, <1>8, <1>9, <1>10, <1>11, <1>12, <1>13, <1>14, <1>15
  DEF OwnerStep, AppendStep, RefreshStep, LoadStep
-----------------------------------------------------------------------------
LEMMA InitInv == Init => SessionInv
<1> SUFFICES ASSUME Init PROVE SessionInv
  OBVIOUS
<1>1. SessionType
  BY DEF Init, SessionType, SessionPlaces
<1>2. ASSUME NEW t \in Threads PROVE Owner(t)
  BY ObjectType DEF Init, Owner, Cached, Appending, Reading, Starts
<1> QED
  BY <1>1, <1>2 DEF SessionInv

LEMMA NextInv == ASSUME Owners, SessionInv, [Next]_vars PROVE SessionInv'
<1>1. SessionType'
  BY TypeStep
<1>2. CASE UNCHANGED vars
  BY <1>2 DEF vars, SessionInv, SessionType, Owner, Cached, Appending, Reading, Starts
<1>3. ASSUME NEW t \in Threads, OwnerStep(t) PROVE SessionInv'
  <2>1. Owner(t)'
    BY <1>1, <1>3, OwnStep
  <2>2. ASSUME NEW u \in Threads \ {t} PROVE Owner(u)'
    <3>1. Still(u) /\ Starts(log, log')
      BY <1>1, <1>3, Elsewhere
    <3> QED
      BY <1>1, <3>1, StillOwner DEF SessionInv
  <2> QED
    BY <1>1, <2>1, <2>2 DEF SessionInv
<1> QED
  BY <1>2, <1>3 DEF Next, OwnerStep

LEMMA Invariance == ASSUME Owners PROVE Spec => []SessionInv
<1>1. SessionInv /\ [Next]_vars => SessionInv'
  BY NextInv
<1> QED
  BY <1>1, InitInv, PTL DEF Spec

\* Among owners of Session objects, one whose head_seq is the head of the store has
\* read the whole log whenever it may append (append_many, refresh, load).
THEOREM CurrentViewCorrect == ASSUME Owners PROVE Spec => []CurrentViewIsComplete
<1>1. SessionInv => CurrentViewIsComplete
  <2> SUFFICES ASSUME SessionInv, NEW t \in Threads, pc[t] \in {"idle", "append"},
                      head[Object[t]] = Len(log)
               PROVE  events[Object[t]] = log
    BY DEF CurrentViewIsComplete
  <2>1. events[Object[t]] \in Seq(Events) /\ log \in Seq(Events)
    BY ObjectType DEF SessionInv, SessionType
  <2>2. Starts(events[Object[t]], log) /\ Len(log) <= Len(events[Object[t]])
    BY DEF SessionInv, Owner, Cached
  <2>3. Len(events[Object[t]]) = Len(log)
    BY <2>1, <2>2 DEF Starts
  <2> QED
    BY <2>1, <2>2, <2>3 DEF Starts
<1> QED
  BY <1>1, Invariance, PTL
-----------------------------------------------------------------------------
\* A step of an owner is a step of AppendOnlyLog: it extends the log, learns how
\* long it is, or changes nothing that the log promises.
LEMMA StepRefines ==
    ASSUME Owners, SessionInv, SessionInv', NEW t \in Threads, OwnerStep(t)
    PROVE  [Abstract!Next]_<<log, Seen>>
<1> DEFINE o == Object[t]
<1>0. /\ o \in Objects /\ Owner(t) /\ SessionType /\ SessionType'
      /\ \A u \in Threads \ {t} : Still(u)
  BY ObjectType, Elsewhere DEF SessionInv
<1>1. \A u \in Threads \ {t} : Seen'[u] = Seen[u]
  BY <1>0 DEF Seen, Still
<1>2. Seen \in [Threads -> Nat] /\ Seen' \in [Threads -> Nat]
  <2>1. ASSUME NEW u \in Threads
        PROVE  head[Object[u]] \in Nat /\ expected[u] + Len(batch[u]) \in Nat
    <3>1. Object[u] \in Objects
      BY ObjectType
    <3>2. head[Object[u]] \in Nat /\ expected[u] \in Nat /\ batch[u] \in Seq(Events)
      BY <1>0, <3>1 DEF SessionType
    <3>3. Len(batch[u]) \in Nat
      BY <3>2
    <3> QED
      BY <3>2, <3>3
  <2>2. ASSUME NEW u \in Threads
        PROVE  head'[Object[u]] \in Nat /\ expected'[u] + Len(batch'[u]) \in Nat
    <3>1. Object[u] \in Objects
      BY ObjectType
    <3>2. head'[Object[u]] \in Nat /\ expected'[u] \in Nat /\ batch'[u] \in Seq(Events)
      BY <1>0, <3>1 DEF SessionType
    <3>3. Len(batch'[u]) \in Nat
      BY <3>2
    <3> QED
      BY <3>2, <3>3
  <2> QED
    BY <2>1, <2>2 DEF Seen
<1>3. \A n : Seen'[t] = n => Seen' = [Seen EXCEPT ![t] = n]
  BY <1>1, <1>2
<1>4. /\ Seen[t] = IF pc[t] \in {"count", "increment"} THEN expected[t] + Len(batch[t])
                   ELSE head[o]
      /\ Seen'[t] = IF pc'[t] \in {"count", "increment"} THEN expected'[t] + Len(batch'[t])
                    ELSE head'[o]
  BY DEF Seen
<1> HIDE DEF o
<1>5. ASSUME log' = log, Seen'[t] = Seen[t]
      PROVE  [Abstract!Next]_<<log, Seen>>
  BY <1>2, <1>3, <1>5
<1>6. ASSUME log' = log, Seen'[t] \in Seen[t] .. Len(log)
      PROVE  [Abstract!Next]_<<log, Seen>>
  <2>1. Seen'[t] \in 0 .. Len(log)
    BY <1>2, <1>6
  <2>2. Abstract!Learn(t, Seen'[t])
    BY <1>3, <1>6 DEF Abstract!Learn
  <2> QED
    BY <2>1, <2>2 DEF Abstract!Next
<1>7. ASSUME NEW n \in {1, 2}, StoreAppend(t, n), Len(log) = expected[t]
      PROVE  [Abstract!Next]_<<log, Seen>>
  <2> DEFINE b == Persisted(t, n)
  <2>1. /\ expected[t] + n <= MaxEvents /\ log' = log \o b
        /\ pc[t] = "append" /\ pc'[t] = "count" /\ batch'[t] = b
        /\ expected' = expected
    BY <1>0, <1>7 DEF StoreAppend, SessionType, Moves
  <2>2. /\ b \in Batches /\ b \in Seq(Events) /\ Len(b) = n
        /\ \A i \in 1 .. n : b[i].seq = Len(log) + i
    BY <1>0, <1>7, <2>1, PersistedType
  <2>3. Seen[t] = Len(log)
    BY <1>0, <1>4, <1>7, <2>1 DEF Owner, Appending, o
  <2>4. DOMAIN b = 1 .. n
    BY DEF Persisted
  <2> HIDE DEF b
  <2>5. Len(log') = Len(log) + n
    <3>1. log \in Seq(Events)
      BY <1>0 DEF SessionType
    <3> QED
      BY <2>1, <2>2, <3>1, Joined
  <2>6. Seen'[t] = Len(log')
    BY <1>4, <1>7, <2>1, <2>2, <2>5
  <2>7. Abstract!Extend(t, b)
    BY <1>3, <2>1, <2>2, <2>3, <2>4, <2>6 DEF Abstract!Extend
  <2> QED
    BY <2>2, <2>7 DEF Abstract!Next
<1> USE DEF Moves, cache, locals
<1>8. CASE AppendStep(t) /\ ~\E n \in {1, 2} : StoreAppend(t, n) /\ Len(log) = expected[t]
  <2>1. log' = log
    BY <1>8 DEF AppendStep, BeginAppend, StoreAppend, LoadHead, StoreHead, ExtendEvents,
       NotifyObservers
  <2>2. Seen'[t] = Seen[t]
    <3>1. CASE BeginAppend(t)
      BY <1>0, <1>4, <3>1 DEF BeginAppend, SessionType
    <3>2. ASSUME NEW n \in {1, 2}, StoreAppend(t, n) PROVE Seen'[t] = Seen[t]
      BY <1>0, <1>4, <1>8, <3>2 DEF StoreAppend, SessionType
    <3>3. CASE LoadHead(t)
      BY <1>0, <1>4, <3>3 DEF LoadHead, SessionType
    <3>4. CASE StoreHead(t)
      BY <1>0, <1>4, <3>4 DEF StoreHead, SessionType, Owner, Appending, o
    <3>5. CASE ExtendEvents(t)
      BY <1>0, <1>4, <3>5 DEF ExtendEvents, SessionType
    <3>6. CASE NotifyObservers(t)
      BY <1>0, <1>4, <3>6 DEF NotifyObservers, SessionType
    <3> QED
      BY <1>8, <3>1, <3>2, <3>3, <3>4, <3>5, <3>6 DEF AppendStep
  <2> QED
    BY <1>5, <2>1, <2>2
<1>9. CASE RefreshStep(t)
  <2>1. log' = log
    BY <1>9 DEF RefreshStep, BeginRefresh, CompareHead, ReadEvents, RecheckHead, SetHead, SetEvents
  <2>2. CASE SetHead(t)
    <3>1. Seen[t] = head[o] /\ Seen'[t] = info[t] /\ info[t] \in Nat
      BY <1>0, <1>4, <2>2 DEF SetHead, SessionType, o
    <3>2. head[o] <= info[t] /\ info[t] <= Len(log)
      BY <1>0, <2>2 DEF SetHead, Owner, Reading, o
    <3> QED
      BY <1>2, <1>6, <2>1, <3>1, <3>2
  <2>3. CASE ~SetHead(t)
    <3>1. Seen'[t] = Seen[t]
      BY <1>0, <1>4, <1>9, <2>3 DEF RefreshStep, BeginRefresh, CompareHead, ReadEvents, RecheckHead,
         SetEvents, SessionType
    <3> QED
      BY <1>5, <2>1, <3>1
  <2> QED
    BY <2>2, <2>3
<1>10. CASE LoadStep(t)
  <2>1. CASE BeginLoad(t)
    BY <1>0, <1>4, <1>5, <2>1 DEF BeginLoad, SessionType
  <2>2. CASE LoadEvents(t)
    <3>1. Seen[t] = head[o] /\ Seen'[t] = info[t] /\ info[t] \in Nat /\ log' = log
      BY <1>0, <1>4, <2>2 DEF LoadEvents, SessionType, o
    <3>2. head[o] <= info[t] /\ info[t] <= Len(log)
      BY <1>0, <2>2 DEF LoadEvents, Owner, Reading, o
    <3> QED
      BY <1>2, <1>6, <3>1, <3>2
  <2> QED
    BY <1>10, <2>1, <2>2 DEF LoadStep
<1> QED
  BY <1>7, <1>8, <1>9, <1>10 DEF OwnerStep

\* Any number of owners of Session objects implement the append-only log: a batch
\* is durable as a whole and continues a log that its writer has seen to its end.
THEOREM LogImplemented == ASSUME Owners PROVE Spec => ImplementsLog
<1>1. Init => Abstract!Init
  BY ObjectType DEF Init, Abstract!Init, Seen
<1>2. SessionInv /\ SessionInv' /\ [Next]_vars => [Abstract!Next]_<<log, Seen>>
  <2> SUFFICES ASSUME SessionInv, SessionInv', [Next]_vars
               PROVE  [Abstract!Next]_<<log, Seen>>
    OBVIOUS
  <2>1. CASE UNCHANGED vars
    BY <2>1 DEF vars, Seen
  <2>2. ASSUME NEW t \in Threads, OwnerStep(t) PROVE [Abstract!Next]_<<log, Seen>>
    BY <2>2, StepRefines
  <2> QED
    BY <2>1, <2>2 DEF Next, OwnerStep
<1> QED
  BY <1>1, <1>2, Invariance, PTL DEF Spec, ImplementsLog, Abstract!Spec
HIDE SessionAssumption
-----------------------------------------------------------------------------
(* Memory.                                                                 *)

Written == [type : {"written", "deleted"}, memory : MemoryIds]

CallerStates ==
    [at : {"rest"}]
    \cup [at : {"put"}, fingerprint : Fingerprints]
    \cup [at : {"tombstone"}, memory : MemoryIds]
    \cup [at : {"emit"}, event : Written]

\* Ids are given out in order, and records are never taken out of the store.
MemoryType ==
    /\ \E n \in 0 .. MaxRecords : DOMAIN records = 1 .. n
    /\ records \in [DOMAIN records -> [fingerprint : Fingerprints, deleted : BOOLEAN]]
    /\ caller \in [Callers -> CallerStates]
    /\ audit \subseteq Written
    /\ refused \subseteq Written

Emitting == {c \in Callers : caller[c].at = "emit"}
Known == audit \cup refused \cup {caller[c].event : c \in Emitting}

\* What a caller deletes, and what an event tells of, is in the store.
Refers ==
    /\ \A c \in Callers : caller[c].at = "tombstone" => caller[c].memory \in DOMAIN records
    /\ \A e \in Known : e.memory \in DOMAIN records

MemoryInv == MemoryType /\ Refers /\ AuditAccountsForMemory
-----------------------------------------------------------------------------
USE MemoryAssumption

LEMMA MemoryStarts == MemoryInit => MemoryInv
<1> SUFFICES ASSUME MemoryInit PROVE MemoryInv
  OBVIOUS
<1>1. DOMAIN records = {} /\ {} = 1 .. 0 /\ 0 \in 0 .. MaxRecords
  BY DEF MemoryInit
<1>2. MemoryType
  BY <1>1 DEF MemoryInit, MemoryType, CallerStates, Resting
<1>3. Emitting = {} /\ Known = {}
  BY DEF MemoryInit, Emitting, Known, Resting
<1>4. Refers /\ AuditAccountsForMemory
  BY <1>1, <1>3 DEF Refers, AuditAccountsForMemory, MemoryInit, Resting
<1> QED
  BY <1>2, <1>4 DEF MemoryInv

\* The property only depends on the records and on the events that are known.
LEMMA Accounts ==
    AuditAccountsForMemory <=>
        \A m \in DOMAIN records :
            /\ Event("written", m) \in Known
            /\ records[m].deleted <=> Event("deleted", m) \in Known
BY DEF AuditAccountsForMemory, Known, Emitting

\* What a step of a caller, to a state s, adds to the events that are known.
LEMMA KnownStep ==
    ASSUME MemoryType, NEW c \in Callers, NEW s \in CallerStates,
           caller' = [caller EXCEPT ![c] = s]
    PROVE  /\ caller' \in [Callers -> CallerStates]
           /\ caller[c].at # "emit" /\ s.at # "emit" /\ audit' = audit /\ refused' = refused
                 => Known' = Known
           /\ caller[c].at # "emit" /\ s.at = "emit" /\ audit' = audit /\ refused' = refused
                 => Known' = Known \cup {s.event}
           /\ caller[c].at = "emit" /\ s.at # "emit"
              /\ audit' \cup refused' = audit \cup refused \cup {caller[c].event}
                 => Known' = Known
<1>1. caller \in [Callers -> CallerStates]
  BY DEF MemoryType
<1>2. caller' \in [Callers -> CallerStates]
  BY <1>1
<1>3. caller'[c] = s /\ \A d \in Callers \ {c} : caller'[d] = caller[d]
  BY <1>1
<1> QED
  BY <1>2, <1>3 DEF Known, Emitting

LEMMA FreshId ==
    ASSUME MemoryType, NEW f, NEW m \in IdFor(f) \cap MemoryIds
    PROVE  /\ m \notin DOMAIN records
           /\ \E n \in 0 .. MaxRecords : DOMAIN records \cup {m} = 1 .. n
<1>1. PICK n \in 0 .. MaxRecords : DOMAIN records = 1 .. n
  BY DEF MemoryType
<1>2. Cardinality(DOMAIN records) = n
  BY <1>1, FS_Interval
<1>3. m = n + 1 /\ m \in 1 .. MaxRecords
  BY <1>2 DEF IdFor, MemoryIds
<1>4. (1 .. n) \cup {n + 1} = 1 .. n + 1
  BY <1>3
<1> QED
  BY <1>1, <1>3, <1>4

\* A write or a deletion begins, or an event is emitted or refused.
LEMMA RecordsKeep ==
    ASSUME MemoryInv, NEW c \in Callers,
           \/ \E f \in Fingerprints : BeginWrite(c, f)
           \/ \E m \in MemoryIds : BeginForget(c, m)
           \/ Emit(c) \/ RefuseEvent(c)
    PROVE  MemoryInv'
<1>1. records' = records /\ MemoryType
  BY DEF BeginWrite, BeginForget, Emit, RefuseEvent, MemoryInv
<1>2. ASSUME NEW f \in Fingerprints, BeginWrite(c, f) PROVE MemoryInv'
  <2> DEFINE s == [at |-> "put", fingerprint |-> f]
  <2>1. /\ s \in CallerStates /\ s.at = "put" /\ caller[c].at = "rest"
        /\ caller' = [caller EXCEPT ![c] = s] /\ audit' = audit /\ refused' = refused
    BY <1>2 DEF BeginWrite, CallerStates, Resting
  <2> HIDE DEF s
  <2>2. caller' \in [Callers -> CallerStates] /\ Known' = Known
    BY <1>1, <2>1, KnownStep
  <2>3. \A d \in Callers : caller'[d].at = "tombstone" => caller'[d] = caller[d]
    BY <1>1, <2>1 DEF MemoryType
  <2> QED
    BY <1>1, <2>1, <2>2, <2>3, Accounts DEF MemoryInv, MemoryType, Refers, AuditAccountsForMemory
<1>3. ASSUME NEW m \in MemoryIds, BeginForget(c, m) PROVE MemoryInv'
  <2> DEFINE s == [at |-> "tombstone", memory |-> m]
  <2>1. /\ s \in CallerStates /\ s.at = "tombstone" /\ s.memory = m /\ caller[c].at = "rest"
        /\ m \in DOMAIN records
        /\ caller' = [caller EXCEPT ![c] = s] /\ audit' = audit /\ refused' = refused
    BY <1>3 DEF BeginForget, CallerStates, Resting, Live
  <2> HIDE DEF s
  <2>2. caller' \in [Callers -> CallerStates] /\ Known' = Known
    BY <1>1, <2>1, KnownStep
  <2>3. \A d \in Callers : caller'[d] = caller[d] \/ caller'[d] = s
    BY <1>1, <2>1 DEF MemoryType
  <2> QED
    BY <1>1, <2>1, <2>2, <2>3, Accounts DEF MemoryInv, MemoryType, Refers, AuditAccountsForMemory
<1>4. CASE Emit(c) \/ RefuseEvent(c)
  <2> DEFINE s == Resting
  <2>1. /\ s \in CallerStates /\ s.at = "rest" /\ caller[c].at = "emit"
        /\ caller' = [caller EXCEPT ![c] = s]
        /\ audit' \cup refused' = audit \cup refused \cup {caller[c].event}
    BY <1>4 DEF Emit, RefuseEvent, CallerStates, Resting
  <2> HIDE DEF s
  <2>2. caller' \in [Callers -> CallerStates] /\ Known' = Known
    BY <1>1, <2>1, KnownStep
  <2>3. \A d \in Callers : caller'[d].at = "tombstone" => caller'[d] = caller[d]
    BY <1>1, <2>1 DEF MemoryType
  <2>4. caller[c].event \in Written
    BY <1>1, <2>1 DEF MemoryType, CallerStates
  <2>5. audit' \subseteq Written /\ refused' \subseteq Written
    BY <1>1, <2>1, <2>4 DEF MemoryType
  <2>6. MemoryType'
    BY <1>1, <2>2, <2>5 DEF MemoryType
  <2>7. Refers'
    BY <1>1, <2>2, <2>3 DEF MemoryInv, Refers
  <2>8. AuditAccountsForMemory'
    BY <1>1, <2>2, Accounts DEF MemoryInv, AuditAccountsForMemory, Known, Emitting
  <2> QED
    BY <2>6, <2>7, <2>8 DEF MemoryInv
<1> QED
  BY <1>2, <1>3, <1>4

LEMMA MemoryPutKeeps == ASSUME MemoryInv, NEW c \in Callers, PutRecord(c) PROVE MemoryInv'
<1> DEFINE f == caller[c].fingerprint
<1>1. PICK m \in IdFor(f) \cap MemoryIds :
         /\ records' = [i \in DOMAIN records \cup {m} |->
                          IF i = m THEN [fingerprint |-> f, deleted |-> FALSE] ELSE records[i]]
         /\ caller' = [caller EXCEPT ![c] = [at |-> "emit", event |-> Event("written", m)]]
  BY DEF PutRecord
<1> DEFINE s == [at |-> "emit", event |-> Event("written", m)]
<1>2. /\ s \in CallerStates /\ s.at = "emit" /\ s.event = Event("written", m)
      /\ caller' = [caller EXCEPT ![c] = s]
      /\ caller[c].at = "put" /\ audit' = audit /\ refused' = refused /\ MemoryType
  BY <1>1 DEF PutRecord, CallerStates, Written, Event, MemoryInv
<1>3. f \in Fingerprints
  BY <1>2 DEF MemoryType, CallerStates
<1>4. m \notin DOMAIN records /\ \E n \in 0 .. MaxRecords : DOMAIN records \cup {m} = 1 .. n
  BY <1>1, <1>2, FreshId
<1>5. caller' \in [Callers -> CallerStates] /\ Known' = Known \cup {Event("written", m)}
  <2> HIDE DEF s
  <2> QED
    BY <1>2, KnownStep
<1> HIDE DEF f
<1>6. /\ DOMAIN records' = DOMAIN records \cup {m}
      /\ records'[m] = [fingerprint |-> f, deleted |-> FALSE]
      /\ \A i \in DOMAIN records : records'[i] = records[i]
  BY <1>1, <1>4
<1>7. MemoryType'
  BY <1>1, <1>2, <1>3, <1>4, <1>5, <1>6 DEF MemoryType
<1>8. \A d \in Callers : caller'[d].at = "tombstone" => caller'[d] = caller[d]
  BY <1>2 DEF MemoryType
<1>9. Refers'
  BY <1>5, <1>6, <1>8 DEF MemoryInv, Refers, Event
<1>10. AuditAccountsForMemory'
  <2>1. Event("deleted", m) \notin Known'
    BY <1>4, <1>5 DEF MemoryInv, Refers, Event
  <2>2. \A i \in DOMAIN records :
           /\ Event("written", i) \in Known'
           /\ records'[i].deleted <=> Event("deleted", i) \in Known'
    BY <1>4, <1>5, <1>6, Accounts DEF MemoryInv, Event
  <2>3. \A i \in DOMAIN records' :
           /\ Event("written", i) \in Known'
           /\ records'[i].deleted <=> Event("deleted", i) \in Known'
    BY <1>5, <1>6, <2>1, <2>2
  <2> QED
    BY <2>3 DEF AuditAccountsForMemory, Known, Emitting
<1> QED
  BY <1>7, <1>9, <1>10 DEF MemoryInv

LEMMA ForgetKeeps == ASSUME MemoryInv, NEW c \in Callers, Forget(c) PROVE MemoryInv'
<1> DEFINE m == caller[c].memory
           s == [at |-> "emit", event |-> Event("deleted", m)]
<1>1. /\ caller[c].at = "tombstone" /\ MemoryType
      /\ records' = [records EXCEPT ![m].deleted = TRUE]
      /\ caller' = [caller EXCEPT ![c] = s] /\ audit' = audit /\ refused' = refused
  BY DEF Forget, MemoryInv
<1>2. m \in MemoryIds /\ m \in DOMAIN records
  BY <1>1 DEF MemoryType, CallerStates, MemoryInv, Refers
<1>3. s \in CallerStates /\ s.at = "emit" /\ s.event = Event("deleted", m)
  BY <1>2 DEF CallerStates, Written, Event
<1> HIDE DEF m, s
<1>4. caller' \in [Callers -> CallerStates] /\ Known' = Known \cup {Event("deleted", m)}
  BY <1>1, <1>3, KnownStep
<1>5. /\ DOMAIN records' = DOMAIN records /\ records'[m].deleted
      /\ \A i \in DOMAIN records \ {m} : records'[i] = records[i]
      /\ records' \in [DOMAIN records -> [fingerprint : Fingerprints, deleted : BOOLEAN]]
  BY <1>1, <1>2 DEF MemoryType
<1>6. MemoryType'
  BY <1>1, <1>4, <1>5 DEF MemoryType
<1>7. \A d \in Callers : caller'[d].at = "tombstone" => caller'[d] = caller[d]
  BY <1>1, <1>3 DEF MemoryType
<1>8. Refers'
  BY <1>2, <1>4, <1>5, <1>7 DEF MemoryInv, Refers, Event
<1>9. \A i \in DOMAIN records' :
         /\ Event("written", i) \in Known'
         /\ records'[i].deleted <=> Event("deleted", i) \in Known'
  BY <1>2, <1>4, <1>5, Accounts DEF MemoryInv, Event
<1>10. AuditAccountsForMemory'
  BY <1>9 DEF AuditAccountsForMemory, Known, Emitting
<1> QED
  BY <1>6, <1>8, <1>10 DEF MemoryInv

\* MemoryService emits after the store has changed, and the store forgets nothing:
\* every change is told, about to be told, or refused by the sink.
THEOREM AuditCorrect == MemorySpec => []AuditAccountsForMemory
<1>1. MemoryInv /\ [MemoryNext]_memoryVars => MemoryInv'
  <2> SUFFICES ASSUME MemoryInv, [MemoryNext]_memoryVars PROVE MemoryInv'
    OBVIOUS
  <2>1. CASE MemoryNext
    BY <2>1, RecordsKeep, MemoryPutKeeps, ForgetKeeps DEF MemoryNext
  <2>2. CASE UNCHANGED memoryVars
    BY <2>2 DEF memoryVars, MemoryInv, MemoryType, Refers, Known, Emitting, AuditAccountsForMemory
  <2> QED
    BY <2>1, <2>2
<1>2. MemoryInv => AuditAccountsForMemory
  BY DEF MemoryInv
<1> QED
  BY <1>1, <1>2, MemoryStarts, PTL DEF MemorySpec

HIDE MemoryAssumption

-----------------------------------------------------------------------------
(* Workspace.                                                              *)

Places == {"idle", "open", "shared", "seen", "write", "lock", "check", "replace", "over"}
Tools == {"none", "read_file", "edit_file", "write_file"}

CallStates ==
    [at : Places, tool : Tools, run : Runs \cup {"none"}, text : Texts,
     expected : SUBSET Texts, opened : Nat, timedOut : BOOLEAN]

WorkspaceType ==
    /\ files \in Seq([text : Texts, checked : BOOLEAN])
    /\ call \in [Calls -> CallStates]

Guarding(state) == state.at \in {"check", "replace"} /\ state.opened # 0

\* An inode is locked for one call at most.
LocksExclude ==
    /\ \A c \in Calls : Guarding(call[c]) => call[c].opened \in locked
    /\ \A c, d \in Calls :
           Guarding(call[c]) /\ Guarding(call[d]) /\ call[c].opened = call[d].opened => c = d

\* What a call expects, if anything, is a text that the path has named; when the
\* call has opened the path to lock it, one it named no later than that.
Expects(state, last) ==
    \/ state.expected = {}
    \/ \E i \in 1 .. last : state.expected = {files[i].text}
KnowsItsText ==
    \A c \in Calls :
        /\ call[c].opened <= Inode
        /\ call[c].at = "shared" => call[c].opened # 0
        /\ Expects(call[c], IF call[c].at \in {"lock", "check", "replace"}
                            THEN call[c].opened ELSE Inode)

\* A write that has checked its digest still finds that text.
ChecksHold ==
    \A c \in Calls :
        call[c].at = "replace" /\ call[c].expected # {} /\ Disciplined
        => Exists /\ call[c].expected = {Current}

WorkspaceInv == WorkspaceType /\ LocksExclude /\ KnowsItsText /\ ChecksHold
-----------------------------------------------------------------------------
USE WorkspaceAssumption

LEMMA WorkspaceStarts == WorkspaceInit => WorkspaceInv
<1> SUFFICES ASSUME WorkspaceInit PROVE WorkspaceInv
  OBVIOUS
<1>1. NoCall \in CallStates /\ NoCall.at = "idle" /\ NoCall.opened = 0 /\ NoCall.expected = {}
  BY DEF NoCall, CallStates, Places, Tools, Texts
<1>2. files \in Seq([text : Texts, checked : BOOLEAN]) /\ Len(files) \in Nat
  <2>1. CASE files = <<>>
    BY <2>1
  <2>2. CASE files = <<[text |-> {}, checked |-> TRUE]>>
    <3>1. [text |-> {}, checked |-> TRUE] \in [text : Texts, checked : BOOLEAN]
      BY DEF Texts
    <3> QED
      BY <2>2, <3>1
  <2> QED
    BY <2>1, <2>2 DEF WorkspaceInit
<1>3. WorkspaceType
  BY <1>1, <1>2 DEF WorkspaceInit, WorkspaceType
<1>4. LocksExclude /\ KnowsItsText /\ ChecksHold
  BY <1>1, <1>2 DEF WorkspaceInit, LocksExclude, KnowsItsText, ChecksHold, Guarding, Expects, Inode
<1> QED
  BY <1>3, <1>4 DEF WorkspaceInv

LEMMA CurrentText == ASSUME WorkspaceType, Inode # 0 PROVE Current \in Texts
<1>1. Inode \in 1 .. Len(files)
  BY DEF WorkspaceType, Inode
<1>2. files[Inode] \in [text : Texts, checked : BOOLEAN]
  BY <1>1, ElementOfSeq DEF WorkspaceType
<1> QED
  BY <1>2 DEF Current

\* A step of a call that holds no lock and gets none, and changes no file.
LEMMA QuietStep ==
    ASSUME WorkspaceInv, NEW c \in Calls, NEW state \in CallStates,
           Set(c, state), UNCHANGED <<files, locked>>,
           call[c].at \notin {"check", "replace"}, state.at \notin {"check", "replace"},
           state.opened <= Inode, state.at = "shared" => state.opened # 0,
           Expects(state, IF state.at = "lock" THEN state.opened ELSE Inode)
    PROVE  WorkspaceInv'
<1>1. \A d \in Calls : call'[d] = IF d = c THEN state ELSE call[d]
  BY DEF WorkspaceInv, WorkspaceType, Set
<1>2. WorkspaceType'
  BY DEF WorkspaceInv, WorkspaceType, Set
<1>3. LocksExclude'
  BY <1>1 DEF WorkspaceInv, LocksExclude, Guarding
<1>4. KnowsItsText'
  BY <1>1 DEF WorkspaceInv, KnowsItsText, Expects, Inode
<1>5. ChecksHold'
  BY <1>1 DEF WorkspaceInv, ChecksHold, Disciplined, Exists, Current, Inode
<1> QED
  BY <1>2, <1>3, <1>4, <1>5 DEF WorkspaceInv

\* The state of a call that is over.
LEMMA OverState ==
    ASSUME NEW c
    PROVE  /\ At(c, "over") \in CallStates
           /\ At(c, "over").at = "over"
           /\ At(c, "over").opened = 0
           /\ At(c, "over").expected = {}
BY DEF At, NoCall, CallStates, Places, Tools, Texts
-----------------------------------------------------------------------------
LEMMA BeginStep ==
    ASSUME WorkspaceInv, NEW c \in Calls, NEW r \in Runs, BeginAny(c, r)
    PROVE  WorkspaceInv'
<1>1. PICK tool \in {"read_file", "edit_file", "write_file"}, text \in Texts,
           wanted \in SUBSET Texts :
           /\ Begin(c, r, tool, text, wanted)
           /\ wanted = {} \/ (Inode \in 1 .. Inode /\ wanted = {Current})
  <2>1. Inode \in Nat /\ DOMAIN files = 1 .. Inode
    BY DEF WorkspaceInv, WorkspaceType, Inode
  <2>2. Inode # 0 => Current \in Texts
    BY CurrentText DEF WorkspaceInv
  <2>3. {} \in Texts /\ {} \in SUBSET Texts /\ \A m \in 1 .. c : {m} \in Texts
    BY DEF Texts, Calls
  <2>4. CASE Begin(c, r, "read_file", {}, {})
    BY <2>3, <2>4
  <2>5. CASE \E m \in 1 .. c : Begin(c, r, "edit_file", {m}, {})
    BY <2>3, <2>5
  <2>6. CASE \E text \in {{}, {c}} : \E wanted \in {{}, {Current : k \in DOMAIN files}} :
                 Begin(c, r, "write_file", text, wanted)
    <3>1. PICK text \in {{}, {c}}, wanted \in {{}, {Current : k \in DOMAIN files}} :
              Begin(c, r, "write_file", text, wanted)
      BY <2>6
    <3>2. text \in Texts
      BY DEF Texts
    <3>3. wanted = {} \/ (Inode # 0 /\ wanted = {Current})
      BY <2>1
    <3> QED
      BY <3>1, <3>2, <3>3, <2>1, <2>2, <2>3
  <2> QED
    BY <2>4, <2>5, <2>6 DEF BeginAny
<1> DEFINE begun == [at |-> IF Reads(tool) THEN "open" ELSE "write",
                     tool |-> tool, run |-> r, text |-> text, expected |-> wanted,
                     opened |-> 0, timedOut |-> FALSE]
<1>2. begun \in CallStates /\ begun.at \in {"open", "write"} /\ begun.opened = 0
  BY DEF CallStates, Places, Tools
<1>3. begun.expected = wanted
  OBVIOUS
<1> HIDE DEF begun
<1>4. PICK state \in {begun, At(c, "over")} : Set(c, state)
  BY <1>1 DEF Begin, begun
<1>5. Expects(state, Inode) /\ state.opened = 0 /\ state \in CallStates
      /\ state.at \in {"open", "write", "over"}
  BY <1>1, <1>2, <1>3, OverState DEF Expects, Current
<1>6. call[c].at = "idle" /\ UNCHANGED <<files, locked>> /\ Inode \in Nat
  BY <1>1 DEF Begin, WorkspaceInv, WorkspaceType, Inode
<1> QED
  BY <1>4, <1>5, <1>6, QuietStep

\* A call that holds no lock ends: it is refused, fails, or is given up.
LEMMA EndStep ==
    ASSUME WorkspaceInv, NEW c \in Calls, Set(c, At(c, "over")), UNCHANGED <<files, locked>>,
           call[c].at \notin {"check", "replace"}
    PROVE  WorkspaceInv'
<1>1. Inode \in Nat /\ Expects(At(c, "over"), Inode)
  BY OverState DEF WorkspaceInv, WorkspaceType, Inode, Expects
<1> QED
  BY <1>1, OverState, QuietStep

LEMMA ReadOpenStep ==
    ASSUME WorkspaceInv, NEW c \in Calls, ReadOpen(c) PROVE WorkspaceInv'
<1>1. CASE ~Exists
  BY <1>1, EndStep DEF ReadOpen
<1>2. CASE Exists
  <2> DEFINE state == [At(c, "shared") EXCEPT !.opened = Inode]
  <2>1. Inode \in Nat /\ Inode # 0
    BY <1>2 DEF WorkspaceInv, WorkspaceType, Inode, Exists
  <2>2. state \in CallStates /\ state.at = "shared" /\ state.opened = Inode
        /\ state.expected = call[c].expected
    BY <2>1 DEF WorkspaceInv, WorkspaceType, CallStates, At, Places
  <2>3. Set(c, state) /\ UNCHANGED <<files, locked>> /\ call[c].at = "open"
    BY <1>2 DEF ReadOpen
  <2>4. Expects(state, Inode)
    BY <2>2, <2>3 DEF WorkspaceInv, KnowsItsText, Expects
  <2> HIDE DEF state
  <2> QED
    BY <2>1, <2>2, <2>3, <2>4, QuietStep
<1> QED
  BY <1>1, <1>2

LEMMA ReadLockedStep ==
    ASSUME WorkspaceInv, NEW c \in Calls, ReadLocked(c) PROVE WorkspaceInv'
<1> DEFINE state == [At(c, "seen") EXCEPT !.expected = {Current}]
<1>1. Inode \in Nat /\ Inode # 0 /\ call[c].opened <= Inode
  BY DEF WorkspaceInv, WorkspaceType, CallStates, KnowsItsText, Inode, ReadLocked
<1>2. Current \in Texts
  BY <1>1, CurrentText DEF WorkspaceInv
<1>3. state \in CallStates /\ state.at = "seen" /\ state.opened = call[c].opened
      /\ state.expected = {Current}
  BY <1>2 DEF WorkspaceInv, WorkspaceType, CallStates, At, Places
<1>4. Set(c, state) /\ UNCHANGED <<files, locked>> /\ call[c].at = "shared"
  BY DEF ReadLocked
<1>5. Expects(state, Inode)
  BY <1>1, <1>3 DEF Expects, Current
<1> HIDE DEF state
<1> QED
  BY <1>1, <1>3, <1>4, <1>5, QuietStep

LEMMA ResumeStep ==
    ASSUME WorkspaceInv, NEW c \in Calls, Resume(c) PROVE WorkspaceInv'
<1>1. call[c].at = "seen" /\ UNCHANGED <<files, locked>>
  BY DEF Resume
<1>2. CASE Set(c, At(c, "over"))
  BY <1>1, <1>2, EndStep
<1>3. CASE ~Set(c, At(c, "over"))
  <2>1. PICK seen \in call[c].expected : Set(c, [At(c, "write") EXCEPT !.text = Edited(c, seen)])
    BY <1>3 DEF Resume
  <2> DEFINE state == [At(c, "write") EXCEPT !.text = Edited(c, seen)]
  <2>2. call[c] \in CallStates /\ seen \in Texts
    BY DEF WorkspaceInv, WorkspaceType, CallStates
  <2>3. Edited(c, seen) \in Texts
    BY <2>2 DEF Edited, Texts
  <2>4. state \in CallStates /\ state.at = "write" /\ state.opened = call[c].opened
        /\ state.expected = call[c].expected
    BY <2>2, <2>3 DEF CallStates, At, Places
  <2>5. Expects(state, Inode) /\ state.opened <= Inode
    BY <1>1, <2>4 DEF WorkspaceInv, KnowsItsText, Expects
  <2>6. Set(c, state)
    BY <2>1
  <2> HIDE DEF state
  <2> QED
    BY <1>1, <2>4, <2>5, <2>6, QuietStep
<1> QED
  BY <1>2, <1>3

LEMMA WriteOpenStep ==
    ASSUME WorkspaceInv, NEW c \in Calls, WriteOpen(c) PROVE WorkspaceInv'
<1> DEFINE state == [At(c, "lock") EXCEPT !.opened = Inode]
<1>1. Inode \in Nat
  BY DEF WorkspaceInv, WorkspaceType, Inode
<1>2. state \in CallStates /\ state.at = "lock" /\ state.opened = Inode
      /\ state.expected = call[c].expected
  BY <1>1 DEF WorkspaceInv, WorkspaceType, CallStates, At, Places
<1>3. Set(c, state) /\ UNCHANGED <<files, locked>> /\ call[c].at = "write"
  BY DEF WriteOpen
<1>4. Expects(state, Inode)
  BY <1>2, <1>3 DEF WorkspaceInv, KnowsItsText, Expects
<1> HIDE DEF state
<1> QED
  BY <1>1, <1>2, <1>3, <1>4, QuietStep
-----------------------------------------------------------------------------
LEMMA LockStep ==
    ASSUME WorkspaceInv, NEW c \in Calls, Lock(c) PROVE WorkspaceInv'
<1> DEFINE state == [call[c] EXCEPT !.at = "check"]
<1>1. state \in CallStates /\ state.at = "check" /\ state.opened = call[c].opened
      /\ state.expected = call[c].expected /\ call[c].at = "lock"
  BY DEF WorkspaceInv, WorkspaceType, CallStates, Places, Lock
<1>2. call' = [call EXCEPT ![c] = state] /\ files' = files
  BY DEF Lock, Set, At
<1> HIDE DEF state
<1>3. \A d \in Calls : call'[d] = IF d = c THEN state ELSE call[d]
  BY <1>2 DEF WorkspaceInv, WorkspaceType
<1>4. WorkspaceType'
  BY <1>1, <1>2 DEF WorkspaceInv, WorkspaceType
<1>5. LocksExclude'
  BY <1>1, <1>3 DEF WorkspaceInv, LocksExclude, Guarding, Lock
<1>6. KnowsItsText'
  BY <1>1, <1>2, <1>3 DEF WorkspaceInv, KnowsItsText, Expects, Inode
<1>7. ChecksHold'
  BY <1>1, <1>2, <1>3 DEF WorkspaceInv, ChecksHold, Disciplined, Exists, Current, Inode
<1> QED
  BY <1>4, <1>5, <1>6, <1>7 DEF WorkspaceInv

\* A writer gives its lock back and is over, and the path is as before.
LEMMA GiveUpStep ==
    ASSUME WorkspaceInv, NEW c \in Calls, call[c].at \in {"check", "replace"},
           Set(c, At(c, "over")), Unlock(c), UNCHANGED files
    PROVE  WorkspaceInv'
<1> DEFINE state == At(c, "over")
<1>1. \A d \in Calls : call'[d] = IF d = c THEN state ELSE call[d]
  BY DEF WorkspaceInv, WorkspaceType, Set
<1>2. state \in CallStates /\ state.at = "over" /\ state.opened = 0 /\ state.expected = {}
  BY OverState
<1> HIDE DEF state
<1>3. WorkspaceType'
  BY OverState DEF WorkspaceInv, WorkspaceType, Set
<1>4. LocksExclude'
  BY <1>1, <1>2 DEF WorkspaceInv, LocksExclude, Guarding, Unlock
<1>5. Inode \in Nat
  BY DEF WorkspaceInv, WorkspaceType, Inode
<1>6. KnowsItsText'
  BY <1>1, <1>2, <1>5 DEF WorkspaceInv, KnowsItsText, Expects, Inode
<1>7. ChecksHold'
  BY <1>1, <1>2 DEF WorkspaceInv, ChecksHold, Disciplined, Exists, Current, Inode
<1> QED
  BY <1>3, <1>4, <1>6, <1>7 DEF WorkspaceInv

LEMMA CheckStep ==
    ASSUME WorkspaceInv, NEW c \in Calls, Check(c) PROVE WorkspaceInv'
<1>1. CASE ~Matches(c)
  BY <1>1, GiveUpStep DEF Check
<1>2. CASE Matches(c)
  <2> DEFINE state == [call[c] EXCEPT !.at = "replace"]
  <2>1. state \in CallStates /\ state.at = "replace" /\ state.opened = call[c].opened
        /\ state.expected = call[c].expected /\ call[c].at = "check"
    BY DEF WorkspaceInv, WorkspaceType, CallStates, Places, Check
  <2>2. call' = [call EXCEPT ![c] = state] /\ UNCHANGED <<files, locked>>
    BY <1>2 DEF Check, Set, At
  <2> HIDE DEF state
  <2>3. \A d \in Calls : call'[d] = IF d = c THEN state ELSE call[d]
    BY <2>2 DEF WorkspaceInv, WorkspaceType
  <2>4. WorkspaceType'
    BY <2>1, <2>2 DEF WorkspaceInv, WorkspaceType
  <2>5. LocksExclude'
    BY <2>1, <2>2, <2>3 DEF WorkspaceInv, LocksExclude, Guarding
  <2>6. KnowsItsText'
    BY <2>1, <2>2, <2>3 DEF WorkspaceInv, KnowsItsText, Expects, Inode
  <2>7. ChecksHold'
    BY <1>2, <2>1, <2>2, <2>3
    DEF WorkspaceInv, ChecksHold, Disciplined, Exists, Current, Inode, Matches
  <2> QED
    BY <2>4, <2>5, <2>6, <2>7 DEF WorkspaceInv
<1> QED
  BY <1>1, <1>2

\* While no text comes back, a call that expects the current text and opened the
\* path for its lock has opened the current inode.
LEMMA OpenedTheCurrent ==
    ASSUME WorkspaceInv, Disciplined, NEW c \in Calls, call[c].at = "replace",
           call[c].expected = {Current}, Exists
    PROVE  call[c].opened = Inode /\ Inode # 0
<1>1. Inode \in Nat /\ Inode # 0 /\ DOMAIN files = 1 .. Inode
  BY DEF WorkspaceInv, WorkspaceType, Inode, Exists
<1>2. call[c].opened \in 0 .. Inode
  BY DEF WorkspaceInv, WorkspaceType, CallStates, KnowsItsText
<1>3. PICK i \in 1 .. call[c].opened : {Current} = {files[i].text}
  BY DEF WorkspaceInv, KnowsItsText, Expects
<1>4. files[Inode].text = files[i].text /\ i \in DOMAIN files /\ Inode \in DOMAIN files
  BY <1>1, <1>2, <1>3 DEF Current
<1>5. i = Inode
  BY <1>4 DEF Disciplined
<1> QED
  BY <1>1, <1>2, <1>3, <1>5

LEMMA ReplaceStep ==
    ASSUME WorkspaceInv, NEW c \in Calls, ReplaceFile(c) PROVE WorkspaceInv'
<1> DEFINE file == [text |-> call[c].text, checked |-> call[c].expected # {}]
           state == At(c, "over")
<1>1. Inode \in Nat /\ DOMAIN files = 1 .. Inode
  BY DEF WorkspaceInv, WorkspaceType, Inode
<1>2. file \in [text : Texts, checked : BOOLEAN] /\ call[c].at = "replace"
  BY DEF WorkspaceInv, WorkspaceType, CallStates, ReplaceFile
<1>3. files' = Append(files, file)
  BY DEF ReplaceFile
<1>4. file.checked => call[c].expected # {}
  OBVIOUS
<1>5. /\ Inode' = Inode + 1
      /\ DOMAIN files' = 1 .. Inode + 1
      /\ \A i \in 1 .. Inode : files'[i] = files[i]
      /\ files'[Inode + 1] = file
  BY <1>1, <1>2, <1>3 DEF WorkspaceInv, WorkspaceType, Inode
<1>6. state \in CallStates /\ state.at = "over" /\ state.opened = 0 /\ state.expected = {}
  BY OverState
<1>7. \A d \in Calls : call'[d] = IF d = c THEN state ELSE call[d]
  BY DEF WorkspaceInv, WorkspaceType, Set, ReplaceFile
<1>8. WorkspaceType'
  BY <1>2, <1>3, OverState DEF WorkspaceInv, WorkspaceType, Set, ReplaceFile
<1> HIDE DEF file, state
<1>9. LocksExclude'
  BY <1>2, <1>6, <1>7 DEF WorkspaceInv, LocksExclude, Guarding, Unlock, ReplaceFile
<1>10. KnowsItsText'
  <2> SUFFICES ASSUME NEW d \in Calls
               PROVE  /\ call'[d].opened <= Inode'
                      /\ call'[d].at = "shared" => call'[d].opened # 0
                      /\ Expects(call[d], IF call[d].at \in {"lock", "check", "replace"}
                                          THEN call[d].opened ELSE Inode)'
    BY DEF KnowsItsText
  <2>1. CASE d = c
    BY <1>1, <1>5, <1>6, <1>7, <2>1 DEF Expects
  <2>2. CASE d # c
    <3>1. call'[d] = call[d] /\ call[d].opened \in 0 .. Inode
      BY <1>1, <1>7, <2>2 DEF WorkspaceInv, WorkspaceType, CallStates, KnowsItsText
    <3> QED
      BY <1>1, <1>5, <3>1 DEF WorkspaceInv, KnowsItsText, Expects
  <2> QED
    BY <2>1, <2>2
<1>11. ChecksHold'
  <2> SUFFICES ASSUME NEW d \in Calls, call'[d].at = "replace", call'[d].expected # {},
                      Disciplined'
               PROVE  FALSE
    BY DEF ChecksHold
  <2>1. d # c /\ call'[d] = call[d]
    BY <1>6, <1>7
  <2>2. Disciplined /\ file.checked
    BY <1>1, <1>5 DEF Disciplined
  <2>3. Exists /\ call[c].expected = {Current} /\ call[d].expected = {Current}
    BY <1>2, <1>4, <2>1, <2>2 DEF WorkspaceInv, ChecksHold
  <2>4. call[c].opened = Inode /\ call[d].opened = Inode /\ Inode # 0
    BY <1>2, <2>1, <2>2, <2>3, OpenedTheCurrent
  <2> QED
    BY <1>2, <2>1, <2>4 DEF WorkspaceInv, LocksExclude, Guarding
<1> QED
  BY <1>8, <1>9, <1>10, <1>11 DEF WorkspaceInv

LEMMA TimeoutStep ==
    ASSUME WorkspaceInv, NEW c \in Calls, Timeout(c) PROVE WorkspaceInv'
<1>1. CASE Set(c, At(c, "over")) /\ call[c].at \in {"open", "shared", "seen", "write"}
  BY <1>1, EndStep DEF Timeout
<1>2. CASE Set(c, [call[c] EXCEPT !.timedOut = TRUE])
  <2> DEFINE state == [call[c] EXCEPT !.timedOut = TRUE]
  <2>1. state \in CallStates /\ state.at = call[c].at /\ state.opened = call[c].opened
        /\ state.expected = call[c].expected
    BY DEF WorkspaceInv, WorkspaceType, CallStates
  <2>2. call' = [call EXCEPT ![c] = state] /\ UNCHANGED <<files, locked>>
    BY <1>2 DEF Timeout, Set
  <2> HIDE DEF state
  <2>3. \A d \in Calls : call'[d] = IF d = c THEN state ELSE call[d]
    BY <2>2 DEF WorkspaceInv, WorkspaceType
  <2>4. WorkspaceType'
    BY <2>1, <2>2 DEF WorkspaceInv, WorkspaceType
  <2>5. LocksExclude'
    BY <2>1, <2>2, <2>3 DEF WorkspaceInv, LocksExclude, Guarding
  <2>6. KnowsItsText'
    BY <2>1, <2>2, <2>3 DEF WorkspaceInv, KnowsItsText, Expects, Inode
  <2>7. ChecksHold'
    BY <2>1, <2>2, <2>3 DEF WorkspaceInv, ChecksHold, Disciplined, Exists, Current, Inode
  <2> QED
    BY <2>4, <2>5, <2>6, <2>7 DEF WorkspaceInv
<1> QED
  BY <1>1, <1>2 DEF Timeout
-----------------------------------------------------------------------------
LEMMA WorkspaceSteps == WorkspaceInv /\ [WorkspaceNext]_workspaceVars => WorkspaceInv'
<1> SUFFICES ASSUME WorkspaceInv, [WorkspaceNext]_workspaceVars PROVE WorkspaceInv'
  OBVIOUS
<1>1. CASE UNCHANGED workspaceVars
  BY <1>1
  DEF workspaceVars, WorkspaceInv, WorkspaceType, LocksExclude, Guarding, KnowsItsText,
      Expects, ChecksHold, Disciplined, Exists, Current, Inode
<1>2. ASSUME NEW c \in Calls, NEW r \in Runs, BeginAny(c, r) PROVE WorkspaceInv'
  BY <1>2, BeginStep
<1>3. ASSUME NEW c \in Calls, Step(c) PROVE WorkspaceInv'
  <2>1. CASE ReadOpen(c) \/ ReadLocked(c) \/ Resume(c) \/ WriteOpen(c)
    BY <2>1, ReadOpenStep, ReadLockedStep, ResumeStep, WriteOpenStep
  <2>2. CASE Lock(c) \/ Check(c) \/ ReplaceFile(c)
    BY <2>2, LockStep, CheckStep, ReplaceStep
  <2>3. CASE WriteFails(c)
    BY <2>3, GiveUpStep DEF WriteFails
  <2> QED
    BY <1>3, <2>1, <2>2, <2>3 DEF Step
<1>4. ASSUME NEW c \in Calls, Timeout(c) PROVE WorkspaceInv'
  BY <1>4, TimeoutStep
<1> QED
  BY <1>1, <1>2, <1>3, <1>4 DEF WorkspaceNext

\* An inode is never locked for two writers at once.
THEOREM LocksExcludeAlways == WorkspaceSpec => []LocksExclude
<1>1. WorkspaceInit => WorkspaceInv
  BY WorkspaceStarts
<1>2. WorkspaceInv /\ [WorkspaceNext]_workspaceVars => WorkspaceInv'
  BY WorkspaceSteps
<1>3. WorkspaceInv => LocksExclude
  BY DEF WorkspaceInv
<1> QED
  BY <1>1, <1>2, <1>3, PTL DEF WorkspaceSpec

\* The optimistic protocol of edit_file and write_file loses no edit: between the
\* check of a digest and the rename nobody else renames.
THEOREM EditsAreKeptAlways == WorkspaceSpec => EditsAreKept
<1>1. WorkspaceInit => WorkspaceInv
  BY WorkspaceStarts
<1>2. WorkspaceInv /\ [WorkspaceNext]_workspaceVars => WorkspaceInv'
  BY WorkspaceSteps
<1>3. WorkspaceInv =>
          [\A c \in Calls : Lands(c) /\ call[c].expected # {} /\ Disciplined
                            => Exists /\ call[c].expected = {Current}]_workspaceVars
  BY DEF WorkspaceInv, ChecksHold, Lands
<1> QED
  BY <1>1, <1>2, <1>3, PTL DEF WorkspaceSpec, EditsAreKept

HIDE WorkspaceAssumption

-----------------------------------------------------------------------------
(* Artifacts.                                                              *)

PayloadTexts == Contents \cup {"absent", "garbage"}
Unscoped == [session |-> "none", run |-> "none"]
Refs == [id : Ids, content : Contents, policy : Policies \cup {Unscoped}, expires : Nat]
Manifests == Refs \cup {NoManifest, Garbage}

PutStates ==
    [at : Putting \ {"put_done"}, id : Ids, expires : Nat, present : BOOLEAN,
     disturbed : BOOLEAN, raced : BOOLEAN]
    \cup [at : {"put_done"}, id : Ids, disturbed : BOOLEAN, raced : BOOLEAN, ref : Refs]

AgentStates ==
    PutStates
    \cup [at : {"rest"}]
    \cup [at : {"reading"}, id : Ids, ref : Refs]
    \cup [at : {"read_done"}, id : Ids, text : PayloadTexts]
    \cup [at : {"unlink", "unlink_manifest"}, id : Ids, todo : SUBSET Ids, removed : SUBSET Ids]
    \cup [at : {"next"}, todo : SUBSET Ids, removed : SUBSET Ids]
    \cup [at : {"audit"}, removed : SUBSET Ids]

ArtifactsType ==
    /\ payload \in [Ids -> PayloadTexts]
    /\ manifest \in [Ids -> Manifests]
    /\ clock \in Nat
    /\ agent \in [Agents -> AgentStates]

\* The manifest reads as that of id.
Names(ref, id) ==
    ref \notin {NoManifest, Garbage} /\ ref.id = id
    /\ id = [content |-> ref.content, policy |-> ref.policy]

\* What a put that nobody has disturbed relies on: the payload from the time it was
\* found or written, and in the end a manifest.  One that reads as that of id is what
\* it returns, if no other put wrote one since it looked.
Holds(s, text, ref) ==
    s.at \in Putting /\ ~s.disturbed =>
       /\ (s.at = "payload" => s.present) => text = s.id.content
       /\ s.at = "put_done" => ref \notin {NoManifest, Garbage} /\ ref.content = s.id.content
       /\ s.at \in {"check", "put_done"} /\ ~s.raced /\ Names(ref, s.id) => Returned(s) = ref

PutsHold == \A a \in Agents : Holds(agent[a], payload[agent[a].id], manifest[agent[a].id])

ArtifactsInv == ArtifactsType /\ PutsHold
-----------------------------------------------------------------------------
LEMMA PutStateType ==
    ASSUME NEW s \in AgentStates, s.at \in Putting
    PROVE  s \in PutStates /\ s.id \in Ids
BY DEF AgentStates, PutStates, Putting

LEMMA DisturbedType ==
    ASSUME NEW s \in AgentStates, s.at \in Putting
    PROVE  LET r == [s EXCEPT !.disturbed = TRUE]
           IN  r \in AgentStates /\ r.at = s.at /\ r.disturbed
<1>1. s \in PutStates
  BY PutStateType
<1>2. [s EXCEPT !.disturbed = TRUE] \in PutStates
  BY <1>1 DEF PutStates
<1>3. [s EXCEPT !.disturbed = TRUE].at = s.at /\ [s EXCEPT !.disturbed = TRUE].disturbed
  BY <1>1 DEF PutStates
<1> QED
  BY <1>2, <1>3 DEF AgentStates

\* A step of one agent that leaves the manifests and the payloads of the puts alone
\* keeps the others.
LEMMA OthersKeep ==
    ASSUME ArtifactsInv, NEW a \in Agents, NEW s \in AgentStates,
           agent' = [agent EXCEPT ![a] = s],
           payload' \in [Ids -> PayloadTexts], UNCHANGED manifest, clock' \in Nat,
           \A id \in Ids : payload'[id] = payload[id] \/ payload'[id] = id.content,
           Holds(s, payload'[s.id], manifest[s.id])
    PROVE  ArtifactsInv'
<1>1. agent' \in [Agents -> AgentStates] /\ \A b \in Agents : agent'[b] = IF b = a THEN s ELSE agent[b]
  BY DEF ArtifactsInv, ArtifactsType
<1>2. ASSUME NEW b \in Agents, b # a
      PROVE  Holds(agent[b], payload'[agent[b].id], manifest[agent[b].id])
  <2>1. agent[b] \in AgentStates /\ Holds(agent[b], payload[agent[b].id], manifest[agent[b].id])
    BY DEF ArtifactsInv, ArtifactsType, PutsHold
  <2>2. CASE agent[b].at \in Putting
    <3>1. agent[b].id \in Ids
      BY <2>1, <2>2, PutStateType
    <3> QED
      BY <2>1, <3>1 DEF Holds
  <2>3. CASE agent[b].at \notin Putting
    BY <2>3 DEF Holds
  <2> QED
    BY <2>2, <2>3
<1>3. PutsHold'
  BY <1>1, <1>2 DEF PutsHold
<1> QED
  BY <1>1, <1>3 DEF ArtifactsInv, ArtifactsType

\* A step that removes or damages a file of id tells its puts.
LEMMA ToldKeep ==
    ASSUME ArtifactsInv, NEW id \in Ids,
           agent' \in [Agents -> AgentStates],
           \A b \in Agents : agent'[b] = Told(id, agent)[b]
                             \/ agent'[b].at \notin Putting,
           payload' \in [Ids -> PayloadTexts], manifest' \in [Ids -> Manifests], clock' \in Nat,
           \A other \in Ids \ {id} : payload'[other] = payload[other] /\ manifest'[other] = manifest[other]
    PROVE  ArtifactsInv'
<1>1. ASSUME NEW b \in Agents
      PROVE  Holds(agent'[b], payload'[agent'[b].id], manifest'[agent'[b].id])
  <2>1. agent[b] \in AgentStates /\ Holds(agent[b], payload[agent[b].id], manifest[agent[b].id])
    BY DEF ArtifactsInv, ArtifactsType, PutsHold
  <2>2. CASE agent'[b].at \notin Putting
    BY <2>2 DEF Holds
  <2>3. CASE agent[b].at \in Putting /\ agent[b].id = id
             /\ agent'[b] = Told(id, agent)[b]
    BY <2>1, <2>3, DisturbedType DEF Told, Holds
  <2>4. CASE agent'[b] = agent[b] /\ (agent[b].at \in Putting => agent[b].id # id)
    <3>1. CASE agent[b].at \in Putting
      <4>1. agent[b].id \in Ids \ {id}
        BY <2>1, <2>4, <3>1, PutStateType
      <4> QED
        BY <2>1, <2>4, <4>1
    <3>2. CASE agent[b].at \notin Putting
      BY <2>4, <3>2 DEF Holds
    <3> QED
      BY <3>1, <3>2
  <2> QED
    BY <2>2, <2>3, <2>4 DEF Told
<1>2. PutsHold'
  BY <1>1 DEF PutsHold
<1> QED
  BY <1>2 DEF ArtifactsInv, ArtifactsType

LEMMA ToldType ==
    ASSUME ArtifactsInv, NEW id \in Ids
    PROVE  Told(id, agent) \in [Agents -> AgentStates]
BY DisturbedType DEF Told, ArtifactsInv, ArtifactsType

LEMMA ArtifactsStart == ArtifactsInit => ArtifactsInv
<1> SUFFICES ASSUME ArtifactsInit PROVE ArtifactsInv
  OBVIOUS
<1>1. Rest \in AgentStates /\ Rest.at = "rest"
  BY DEF Rest, AgentStates
<1> QED
  BY <1>1 DEF ArtifactsInit, ArtifactsInv, ArtifactsType, PutsHold, Holds, PayloadTexts, Manifests, Putting

\* The states of an agent that is not in a put.
LEMMA IdleKeep ==
    ASSUME ArtifactsInv, NEW a \in Agents, NEW s \in AgentStates,
           agent' = [agent EXCEPT ![a] = s],
           s.at \notin Putting,
           UNCHANGED Files, clock' \in Nat
    PROVE  ArtifactsInv'
<1>1. Holds(s, payload'[s.id], manifest[s.id])
  BY DEF Holds
<1> QED
  BY <1>1, OthersKeep DEF Files, ArtifactsInv, ArtifactsType

LEMMA ManifestType ==
    ASSUME ArtifactsInv, NEW id \in Ids, manifest[id] \notin {NoManifest, Garbage}
    PROVE  manifest[id] \in Refs
BY DEF ArtifactsInv, ArtifactsType, Manifests

LEMMA LoadedType ==
    ASSUME ArtifactsInv, NEW id \in Ids
    PROVE  /\ LoadsRef(id) <=> Names(manifest[id], id)
           /\ LoadsRef(id) => manifest[id] \in Refs /\ manifest[id].content = id.content
BY ManifestType DEF LoadsRef, Names

LEMMA PutKeeps ==
    ASSUME ArtifactsInv, NEW a \in Agents,
           \/ \E id \in Ids, lifetime \in Lifetimes : BeginPut(a, id, lifetime)
           \/ PutPayload(a)
    PROVE  ArtifactsInv'
<1>0. agent[a] \in AgentStates /\ clock \in Nat
      /\ payload \in [Ids -> PayloadTexts] /\ manifest \in [Ids -> Manifests]
  BY DEF ArtifactsInv, ArtifactsType
<1>1. CASE \E id \in Ids, lifetime \in Lifetimes : BeginPut(a, id, lifetime)
  <2>1. PICK id \in Ids, lifetime \in Lifetimes : BeginPut(a, id, lifetime)
    BY <1>1
  <2> DEFINE expires == clock + lifetime
             present == payload[id] = id.content
             s == [at |-> "payload", id |-> id, expires |-> expires, present |-> present,
                   disturbed |-> FALSE, raced |-> FALSE]
  <2>2. expires \in Nat /\ present \in BOOLEAN
    BY <1>0, ArtifactsAssumption
  <2>3. agent' = [agent EXCEPT ![a] = s] /\ UNCHANGED <<payload, manifest, clock>>
    BY <2>1 DEF BeginPut, To, Files
  <2> HIDE DEF expires
  <2>4. s.present = present /\ s.id = id /\ s.at = "payload"
    OBVIOUS
  <2>5. Holds(s, payload'[s.id], manifest[s.id])
    BY <2>3, <2>4 DEF Holds
  <2>6. s \in AgentStates
    BY <2>2 DEF AgentStates, PutStates, Putting
  <2> HIDE DEF s
  <2> QED
    BY <1>0, <2>3, <2>5, <2>6, OthersKeep
<1>2. CASE PutPayload(a)
  <2> DEFINE id == agent[a].id
             s == [agent[a] EXCEPT !.at = "manifest"]
  <2>1. agent[a] \in PutStates /\ id \in Ids /\ agent[a].at = "payload"
    BY <1>0, <1>2, PutStateType DEF PutPayload, Putting
  <2>2. /\ s \in AgentStates /\ s.id = id /\ s.at = "manifest" /\ s.disturbed = agent[a].disturbed
    BY <2>1 DEF PutStates, AgentStates, Putting
  <2>3. Holds(agent[a], payload[id], manifest[id])
    BY DEF ArtifactsInv, PutsHold
  <2>4. id.content \in PayloadTexts
    BY <2>1 DEF Ids, PayloadTexts
  <2>5. /\ payload' \in [Ids -> PayloadTexts]
        /\ \A other \in Ids : payload'[other] = payload[other] \/ payload'[other] = other.content
        /\ ~agent[a].present => payload'[id] = id.content
        /\ agent[a].present => payload'[id] = payload[id]
    BY <1>0, <1>2, <2>1, <2>4 DEF PutPayload, KeepsPayload
  <2>6. agent' = [agent EXCEPT ![a] = s] /\ UNCHANGED <<manifest, clock>>
    BY <1>2 DEF PutPayload, To, Extent
  <2> HIDE DEF s
  <2>7. Holds(s, payload'[s.id], manifest[s.id])
    BY <2>1, <2>2, <2>3, <2>5 DEF Holds, Putting
  <2> QED
    BY <1>0, <2>2, <2>5, <2>6, <2>7, OthersKeep
<1> QED
  BY <1>1, <1>2

LEMMA FreshType ==
    ASSUME NEW id \in Ids, NEW expires \in Nat
    PROVE  /\ Ref(id, expires) \in Refs /\ Ref(id, expires).content = id.content
           /\ Ref(id, expires) \notin {NoManifest, Garbage}
<1>1. id.content \in Contents /\ id.policy \in Policies
  BY DEF Ids
<1>2. DOMAIN Ref(id, expires) = {"id", "content", "policy", "expires"} /\ DOMAIN NoManifest = {"id"}
      /\ DOMAIN Garbage = {"id"}
  BY DEF Ref, NoManifest, Garbage
<1> QED
  BY <1>1, <1>2 DEF Ref, Refs

\* The record of a put that ends with ref.
LEMMA DoneType ==
    ASSUME NEW s \in PutStates, s.at # "put_done", NEW ref \in Refs
    PROVE  LET r == PutDone(s, ref)
           IN  /\ r \in PutStates /\ r.at = "put_done" /\ r.id = s.id /\ Returned(r) = ref
               /\ r.disturbed = s.disturbed /\ r.raced = s.raced
BY DEF PutStates, PutDone, Returned

\* What a put that has still to end would return.
LEMMA ReturnedType ==
    ASSUME NEW s \in PutStates, s.at # "put_done"
    PROVE  /\ Returned(s) = Ref(s.id, s.expires) /\ Returned(s) \in Refs
           /\ Returned(s) \notin {NoManifest, Garbage} /\ Returned(s).content = s.id.content
BY FreshType DEF PutStates, Returned

\* A put that finds a manifest of its artifact returns it; one that does not will
\* return its own.
LEMMA LoadKeeps ==
    ASSUME ArtifactsInv, NEW a \in Agents, LoadManifest(a)
    PROVE  ArtifactsInv'
<1> DEFINE e == agent[a]
<1>1. /\ e \in PutStates /\ e.id \in Ids /\ e.at = "manifest" /\ clock' \in Nat
      /\ payload \in [Ids -> PayloadTexts] /\ UNCHANGED <<payload, manifest>>
  BY PutStateType DEF LoadManifest, Putting, ArtifactsInv, ArtifactsType, Files, Extent
<1>2. Holds(e, payload[e.id], manifest[e.id])
  BY DEF ArtifactsInv, PutsHold
<1>3. PICK s : /\ agent' = [agent EXCEPT ![a] = s]
               /\ s = IF LoadsRef(e.id) THEN PutDone(e, manifest[e.id])
                      ELSE [e EXCEPT !.at = "check"]
  BY DEF LoadManifest, To
<1> HIDE DEF e
<1>4. s \in AgentStates /\ Holds(s, payload'[s.id], manifest[s.id])
  <2>1. CASE LoadsRef(e.id)
    <3>1. /\ manifest[e.id] \in Refs /\ manifest[e.id].content = e.id.content
          /\ manifest[e.id] \notin {NoManifest, Garbage}
      BY <1>1, <2>1, LoadedType DEF LoadsRef
    <3>2. /\ s \in PutStates /\ s.at = "put_done" /\ s.id = e.id /\ Returned(s) = manifest[e.id]
          /\ s.disturbed = e.disturbed
      BY <1>1, <1>3, <2>1, <3>1, DoneType
    <3> QED
      BY <1>1, <1>2, <3>1, <3>2 DEF Holds, AgentStates, Putting
  <2>2. CASE ~LoadsRef(e.id)
    <3>1. /\ s \in PutStates /\ s.at = "check" /\ s.id = e.id /\ s.disturbed = e.disturbed
      BY <1>1, <1>3, <2>2 DEF PutStates, Putting
    <3>2. ~Names(manifest[e.id], e.id)
      BY <1>1, <2>2, LoadedType
    <3> QED
      BY <1>1, <1>2, <3>1, <3>2 DEF Holds, AgentStates, Putting
  <2> QED
    BY <2>1, <2>2
<1> QED
  BY <1>1, <1>3, <1>4, OthersKeep

LEMMA CheckKeeps ==
    ASSUME ArtifactsInv, NEW a \in Agents, CheckManifest(a)
    PROVE  ArtifactsInv'
<1> DEFINE e == agent[a]
           valid == manifest[e.id] \notin {NoManifest, Garbage} /\ manifest[e.id].content = e.id.content
<1>1. /\ e \in PutStates /\ e.id \in Ids /\ e.at = "check" /\ clock' \in Nat
      /\ payload \in [Ids -> PayloadTexts] /\ UNCHANGED <<payload, manifest>>
  BY PutStateType DEF CheckManifest, Putting, ArtifactsInv, ArtifactsType, Files, Extent
<1>2. Holds(e, payload[e.id], manifest[e.id])
  BY DEF ArtifactsInv, PutsHold
<1>3. PICK s : /\ agent' = [agent EXCEPT ![a] = s]
               /\ s = IF valid THEN PutDone(e, Returned(e)) ELSE [e EXCEPT !.at = "write"]
  BY DEF CheckManifest, To
<1> HIDE DEF e
<1>4. s \in AgentStates /\ Holds(s, payload'[s.id], manifest[s.id])
  <2>1. CASE valid
    <3>1. /\ s \in PutStates /\ s.at = "put_done" /\ s.id = e.id /\ Returned(s) = Returned(e)
          /\ s.disturbed = e.disturbed /\ s.raced = e.raced
      BY <1>1, <1>3, <2>1, DoneType, ReturnedType
    <3> QED
      BY <1>1, <1>2, <2>1, <3>1 DEF Holds, AgentStates, Putting
  <2>2. CASE ~valid
    <3>1. /\ s \in PutStates /\ s.at = "write" /\ s.id = e.id /\ s.disturbed = e.disturbed
      BY <1>1, <1>3, <2>2 DEF PutStates, Putting
    <3> QED
      BY <1>1, <1>2, <3>1 DEF Holds, AgentStates, Putting
  <2> QED
    BY <2>1, <2>2
<1> QED
  BY <1>1, <1>3, <1>4, OthersKeep

\* A put that writes a manifest tells the puts that have returned another, or will.
LEMMA WriteKeeps ==
    ASSUME ArtifactsInv, NEW a \in Agents, WriteManifest(a)
    PROVE  ArtifactsInv'
<1> DEFINE e == agent[a]
           id == e.id
           fresh == Returned(e)
           s == PutDone(e, fresh)
<1>1. /\ e \in PutStates /\ id \in Ids /\ e.at = "write" /\ clock' = clock /\ payload' = payload
      /\ manifest \in [Ids -> Manifests] /\ agent \in [Agents -> AgentStates]
      /\ manifest' = [manifest EXCEPT ![id] = fresh]
      /\ agent' = [Overtaken(id, fresh, agent) EXCEPT ![a] = s]
  BY PutStateType DEF WriteManifest, Putting, ArtifactsInv, ArtifactsType, Extent
<1>2. Holds(e, payload[id], manifest[id])
  BY DEF ArtifactsInv, PutsHold
<1>3. /\ fresh \in Refs /\ fresh \notin {NoManifest, Garbage} /\ fresh.content = id.content
  BY <1>1, ReturnedType
<1>4. /\ s \in PutStates /\ s.at = "put_done" /\ s.id = id /\ Returned(s) = fresh
      /\ s.disturbed = e.disturbed
  BY <1>1, <1>3, DoneType
<1> HIDE DEF s, fresh, id
<1>5. /\ manifest'[id] = fresh /\ \A other \in Ids \ {id} : manifest'[other] = manifest[other]
      /\ manifest' \in [Ids -> Manifests]
  BY <1>1, <1>3 DEF Manifests
<1>6. \A b \in Agents : agent'[b] = IF b = a THEN s ELSE Overtaken(id, fresh, agent)[b]
  BY <1>1 DEF Overtaken
<1>7. ASSUME NEW b \in Agents
      PROVE  agent'[b] \in AgentStates /\ Holds(agent'[b], payload[agent'[b].id], manifest'[agent'[b].id])
  <2>1. agent[b] \in AgentStates /\ Holds(agent[b], payload[agent[b].id], manifest[agent[b].id])
    BY <1>1 DEF ArtifactsInv, PutsHold
  <2>2. CASE b = a
    BY <1>1, <1>2, <1>3, <1>4, <1>5, <1>6, <2>2 DEF Holds, AgentStates, Putting, id
  <2>3. CASE b # a /\ agent[b].at \in Putting /\ agent[b].id = id
    <3>1. agent[b] \in PutStates
      BY <2>1, <2>3, PutStateType
    <3>2. /\ agent'[b] \in PutStates /\ agent'[b].at = agent[b].at /\ agent'[b].id = id
          /\ agent'[b].disturbed = agent[b].disturbed
          /\ agent[b].at = "payload" => agent'[b].present = agent[b].present
          /\ Returned(agent'[b]) = Returned(agent[b])
          /\ agent[b].at \in {"check", "put_done"} /\ Returned(agent[b]) # fresh => agent'[b].raced
      <4>1. CASE agent'[b] = agent[b]
        BY <1>6, <2>3, <3>1, <4>1 DEF Overtaken, PutStates
      <4>2. CASE agent'[b] = [agent[b] EXCEPT !.raced = TRUE]
        <5>1. CASE agent[b].at = "put_done"
          <6>1. /\ agent'[b] \in PutStates /\ agent'[b].at = "put_done" /\ agent'[b].id = id
                /\ agent'[b].disturbed = agent[b].disturbed /\ agent'[b].ref = agent[b].ref
                /\ agent'[b].raced
            BY <2>3, <3>1, <4>2, <5>1 DEF PutStates
          <6> QED
            BY <5>1, <6>1 DEF Returned
        <5>2. CASE agent[b].at # "put_done"
          <6>1. /\ agent'[b] \in PutStates /\ agent'[b].at = agent[b].at /\ agent'[b].id = id
                /\ agent'[b].disturbed = agent[b].disturbed /\ agent'[b].present = agent[b].present
                /\ agent'[b].expires = agent[b].expires /\ agent'[b].raced
            BY <2>3, <3>1, <4>2, <5>2 DEF PutStates
          <6> QED
            BY <2>3, <5>2, <6>1 DEF Returned
        <5> QED
          BY <5>1, <5>2
      <4> QED
        BY <1>6, <2>3, <4>1, <4>2 DEF Overtaken
    <3> QED
      BY <1>3, <1>5, <2>1, <2>3, <3>2 DEF Holds, AgentStates
  <2>4. CASE b # a /\ ~(agent[b].at \in Putting /\ agent[b].id = id)
    <3>1. agent'[b] = agent[b]
      BY <1>6, <2>4 DEF Overtaken, Putting
    <3>2. CASE agent[b].at \in Putting
      <4>1. agent[b].id \in Ids \ {id}
        BY <2>1, <2>4, <3>2, PutStateType
      <4> QED
        BY <1>5, <2>1, <3>1, <4>1
    <3>3. CASE agent[b].at \notin Putting
      BY <2>1, <3>1, <3>3 DEF Holds
    <3> QED
      BY <3>2, <3>3
  <2> QED
    BY <2>2, <2>3, <2>4
<1>8. agent' \in [Agents -> AgentStates]
  BY <1>1, <1>7 DEF Overtaken
<1> QED
  BY <1>1, <1>5, <1>7, <1>8 DEF ArtifactsInv, ArtifactsType, PutsHold

LEMMA ReadKeeps ==
    ASSUME ArtifactsInv, NEW a \in Agents,
           (\E id \in Ids : BeginRead(a, id) \/ BeginDelete(a, id)) \/ EndRead(a)
           \/ BeginCleanup(a) \/ NextExpired(a) \/ Audit(a) \/ Die(a)
    PROVE  ArtifactsInv'
<1>1. agent[a] \in AgentStates /\ UNCHANGED Files /\ clock' \in Nat
  BY DEF ArtifactsInv, ArtifactsType, BeginRead, BeginDelete, EndRead, BeginCleanup, NextExpired,
         Audit, Die, Extent, Files
<1>2. ASSUME NEW s \in AgentStates, agent' = [agent EXCEPT ![a] = s],
             s.at \notin Putting
      PROVE  ArtifactsInv'
  BY <1>1, <1>2, IdleKeep
<1>3. Rest \in AgentStates /\ Rest.at = "rest"
  BY DEF Rest, AgentStates
<1>4. ASSUME NEW id \in Ids, BeginRead(a, id) PROVE ArtifactsInv'
  <2> DEFINE s == [at |-> "reading", id |-> id, ref |-> manifest[id]]
  <2>1. agent' = [agent EXCEPT ![a] = s] /\ LoadsRef(id)
    BY <1>4 DEF BeginRead, MayGet, To
  <2>2. s \in AgentStates
    BY <2>1, LoadedType DEF AgentStates
  <2> QED
    BY <1>2, <2>1, <2>2 DEF Putting
<1>5. ASSUME NEW id \in Ids, BeginDelete(a, id) PROVE ArtifactsInv'
  <2> DEFINE s == [at |-> "unlink", id |-> id, todo |-> {}, removed |-> {}]
  <2>1. agent' = [agent EXCEPT ![a] = s]
    BY <1>5 DEF BeginDelete, To
  <2>2. s \in AgentStates
    BY DEF AgentStates
  <2> QED
    BY <1>2, <2>1, <2>2 DEF Putting
<1>6. CASE EndRead(a)
  <2> DEFINE id == agent[a].id
             s == [at |-> "read_done", id |-> id, text |-> payload[id]]
  <2>1. agent[a].id \in Ids
    BY <1>1, <1>6 DEF EndRead, AgentStates, PutStates
  <2>2. s \in AgentStates
    BY <2>1 DEF AgentStates, ArtifactsInv, ArtifactsType
  <2>3. agent' = [agent EXCEPT ![a] = s] \/ agent' = [agent EXCEPT ![a] = Rest]
    BY <1>6 DEF EndRead, To
  <2> QED
    BY <1>2, <1>3, <2>2, <2>3 DEF Putting
<1>7. CASE BeginCleanup(a)
  <2> DEFINE expired == {id \in Ids : MayGet(a, id, TRUE) /\ Expired(manifest[id])}
             s == [at |-> "next", todo |-> expired, removed |-> {}]
  <2>1. agent' = [agent EXCEPT ![a] = s]
    BY <1>7 DEF BeginCleanup, To
  <2>2. expired \in SUBSET Ids
    OBVIOUS
  <2> HIDE DEF expired
  <2>3. s \in AgentStates
    BY <2>2 DEF AgentStates
  <2> QED
    BY <1>2, <2>1, <2>3 DEF Putting
<1>8. CASE NextExpired(a)
  <2>1. PICK id \in agent[a].todo :
           \/ agent' = [agent EXCEPT ![a] = [at |-> "unlink", id |-> id, todo |-> agent[a].todo \ {id},
                                             removed |-> agent[a].removed]]
           \/ agent' = [agent EXCEPT ![a] = Rest]
    BY <1>8 DEF NextExpired, To
  <2> DEFINE s == [at |-> "unlink", id |-> id, todo |-> agent[a].todo \ {id},
                   removed |-> agent[a].removed]
  <2>2. agent[a].todo \in SUBSET Ids /\ agent[a].removed \in SUBSET Ids
    BY <1>1, <1>8 DEF NextExpired, AgentStates, PutStates, Putting
  <2>3. s \in AgentStates
    BY <2>2 DEF AgentStates
  <2> QED
    BY <1>2, <1>3, <2>1, <2>3 DEF Putting
<1>9. CASE Audit(a)
  <2>1. PICK id \in agent[a].removed :
           \/ agent' = [agent EXCEPT ![a] = Rest]
           \/ agent' = [agent EXCEPT ![a] = [at |-> "audit", removed |-> agent[a].removed \ {id}]]
    BY <1>9 DEF Audit, To
  <2> DEFINE s == [at |-> "audit", removed |-> agent[a].removed \ {id}]
  <2>2. agent[a].removed \in SUBSET Ids
    BY <1>1, <1>9 DEF Audit, AgentStates, PutStates, Putting
  <2>3. s \in AgentStates
    BY <2>2 DEF AgentStates
  <2> QED
    BY <1>2, <1>3, <2>1, <2>3 DEF Putting
<1>10. CASE Die(a)
  BY <1>2, <1>3, <1>10 DEF Die, To, Putting
<1> QED
  BY <1>4, <1>5, <1>6, <1>7, <1>8, <1>9, <1>10

LEMMA UnlinkKeeps ==
    ASSUME ArtifactsInv, NEW a \in Agents, UnlinkPayload(a) \/ UnlinkManifest(a)
    PROVE  ArtifactsInv'
<1> DEFINE id == agent[a].id
<1>1. /\ agent[a] \in AgentStates /\ agent[a].at \in {"unlink", "unlink_manifest"} /\ clock' \in Nat
      /\ payload \in [Ids -> PayloadTexts] /\ manifest \in [Ids -> Manifests]
  BY DEF ArtifactsInv, ArtifactsType, UnlinkPayload, UnlinkManifest, Extent
<1>2. agent[a] \in [at : {"unlink", "unlink_manifest"}, id : Ids, todo : SUBSET Ids, removed : SUBSET Ids]
  BY <1>1 DEF AgentStates, PutStates, Putting
<1>3. id \in Ids /\ Told(id, agent) \in [Agents -> AgentStates] /\ Told(id, agent)[a] = agent[a]
  BY <1>1, <1>2, ToldType DEF Told
<1>4. ASSUME NEW s \in AgentStates, agent' = [Told(id, agent) EXCEPT ![a] = s],
             s.at \notin Putting,
             payload' \in [Ids -> PayloadTexts], manifest' \in [Ids -> Manifests],
             \A other \in Ids \ {id} : payload'[other] = payload[other] /\ manifest'[other] = manifest[other]
      PROVE  ArtifactsInv'
  <2>1. /\ agent' \in [Agents -> AgentStates]
        /\ \A b \in Agents : agent'[b] = Told(id, agent)[b]
                             \/ agent'[b].at \notin Putting
    BY <1>3, <1>4
  <2> HIDE DEF id
  <2> QED
    BY <1>1, <1>3, <1>4, <2>1, ToldKeep
<1>5. CASE UnlinkPayload(a)
  <2> DEFINE s == [agent[a] EXCEPT !.at = "unlink_manifest"]
  <2>1. agent' = [Told(id, agent) EXCEPT ![a] = s]
    BY <1>3, <1>5 DEF UnlinkPayload
  <2>2. s \in AgentStates /\ s.at = "unlink_manifest"
    BY <1>2 DEF AgentStates
  <2>3. /\ payload' = [payload EXCEPT ![id] = "absent"] /\ UNCHANGED manifest
    BY <1>5 DEF UnlinkPayload
  <2>4. "absent" \in PayloadTexts
    BY DEF PayloadTexts
  <2> HIDE DEF s, id
  <2>5. payload' \in [Ids -> PayloadTexts] /\ \A other \in Ids \ {id} : payload'[other] = payload[other]
    BY <1>1, <1>3, <2>3, <2>4
  <2> QED
    BY <1>1, <1>4, <2>1, <2>2, <2>3, <2>5 DEF Putting
<1>6. CASE UnlinkManifest(a)
  <2> DEFINE removed == agent[a].removed \cup {id}
             todo == agent[a].todo
             s == IF todo = {} THEN [at |-> "audit", removed |-> removed]
                  ELSE [at |-> "next", todo |-> todo, removed |-> removed]
  <2>1. agent' = [Told(id, agent) EXCEPT ![a] = s]
    BY <1>6 DEF UnlinkManifest
  <2>2. removed \in SUBSET Ids /\ todo \in SUBSET Ids
    BY <1>2
  <2>3. /\ manifest' = [manifest EXCEPT ![id] = NoManifest] /\ UNCHANGED payload
    BY <1>6 DEF UnlinkManifest
  <2>4. NoManifest \in Manifests
    BY DEF Manifests
  <2> HIDE DEF id, removed, todo
  <2>5. s \in AgentStates /\ s.at \in {"audit", "next"}
    BY <2>2 DEF AgentStates
  <2>6. manifest' \in [Ids -> Manifests] /\ \A other \in Ids \ {id} : manifest'[other] = manifest[other]
    BY <1>1, <1>3, <2>3, <2>4
  <2> HIDE DEF s
  <2> QED
    BY <1>1, <1>4, <2>1, <2>3, <2>5, <2>6 DEF Putting
<1> QED
  BY <1>5, <1>6

LEMMA DamageKeeps ==
    ASSUME ArtifactsInv, NEW id \in Ids,
           \/ \E content \in Contents \cup {"garbage"} : DamagePayload(id, content)
           \/ \E m \in Damaged(id) : DamageManifest(id, m)
    PROVE  ArtifactsInv'
<1>1. /\ agent' = Told(id, agent) /\ clock' \in Nat
      /\ payload \in [Ids -> PayloadTexts] /\ manifest \in [Ids -> Manifests]
  BY DEF ArtifactsInv, ArtifactsType, DamagePayload, DamageManifest
<1>2. Damaged(id) \subseteq Manifests
  <2>1. Forever \in Nat
    BY ArtifactsAssumption
  <2>2. \A other \in Ids : Ref(other, Forever) \in Refs
    BY <2>1, FreshType
  <2>3. [Ref(id, Forever) EXCEPT !.policy = [session |-> "none", run |-> "none"]] \in Refs
    BY <2>2 DEF Refs, Unscoped
  <2> QED
    BY <2>2, <2>3 DEF Damaged, Manifests
<1>3. /\ payload' \in [Ids -> PayloadTexts] /\ manifest' \in [Ids -> Manifests]
      /\ \A other \in Ids \ {id} : payload'[other] = payload[other] /\ manifest'[other] = manifest[other]
  BY <1>1, <1>2 DEF DamagePayload, DamageManifest, PayloadTexts
<1> QED
  BY <1>1, <1>3, ToldType, ToldKeep

\* What put_text was given can be read back, unless a deletion or damage touches the
\* artifact during or after the put; until what it returned expires, unless another
\* put wrote another expiry over it (FileArtifactStore.put_text, get_ref, read_text).
THEOREM PutIsReadableCorrect == ArtifactsSpec => []PutIsReadable
<1>1. ArtifactsInv /\ [ArtifactsNext]_artifactVars => ArtifactsInv'
  <2> SUFFICES ASSUME ArtifactsInv, [ArtifactsNext]_artifactVars PROVE ArtifactsInv'
    OBVIOUS
  <2>1. CASE UNCHANGED artifactVars
    BY <2>1 DEF artifactVars, ArtifactsInv, ArtifactsType, PutsHold
  <2>2. CASE Pass
    BY <2>2 DEF Pass, Files, ArtifactsInv, ArtifactsType, PutsHold
  <2> QED
    BY <2>1, <2>2, PutKeeps, LoadKeeps, CheckKeeps, WriteKeeps, ReadKeeps, UnlinkKeeps, DamageKeeps DEF ArtifactsNext
<1>2. ArtifactsInv => PutIsReadable
  <2> SUFFICES ASSUME ArtifactsInv, NEW a \in Agents,
                      agent[a].at = "put_done", ~agent[a].disturbed, ~Misfiled(agent[a].id)
               PROVE  /\ LoadsRef(agent[a].id) /\ payload[agent[a].id] = agent[a].id.content
                      /\ ~agent[a].raced => agent[a].ref = manifest[agent[a].id]
    BY DEF PutIsReadable
  <2>1. agent[a].id \in Ids /\ Holds(agent[a], payload[agent[a].id], manifest[agent[a].id])
    BY PutStateType DEF ArtifactsInv, ArtifactsType, PutsHold, Putting
  <2>2. LoadsRef(agent[a].id)
    BY <2>1 DEF Misfiled, Holds, Putting
  <2> QED
    BY <2>1, <2>2, LoadedType DEF Holds, Putting, Returned
<1> QED
  BY <1>1, <1>2, ArtifactsStart, PTL DEF ArtifactsSpec
=============================================================================
