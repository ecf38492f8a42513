----------------------------- MODULE Views_proofs -----------------------------
(***************************************************************************)
(* Proofs about the two views of the log of a session.                     *)
(*                                                                         *)
(* TaskGraph, for any number of tasks, capabilities, budgets and process   *)
(* deaths: what the events in the log say of the graph, wherever the       *)
(* process stops.                                                          *)
(*                                                                         *)
(* TerminalClient, for any sessions, page size and number of events, loads *)
(* and failures: a quiet view is current.                                  *)
(***************************************************************************)
EXTENDS Terminal_proofs, TaskGraph

(* A quiet view is current.                                                *)

\* Event k of session s has yet to reach the listener, or waits in a buffer.
Is(e, s, k) == e.session = s /\ e.seq = k
Coming(s, k) ==
    \/ \E e \in unsent : Is(e, s, k)
    \/ \E m \in ToSet(pipe) : m.kind = "event" /\ Is(m.event, s, k)
Held(s, k) == \E e \in ToSet(buffered[s]) : e.seq = k

\* The first n events of session s, and what is on its way, are all that was announced.
Covers(s, n) == \A k \in Announced(s) : k <= n \/ Coming(s, k) \/ Held(s, k)

NewestCovers ==
    Loading(generation) =>
        /\ loading[loads[generation].session] = generation
        /\ ~loads[generation].paging =>
              Covers(loads[generation].session, Len(loads[generation].seqs))
        /\ \A m \in ToSet(pipe) \cup ToSet(ready) :
              Pages(generation, m) => Covers(loads[generation].session, m.head)
ScreenCovers ==
    ~Loading(generation) =>
        /\ loading[selected] = 0
        /\ \A k \in Announced(selected) : k <= HeadSeq(transcript) \/ Coming(selected, k)
CurrentInv == failures = 0 => NewestCovers /\ ScreenCovers
-----------------------------------------------------------------------------
USE TerminalAssumption DEF Loads

\* The elements of a sequence that is longer by one, and of one without its head.
LEMMA ToSetAppend ==
    ASSUME NEW S, NEW q \in Seq(S), NEW x
    PROVE  ToSet(Append(q, x)) = ToSet(q) \cup {x}
<1> DEFINE r == Append(q, x)
           n == Len(q)
<1>1. /\ n \in Nat /\ DOMAIN q = 1 .. n
      /\ DOMAIN r = 1 .. n + 1 /\ r[n + 1] = x /\ \A k \in 1 .. n : r[k] = q[k]
  OBVIOUS
<1> HIDE DEF r, n
<1>2. 1 .. n + 1 = (1 .. n) \cup {n + 1}
  BY <1>1
<1>3. ToSet(r) = ToSet(q) \cup {x}
  BY <1>1, <1>2 DEF ToSet
<1> QED
  BY <1>3 DEF r

LEMMA ToSetTail ==
    ASSUME NEW S, NEW q \in Seq(S), q # <<>>
    PROVE  ToSet(q) = ToSet(Tail(q)) \cup {Head(q)}
<1> DEFINE r == Tail(q)
           n == Len(q)
<1>1. /\ n \in Nat /\ n > 0 /\ DOMAIN q = 1 .. n /\ Head(q) = q[1]
      /\ DOMAIN r = 1 .. n - 1 /\ \A k \in 1 .. n - 1 : r[k] = q[k + 1]
  OBVIOUS
<1> HIDE DEF r, n
<1>2. ASSUME NEW k \in 1 .. n PROVE k = 1 \/ (k - 1 \in 1 .. n - 1 /\ q[k] = r[k - 1])
  <2>1. CASE k # 1
    <3>1. k - 1 \in 1 .. n - 1 /\ (k - 1) + 1 = k
      BY <1>1, <1>2, <2>1
    <3> QED
      BY <1>1, <3>1
  <2> QED
    BY <2>1
<1>3. \A k \in 1 .. n - 1 : k + 1 \in 1 .. n
  BY <1>1
<1>4. 1 \in 1 .. n
  BY <1>1
<1>5. ToSet(q) = ToSet(r) \cup {Head(q)}
  <2>1. ASSUME NEW k \in 1 .. n PROVE q[k] \in ToSet(r) \cup {Head(q)}
    BY <1>1, <1>2, <2>1 DEF ToSet
  <2>2. ASSUME NEW k \in 1 .. n - 1 PROVE r[k] \in ToSet(q)
    BY <1>1, <1>3, <2>2 DEF ToSet
  <2>3. Head(q) \in ToSet(q)
    BY <1>1, <1>4 DEF ToSet
  <2> QED
    BY <1>1, <2>1, <2>2, <2>3 DEF ToSet
<1> QED
  BY <1>5 DEF r

\* What is announced stays on its way.
Stays ==
    \A s \in Sessions : \A k \in Announced(s)' :
        Coming(s, k)' \/ (k \in Announced(s) /\ (Coming(s, k) => Coming(s, k)'))

\* A step that moves messages only.
LEMMA CoverMoves ==
    ASSUME ClientInv, CurrentInv, UNCHANGED <<selected, transcript, Replay>>, failures' = failures, Stays,
           \A m \in ToSet(pipe') \cup ToSet(ready') :
              IsPage(m) => \/ m \in ToSet(pipe) \cup ToSet(ready)
                           \/ m \in FitReplies /\ \A k \in Announced(m.session)' : k <= m.head
    PROVE  CurrentInv'
<1>1. UNCHANGED <<selected, transcript, loading, buffered, generation, loads>>
  BY DEF Replay
<1>2. generation \in Loads /\ selected \in Sessions /\ loads[generation].session \in Sessions
  <2>1. generation \in Loads /\ selected \in Sessions /\ loads \in [Loads -> LoadStates]
    BY DEF ClientInv, ClientType
  <2> QED
    BY <2>1 DEF LoadStates
<1>3. ASSUME NEW s \in Sessions, NEW n, Covers(s, n) PROVE Covers(s, n)'
  <2> SUFFICES ASSUME NEW k \in Announced(s)' PROVE (k <= n \/ Coming(s, k)' \/ Held(s, k)')
    BY DEF Covers
  <2>1. Held(s, k) => Held(s, k)'
    BY <1>1 DEF Held
  <2>2. Coming(s, k)' \/ (k \in Announced(s) /\ (Coming(s, k) => Coming(s, k)'))
    BY DEF Stays
  <2> QED
    BY <1>3, <2>1, <2>2 DEF Covers
<1>4. SUFFICES ASSUME failures = 0, NewestCovers, ScreenCovers PROVE NewestCovers' /\ ScreenCovers'
  BY DEF CurrentInv
<1>5. ScreenCovers'
  <2> SUFFICES ASSUME ~Loading(generation), NEW k \in Announced(selected)'
               PROVE  k <= HeadSeq(transcript) \/ Coming(selected, k)'
    BY <1>1, <1>4 DEF ScreenCovers, Loading, HeadSeq
  <2>1. Coming(selected, k)' \/ (k \in Announced(selected) /\ (Coming(selected, k) => Coming(selected, k)'))
    BY <1>1, <1>2 DEF Stays, Coming, Announced
  <2> QED
    BY <1>4, <2>1 DEF ScreenCovers
<1>6. NewestCovers'
  <2>1. PICK s \in Sessions : s = loads[generation].session
    BY <1>2
  <2> SUFFICES ASSUME Loading(generation) PROVE NewestCovers'
    BY <1>1 DEF NewestCovers, Loading
  <2>2. loading'[s] = generation
    BY <1>1, <1>4, <2>1 DEF NewestCovers
  <2>3. ~loads[generation].paging => Covers(s, Len(loads[generation].seqs))'
    <3>1. PICK n : n = Len(loads[generation].seqs)
      OBVIOUS
    <3>2. ~loads[generation].paging => Covers(s, n)'
      BY <1>3, <1>4, <2>1, <3>1 DEF NewestCovers
    <3> QED
      BY <1>1, <3>1, <3>2 DEF Covers, Coming, Held, Announced
  <2>4. ASSUME NEW m \in ToSet(pipe') \cup ToSet(ready'), Pages(generation, m) PROVE Covers(s, m.head)'
    <3>1. CASE m \in ToSet(pipe) \cup ToSet(ready)
      <4>1. Covers(s, m.head)
        BY <1>4, <2>1, <2>4, <3>1 DEF NewestCovers
      <4> QED
        BY <1>3, <4>1
    <3>2. CASE m \in FitReplies /\ \A k \in Announced(m.session)' : k <= m.head
      <4>1. m.session = s
        BY <2>1, <2>4, <3>2 DEF FitReplies, Pages
      <4> QED
        BY <3>2, <4>1 DEF Covers
    <3> QED
      BY <2>4, <3>1, <3>2 DEF Pages
  <2> QED
    BY <1>1, <2>1, <2>2, <2>3, <2>4 DEF NewestCovers, Pages, IsPage, Covers, Coming, Held, Announced
<1> QED
  BY <1>5, <1>6

\* The store stays: what comes, comes.
LEMMA SameStays ==
    ASSUME UNCHANGED stored, \A s \in Sessions : \A k : Coming(s, k) => Coming(s, k)'
    PROVE  Stays
  BY DEF Stays, Announced

\* An event is written, and comes unless another process wrote it.
LEMMA WriteStays ==
    ASSUME ClientType, NEW s \in Sessions, NEW type \in Types, NEW n, n = Len(stored[s]),
           stored' = [stored EXCEPT ![s] = Append(stored[s], type)],
           \A r \in Sessions : \A k : Coming(r, k) => Coming(r, k)',
           type # "other" => Coming(s, n + 1)'
    PROVE  Stays
<1>1. PICK q : q = Append(stored[s], type)
  OBVIOUS
<1>3. /\ stored[s] \in Seq(Types) /\ n \in Nat /\ Len(q) = n + 1 /\ q[n + 1] = type
      /\ \A k \in 1 .. n : q[k] = stored[s][k]
  <2>1. stored[s] \in Seq(Types)
    BY DEF ClientType
  <2> QED
    BY <1>1, <2>1
<1>4. \A r \in Sessions : stored'[r] = IF r = s THEN q ELSE stored[r]
  BY <1>1 DEF ClientType
<1> SUFFICES ASSUME NEW r \in Sessions, NEW k \in Announced(r)'
             PROVE  Coming(r, k)' \/ (k \in Announced(r) /\ (Coming(r, k) => Coming(r, k)'))
  BY DEF Stays
<1>5. CASE r # s
  BY <1>4, <1>5 DEF Announced
<1>6. CASE r = s
  <2>1. k \in 1 .. n + 1 /\ q[k] # "other"
    BY <1>3, <1>4, <1>6 DEF Announced
  <2>2. CASE k = n + 1
    BY <1>3, <1>6, <2>1, <2>2
  <2>3. CASE k # n + 1
    <3>1. k \in 1 .. n /\ stored[s][k] # "other"
      BY <1>3, <2>1, <2>3
    <3> QED
      BY <1>6, <3>1 DEF Announced
  <2> QED
    BY <2>2, <2>3
<1> QED
  BY <1>5, <1>6

LEMMA RunThreadCurrent ==
    ASSUME ClientInv, CurrentInv, NEW s \in Sessions, RunThread(s) \/ Foreign(s)
    PROVE  CurrentInv'
<1>1. /\ UNCHANGED <<selected, transcript, Replay>> /\ UNCHANGED <<pipe, ready, failures>>
      /\ unsent \subseteq unsent'
      /\ \E type \in Types : /\ stored' = [stored EXCEPT ![s] = Append(stored[s], type)]
                             /\ type = "other" \/ NextEvent(s, type) \in unsent'
  <2>1. CASE Foreign(s)
    BY <2>1 DEF Foreign, Screen, Types
  <2>2. CASE RunThread(s)
    <3>1. \E type \in Types : Emitted(s, type)
      BY <2>2 DEF RunThread, Types
    <3>2. UNCHANGED <<selected, transcript, Replay>> /\ UNCHANGED <<pipe, ready, failures>>
      BY <2>2 DEF RunThread, Screen
    <3> QED
      BY <3>1, <3>2 DEF Emitted, Write
  <2> QED
    BY <2>1, <2>2
<1>2. PICK type \in Types : /\ stored' = [stored EXCEPT ![s] = Append(stored[s], type)]
                            /\ type = "other" \/ NextEvent(s, type) \in unsent'
  BY <1>1
<1>3. \A r \in Sessions : \A k : Coming(r, k) => Coming(r, k)'
  BY <1>1 DEF Coming
<1>n. PICK n : n = Len(stored[s])
  OBVIOUS
<1>4. type # "other" => Coming(s, n + 1)'
  <2> SUFFICES ASSUME type # "other" PROVE Coming(s, n + 1)'
    OBVIOUS
  <2>1. PICK e : e = NextEvent(s, type)
    OBVIOUS
  <2>2. e \in unsent' /\ Is(e, s, n + 1)
    <3>1. NextEvent(s, type).session = s /\ NextEvent(s, type).seq = Len(stored[s]) + 1
      BY DEF NextEvent
    <3>2. e \in unsent'
      BY <1>2, <2>1, Zenon
    <3>3. e.session = s /\ e.seq = n + 1
      BY <1>n, <2>1, <3>1
    <3> QED
      BY <3>2, <3>3 DEF Is
  <2> QED
    BY <2>2 DEF Coming
<1>5. Stays
  <2>1. stored' = [stored EXCEPT ![s] = Append(stored[s], type)]
    BY <1>2
  <2>2. ClientType
    BY DEF ClientInv
  <2> QED
    BY <1>3, <1>4, <1>n, <2>1, <2>2, WriteStays
<1> QED
  BY <1>1, <1>5, CoverMoves

LEMMA AnnounceCurrent ==
    ASSUME ClientInv, CurrentInv, NEW event \in unsent, Announce(event)
    PROVE  CurrentInv'
<1>1. PICK m : m = [kind |-> "event", event |-> event]
  OBVIOUS
<1>2. /\ UNCHANGED <<selected, transcript, Replay>> /\ UNCHANGED <<stored, ready, failures>>
      /\ pipe' = Append(pipe, m) /\ unsent' = unsent \ {event}
  BY <1>1 DEF Announce, Screen
<1>3. ToSet(pipe') = ToSet(pipe) \cup {m}
  BY <1>2, ToSetAppend DEF ClientInv, MessagesFit
<1>4. m.kind = "event" /\ m.event = event
  BY <1>1
<1>5. ASSUME NEW r \in Sessions, NEW k, Coming(r, k) PROVE Coming(r, k)'
  <2>1. CASE Is(event, r, k)
    BY <1>3, <1>4, <2>1 DEF Coming
  <2>2. CASE ~Is(event, r, k)
    BY <1>2, <1>3, <1>5, <2>2 DEF Coming
  <2> QED
    BY <2>1, <2>2
<1>6. Stays
  BY <1>2, <1>5, SameStays
<1>7. ~IsPage(m)
  BY <1>4 DEF IsPage
<1> QED
  BY <1>2, <1>3, <1>6, <1>7, CoverMoves

\* A page is asked for or read, or a request made: nothing arrives.
LEMMA NothingArrives ==
    ASSUME ClientInv, CurrentInv, UNCHANGED <<selected, transcript, Replay>>,
           UNCHANGED <<stored, unsent, pipe, ready, failures>>
    PROVE  CurrentInv'
<1>1. \A r \in Sessions : \A k : Coming(r, k) => Coming(r, k)'
  BY DEF Coming
<1>2. Stays
  BY <1>1, SameStays
<1> QED
  BY <1>2, CoverMoves

LEMMA ServeHeadCurrent ==
    ASSUME ClientInv, CurrentInv, ServeHead
    PROVE  CurrentInv'
<1>1. PICK reply : reply = [serving EXCEPT !.head = Len(stored[serving.session])]
  OBVIOUS
<1>2. /\ UNCHANGED <<selected, transcript, Replay>> /\ UNCHANGED <<stored, unsent, ready, failures>>
      /\ serving # Nothing /\ pipe' = Append(pipe, reply)
  BY <1>1 DEF ServeHead, Store, Screen
<1>3. ToSet(pipe') = ToSet(pipe) \cup {reply}
  BY <1>2, ToSetAppend DEF ClientInv, MessagesFit
<1>4. serving \in FitReplies
  BY <1>2 DEF ClientInv, MessagesFit
<1>5. reply \in FitReplies /\ \A k \in Announced(reply.session)' : k <= reply.head
  <2>1. serving \in Replies /\ serving.session \in Sessions
    BY <1>4 DEF FitReplies, Replies
  <2>2. Len(stored[serving.session]) \in Nat
    BY <2>1 DEF ClientInv, ClientType
  <2>3. /\ reply \in Replies /\ reply.kind = serving.kind /\ reply.who = serving.who
        /\ reply.session = serving.session /\ reply.seqs = serving.seqs /\ reply.more = serving.more
        /\ reply.head = Len(stored[reply.session])
    BY <1>1, <2>1, <2>2 DEF Replies
  <2>4. reply.head <= Len(stored[reply.session])
    BY <2>2, <2>3
  <2>5. reply \in FitReplies
    BY <1>4, <2>3, <2>4 DEF FitReplies, IsPage
  <2>6. PICK n \in Nat : n = reply.head /\ n = Len(stored'[reply.session])
    BY <1>2, <2>2, <2>3
  <2>7. \A k \in Announced(reply.session)' : k <= n
    BY <2>6 DEF Announced
  <2> QED
    BY <2>5, <2>6, <2>7
<1>6. \A r \in Sessions : \A k : Coming(r, k) => Coming(r, k)'
  BY <1>2, <1>3 DEF Coming
<1>7. Stays
  BY <1>2, <1>6, SameStays
<1> QED
  BY <1>2, <1>3, <1>5, <1>7, CoverMoves

\* An answer that is not a page.
LEMMA AnswerCurrent ==
    ASSUME ClientInv, CurrentInv, UNCHANGED <<selected, transcript, Replay>>,
           UNCHANGED <<stored, unsent, ready, failures>>,
           NEW request, NEW ok, ~IsPage(request), Respond(request, ok)
    PROVE  CurrentInv'
<1>1. PICK reply : reply = Reply(request, ok, <<>>, FALSE, 0)
  OBVIOUS
<1>2. pipe' = Append(pipe, reply)
  BY <1>1 DEF Respond
<1>3. ToSet(pipe') = ToSet(pipe) \cup {reply}
  BY <1>2, ToSetAppend DEF ClientInv, MessagesFit
<1>4. ~IsPage(reply)
  BY <1>1 DEF IsPage, Reply
<1>5. \A r \in Sessions : \A k : Coming(r, k) => Coming(r, k)'
  BY <1>3 DEF Coming
<1>6. Stays
  BY <1>5, SameStays
<1> QED
  BY <1>3, <1>4, <1>6, CoverMoves

LEMMA ResolveCurrent ==
    ASSUME ClientInv, CurrentInv, UNCHANGED <<selected, transcript, Replay>>,
           UNCHANGED <<unsent, ready, failures>>, inbox # <<>>,
           NEW request, request = Head(inbox), ~IsPage(request), NEW s, s = request.session,
           stored' = [stored EXCEPT ![s] = Append(stored[s], "resolved")],
           pipe' = pipe \o <<[kind |-> "event", event |-> NextEvent(s, "resolved")],
                             Reply(request, TRUE, <<>>, FALSE, 0)>>
    PROVE  CurrentInv'
<1>1. PICK reply : reply = Reply(request, TRUE, <<>>, FALSE, 0)
  OBVIOUS
<1>2. PICK event : event = NextEvent(s, "resolved")
  OBVIOUS
<1>3. PICK m : m = [kind |-> "event", event |-> event]
  OBVIOUS
<1>4. s \in Sessions /\ ClientType
  <2>1. inbox \in Seq(FitRequests)
    BY DEF ClientInv, MessagesFit
  <2>2. request \in FitRequests
    BY <2>1, HeadAndTail
  <2> QED
    BY <2>2 DEF FitRequests, Requests, ClientInv
<1>5. ToSet(pipe') = ToSet(pipe) \cup {m, reply}
  <2>1. PICK S : S = FitReplies \cup RealNotices \cup {m, reply}
    OBVIOUS
  <2>2. pipe \in Seq(S) /\ m \in S /\ reply \in S
    BY <2>1, SeqWiden DEF ClientInv, MessagesFit
  <2>3. pipe \o <<m, reply>> = Append(Append(pipe, m), reply)
    BY <2>2, TwoMore
  <2>4. pipe' = Append(Append(pipe, m), reply)
    BY <1>1, <1>2, <1>3, <2>3
  <2>5. PICK q : q = Append(pipe, m)
    OBVIOUS
  <2>6. q \in Seq(S) /\ ToSet(q) = ToSet(pipe) \cup {m}
    BY <2>2, <2>5, Longer, ToSetAppend
  <2>7. ToSet(Append(q, reply)) = ToSet(q) \cup {reply}
    BY <2>6, ToSetAppend
  <2> QED
    BY <2>4, <2>5, <2>6, <2>7
<1>6. ~IsPage(m) /\ ~IsPage(reply)
  BY <1>1, <1>3 DEF IsPage, Reply
<1>7. PICK n : n = Len(stored[s])
  OBVIOUS
<1>8. \A r \in Sessions : \A k : Coming(r, k) => Coming(r, k)'
  BY <1>5 DEF Coming
<1>9. Coming(s, n + 1)'
  <2>1. m.kind = "event" /\ m.event = event
    BY <1>3
  <2>2. Is(event, s, n + 1)
    BY <1>2, <1>7 DEF NextEvent, Is
  <2> QED
    BY <1>5, <2>1, <2>2 DEF Coming
<1>10. Stays
  <2>1. "resolved" \in Types
    BY DEF Types
  <2> QED
    BY <1>4, <1>7, <1>8, <1>9, <2>1, WriteStays
<1> QED
  BY <1>5, <1>6, <1>10, CoverMoves

LEMMA ServeCurrent ==
    ASSUME ClientInv, CurrentInv, Serve
    PROVE  CurrentInv'
<1>1. PICK request : request = Head(inbox)
  OBVIOUS
<1>2. PICK s : s = request.session
  OBVIOUS
<1>3. /\ UNCHANGED <<selected, transcript, Replay>> /\ UNCHANGED <<ready, failures>>
      /\ inbox # <<>> /\ ~IsPage(request)
      /\ \/ UNCHANGED <<stored, unsent>> /\ \E ok \in BOOLEAN : Respond(request, ok)
         \/ /\ UNCHANGED <<unsent, serving>>
            /\ stored' = [stored EXCEPT ![s] = Append(stored[s], "resolved")]
            /\ pipe' = pipe \o <<[kind |-> "event", event |-> NextEvent(s, "resolved")],
                                 Reply(request, TRUE, <<>>, FALSE, 0)>>
            /\ inbox' = Tail(inbox)
  <2>1. Answers(request, s)
    BY <1>1, <1>2, ServeIs
  <2> QED
    BY <2>1, Zenon DEF Answers
<1>4. CASE UNCHANGED <<stored, unsent>> /\ \E ok \in BOOLEAN : Respond(request, ok)
  <2>1. PICK ok \in BOOLEAN : Respond(request, ok)
    BY <1>4
  <2> QED
    BY <1>3, <1>4, <2>1, AnswerCurrent
<1> QED
  BY <1>1, <1>2, <1>3, <1>4, ResolveCurrent

\* A reply is taken from the pipe, or from those that are ready.
LEMMA ReplyCurrent ==
    ASSUME ClientInv, CurrentInv, UNCHANGED <<selected, transcript, Replay>>,
           UNCHANGED <<stored, unsent, failures>>,
           \/ /\ pipe # <<>> /\ pipe' = Tail(pipe) /\ Head(pipe).kind # "event"
              /\ ready' = Append(ready, Head(pipe))
           \/ ready # <<>> /\ ready' = Tail(ready) /\ pipe' = pipe
    PROVE  CurrentInv'
<1>1. pipe \in Seq(FitReplies \cup RealNotices) /\ ready \in Seq(FitReplies)
  BY DEF ClientInv, MessagesFit
<1>2. /\ ToSet(pipe') \cup ToSet(ready') \subseteq ToSet(pipe) \cup ToSet(ready)
      /\ \A m \in ToSet(pipe) : m.kind = "event" => m \in ToSet(pipe')
  <2>1. CASE pipe # <<>> /\ pipe' = Tail(pipe) /\ Head(pipe).kind # "event" /\ ready' = Append(ready, Head(pipe))
    <3>1. ToSet(pipe) = ToSet(pipe') \cup {Head(pipe)} /\ ToSet(ready') = ToSet(ready) \cup {Head(pipe)}
      BY <1>1, <2>1, ToSetTail, ToSetAppend
    <3> QED
      BY <2>1, <3>1
  <2>2. CASE ready # <<>> /\ ready' = Tail(ready) /\ pipe' = pipe
    <3>1. ToSet(ready) = ToSet(ready') \cup {Head(ready)}
      BY <1>1, <2>2, ToSetTail
    <3> QED
      BY <2>2, <3>1
  <2> QED
    BY <2>1, <2>2
<1>3. \A r \in Sessions : \A k : Coming(r, k) => Coming(r, k)'
  BY <1>2 DEF Coming
<1>4. Stays
  BY <1>3, SameStays
<1> QED
  BY <1>2, <1>4, CoverMoves

\* A load that starts has all of its history to read.
LEMMA StartLoadCurrent ==
    ASSUME ClientInv, NEW s \in Sessions, NEW more, StartLoad(s, more), Handled
    PROVE  CurrentInv'
<1>1. PICK g : g = generation + 1
  OBVIOUS
<1>2. g \in Loads /\ g \in Nat /\ g > generation /\ ClientType /\ loads \in [Loads -> LoadStates]
      /\ loading \in [Sessions -> 0 .. MaxLoads]
  BY <1>1 DEF StartLoad, ClientInv, ClientType
<1>3. PICK load : load = NewLoad(s)
  OBVIOUS
<1>4. load.session = s /\ load.paging /\ load.at = "fetch"
  BY <1>3 DEF NewLoad, NoLoad
<1>5. /\ generation' = g /\ loading' = [loading EXCEPT ![s] = g] /\ loads' = [loads EXCEPT ![g] = load]
  BY <1>1, <1>3 DEF StartLoad
<1>6. loads'[g] = load /\ loading'[s] = g
  BY <1>2, <1>5
<1>7. \A m \in ToSet(pipe') \cup ToSet(ready') : ~Pages(g, m)
  <2>1. pipe' \in Seq(FitReplies \cup RealNotices) /\ ready' \in Seq(FitReplies)
    BY DEF Handled
  <2>2. Count(pipe', g) = 0 /\ Count(ready', g) = 0
    BY <1>2, <2>1, NoneAhead
  <2>3. /\ \A k \in DOMAIN pipe' : ~Pages(g, pipe'[k])
        /\ \A k \in DOMAIN ready' : ~Pages(g, ready'[k])
    BY <2>1, <2>2, CountType
  <2> QED
    BY <2>3 DEF ToSet
<1>8. NewestCovers'
  BY <1>4, <1>5, <1>6, <1>7 DEF NewestCovers, Pages, IsPage
<1>9. ScreenCovers'
  BY <1>4, <1>5, <1>6 DEF ScreenCovers, Loading
<1> QED
  BY <1>8, <1>9 DEF CurrentInv

\* Nothing is written, announced or delivered, and no request fails.
Calm == UNCHANGED <<stored, unsent, pipe, failures>> /\ ToSet(ready') \subseteq ToSet(ready)

\* What was announced and what comes are as they were.
LEMMA CalmCovers ==
    ASSUME Calm
    PROVE  \A s : /\ Announced(s)' = Announced(s)
                  /\ \A k : Coming(s, k)' <=> Coming(s, k)
  BY DEF Calm, Announced, Coming

\* The newest load and what is selected, by their types.
LEMMA NewestIs ==
    ASSUME ClientInv
    PROVE  /\ generation \in Loads /\ selected \in Sessions /\ loads \in [Loads -> LoadStates]
           /\ loads[generation].session \in Sessions
           /\ loading \in [Sessions -> 0 .. MaxLoads]
<1>1. /\ generation \in Loads /\ selected \in Sessions /\ loads \in [Loads -> LoadStates]
      /\ loading \in [Sessions -> 0 .. MaxLoads]
  BY DEF ClientInv, ClientType
<1> QED
  BY <1>1 DEF LoadStates

\* What there is to show of the newest load, by the names of its parts.
LEMMA NewestShape ==
    ASSUME NEW s, NEW n, NEW g, generation' = g, loads'[g].session = s, n = Len(loads'[g].seqs),
           loading'[s] = g, ~loads'[g].paging => Covers(s, n)',
           \A m \in ToSet(pipe') \cup ToSet(ready') : Pages(g, m) => Covers(s, m.head)'
    PROVE  NewestCovers'
<1>1. (loading[loads[generation].session] = generation)'
  OBVIOUS
<1>2. (~loads[generation].paging => Covers(loads[generation].session, Len(loads[generation].seqs)))'
  BY DEF Covers, Coming, Held, Announced
<1>3. (\A m \in ToSet(pipe) \cup ToSet(ready) :
          Pages(generation, m) => Covers(loads[generation].session, m.head))'
  BY DEF Covers, Coming, Held, Announced, Pages
<1> QED
  BY <1>1, <1>2, <1>3 DEF NewestCovers

\* A load that is not the newest goes on or ends.
LEMMA OtherCurrent ==
    ASSUME ClientInv, CurrentInv, Calm, UNCHANGED <<selected, transcript, generation>>,
           NEW g \in Loads, g # generation, \A h \in Loads : h # g => loads'[h] = loads[h],
           \A s \in Sessions : loading[s] # g => loading'[s] = loading[s] /\ buffered'[s] = buffered[s]
    PROVE  CurrentInv'
<1>1. /\ generation \in Loads /\ selected \in Sessions /\ loads[generation].session \in Sessions
      /\ loads'[generation] = loads[generation]
  BY NewestIs
<1>2. SUFFICES ASSUME failures = 0, NewestCovers, ScreenCovers PROVE NewestCovers' /\ ScreenCovers'
  BY DEF CurrentInv, Calm
<1>3. ScreenCovers'
  <2> SUFFICES ASSUME ~Loading(generation)
               PROVE  /\ loading'[selected] = 0
                      /\ \A k \in Announced(selected)' : k <= HeadSeq(transcript) \/ Coming(selected, k)'
    BY <1>1 DEF ScreenCovers, Loading, HeadSeq
  <2>1. loading[selected] = 0 /\ \A k \in Announced(selected) : k <= HeadSeq(transcript) \/ Coming(selected, k)
    BY <1>2 DEF ScreenCovers
  <2>2. PICK s : s = selected
    OBVIOUS
  <2>3. Announced(s)' = Announced(s) /\ \A k : Coming(s, k)' <=> Coming(s, k)
    BY CalmCovers
  <2>4. \A k \in Announced(s)' : k <= HeadSeq(transcript) \/ Coming(s, k)'
    BY <2>1, <2>2, <2>3
  <2>5. Announced(selected)' = Announced(s)' /\ \A k : Coming(selected, k)' <=> Coming(s, k)'
    BY <2>2 DEF Announced, Coming
  <2> QED
    BY <1>1, <2>1, <2>4, <2>5
<1>4. NewestCovers'
  <2>1. PICK s \in Sessions : s = loads[generation].session
    BY <1>1
  <2>2. PICK n : n = Len(loads[generation].seqs)
    OBVIOUS
  <2> SUFFICES ASSUME Loading(generation) PROVE NewestCovers'
    BY <1>1 DEF NewestCovers, Loading
  <2>3. /\ loading[s] = generation /\ (~loads[generation].paging => Covers(s, n))
        /\ \A m \in ToSet(pipe) \cup ToSet(ready) : Pages(generation, m) => Covers(s, m.head)
    BY <1>2, <2>1, <2>2 DEF NewestCovers
  <2>4. loading'[s] = generation /\ buffered'[s] = buffered[s]
    BY <2>3
  <2>5. ASSUME NEW j, Covers(s, j) PROVE Covers(s, j)'
    <3>1. \A k : Held(s, k)' <=> Held(s, k)
      BY <2>4 DEF Held
    <3> QED
      BY <2>5, <3>1, CalmCovers DEF Covers
  <2>6. ~loads[generation].paging => Covers(s, n)'
    BY <2>3, <2>5
  <2>7. \A m \in ToSet(pipe') \cup ToSet(ready') : Pages(generation, m) => Covers(s, m.head)'
    BY <2>3, <2>5 DEF Calm
  <2>8. loads'[generation].session = s /\ n = Len(loads'[generation].seqs)
        /\ loads'[generation].paging = loads[generation].paging
    BY <1>1, <2>1, <2>2
  <2> QED
    BY <2>4, <2>6, <2>7, <2>8, NewestShape
<1> QED
  BY <1>3, <1>4

\* The newest load goes on.
LEMMA NewestCurrent ==
    ASSUME ClientInv, NEW g \in Loads, generation' = g, NEW s, NEW n, NEW load,
           loads' = [loads EXCEPT ![g] = load], load.session = s, load.at # "done",
           n = Len(load.seqs), loading'[s] = g, ~load.paging => Covers(s, n)',
           \A m \in ToSet(pipe') \cup ToSet(ready') : Pages(g, m) => Covers(s, m.head)'
    PROVE  CurrentInv'
<1>1. loads'[g] = load
  BY NewestIs
<1>2. NewestCovers'
  BY <1>1, NewestShape
<1>3. ScreenCovers'
  BY <1>1 DEF ScreenCovers, Loading
<1> QED
  BY <1>2, <1>3 DEF CurrentInv

\* No page of load g is on its way.
LEMMA NoneComes ==
    ASSUME Handled, NEW g, NoPage(g)
    PROVE  \A m \in ToSet(pipe') \cup ToSet(ready') : ~Pages(g, m)
<1>1. pipe' \in Seq(FitReplies \cup RealNotices) /\ ready' \in Seq(FitReplies)
  BY DEF Handled
<1>2. /\ \A k \in DOMAIN pipe' : ~Pages(g, pipe'[k])
      /\ \A k \in DOMAIN ready' : ~Pages(g, ready'[k])
  BY <1>1, CountType DEF NoPage
<1> QED
  BY <1>2 DEF ToSet

\* The buffer of a load is drained: what it held is in what was merged.
LEMMA DrainedCovers ==
    ASSUME ClientInv, Calm, NEW s \in Sessions, NEW n \in Nat, NEW m \in Nat, n <= m, Covers(s, n),
           \A e \in ToSet(buffered[s]) : e.seq <= m
    PROVE  \A k \in Announced(s)' : k <= m \/ Coming(s, k)'
<1> SUFFICES ASSUME NEW k \in Announced(s)' PROVE k <= m \/ Coming(s, k)'
  OBVIOUS
<1>1. k \in Announced(s) /\ (Coming(s, k)' <=> Coming(s, k))
  BY CalmCovers
<1>2. k \in Nat
  <2>1. Len(stored[s]) \in Nat
    BY DEF ClientInv, ClientType
  <2> QED
    BY <1>1, <2>1 DEF Announced
<1>3. k <= n \/ Coming(s, k) \/ Held(s, k)
  BY <1>1 DEF Covers
<1>4. Held(s, k) => k <= m
  BY DEF Held
<1> QED
  BY <1>1, <1>2, <1>3, <1>4

\* The newest load publishes all that was announced, but for what still comes.
LEMMA PublishCurrent ==
    ASSUME ClientInv, NEW g \in Loads, generation = g, loading[loads[g].session] = g, NEW load,
           load.session = loads[g].session, NEW n \in Nat, n = Len(load.seqs),
           \A k \in Announced(load.session)' : k <= n \/ Coming(load.session, k)',
           Publish(g, load)
    PROVE  CurrentInv'
<1>1. PICK s : s = loads[g].session
  OBVIOUS
<1>2. EndLoad(g) /\ selected' = s /\ generation' = g
  BY <1>1 DEF Publish
<1>3. PICK ended : ended = [NoLoad EXCEPT !.session = s]
  OBVIOUS
<1>4. ended.at = "done" /\ s \in Sessions
  BY <1>1, <1>3, NewestIs DEF NoLoad
<1>5. loads' = [loads EXCEPT ![g] = ended] /\ loading' = [loading EXCEPT ![s] = 0]
  BY <1>1, <1>2, <1>3 DEF EndLoad
<1>6. loads'[g] = ended /\ loading'[s] = 0
  BY <1>4, <1>5, NewestIs
<1>7. HeadSeq(transcript') >= n /\ HeadSeq(transcript') \in Nat
  <2>1. HeadSeq(transcript) \in Nat
    <3>1. PICK j \in 0 .. Len(stored[selected]) : transcript.seqs = First(j)
      BY DEF ClientInv, ScreenShows, Shows
    <3>2. j \in Nat
      BY <3>1
    <3> QED
      BY <3>1, <3>2, FirstIs DEF HeadSeq
  <2>2. \/ transcript' = transcript /\ HeadSeq(transcript) > n
        \/ transcript' = [session |-> s, seqs |-> load.seqs]
    BY <1>1 DEF Publish
  <2>3. CASE transcript' = transcript /\ HeadSeq(transcript) > n
    BY <2>1, <2>3
  <2>4. CASE transcript' = [session |-> s, seqs |-> load.seqs]
    <3>1. HeadSeq(transcript') = n
      BY <2>4 DEF HeadSeq
    <3> QED
      BY <3>1
  <2> QED
    BY <2>2, <2>3, <2>4
<1>8. \A k \in Announced(s)' : k \in Int
  BY DEF Announced
<1>9. ASSUME NEW k \in Announced(s)' PROVE k <= HeadSeq(transcript') \/ Coming(s, k)'
  <2>1. k <= n \/ Coming(s, k)'
    BY <1>1, <1>9 DEF Announced, Coming
  <2> QED
    BY <1>7, <1>8, <1>9, <2>1
<1>10. ScreenCovers'
  <2>1. (\A k \in Announced(selected) : k <= HeadSeq(transcript) \/ Coming(selected, k))'
    BY <1>2, <1>9 DEF Announced, Coming, HeadSeq
  <2> QED
    BY <1>2, <1>6, <2>1 DEF ScreenCovers
<1>11. NewestCovers'
  BY <1>2, <1>4, <1>6 DEF NewestCovers, Loading
<1> QED
  BY <1>10, <1>11 DEF CurrentInv

\* A load that is not the newest ends.
LEMMA EndsCurrent ==
    ASSUME ClientInv, CurrentInv, Calm, NEW g \in Loads, g # generation, FailLoad(g)
    PROVE  CurrentInv'
<1>1. PICK s : s = loads[g].session
  OBVIOUS
<1>2. EndLoad(g) /\ Discard(g) /\ UNCHANGED <<selected, transcript, generation>>
  BY DEF FailLoad, Screen
<1>3. /\ loading' = IF loading[s] = g THEN [loading EXCEPT ![s] = 0] ELSE loading
      /\ buffered' = IF loading[s] = g /\ g # generation THEN [buffered EXCEPT ![s] = <<>>] ELSE buffered
  BY <1>1, <1>2 DEF EndLoad, Discard
<1>4. \A h \in Loads : h # g => loads'[h] = loads[h]
  BY <1>2, NewestIs DEF EndLoad
<1>5. ASSUME NEW r \in Sessions, loading[r] # g
      PROVE  loading'[r] = loading[r] /\ buffered'[r] = buffered[r]
  <2>1. buffered \in [Sessions -> Seq(Events)] /\ loading \in [Sessions -> 0 .. MaxLoads]
    BY NewestIs DEF ClientInv, EventsReal
  <2>2. CASE loading[s] = g
    BY <1>3, <1>5, <2>1, <2>2
  <2> QED
    BY <1>3, <2>2
<1> QED
  BY <1>2, <1>4, <1>5, OtherCurrent

\* The loop before publishing.
LEMMA DrainCurrent ==
    ASSUME ClientInv, CurrentInv, Calm, Handled, NEW g \in Loads, Loading(g), NoPage(g),
           generation' = generation, NEW load \in LoadStates, load.session = loads[g].session,
           ~load.paging, Shows(load.seqs, load.session),
           g = generation /\ failures = 0 => Covers(load.session, Len(load.seqs)), Drain(g, load)
    PROVE  CurrentInv'
<1>1. PICK s : s = load.session
  OBVIOUS
<1>2. PICK view : view = [session |-> s, seqs |-> load.seqs]
  OBVIOUS
<1>3. PICK batch : batch = buffered[s]
  OBVIOUS
<1>4. PICK dirty : dirty = (load.dirty \/ \E k \in 1 .. Len(batch) : Approval(batch[k].type))
  OBVIOUS
<1>5. s \in Sessions /\ ClientType /\ EventsReal /\ load.seqs \in Seq(Nat)
  BY <1>1 DEF LoadStates, ClientInv
<1>6. CASE g # generation
  <2>1. FailLoad(g)
    BY <1>6 DEF Drain
  <2> QED
    BY <1>6, <2>1, EndsCurrent
<1>7. CASE failures # 0
  BY <1>7 DEF CurrentInv, Calm
<1> SUFFICES ASSUME g = generation, failures = 0 PROVE CurrentInv'
  BY <1>6, <1>7
<1>8. loading[s] = g
  BY <1>1 DEF CurrentInv, NewestCovers
<1>9. \A m \in ToSet(pipe') \cup ToSet(ready') : ~Pages(g, m)
  BY NoneComes
<1>10. CASE MergeGap(view, batch)
  <2>1. PICK next : next = [[load EXCEPT !.seqs = <<>>, !.paging = TRUE, !.stalled = FALSE, !.dirty = TRUE]
                            EXCEPT !.at = "repair"]
    OBVIOUS
  <2>2. loads' = [loads EXCEPT ![g] = next] /\ loading' = loading
    BY <1>1, <1>2, <1>3, <1>10, <2>1 DEF Drain
  <2>3. next.session = s /\ next.at # "done" /\ next.paging
    BY <1>1, <2>1 DEF LoadStates
  <2>4. PICK n : n = Len(next.seqs)
    OBVIOUS
  <2> QED
    BY <1>8, <1>9, <2>2, <2>3, <2>4, NewestCurrent
<1>11. CASE ~MergeGap(view, batch)
  <2>1. PICK seqs : seqs = Merged(view, batch).seqs
    OBVIOUS
  <2>2. PICK n : n = Len(seqs)
    OBVIOUS
  <2>3. PICK j : j = Len(load.seqs)
    OBVIOUS
  <2>4. n \in Nat /\ j \in Nat /\ j <= n /\ \A e \in ToSet(buffered[s]) : e.seq <= n
    <3>1. seqs \in Seq(Nat) /\ Len(load.seqs) <= Len(seqs) /\ \A e \in ToSet(buffered[s]) : e.seq <= Len(seqs)
      BY <1>1, <1>2, <1>3, <1>5, <1>11, <2>1, MergedShows
    <3>2. Len(seqs) \in Nat /\ Len(load.seqs) \in Nat
      BY <1>5, <3>1
    <3> QED
      BY <2>2, <2>3, <3>1, <3>2
  <2>5. Covers(s, j)
    BY <1>1, <2>3
  <2>6. \A k \in Announced(s)' : k <= n \/ Coming(s, k)'
    BY <1>5, <2>4, <2>5, DrainedCovers
  <2>7. CASE dirty
    <3>1. PICK next : next = [[load EXCEPT !.seqs = seqs, !.dirty = FALSE] EXCEPT !.at = "approvals"]
      OBVIOUS
    <3>2. loads' = [loads EXCEPT ![g] = next] /\ loading' = loading
      BY <1>1, <1>2, <1>3, <1>4, <1>11, <2>1, <2>7, <3>1 DEF Drain
    <3>3. next.session = s /\ next.at # "done" /\ n = Len(next.seqs)
      BY <1>1, <2>2, <3>1 DEF LoadStates
    <3>4. Covers(s, n)'
      BY <2>6 DEF Covers
    <3> QED
      BY <1>8, <1>9, <3>2, <3>3, <3>4, NewestCurrent
  <2>8. CASE ~dirty
    <3>1. PICK next : next = [load EXCEPT !.seqs = seqs]
      OBVIOUS
    <3>2. Publish(g, next)
      BY <1>1, <1>2, <1>3, <1>4, <1>11, <2>1, <2>8, <3>1 DEF Drain
    <3>3. next.session = s /\ n = Len(next.seqs)
      BY <1>1, <2>2, <3>1 DEF LoadStates
    <3>4. \A k \in Announced(next.session)' : k <= n \/ Coming(next.session, k)'
      BY <2>6, <3>3 DEF Announced, Coming
    <3> QED
      BY <1>1, <1>8, <2>4, <3>2, <3>3, <3>4, PublishCurrent
  <2> QED
    BY <2>7, <2>8
<1> QED
  BY <1>10, <1>11

\* Taking a reply from those that are ready is calm.
LEMMA TailCalm ==
    ASSUME ClientInv, ready # <<>>, ready' = Tail(ready), UNCHANGED <<Store, pipe, failures>>
    PROVE  Calm /\ Head(ready) \in ToSet(ready)
<1>1. ready \in Seq(FitReplies)
  BY DEF ClientInv, MessagesFit
<1>2. ToSet(ready) = ToSet(ready') \cup {Head(ready)}
  BY <1>1, ToSetTail
<1> QED
  BY <1>2 DEF Calm, Store

\* The newest load, with what it has read so far, and its buffer untouched.
LEMMA BufferCovers ==
    ASSUME Calm, NEW s, NEW n, buffered'[s] = buffered[s], Covers(s, n)
    PROVE  Covers(s, n)'
<1>1. \A k : Held(s, k)' <=> Held(s, k)
  BY DEF Held
<1> QED
  BY <1>1, CalmCovers DEF Covers

\* What a load reads to the end covers what its last page knew of.
LEMMA CoversMore ==
    ASSUME NEW s, NEW n \in Nat, NEW m \in Nat, n <= m, Covers(s, n)
    PROVE  Covers(s, m)
<1>1. \A k \in Announced(s) : k \in Int
  BY DEF Announced
<1> QED
  BY <1>1 DEF Covers

LEMMA PageCurrent ==
    ASSUME ClientInv, CurrentInv, ready # <<>>, ready' = Tail(ready),
           UNCHANGED <<Store, serving, pipe>>, failures' = failures,
           NEW g \in Loads, Loading(g), NEW reply, reply = Head(ready), Pages(g, reply),
           Page(g, reply), generation' = generation
    PROVE  CurrentInv'
<1>1. pipe' = pipe /\ Calm /\ reply \in ToSet(ready)
  BY TailCalm
<1>2. reply \in FitReplies /\ Handled /\ NoPage(g)
  BY <1>1, HandledReply, LastPage
<1>3. PICK seqs : seqs = loads[g].seqs \o reply.seqs
  OBVIOUS
<1>4. PICK load : load = [loads[g] EXCEPT !.seqs = seqs]
  OBVIOUS
<1>5. /\ loads[g] \in LoadStates /\ loads[g].session \in Sessions
      /\ seqs \in Seq(Nat) /\ Shows(seqs, loads[g].session) /\ loads \in [Loads -> LoadStates]
  <2>1. loads \in [Loads -> LoadStates]
    BY NewestIs
  <2>2. loads[g] \in LoadStates /\ loads[g].session \in Sessions
    BY <2>1 DEF LoadStates
  <2>3. seqs \in Seq(Nat) /\ Shows(seqs, loads[g].session)
    BY <1>2, <1>3, PageShows
  <2> QED
    BY <2>1, <2>2, <2>3
<1>6. load \in LoadStates /\ load.session = loads[g].session /\ load.seqs = seqs
      /\ load.stalled = loads[g].stalled /\ load.at = loads[g].at /\ load.paging = loads[g].paging
  BY <1>4, <1>5 DEF LoadStates
<1>7. loads[g].paging
  BY <1>1, PageIsAwaited
<1>8. ReadsOn(load, reply)
  BY <1>2, <1>6, <1>7, PageReadsOn
<1>9. load.at = "fetch" \/ load.at = "repair"
  <2>1. loads[g].at # "approvals" /\ loads[g].at # "done"
    BY <1>7 DEF ClientInv, LoadsPage, PagingFits, Loading
  <2> QED
    BY <1>6, <2>1 DEF LoadStates
<1>10. PICK s \in Sessions : s = loads[g].session
  BY <1>5
<1>11. g = generation /\ failures = 0 => loading[s] = g /\ Covers(s, reply.head)
  BY <1>1, <1>10 DEF CurrentInv, NewestCovers
<1>12. \A m \in ToSet(pipe') \cup ToSet(ready') : ~Pages(g, m)
  BY <1>2, NoneComes
<1>13. PICK n : n = Len(seqs)
  OBVIOUS
<1>14. n \in Nat /\ reply.head \in Nat
  BY <1>2, <1>5, <1>13 DEF FitReplies, Replies
<1>15. ASSUME NEW next, next.session = s, next.at = load.at, next.seqs = seqs,
              loads' = [loads EXCEPT ![g] = next], UNCHANGED <<selected, transcript, loading, buffered>>,
              g = generation /\ failures = 0 => next.paging \/ Covers(s, n)
       PROVE  CurrentInv'
  <2>1. CASE g # generation
    <3>1. \A h \in Loads : h # g => loads'[h] = loads[h]
      BY <1>5, <1>15
    <3>2. UNCHANGED <<selected, transcript, generation>> /\ UNCHANGED <<loading, buffered>>
      BY <1>15
    <3> QED
      BY <1>1, <2>1, <3>1, <3>2, OtherCurrent
  <2>2. CASE failures # 0
    BY <2>2 DEF CurrentInv
  <2>3. CASE g = generation /\ failures = 0
    <3>1. ~next.paging => Covers(s, n)'
      <4>1. buffered'[s] = buffered[s]
        BY <1>15
      <4> QED
        BY <1>1, <1>15, <2>3, <4>1, BufferCovers
    <3>2. next.at # "done" /\ n = Len(next.seqs) /\ loading'[s] = g /\ generation' = g
      BY <1>9, <1>11, <1>13, <1>15, <2>3
    <3> QED
      BY <1>12, <1>15, <3>1, <3>2, NewestCurrent
  <2> QED
    BY <2>1, <2>2, <2>3
<1>16. PICK last : last = [load EXCEPT !.paging = FALSE]
  OBVIOUS
<1>17. last \in LoadStates /\ last.session = s /\ last.seqs = seqs /\ last.at = load.at /\ ~last.paging
  BY <1>6, <1>10, <1>16 DEF LoadStates
<1>18. PICK next : next = [load EXCEPT !.stalled = (reply.seqs = <<>>)]
  OBVIOUS
<1>19. next.at = load.at /\ next.session = s /\ next.seqs = seqs /\ next.paging
  BY <1>6, <1>7, <1>10, <1>18 DEF LoadStates
<1>20. \/ /\ ~(n < reply.head)
          /\ \/ Drain(g, last)
             \/ loads' = [loads EXCEPT ![g] = last] /\ UNCHANGED <<selected, transcript, loading, buffered>>
       \/ loads' = [loads EXCEPT ![g] = next] /\ UNCHANGED <<selected, transcript, loading, buffered>>
  <2>1. Len(load.seqs) = n
    BY <1>6, <1>13
  <2> QED
    BY <1>3, <1>4, <1>8, <1>9, <1>16, <1>18, <2>1 DEF Page, Screen
<1>21. CASE loads' = [loads EXCEPT ![g] = next] /\ UNCHANGED <<selected, transcript, loading, buffered>>
  BY <1>15, <1>19, <1>21
<1>22. ASSUME ~(n < reply.head) PROVE g = generation /\ failures = 0 => Covers(s, n)
  <2>1. reply.head <= n
    BY <1>14, <1>22
  <2> QED
    BY <1>11, <1>14, <2>1, CoversMore
<1>23. CASE ~(n < reply.head) /\ Drain(g, last)
  <2>1. Covers(last.session, Len(last.seqs)) = Covers(s, n)
    BY <1>13, <1>17
  <2> QED
    BY <1>1, <1>2, <1>5, <1>10, <1>17, <1>22, <1>23, <2>1, DrainCurrent
<1>24. CASE /\ ~(n < reply.head) /\ loads' = [loads EXCEPT ![g] = last]
            /\ UNCHANGED <<selected, transcript, loading, buffered>>
  BY <1>15, <1>17, <1>22, <1>24
<1> QED
  BY <1>20, <1>21, <1>23, <1>24

LEMMA ListedCurrent ==
    ASSUME ClientInv, CurrentInv, ready # <<>>, ready' = Tail(ready),
           UNCHANGED <<Store, serving, pipe>>, failures' = failures,
           NEW g \in Loads, Loading(g), NEW reply, reply = Head(ready),
           Listed(g, reply), generation' = generation
    PROVE  CurrentInv'
<1>1. pipe' = pipe /\ Calm
  BY TailCalm
<1>2. reply \in FitReplies /\ Handled
  BY <1>1, HandledReply
<1>3. PICK load : load = [loads[g] EXCEPT !.listed = TRUE, !.pending = reply.ok]
  OBVIOUS
<1>4. loads[g] \in LoadStates /\ reply.ok \in BOOLEAN /\ loads \in [Loads -> LoadStates]
  BY <1>2 DEF ClientInv, ClientType, FitReplies, Replies
<1>5. /\ load \in LoadStates /\ load.session = loads[g].session /\ load.seqs = loads[g].seqs
      /\ load.at = loads[g].at /\ load.paging = loads[g].paging
  BY <1>3, <1>4 DEF LoadStates
<1>6. PICK s \in Sessions : s = load.session
  BY <1>5 DEF LoadStates
<1>7. PICK n : n = Len(load.seqs)
  OBVIOUS
<1>8. g = generation /\ failures = 0 =>
         /\ loading[s] = g /\ (~load.paging => Covers(s, n))
         /\ \A m \in ToSet(pipe) \cup ToSet(ready) : Pages(g, m) => Covers(s, m.head)
  BY <1>5, <1>6, <1>7 DEF CurrentInv, NewestCovers
<1>9. CASE load.paging
  <2>1. loads' = [loads EXCEPT ![g] = load] /\ UNCHANGED <<selected, transcript, generation>>
        /\ UNCHANGED <<loading, buffered>>
    BY <1>3, <1>9 DEF Listed, Screen
  <2>2. CASE g # generation
    <3>1. \A h \in Loads : h # g => loads'[h] = loads[h]
      BY <1>4, <2>1
    <3> QED
      BY <1>1, <2>1, <2>2, <3>1, OtherCurrent
  <2>3. CASE failures # 0
    BY <2>3 DEF CurrentInv
  <2>4. CASE g = generation /\ failures = 0
    <3>1. \A j : Covers(s, j) => Covers(s, j)'
      BY <1>1, <2>1, BufferCovers
    <3>2. \A m \in ToSet(pipe') \cup ToSet(ready') : Pages(g, m) => Covers(s, m.head)'
      BY <1>1, <1>8, <2>4, <3>1 DEF Calm
    <3>3. load.at # "done" /\ loading'[s] = g /\ generation' = g
      BY <1>5, <1>8, <2>1, <2>4 DEF Loading
    <3> QED
      BY <1>6, <1>7, <1>9, <2>1, <3>2, <3>3, NewestCurrent
  <2> QED
    BY <2>2, <2>3, <2>4
<1>10. CASE ~load.paging
  <2>1. Drain(g, load)
    BY <1>3, <1>10 DEF Listed
  <2>2. NoPage(g)
    BY <1>1, <1>5, <1>10, LastPage
  <2>3. Shows(load.seqs, load.session)
    BY <1>5 DEF ClientInv, LoadsShow
  <2>4. g = generation /\ failures = 0 => Covers(load.session, Len(load.seqs))
    BY <1>6, <1>7, <1>8, <1>10
  <2> QED
    BY <1>1, <1>2, <1>5, <1>10, <2>1, <2>2, <2>3, <2>4, DrainCurrent
<1> QED
  BY <1>9, <1>10

LEMMA ContinuationCurrent ==
    ASSUME ClientInv, CurrentInv, RunContinuation
    PROVE  CurrentInv'
<1>1. PICK reply : reply = Head(ready)
  OBVIOUS
<1>2. PICK g : g = reply.who
  OBVIOUS
<1>3. /\ ready # <<>> /\ ready' = Tail(ready) /\ UNCHANGED <<Store, serving, pipe>>
      /\ failures' = failures
  BY DEF RunContinuation
<1>4. \/ UNCHANGED <<selected, transcript, Replay>>
      \/ g \in Loads /\ Loading(g) /\ reply.kind = "events" /\ Page(g, reply) /\ generation' = generation
      \/ g \in Loads /\ Loading(g) /\ Listed(g, reply) /\ generation' = generation
  BY <1>1, <1>2 DEF RunContinuation, Loading, Screen
<1>5. CASE UNCHANGED <<selected, transcript, Replay>>
  BY <1>3, <1>5, ReplyCurrent DEF Store
<1>6. CASE g \in Loads /\ Loading(g) /\ reply.kind = "events" /\ Page(g, reply) /\ generation' = generation
  <2>1. Pages(g, reply)
    BY <1>2, <1>6 DEF Pages, IsPage
  <2> QED
    BY <1>1, <1>3, <1>6, <2>1, PageCurrent
<1>7. CASE g \in Loads /\ Loading(g) /\ Listed(g, reply) /\ generation' = generation
  BY <1>1, <1>3, <1>7, ListedCurrent
<1> QED
  BY <1>4, <1>5, <1>6, <1>7

\* An event reaches the listener, which keeps it, shows it, or has no use for it.
LEMMA HeardCurrent ==
    ASSUME ClientInv, CurrentInv, pipe # <<>>, pipe' = Tail(pipe), ready' = ready,
           UNCHANGED <<stored, unsent, failures>>, UNCHANGED <<selected, loading, generation, loads>>,
           NEW event, event = Head(pipe).event, NEW s \in Sessions, s = event.session,
           \A r \in Sessions : r # s => buffered'[r] = buffered[r],
           loading[s] # 0 => \A k : Held(s, k) \/ k = event.seq => Held(s, k)',
           HeadSeq(transcript) \in Nat, HeadSeq(transcript') \in Nat,
           HeadSeq(transcript) <= HeadSeq(transcript'),
           loading[s] = 0 /\ s = selected => event.seq <= HeadSeq(transcript')
    PROVE  CurrentInv'
<1>1. generation \in Loads /\ selected \in Sessions /\ loads[generation].session \in Sessions
  BY NewestIs
<1>2. ToSet(pipe) = ToSet(pipe') \cup {Head(pipe)}
  BY ToSetTail DEF ClientInv, MessagesFit
<1>3. \A r : /\ Announced(r)' = Announced(r)
             /\ \A k : Coming(r, k) => Coming(r, k)' \/ Is(event, r, k)
  BY <1>2 DEF Announced, Coming
<1>4. SUFFICES ASSUME failures = 0, NewestCovers, ScreenCovers PROVE NewestCovers' /\ ScreenCovers'
  BY DEF CurrentInv
<1>5. NewestCovers'
  <2>1. PICK r \in Sessions : r = loads[generation].session
    BY <1>1
  <2>2. PICK g \in Loads : g = generation
    BY <1>1
  <2>3. PICK n : n = Len(loads[g].seqs)
    OBVIOUS
  <2> SUFFICES ASSUME Loading(generation) PROVE NewestCovers'
    BY DEF NewestCovers, Loading
  <2>4. /\ loading[r] = g /\ (~loads[g].paging => Covers(r, n))
        /\ \A m \in ToSet(pipe) \cup ToSet(ready) : Pages(g, m) => Covers(r, m.head)
    BY <1>4, <2>1, <2>2, <2>3 DEF NewestCovers
  <2>5. \A k : (Coming(r, k) => Coming(r, k)' \/ Held(r, k)') /\ (Held(r, k) => Held(r, k)')
    <3>1. CASE r # s
      <4>1. buffered'[r] = buffered[r]
        BY <3>1
      <4> QED
        BY <1>3, <3>1, <4>1 DEF Held, Is
    <3>2. CASE r = s
      <4>1. loading[s] # 0
        BY <2>4, <3>2
      <4> QED
        BY <1>3, <3>2, <4>1 DEF Is
    <3> QED
      BY <3>1, <3>2
  <2>6. ASSUME NEW j, Covers(r, j) PROVE Covers(r, j)'
    BY <1>3, <2>5, <2>6 DEF Covers
  <2>7. ~loads'[g].paging => Covers(r, n)'
    BY <2>4, <2>6
  <2>8. \A m \in ToSet(pipe') \cup ToSet(ready') : Pages(g, m) => Covers(r, m.head)'
    BY <1>2, <2>4, <2>6
  <2>9. generation' = g /\ loads'[g].session = r /\ n = Len(loads'[g].seqs) /\ loading'[r] = g
    BY <2>1, <2>2, <2>3, <2>4
  <2> QED
    BY <2>7, <2>8, <2>9, NewestShape
<1>6. ScreenCovers'
  <2> SUFFICES ASSUME ~Loading(generation) PROVE ScreenCovers'
    BY DEF ScreenCovers, Loading
  <2>1. PICK r \in Sessions : r = selected
    BY <1>1
  <2>2. loading[r] = 0 /\ \A k \in Announced(r) : k <= HeadSeq(transcript) \/ Coming(r, k)
    BY <1>4, <2>1 DEF ScreenCovers
  <2>3. ASSUME NEW k \in Announced(r)' PROVE k <= HeadSeq(transcript') \/ Coming(r, k)'
    <3>1. k \in Announced(r) /\ (Coming(r, k) => Coming(r, k)' \/ Is(event, r, k))
      BY <1>3, <2>3
    <3>2. Is(event, r, k) => k <= HeadSeq(transcript')
      BY <2>1, <2>2 DEF Is
    <3>3. k \in Int
      BY <3>1 DEF Announced
    <3>4. k <= HeadSeq(transcript) => k <= HeadSeq(transcript')
      BY <3>3
    <3> QED
      BY <2>2, <3>1, <3>2, <3>4
  <2>4. (\A k \in Announced(selected) : k <= HeadSeq(transcript) \/ Coming(selected, k))'
    BY <2>1, <2>3 DEF Announced, Coming, HeadSeq
  <2>5. (loading[selected] = 0)'
    BY <2>1, <2>2
  <2> QED
    BY <2>4, <2>5 DEF ScreenCovers
<1> QED
  BY <1>5, <1>6

\* A view that shows the beginning of a session has a head.
LEMMA HeadIs ==
    ASSUME NEW view, NEW s, Len(stored[s]) \in Nat, Shows(view.seqs, s)
    PROVE  HeadSeq(view) \in Nat
<1>1. PICK n \in 0 .. Len(stored[s]) : view.seqs = First(n)
  BY DEF Shows
<1>2. n \in Nat
  BY <1>1
<1> QED
  BY <1>1, <1>2, FirstIs DEF HeadSeq

\* An event that makes no gap is on the screen.
LEMMA ExtendCovers ==
    ASSUME ClientInv, NEW event \in EventsOf(selected), ~Gap(transcript, event)
    PROVE  /\ HeadSeq(transcript) \in Nat /\ HeadSeq(Extend(transcript, event)) \in Nat
           /\ HeadSeq(transcript) <= HeadSeq(Extend(transcript, event))
           /\ event.seq <= HeadSeq(Extend(transcript, event))
<1>1. PICK view : view = Extend(transcript, event)
  OBVIOUS
<1>2. HeadSeq(transcript) \in Nat /\ HeadSeq(view) \in Nat /\ event.seq \in Nat
  <2>1. Len(stored[selected]) \in Nat
    BY DEF ClientInv, ClientType
  <2>2. Shows(transcript.seqs, selected) /\ Shows(view.seqs, selected)
    BY <1>1, ExtendShows DEF ClientInv, ScreenShows
  <2> QED
    BY <2>1, <2>2, HeadIs DEF EventsOf, Events
<1>3. CASE event.seq = HeadSeq(transcript) + 1
  <2>1. view = [session |-> event.session, seqs |-> Append(transcript.seqs, event.seq)]
    BY <1>1, <1>3 DEF Extend
  <2>2. PICK n \in 0 .. Len(stored[selected]) : transcript.seqs = First(n)
    BY DEF ClientInv, ScreenShows, Shows
  <2>3. n \in Nat
    BY <2>2
  <2>4. HeadSeq(transcript) = n /\ transcript.seqs \in Seq(Nat)
    BY <2>2, <2>3, FirstIs DEF HeadSeq
  <2>5. HeadSeq(view) = n + 1
    BY <1>2, <2>1, <2>4 DEF HeadSeq
  <2> QED
    BY <1>1, <1>2, <1>3, <2>4, <2>5
<1>4. CASE event.seq # HeadSeq(transcript) + 1
  <2>1. view = transcript
    BY <1>1, <1>4 DEF Extend
  <2>2. ~(event.seq > HeadSeq(transcript) + 1)
    BY DEF Gap
  <2>3. event.seq <= HeadSeq(transcript)
    BY <1>2, <1>4, <2>2
  <2> QED
    BY <1>1, <1>2, <2>1, <2>3
<1> QED
  BY <1>3, <1>4

LEMMA DeliverCurrent ==
    ASSUME ClientInv, CurrentInv, Deliver
    PROVE  CurrentInv'
<1>1. PICK m : m = Head(pipe)
  OBVIOUS
<1>2. /\ pipe # <<>> /\ pipe' = Tail(pipe) /\ UNCHANGED <<stored, unsent, failures>>
  BY DEF Deliver, Store
<1>3. CASE m.kind # "event"
  <2>1. ready' = Append(ready, m) /\ UNCHANGED <<selected, transcript, Replay>>
    BY <1>1, <1>3 DEF Deliver, Screen
  <2> QED
    BY <1>1, <1>2, <1>3, <2>1, ReplyCurrent
<1>4. CASE m.kind = "event"
  <2>1. Listen(m.event) /\ ready' = ready
    BY <1>1, <1>4 DEF Deliver
  <2>2. m \in RealNotices /\ Handled
    BY <1>1, <1>2, <1>4, <2>1, HandledMessage
  <2>3. PICK event : event = m.event
    OBVIOUS
  <2>4. PICK s : s = event.session
    OBVIOUS
  <2>5. event \in EventsOf(s) /\ event \in Events /\ s \in Sessions
    <3>1. event \in EventsOf(s) /\ event \in Events
      BY <2>2, <2>3, <2>4 DEF RealNotices, Notices
    <3> QED
      BY <2>4, <3>1 DEF Events
  <2>6. Listen(event) /\ event = Head(pipe).event
    BY <1>1, <2>1, <2>3
  <2>7. HeadSeq(transcript) \in Nat
    <3>1. Len(stored[selected]) \in Nat /\ Shows(transcript.seqs, selected)
      BY DEF ClientInv, ClientType, ScreenShows
    <3> QED
      BY <3>1, HeadIs
  <2>8. HeadSeq(transcript) <= HeadSeq(transcript)
    BY <2>7
  <2>9. CASE loading[s] # 0
    <3>1. /\ buffered' = [buffered EXCEPT ![s] = Append(buffered[s], event)]
          /\ transcript' = transcript /\ UNCHANGED <<selected, loading, generation, loads>>
      BY <2>4, <2>6, <2>9 DEF Listen, Screen
    <3>2. /\ buffered[s] \in Seq(Events) /\ buffered \in [Sessions -> Seq(Events)]
      BY <2>5 DEF ClientInv, EventsReal
    <3>3. PICK q : q = Append(buffered[s], event)
      OBVIOUS
    <3>4. buffered'[s] = q /\ \A r \in Sessions : r # s => buffered'[r] = buffered[r]
      BY <2>5, <3>1, <3>2, <3>3
    <3>5. ToSet(q) = ToSet(buffered[s]) \cup {event}
      BY <3>2, <3>3, ToSetAppend
    <3>6. \A k : Held(s, k) \/ k = event.seq => Held(s, k)'
      BY <3>4, <3>5 DEF Held
    <3> QED
      BY <1>2, <2>1, <2>4, <2>5, <2>6, <2>7, <2>8, <2>9, <3>1, <3>4, <3>6, HeardCurrent
  <2>10. CASE loading[s] = 0 /\ s # selected
    <3>1. UNCHANGED <<selected, loading, generation, loads>> /\ transcript' = transcript
          /\ buffered' = buffered
      BY <2>4, <2>6, <2>10 DEF Listen, Screen, Replay
    <3> QED
      BY <1>2, <2>1, <2>4, <2>5, <2>6, <2>7, <2>8, <2>10, <3>1, HeardCurrent
  <2>11. CASE loading[s] = 0 /\ s = selected
    <3>1. PICK list : list = IF Approval(event.type) THEN <<Request("approvals", s, 0, 0)>> ELSE <<>>
      OBVIOUS
    <3>2. UNCHANGED <<selected, buffered>>
      BY <2>4, <2>6, <2>11 DEF Listen
    <3>3. CASE Gap(transcript, event)
      <4>1. StartLoad(s, list)
        BY <2>4, <2>6, <2>11, <3>1, <3>3 DEF Listen
      <4> QED
        BY <2>2, <2>5, <4>1, StartLoadCurrent
    <3>4. CASE ~Gap(transcript, event)
      <4>1. transcript' = Extend(transcript, event) /\ UNCHANGED <<loading, generation, loads>>
        BY <2>4, <2>6, <2>11, <3>4 DEF Listen
      <4>2. PICK view : view = Extend(transcript, event)
        OBVIOUS
      <4>3. /\ HeadSeq(view) \in Nat /\ HeadSeq(transcript) <= HeadSeq(view) /\ event.seq <= HeadSeq(view)
        BY <2>5, <2>11, <3>4, <4>2, ExtendCovers
      <4>4. HeadSeq(transcript') = HeadSeq(view)
        BY <4>1, <4>2
      <4>5. UNCHANGED <<selected, loading, generation, loads>> /\ buffered' = buffered
        BY <3>2, <4>1
      <4> QED
        BY <1>2, <2>1, <2>4, <2>5, <2>6, <2>7, <2>11, <4>3, <4>4, <4>5, HeardCurrent
    <3> QED
      BY <3>3, <3>4
  <2> QED
    BY <2>9, <2>10, <2>11
<1> QED
  BY <1>3, <1>4

\* At first there is nothing, and the newest load has all to read.
LEMMA CurrentStarts == ClientInit => CurrentInv
<1> SUFFICES ASSUME ClientInit PROVE CurrentInv
  OBVIOUS
<1>1. PICK first : first = NewLoad(Opened)
  OBVIOUS
<1>2. first.session = Opened /\ first.paging /\ first.at = "fetch"
  BY <1>1 DEF NewLoad, NoLoad
<1>3. /\ loads = [g \in Loads |-> IF g = 1 THEN first ELSE NoLoad] /\ generation = 1 /\ 1 \in Loads
      /\ loading[Opened] = 1 /\ pipe = <<>> /\ ready = <<>>
  BY <1>1 DEF ClientInit
<1>4. loads[1] = first
  BY <1>3
<1>5. ToSet(pipe) = {} /\ ToSet(ready) = {}
  BY <1>3 DEF ToSet
<1> QED
  BY <1>2, <1>3, <1>4, <1>5 DEF CurrentInv, NewestCovers, ScreenCovers, Loading

\* Every step keeps what is on its way.
LEMMA CurrentInductive ==
    ASSUME ClientInv, failures \in Nat, CurrentInv, [ClientNext]_clientVars
    PROVE  CurrentInv'
<1>1. CASE UNCHANGED clientVars
  <2>1. UNCHANGED <<selected, transcript, Replay>> /\ UNCHANGED <<stored, unsent, pipe, ready, failures>>
    BY <1>1 DEF clientVars, Replay
  <2> QED
    BY <2>1, NothingArrives
<1>2. ASSUME NEW s \in Sessions, RunThread(s) \/ Foreign(s) PROVE CurrentInv'
  BY <1>2, RunThreadCurrent
<1>3. ASSUME NEW s \in Sessions, OpenSession(s) PROVE CurrentInv'
  <2>1. StartLoad(s, <<>>) /\ UNCHANGED <<pipe, ready>>
    BY <1>3 DEF OpenSession
  <2> QED
    BY <2>1, HandledNone, StartLoadCurrent
<1>4. ASSUME NEW event \in unsent, Announce(event) PROVE CurrentInv'
  BY <1>4, AnnounceCurrent
<1>5. CASE ServeEvents \/ Submit \/ ResolveApproval
  <2>1. UNCHANGED <<selected, transcript, Replay>> /\ UNCHANGED <<stored, unsent, pipe, ready, failures>>
    BY <1>5 DEF ServeEvents, Submit, ResolveApproval, Screen, Store
  <2> QED
    BY <2>1, NothingArrives
<1>6. CASE ServeHead
  BY <1>6, ServeHeadCurrent
<1>7. CASE Serve
  BY <1>7, ServeCurrent
<1>8. CASE Deliver
  BY <1>8, DeliverCurrent
<1>9. CASE RunContinuation
  BY <1>9, ContinuationCurrent
<1>10. ASSUME NEW g \in Loads, LoadFails(g) PROVE CurrentInv'
  <2>1. failures' # 0
    BY <1>10 DEF LoadFails
  <2> QED
    BY <2>1 DEF CurrentInv
<1> QED
  BY <1>1, <1>2, <1>3, <1>4, <1>5, <1>6, <1>7, <1>8, <1>9, <1>10 DEF ClientNext

\* When nothing is on its way, everything announced is shown.
LEMMA CurrentQuiet == ClientInv /\ CurrentInv => QuietViewIsCurrent
<1> SUFFICES ASSUME ClientInv, CurrentInv, Quiet, failures = 0, NEW k \in Announced(selected)
             PROVE  k <= HeadSeq(transcript)
  BY DEF QuietViewIsCurrent
<1>1. ~Loading(generation)
  BY NewestIs DEF Quiet, Loading
<1>2. ~Coming(selected, k)
  BY DEF Quiet, Coming, ToSet
<1> QED
  BY <1>1, <1>2 DEF CurrentInv, ScreenCovers

\* When every message has been handled and no request has failed, the view shows every
\* event of its session that was announced (the buffer of a load, the replay of a gap).
THEOREM QuietViewIsCurrentCorrect == ClientSpec => []QuietViewIsCurrent
<1>1. ClientInit => failures \in Nat
  BY DEF ClientInit
<1>2. ClientInv /\ failures \in Nat /\ [ClientNext]_clientVars => (failures \in Nat)'
  BY StepShows
<1>3. ClientInv /\ failures \in Nat /\ CurrentInv /\ [ClientNext]_clientVars => CurrentInv'
  BY CurrentInductive
<1> QED
  BY <1>1, <1>2, <1>3, ClientStarts, ClientInductive, CurrentStarts, CurrentQuiet, PTL DEF ClientSpec

-----------------------------------------------------------------------------
(* The task graph.                                                         *)

Nodes == TaskNode \cup {NoNode}

GraphType ==
    /\ saved \in [Tasks -> Nodes]
    /\ graph \in [Tasks -> Nodes]
    /\ loaded \in BOOLEAN
    /\ staged \in Tasks \cup {0}
    /\ stack \in Seq(Tasks)

\* The graph in memory is the one in the log, but for the task whose event has just
\* been written; a process that has not loaded it is doing nothing.
InStep ==
    /\ loaded => \A t \in Tasks \ {staged} : graph[t] = saved[t]
    /\ ~loaded => staged = 0 /\ stack = <<>>

GraphInv == GraphType /\ InStep /\ RestoreAccepts /\ ClosedTaskHasNoActiveChild
-----------------------------------------------------------------------------
HIDE TerminalAssumption DEF Loads
USE GraphAssumption

\* A task is in the graph if it has a node; the node says what the type promises.
LEMMA NodeType ==
    ASSUME NEW g \in [Tasks -> Nodes]
    PROVE  /\ \A t \in Known(g) : t \in Tasks /\ g[t] \in TaskNode
           /\ \A t \in Tasks : g[t] \in TaskNode <=> t \in Known(g)
BY DEF Known, Nodes, TaskNode, NoNode, AgentState

LEMMA NoMoreThan == \A n : n = 0 => n <= MaxChildren
BY DEF GraphAssumption

LEMMA Finite ==
    ASSUME NEW g
    PROVE  /\ \A t : IsFiniteSet(Children(g, t)) /\ Cardinality(Children(g, t)) \in Nat
           /\ IsFiniteSet(Roots(g))
<1>1. IsFiniteSet(Tasks)
  BY FS_Interval DEF Tasks
<1>2. Roots(g) \subseteq Tasks /\ \A t : Children(g, t) \subseteq Tasks
  BY DEF Roots, Children, Known
<1> QED
  BY <1>1, <1>2, FS_Subset, FS_CardinalityType

LEMMA GraphStart == Init => GraphInv
<1> SUFFICES ASSUME Init PROVE GraphInv
  OBVIOUS
<1>1. GraphType
  <2>1. NoNode \in Nodes /\ <<>> \in Seq(Tasks)
    BY DEF Nodes
  <2> QED
    BY <2>1 DEF Init, GraphType
<1>2. Known(saved) = {}
  BY DEF Init, Known
<1> QED
  BY <1>1, <1>2 DEF Init, GraphInv, InStep, RestoreAccepts, ClosedTaskHasNoActiveChild

\* When an operation may write its next event, memory and log are the same.
LEMMA Same == ASSUME GraphInv, loaded, staged = 0 PROVE graph = saved
BY DEF GraphInv, GraphType, InStep, Tasks

\* h is g and a new task t, with the node n.
Grows(g, t, n, h) ==
    /\ h \in [Tasks -> Nodes] /\ h[t] = n
    /\ \A u \in Tasks \ {t} : h[u] = g[u]
    /\ Known(h) = Known(g) \cup {t}
    /\ \A u : Children(h, u) = IF u = n.parent THEN Children(g, u) \cup {t} ELSE Children(g, u)
    /\ Roots(h) = IF n.parent = 0 THEN Roots(g) \cup {t} ELSE Roots(g)

\* h is g with t in another state: every task keeps its place.
Moves(g, t, s, h) ==
    /\ h \in [Tasks -> Nodes] /\ h[t].state = s
    /\ \A u \in Tasks \ {t} : h[u] = g[u]
    /\ Known(h) = Known(g) /\ \A u : Children(h, u) = Children(g, u)
    /\ Valid(g) => Valid(h)

LEMMA Grown ==
    ASSUME NEW g \in [Tasks -> Nodes], NEW t \in Tasks \ Known(g), NEW n \in TaskNode,
           NEW h, h = [g EXCEPT ![t] = n]
    PROVE  Grows(g, t, n, h)
<1>1. /\ h \in [Tasks -> Nodes] /\ h[t] = n
      /\ \A u \in Tasks \ {t} : h[u] = g[u]
  BY DEF Nodes
<1>2. n # NoNode
  BY DEF TaskNode, NoNode, AgentState
<1>3. Known(h) = Known(g) \cup {t}
  BY <1>1, <1>2 DEF Known
<1>4. \A u : Children(h, u) = IF u = n.parent THEN Children(g, u) \cup {t} ELSE Children(g, u)
  BY <1>1, <1>3 DEF Children, Known
<1>5. Roots(h) = IF n.parent = 0 THEN Roots(g) \cup {t} ELSE Roots(g)
  BY <1>1, <1>3 DEF Roots, Known
<1> QED
  BY <1>1, <1>3, <1>4, <1>5 DEF Grows

\* A new task below a parent that is in the graph, or the first one.
LEMMA GrownValid ==
    ASSUME NEW g \in [Tasks -> Nodes], NEW t \in Tasks \ Known(g), NEW n \in TaskNode,
           NEW h, h = [g EXCEPT ![t] = n],
           \/ Known(g) = {} /\ n.parent = 0 /\ n.depth = 0
           \/ /\ Valid(g) /\ n.parent \in Known(g)
              /\ Cardinality(Children(g, n.parent)) < MaxChildren
              /\ n.depth = g[n.parent].depth + 1
              /\ n.caps \subseteq g[n.parent].caps
              /\ n.budget <= g[n.parent].budget
    PROVE  Valid(h)
<1>1. /\ h[t] = n /\ \A u \in Tasks \ {t} : h[u] = g[u]
      /\ Known(h) = Known(g) \cup {t}
      /\ \A u : Children(h, u) = IF u = n.parent THEN Children(g, u) \cup {t}
                                 ELSE Children(g, u)
      /\ Roots(h) = IF n.parent = 0 THEN Roots(g) \cup {t} ELSE Roots(g)
  <2>1. Grows(g, t, n, h)
    BY Grown
  <2> QED
    BY <2>1 DEF Grows
<1>2. Known(g) \subseteq Tasks /\ 0 \notin Tasks
  BY DEF Known, Tasks
<1>3. CASE Known(g) = {} /\ n.parent = 0 /\ n.depth = 0
  <2>1. Known(h) = {t}
    BY <1>1, <1>3
  <2>2. h[t].parent = 0 /\ h[t].depth = 0 /\ t \in Tasks
    BY <1>1, <1>3
  <2>3. Roots(h) = {t}
    BY <2>1, <2>2 DEF Roots
  <2>4. Children(h, t) = {}
    BY <1>2, <2>1, <2>2 DEF Children
  <2>5. Cardinality(Roots(h)) = 1
    BY <2>3, FS_Singleton
  <2>6. Cardinality(Children(h, t)) = 0
    BY <2>4, FS_EmptySet
  <2>7. \A u \in Known(h) : Cardinality(Children(h, u)) <= MaxChildren
    BY <2>1, <2>6, NoMoreThan
  <2>8. \A u \in Roots(h) : h[u].depth = 0
    BY <2>2, <2>3
  <2>9. Known(h) \ Roots(h) = {}
    BY <2>1, <2>3
  <2> QED
    BY <2>5, <2>7, <2>8, <2>9 DEF Valid
<1>4. CASE /\ Valid(g) /\ n.parent \in Known(g)
           /\ Cardinality(Children(g, n.parent)) < MaxChildren
           /\ n.depth = g[n.parent].depth + 1
           /\ n.caps \subseteq g[n.parent].caps
           /\ n.budget <= g[n.parent].budget
  <2> DEFINE p == n.parent
  <2>1. p \in Tasks \ {t} /\ p # 0 /\ Roots(h) = Roots(g) /\ t \notin Roots(h)
    BY <1>1, <1>2, <1>4 DEF Roots
  <2>2. Cardinality(Roots(h)) = 1 /\ \A r \in Roots(h) : h[r].depth = 0
    BY <1>1, <1>4, <2>1 DEF Valid, Roots, Known
  <2>3. ASSUME NEW u \in Known(h) PROVE Cardinality(Children(h, u)) <= MaxChildren
    <3>1. CASE u = p
      <4>1. Children(h, u) = Children(g, p) \cup {t} /\ t \notin Children(g, p)
        BY <1>1, <3>1 DEF Children
      <4>2. /\ IsFiniteSet(Children(g, p)) /\ Cardinality(Children(g, p)) \in Nat
        BY Finite
      <4>3. Cardinality(Children(h, u)) = Cardinality(Children(g, p)) + 1
        BY <4>1, <4>2, FS_AddElement
      <4> QED
        BY <1>4, <4>2, <4>3
    <3>2. CASE u # p /\ u # t
      BY <1>1, <1>4, <3>2 DEF Valid
    <3>3. CASE u # p /\ u = t
      <4>1. Children(h, u) = Children(g, t)
        BY <1>1, <3>3
      <4>2. Children(g, t) = {}
        BY <1>2, <1>4 DEF Valid, Children, Roots
      <4>3. Cardinality(Children(h, u)) = 0
        BY <4>1, <4>2, FS_EmptySet
      <4> QED
        BY <4>3, NoMoreThan
    <3> QED
      BY <3>1, <3>2, <3>3
  <2>4. ASSUME NEW c \in Known(h) \ Roots(h)
        PROVE  /\ h[c].parent \in Known(h)
               /\ h[c].depth = h[h[c].parent].depth + 1
               /\ h[c].caps \subseteq h[h[c].parent].caps
               /\ h[c].budget <= h[h[c].parent].budget
    <3>1. CASE c = t
      BY <1>1, <1>4, <2>1, <3>1
    <3>2. CASE c # t
      <4>1. c \in Known(g) \ Roots(g) /\ c \in Tasks \ {t}
        BY <1>1, <1>2, <2>1, <3>2
      <4>2. h[c] = g[c] /\ g[c].parent \in Known(g) /\ h[g[c].parent] = g[g[c].parent]
        BY <1>1, <1>2, <1>4, <4>1 DEF Valid
      <4> QED
        BY <1>1, <1>4, <4>1, <4>2 DEF Valid
    <3> QED
      BY <3>1, <3>2
  <2> QED
    BY <2>2, <2>3, <2>4 DEF Valid
<1> QED
  BY <1>3, <1>4

LEMMA Moved ==
    ASSUME NEW g \in [Tasks -> Nodes], NEW t \in Known(g), NEW s \in AgentState,
           NEW h, h = [g EXCEPT ![t] = [g[t] EXCEPT !.state = s]]
    PROVE  Moves(g, t, s, h)
<1>1. t \in Tasks /\ g[t] \in TaskNode
  BY NodeType
<1> DEFINE n == [g[t] EXCEPT !.state = s]
<1>2. /\ n \in TaskNode /\ n.state = s /\ n.parent = g[t].parent /\ n.depth = g[t].depth
      /\ n.caps = g[t].caps /\ n.budget = g[t].budget
  BY <1>1 DEF TaskNode
<1> HIDE DEF n
<1>3. h = [g EXCEPT ![t] = n]
  BY DEF n
<1>4. h \in [Tasks -> Nodes] /\ h[t] = n /\ \A u \in Tasks \ {t} : h[u] = g[u]
  BY <1>1, <1>2, <1>3 DEF Nodes
<1>5. n # NoNode
  BY <1>2 DEF TaskNode, NoNode, AgentState
<1>6. Known(h) = Known(g)
  BY <1>4, <1>5 DEF Known
<1>7. \A u \in Known(g) : /\ h[u].parent = g[u].parent /\ h[u].depth = g[u].depth
                          /\ h[u].caps = g[u].caps /\ h[u].budget = g[u].budget
  BY <1>2, <1>4 DEF Known
<1>8. Roots(h) = Roots(g) /\ \A u : Children(h, u) = Children(g, u)
  BY <1>6, <1>7 DEF Roots, Children
<1>9. Valid(g) => Valid(h)
  <2> SUFFICES ASSUME Valid(g) PROVE Valid(h)
    OBVIOUS
  <2>1. Roots(h) = Roots(g) /\ Known(h) = Known(g)
    BY <1>6, <1>8
  <2>2. \A r \in Roots(h) : h[r].depth = 0
    BY <1>7, <2>1 DEF Valid, Roots
  <2>3. \A u \in Known(h) : Cardinality(Children(h, u)) <= MaxChildren
    BY <1>8, <2>1 DEF Valid
  <2>4. ASSUME NEW c \in Known(h) \ Roots(h)
        PROVE  /\ h[c].parent \in Known(h)
               /\ h[c].depth = h[h[c].parent].depth + 1
               /\ h[c].caps \subseteq h[h[c].parent].caps
               /\ h[c].budget <= h[h[c].parent].budget
    <3>1. c \in Known(g) \ Roots(g) /\ h[c].parent = g[c].parent /\ g[c].parent \in Known(g)
      BY <1>7, <2>1 DEF Valid
    <3> QED
      BY <1>7, <2>1, <3>1 DEF Valid
  <2> QED
    BY <2>1, <2>2, <2>3, <2>4 DEF Valid
<1> QED
  BY <1>2, <1>4, <1>6, <1>8, <1>9 DEF Moves

\* The root or a child is recorded.
LEMMA GrowKeeps ==
    ASSUME GraphInv, NEW t \in Tasks, NEW caps \in SUBSET Capabilities,
           NEW budget \in 1 .. MaxBudget,
           CreateRoot(t, caps, budget) \/ \E p \in Tasks : Spawn(t, p, caps, budget)
    PROVE  GraphInv'
<1>1. /\ GraphType /\ loaded /\ staged = 0 /\ graph = saved /\ t \notin Known(saved)
      /\ staged' = t /\ UNCHANGED <<graph, loaded, stack>>
  BY Same DEF CreateRoot, Spawn, Ready, Fresh, Emit, GraphInv
<1>2. \E n \in TaskNode :
         /\ saved' = [saved EXCEPT ![t] = n] /\ n.state = "pending"
         /\ \/ Known(saved) = {} /\ n.parent = 0 /\ n.depth = 0
            \/ /\ Valid(saved) /\ n.parent \in Known(saved)
               /\ saved[n.parent].state \in {"running", "waiting"}
               /\ Cardinality(Children(saved, n.parent)) < MaxChildren
               /\ n.depth = saved[n.parent].depth + 1
               /\ n.caps \subseteq saved[n.parent].caps
               /\ n.budget <= saved[n.parent].budget
  <2>1. CASE CreateRoot(t, caps, budget)
    <3> DEFINE n == [state |-> "pending", parent |-> 0, depth |-> 0, caps |-> caps,
                     budget |-> budget]
    <3>1. n \in TaskNode /\ n.state = "pending" /\ n.parent = 0 /\ n.depth = 0
      BY DEF TaskNode, AgentState
    <3>2. saved' = [saved EXCEPT ![t] = n] /\ Roots(saved) = {}
      BY <1>1, <2>1 DEF CreateRoot, Emit
    <3>3. Known(saved) = {}
      BY <3>2, FS_EmptySet DEF GraphInv, RestoreAccepts, Valid
    <3> QED
      BY <3>1, <3>2, <3>3
  <2>2. ASSUME NEW p \in Tasks, Spawn(t, p, caps, budget) PROVE <1>2
    <3> DEFINE n == [state |-> "pending", parent |-> p, depth |-> graph[p].depth + 1,
                     caps |-> caps, budget |-> budget]
    <3>1. /\ p \in Known(saved) /\ saved[p].state \in {"running", "waiting"}
          /\ Cardinality(Children(saved, p)) < MaxChildren
          /\ caps \subseteq saved[p].caps /\ budget <= saved[p].budget
          /\ saved[p].depth + 1 <= MaxDepth
          /\ saved' = [saved EXCEPT ![t] = n]
      BY <1>1, <2>2 DEF Spawn, Emit
    <3>2. saved[p].depth \in 0 .. MaxDepth
      BY <1>1, <3>1, NodeType DEF GraphType, TaskNode
    <3>3. saved[p].depth + 1 \in 0 .. MaxDepth
      BY <3>1, <3>2
    <3>4. n \in TaskNode
      BY <1>1, <3>3 DEF TaskNode, AgentState
    <3>5. /\ n.state = "pending" /\ n.parent = p /\ n.depth = saved[p].depth + 1
          /\ n.caps = caps /\ n.budget = budget
      BY <1>1
    <3>6. Valid(saved)
      BY <3>1 DEF GraphInv, RestoreAccepts
    <3> HIDE DEF n
    <3> QED
      BY <3>1, <3>4, <3>5, <3>6
  <2> QED
    BY <2>1, <2>2
<1>3. PICK n \in TaskNode : <1>2!(n)
  BY <1>2
<1>4. saved \in [Tasks -> Nodes]
  BY <1>1 DEF GraphType
<1>5. Valid(saved')
  BY <1>1, <1>3, <1>4, GrownValid
<1>6. /\ saved' \in [Tasks -> Nodes] /\ saved'[t] = n
      /\ \A u \in Tasks \ {t} : saved'[u] = saved[u]
      /\ Known(saved') = Known(saved) \cup {t}
      /\ \A u : Children(saved', u) = IF u = n.parent THEN Children(saved, u) \cup {t}
                                      ELSE Children(saved, u)
  <2>1. Grows(saved, t, n, saved')
    BY <1>1, <1>3, <1>4, Grown
  <2> QED
    BY <2>1 DEF Grows
<1>7. ClosedTaskHasNoActiveChild'
  <2> SUFFICES ASSUME NEW u \in Known(saved'), saved'[u].state \in {"completed", "cancelled"},
                      NEW c \in Children(saved', u)
               PROVE  saved'[c].state \in Terminal
    BY DEF ClosedTaskHasNoActiveChild
  <2>1. u # t /\ u \in Known(saved) /\ saved[u].state \in {"completed", "cancelled"}
    BY <1>3, <1>6 DEF Known
  <2>2. u # n.parent
    BY <1>3, <2>1 DEF Known, Tasks
  <2>3. c \in Children(saved, u) /\ c \in Tasks \ {t}
    BY <1>1, <1>6, <2>2 DEF Children, Known
  <2> QED
    BY <1>6, <2>1, <2>3 DEF GraphInv, ClosedTaskHasNoActiveChild
<1>8. GraphType' /\ InStep'
  BY <1>1, <1>6 DEF GraphType, InStep
<1> QED
  BY <1>5, <1>7, <1>8 DEF GraphInv, RestoreAccepts

LEMMA TransitionType ==
    ASSUME NEW s \in AgentState
    PROVE  /\ Transitions[s] \subseteq AgentState
           /\ s \in Terminal => Transitions[s] = {}
BY DEF Transitions, AgentState, Terminal

\* A recorded change of state closes no task above an active one.
LEMMA MoveKeeps ==
    ASSUME GraphInv, NEW t, NEW s, loaded, staged = 0, Transition(t, s),
           s = "cancelled" => \A c \in Children(graph, t) : graph[c].state \in Terminal,
           stack' \in Seq(Tasks)
    PROVE  GraphInv'
<1>1. /\ GraphType /\ graph = saved /\ t \in Known(saved) /\ s \in Transitions[saved[t].state]
      /\ staged' = t /\ UNCHANGED <<graph, loaded>>
      /\ saved' = [saved EXCEPT ![t] = [saved[t] EXCEPT !.state = s]]
      /\ s \in {"completed", "cancelled"} =>
            \A c \in Children(saved, t) : saved[c].state \in Terminal
  BY Same DEF Transition, Emit, GraphInv
<1>2. saved \in [Tasks -> Nodes] /\ t \in Tasks /\ saved[t].state \in AgentState
  BY <1>1, NodeType DEF GraphType, TaskNode
<1>3. s \in AgentState /\ saved[t].state \notin Terminal
  BY <1>1, <1>2, TransitionType
<1>4. /\ saved' \in [Tasks -> Nodes] /\ saved'[t].state = s
      /\ \A u \in Tasks \ {t} : saved'[u] = saved[u]
      /\ Known(saved') = Known(saved) /\ \A u : Children(saved', u) = Children(saved, u)
      /\ Valid(saved) => Valid(saved')
  <2>1. Moves(saved, t, s, saved')
    BY <1>1, <1>2, <1>3, Moved
  <2> QED
    BY <2>1 DEF Moves
<1>5. ClosedTaskHasNoActiveChild'
  <2> SUFFICES ASSUME NEW u \in Known(saved'), saved'[u].state \in {"completed", "cancelled"},
                      NEW c \in Children(saved', u)
               PROVE  saved'[c].state \in Terminal
    BY DEF ClosedTaskHasNoActiveChild
  <2>1. saved[c].state \in Terminal
    <3>1. u \in Known(saved) /\ u \in Tasks /\ c \in Children(saved, u)
      BY <1>4 DEF Known
    <3>2. CASE u = t
      BY <1>1, <1>4, <3>1, <3>2
    <3>3. CASE u # t
      BY <1>4, <3>1, <3>3 DEF GraphInv, ClosedTaskHasNoActiveChild
    <3> QED
      BY <3>2, <3>3
  <2>2. c # t /\ c \in Tasks
    BY <1>3, <1>4, <2>1 DEF Children, Known
  <2> QED
    BY <1>4, <2>1, <2>2
<1>6. RestoreAccepts'
  BY <1>1, <1>4 DEF GraphInv, RestoreAccepts
<1>7. GraphType' /\ InStep'
  BY <1>1, <1>2, <1>4 DEF GraphType, InStep
<1> QED
  BY <1>5, <1>6, <1>7 DEF GraphInv

\* While an operation visits tasks the graph is loaded.
LEMMA Visiting == ASSUME GraphInv, stack # <<>> PROVE loaded /\ Top \in Tasks /\ Len(stack) \in Nat \ {0}
BY DEF GraphInv, GraphType, InStep, Top

LEMMA LeaveKeeps == ASSUME GraphInv, Leave PROVE GraphInv'
<1>1. /\ loaded /\ staged = 0 /\ Transition(Top, op) /\ Len(stack) \in Nat \ {0}
      /\ Visited(Top) = {} /\ stack' = SubSeq(stack, 1, Len(stack) - 1)
  BY Visiting DEF Leave
<1>2. op = "cancelled" => \A c \in Children(graph, Top) : graph[c].state \in Terminal
  BY <1>1 DEF Visited
<1>3. stack' \in Seq(Tasks)
  <2>1. stack \in Seq(Tasks)
    BY DEF GraphInv, GraphType
  <2> QED
    BY <1>1, <2>1
<1> QED
  BY <1>1, <1>2, <1>3, MoveKeeps

\* Steps that write nothing.
LEMMA QuietKeeps ==
    ASSUME GraphInv,
           \/ Load \/ Replace \/ Descend \/ NothingToLeave \/ SinkFails \/ Crash
           \/ \E t \in Tasks, state \in AgentState : BeginVisit(t, state)
    PROVE  GraphInv'
<1>1. UNCHANGED saved
  BY DEF Load, Replace, Descend, NothingToLeave, SinkFails, Crash, BeginVisit, Abort
<1>2. graph' \in [Tasks -> Nodes] /\ loaded' \in BOOLEAN /\ staged' \in Tasks \cup {0}
  BY DEF GraphInv, GraphType, Nodes, Load, Replace, Descend, NothingToLeave, SinkFails, Crash,
     BeginVisit, Abort
<1>3. stack' \in Seq(Tasks)
  <2>1. CASE Descend
    <3>1. PICK c \in Visited(Top) : stack' = Append(stack, c)
      BY <2>1 DEF Descend
    <3>2. c \in Tasks /\ stack \in Seq(Tasks)
      BY <3>1 DEF Visited, Children, Known, GraphInv, GraphType
    <3> QED
      BY <3>1, <3>2
  <2>2. ASSUME NEW t \in Tasks, NEW state \in AgentState, BeginVisit(t, state)
        PROVE  stack' \in Seq(Tasks)
    BY <2>2 DEF BeginVisit
  <2>3. CASE Load \/ Replace \/ NothingToLeave \/ SinkFails \/ Crash
    <3>1. stack' = stack \/ stack' = <<>>
      BY <2>3 DEF Load, Replace, NothingToLeave, SinkFails, Crash, Abort
    <3>2. stack \in Seq(Tasks) /\ <<>> \in Seq(Tasks)
      BY DEF GraphInv, GraphType
    <3> QED
      BY <3>1, <3>2, Zenon
  <2> QED
    BY <2>1, <2>2, <2>3
<1>4. InStep'
  <2>1. CASE Load
    BY <2>1 DEF Load, InStep, GraphInv
  <2>2. CASE Replace
    BY <2>2 DEF Replace, InStep, GraphInv, GraphType
  <2>3. CASE Crash
    BY <2>3 DEF Crash, InStep
  <2>4. CASE \/ Descend \/ NothingToLeave \/ SinkFails
             \/ \E t \in Tasks, state \in AgentState : BeginVisit(t, state)
    <3>1. UNCHANGED <<graph, loaded, staged>> /\ loaded
      <4>1. CASE Descend \/ SinkFails
        BY <4>1, Visiting DEF Descend, SinkFails, Abort
      <4>2. CASE NothingToLeave
        <5>1. stack # <<>>
          BY <4>2 DEF NothingToLeave
        <5> QED
          BY <4>2, <5>1, Visiting DEF NothingToLeave, Abort
      <4>3. CASE \E t \in Tasks, state \in AgentState : BeginVisit(t, state)
        BY <4>3 DEF BeginVisit, Ready
      <4> QED
        BY <2>4, <4>1, <4>2, <4>3
    <3> QED
      BY <1>1, <3>1 DEF InStep, GraphInv
  <2> QED
    BY <2>1, <2>2, <2>3, <2>4
<1> QED
  BY <1>1, <1>2, <1>3, <1>4 DEF GraphInv, GraphType, RestoreAccepts, ClosedTaskHasNoActiveChild

LEMMA GraphNext == GraphInv /\ [Next]_vars => GraphInv'
<1> SUFFICES ASSUME GraphInv, [Next]_vars PROVE GraphInv'
  OBVIOUS
<1>1. ASSUME NEW t \in Tasks, NEW state \in AgentState, TaskTransition(t, state)
      PROVE  GraphInv'
  <2>1. /\ loaded /\ staged = 0 /\ Transition(t, state) /\ state # "cancelled" /\ stack' = stack
    BY <1>1 DEF TaskTransition, Ready
  <2>2. stack' \in Seq(Tasks)
    BY <2>1 DEF GraphInv, GraphType
  <2> QED
    BY <2>1, <2>2, MoveKeeps
<1>2. CASE UNCHANGED vars
  BY <1>2 DEF vars, GraphInv, GraphType, InStep, RestoreAccepts, ClosedTaskHasNoActiveChild
<1> QED
  BY <1>1, <1>2, GrowKeeps, LeaveKeeps, QuietKeeps DEF Next

LEMMA GraphInvariance == Spec => []GraphInv
BY GraphStart, GraphNext, PTL DEF Spec
-----------------------------------------------------------------------------
\* spawn checks a child against the graph in memory, which is the one in the log: what
\* _task_graph restores after a restart always validates.
THEOREM RestoreCorrect == Spec => []RestoreAccepts
<1>1. GraphInv => RestoreAccepts
  BY DEF GraphInv
<1> QED
  BY <1>1, GraphInvariance, PTL

\* complete looks at the children, cancel visits them first, and a terminal child never
\* becomes active again.
THEOREM ClosedTaskCorrect == Spec => []ClosedTaskHasNoActiveChild
<1>1. GraphInv => ClosedTaskHasNoActiveChild
  BY DEF GraphInv
<1> QED
  BY <1>1, GraphInvariance, PTL

\* Only interrupt writes the state, at a task with nothing left to visit.
THEOREM InterruptCorrect == Spec => InterruptStopsChildren
<1>1. GraphInv /\ [Next]_vars =>
         [\A t \in Known(saved) :
             saved[t].state # "interrupted" /\ saved'[t].state = "interrupted" =>
                 \A c \in Children(saved, t) : saved[c].state \notin Active]_vars
  <2> SUFFICES ASSUME GraphInv, Next, NEW t \in Known(saved), saved[t].state # "interrupted",
                      saved'[t].state = "interrupted", NEW c \in Children(saved, t)
               PROVE  saved[c].state \notin Active
    OBVIOUS
  <2>1. saved \in [Tasks -> Nodes] /\ t \in Tasks
    BY DEF GraphInv, GraphType, Known
  <2>2. ASSUME NEW u \in Tasks, NEW s \in AgentState, TaskTransition(u, s) PROVE FALSE
    <3>1. saved' = [saved EXCEPT ![u] = [saved[u] EXCEPT !.state = s]] /\ s # "interrupted"
          /\ u \in Known(saved)
      BY <2>2, Same DEF TaskTransition, Transition, Emit, Ready
    <3> QED
      BY <2>1, <2>2, <3>1, Moved DEF Moves
  <2>3. ASSUME NEW u \in Tasks, NEW caps \in SUBSET Capabilities, NEW budget \in 1 .. MaxBudget,
               CreateRoot(u, caps, budget) \/ \E p \in Tasks : Spawn(u, p, caps, budget)
        PROVE  FALSE
    <3>1. u \notin Known(saved) /\ \E n : saved' = [saved EXCEPT ![u] = n]
      BY <2>3, Same DEF CreateRoot, Spawn, Emit, Fresh, Ready
    <3>2. saved'[t] = saved[t]
      BY <2>1, <3>1
    <3> QED
      BY <3>2
  <2>4. CASE Leave
    <3>1. loaded /\ staged = 0 /\ Transition(Top, op) /\ Visited(Top) = {} /\ Top \in Tasks
      BY <2>4, Visiting DEF Leave
    <3>2. /\ graph = saved /\ Top \in Known(saved)
          /\ saved' = [saved EXCEPT ![Top] = [saved[Top] EXCEPT !.state = op]]
      BY <3>1, Same DEF Transition, Emit
    <3>3. saved[Top] \in TaskNode
      BY <2>1, <3>2, NodeType
    <3>4. t = Top
      BY <2>1, <3>2
    <3>5. op = "interrupted"
      BY <2>1, <3>2, <3>3, <3>4 DEF TaskNode
    <3> QED
      BY <3>1, <3>2, <3>4, <3>5 DEF Visited
  <2>5. CASE \/ Load \/ Replace \/ Descend \/ NothingToLeave \/ SinkFails \/ Crash
             \/ \E u \in Tasks, s \in AgentState : BeginVisit(u, s)
    BY <2>5 DEF Load, Replace, Descend, NothingToLeave, SinkFails, Crash, BeginVisit, Abort
  <2> QED
    BY <2>2, <2>3, <2>4, <2>5 DEF Next
<1> QED
  BY <1>1, GraphInvariance, PTL DEF Spec, InterruptStopsChildren
===============================================================================
