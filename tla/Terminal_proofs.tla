--------------------------- MODULE Terminal_proofs ----------------------------
(***************************************************************************)
(* Proofs about TerminalClient for any sessions, page size and number of   *)
(* events, loads and failures: what is shown is the beginning of the       *)
(* session, and the newest load ends on the screen.                        *)
(*                                                                         *)
(* The invariant follows the pages: a load waits for at most one, and a    *)
(* page that is asked for or on its way goes on where its load stands.     *)
(***************************************************************************)
EXTENDS TerminalClient, FiniteSetTheorems, SequenceTheorems, TLAPS

Loads == 1 .. MaxLoads
Kinds == {"events", "approvals", "start", "resolve", "resume"}

Types == {"started", "requested", "resolved", "ended", "other"}
Events == [session : Sessions, seq : Nat, type : Types]
Notices == [kind : {"event"}, event : Events]
Requests == [kind : Kinds, session : Sessions, who : Nat, after : Nat]
Replies == [kind : Kinds, session : Sessions, who : Nat, ok : BOOLEAN, seqs : Seq(Nat),
            more : BOOLEAN, head : Nat]
LoadStates == [session : Sessions, at : {"done", "fetch", "repair", "approvals"},
               seqs : Seq(Nat), paging : BOOLEAN, listed : BOOLEAN, pending : BOOLEAN,
               stalled : BOOLEAN, dirty : BOOLEAN]

ClientType ==
    /\ stored \in [Sessions -> Seq(Types)]
    /\ selected \in Sessions
    /\ loading \in [Sessions -> 0 .. MaxLoads] /\ generation \in Loads
    /\ loads \in [Loads -> LoadStates]

\* The first n numbers, and a list that is the beginning of session s.
First(n) == [k \in 1 .. n |-> k]
Shows(seqs, s) == \E n \in 0 .. Len(stored[s]) : seqs = First(n)

ScreenShows ==
    /\ transcript = [session |-> selected, seqs |-> transcript.seqs]
    /\ Shows(transcript.seqs, selected)

\* An event that is announced or waits in a buffer is in the store.
EventsOf(s) == {e \in Events : e.session = s /\ e.seq <= Len(stored[s])}
RealNotices == {m \in Notices : m.event \in EventsOf(m.event.session)}
EventsReal ==
    /\ \A e \in unsent : e \in Events /\ e \in EventsOf(e.session)
    /\ buffered \in [Sessions -> Seq(Events)]
    /\ \A s \in Sessions : buffered[s] \in Seq(EventsOf(s))

Loading(g) == loads[g].at # "done"
LoadsShow ==
    \A g \in Loads : Loading(g) => g <= generation /\ Shows(loads[g].seqs, loads[g].session)

\* After an empty page there is an event to read.
Stalled(load) == load.paging /\ load.stalled
Behind(load) == Len(load.seqs) < Len(stored[load.session])
PagingFits(load) ==
    /\ Stalled(load) => Behind(load)
    /\ load.at = "approvals" => ~load.paging
LoadsPage == \A g \in Loads : Loading(g) => PagingFits(loads[g])

\* A page that is asked for, or on its way, goes on where its load stands.
IsPage(m) == m.kind = "events"
FitRequests ==
    {m \in Requests :
        IsPage(m) => /\ m.who \in 1 .. generation /\ m.after <= Len(stored[m.session])
                     /\ Loading(m.who) => /\ m.session = loads[m.who].session
                                          /\ m.after = Len(loads[m.who].seqs)}
FitReplies ==
    {m \in Replies :
        IsPage(m) => /\ m.who \in 1 .. generation /\ m.head <= Len(stored[m.session])
                     /\ m.seqs = <<>> => ~m.more
                     /\ Loading(m.who) =>
                           /\ m.session = loads[m.who].session
                           /\ m.seqs = <<>> => ~Stalled(loads[m.who])
                           /\ Len(loads[m.who].seqs) + Len(m.seqs) <= Len(stored[m.session])
                           /\ \A k \in 1 .. Len(m.seqs) : m.seqs[k] = Len(loads[m.who].seqs) + k}
MessagesFit ==
    /\ inbox \in Seq(FitRequests) /\ serving \in FitReplies \cup {Nothing}
    /\ pipe \in Seq(FitReplies \cup RealNotices) /\ ready \in Seq(FitReplies)

\* A load waits for one page, or for none.
Pages(g, m) == IsPage(m) /\ m.who = g
Count(q, g) == Cardinality({k \in DOMAIN q : Pages(g, q[k])})
InFlight(g) == Count(inbox, g) + (IF Pages(g, serving) THEN 1 ELSE 0)
               + Count(pipe, g) + Count(ready, g)
OnePage == \A g \in Loads : Loading(g) => InFlight(g) <= IF loads[g].paging THEN 1 ELSE 0

ClientInv ==
    /\ ClientType /\ ScreenShows /\ EventsReal /\ LoadsShow /\ LoadsPage
    /\ MessagesFit /\ OnePage
-----------------------------------------------------------------------------
USE TerminalAssumption DEF Loads

\* The first n numbers, as a sequence.
LEMMA FirstIs ==
    ASSUME NEW n \in Nat
    PROVE  First(n) \in Seq(Nat) /\ Len(First(n)) = n /\ DOMAIN First(n) = 1 .. n
           /\ \A k \in 1 .. n : First(n)[k] = k
  BY DEF First

\* A list that goes on where the first n end.
LEMMA FirstGoesOn ==
    ASSUME NEW n \in Nat, NEW r \in Seq(Nat), \A k \in 1 .. Len(r) : r[k] = n + k
    PROVE  First(n) \o r = First(n + Len(r))
<1> DEFINE s == First(n)
           t == First(n + Len(r))
<1>1. /\ s \in Seq(Nat) /\ Len(s) = n /\ \A k \in 1 .. n : s[k] = k
      /\ t \in Seq(Nat) /\ Len(t) = n + Len(r) /\ \A k \in 1 .. n + Len(r) : t[k] = k
      /\ Len(r) \in Nat
  BY FirstIs
<1> HIDE DEF s, t
<1>2. s \o r \in Seq(Nat) /\ Len(s \o r) = n + Len(r)
  BY <1>1, ConcatProperties
<1>3. \A k \in 1 .. Len(s) + Len(r) :
         (s \o r)[k] = IF k <= Len(s) THEN s[k] ELSE r[k - Len(s)]
  <2>1. s \in Seq(Nat)
    BY <1>1
  <2> QED
    BY <2>1, ConcatProperties, Zenon
<1>4. ASSUME NEW k \in 1 .. n + Len(r) PROVE (s \o r)[k] = t[k]
  <2>1. CASE k <= n
    <3>1. k \in 1 .. n /\ (s \o r)[k] = s[k]
      BY <1>1, <1>4, <2>1
    <3> QED
      BY <1>1, <3>1
  <2>2. CASE k > n
    <3>1. k - n \in 1 .. Len(r)
      BY <1>1, <1>4, <2>2
    <3>a. (s \o r)[k] = r[k - n]
      <4>1. (s \o r)[k] = IF k <= Len(s) THEN s[k] ELSE r[k - Len(s)]
        <5>1. k \in 1 .. Len(s) + Len(r)
          BY <1>1, <1>4
        <5> QED
          BY <1>3, <5>1, Zenon
      <4>2. ~(k <= n)
        BY <1>4, <2>2
      <4> QED
        BY <1>1, <4>1, <4>2, Zenon
    <3>2. r[k - n] = n + (k - n)
      BY <3>1
    <3> QED
      BY <1>1, <1>4, <3>a, <3>2
  <2> QED
    BY <1>1, <2>1, <2>2
<1>5. s \o r = t
  BY <1>1, <1>2, <1>4, SeqEqual
<1> QED
  BY <1>5 DEF s, t

\* An event in turn makes them one more.
LEMMA FirstGrows ==
    ASSUME NEW n \in Nat
    PROVE  Append(First(n), n + 1) = First(n + 1)
<1>1. First(n) \o <<n + 1>> = First(n + 1)
  <2> DEFINE r == <<n + 1>>
  <2>1. r \in Seq(Nat) /\ Len(r) = 1 /\ \A k \in 1 .. 1 : r[k] = n + k
    OBVIOUS
  <2> HIDE DEF r
  <2>2. First(n) \o r = First(n + Len(r))
    BY <2>1, FirstGoesOn
  <2> QED
    BY <2>1, <2>2 DEF r
<1>2. First(n) \o <<n + 1>> = Append(First(n), n + 1)
  BY FirstIs
<1> QED
  BY <1>1, <1>2

\* Sequences over a larger set.
LEMMA SeqWiden ==
    ASSUME NEW S, NEW T, S \subseteq T, NEW q \in Seq(S)
    PROVE  q \in Seq(T)
  OBVIOUS

\* A sequence all of whose elements are in another set.
LEMMA Within ==
    ASSUME NEW S, NEW T, NEW g, \A m \in S : ~Pages(g, m) => m \in T,
           NEW q \in Seq(S), \A k \in DOMAIN q : ~Pages(g, q[k])
    PROVE  q \in Seq(T)
<1>1. Len(q) \in Nat /\ DOMAIN q = 1 .. Len(q) /\ \A k \in 1 .. Len(q) : q[k] \in S
  OBVIOUS
<1>2. \A k \in 1 .. Len(q) : q[k] \in T
  BY <1>1
<1> QED
  BY <1>1, <1>2

\* Counting pages in a queue.
LEMMA CountType ==
    ASSUME NEW S, NEW q \in Seq(S), NEW g
    PROVE  /\ IsFiniteSet({k \in DOMAIN q : Pages(g, q[k])})
           /\ Count(q, g) \in Nat
           /\ Count(q, g) = 0 <=> \A k \in DOMAIN q : ~Pages(g, q[k])
<1> DEFINE P == {k \in DOMAIN q : Pages(g, q[k])}
<1>1. IsFiniteSet(1 .. Len(q)) /\ P \subseteq 1 .. Len(q)
  <2>1. Len(q) \in Nat /\ DOMAIN q = 1 .. Len(q)
    OBVIOUS
  <2> QED
    BY <2>1, FS_Interval
<1>2. IsFiniteSet(P) /\ Cardinality(P) \in Nat /\ (Cardinality(P) = 0 <=> P = {})
  BY <1>1, FS_Subset, FS_CardinalityType, FS_EmptySet
<1> QED
  BY <1>2 DEF Count

\* One message more in a queue, and one less.
LEMMA CountAppend ==
    ASSUME NEW S, NEW q \in Seq(S), NEW m, NEW g
    PROVE  Count(Append(q, m), g) = Count(q, g) + IF Pages(g, m) THEN 1 ELSE 0
<1> DEFINE r == Append(q, m)
           P == {k \in DOMAIN q : Pages(g, q[k])}
           R == {k \in DOMAIN r : Pages(g, r[k])}
           n == Len(q)
<1>1. /\ n \in Nat /\ DOMAIN q = 1 .. n
      /\ DOMAIN r = 1 .. n + 1 /\ r[n + 1] = m /\ \A k \in 1 .. n : r[k] = q[k]
  OBVIOUS
<1>2. IsFiniteSet(P) /\ Cardinality(P) \in Nat
  BY CountType, FS_CardinalityType
<1> HIDE DEF r
<1>3. n + 1 \notin P
  BY <1>1
<1>4. CASE Pages(g, m)
  <2>1. R = P \cup {n + 1}
    BY <1>1, <1>4
  <2>2. Cardinality(R) = Cardinality(P) + 1
    BY <1>2, <1>3, <2>1, FS_AddElement
  <2> QED
    BY <1>4, <2>2 DEF Count, r
<1>5. CASE ~Pages(g, m)
  <2>1. R = P
    <3>1. \A k \in DOMAIN r : k = n + 1 \/ k \in 1 .. n
      BY <1>1
    <3> QED
      BY <1>1, <1>5, <3>1
  <2> QED
    <3> HIDE DEF P, R
    <3>1. Cardinality(R) = Cardinality(P) + 0
      BY <1>2, <2>1
    <3> QED
      BY <1>5, <3>1 DEF Count, r, P, R
<1> QED
  BY <1>4, <1>5

LEMMA CountTail ==
    ASSUME NEW S, NEW q \in Seq(S), q # <<>>, NEW g
    PROVE  Count(q, g) = Count(Tail(q), g) + IF Pages(g, Head(q)) THEN 1 ELSE 0
<1> DEFINE r == Tail(q)
           P == {k \in DOMAIN q : Pages(g, q[k])}
           R == {k \in DOMAIN r : Pages(g, r[k])}
           n == Len(q)
<1>1. /\ n \in Nat /\ n > 0 /\ DOMAIN q = 1 .. n /\ Head(q) = q[1]
      /\ DOMAIN r = 1 .. n - 1 /\ \A k \in 1 .. n - 1 : r[k] = q[k + 1]
      /\ r \in Seq(S)
  OBVIOUS
<1>2. IsFiniteSet(P) /\ IsFiniteSet(R) /\ Cardinality(P) \in Nat /\ Cardinality(R) \in Nat
  BY <1>1, CountType, FS_CardinalityType
<1> HIDE DEF r
<1> DEFINE f == [k \in R |-> k + 1]
<1>3. f \in Bijection(R, P \ {1})
  <2>1. \A k \in R : k + 1 \in P \ {1}
    BY <1>1
  <2>2. \A j \in P \ {1} : j - 1 \in R /\ (j - 1) + 1 = j
    BY <1>1
  <2>3. \A j, k \in R : j + 1 = k + 1 => j = k
    BY <1>1
  <2> HIDE DEF P, R
  <2>4. f \in [R -> P \ {1}]
    BY <2>1
  <2>5. \A j \in P \ {1} : \E k \in R : f[k] = j
    BY <2>2
  <2>6. \A j, k \in R : f[j] = f[k] => j = k
    BY <2>3
  <2> QED
    BY <2>4, <2>5, <2>6 DEF Bijection, Injection, Surjection, IsInjective
<1>4. Cardinality(R) = Cardinality(P \ {1})
  BY <1>2, <1>3, FS_Bijection DEF ExistsBijection
<1>5. Cardinality(P \ {1}) = IF 1 \in P THEN Cardinality(P) - 1 ELSE Cardinality(P)
  BY <1>2, FS_RemoveElement
<1>6. 1 \in P <=> Pages(g, Head(q))
  BY <1>1
<1> HIDE DEF P, R
<1>7. Cardinality(P) = Cardinality(R) + IF Pages(g, Head(q)) THEN 1 ELSE 0
  BY <1>2, <1>4, <1>5, <1>6
<1> QED
  BY <1>7 DEF Count, P, R, r

-----------------------------------------------------------------------------
(* What a load merges.                                                     *)

\* Numbers above h without a gap, sorted.
LEMMA SortedNew ==
    ASSUME NEW h \in Nat, NEW new, IsFiniteSet(new), new \subseteq Nat,
           \A n \in new : n > h /\ h + 1 .. n \subseteq new
    PROVE  /\ Sorted(new) \in Seq(Nat)
           /\ \A k \in 1 .. Len(Sorted(new)) : Sorted(new)[k] = h + k /\ h + k \in new
           /\ \A n \in new : n <= h + Len(Sorted(new))
<1> DEFINE c == Cardinality(new)
<1>1. c \in Nat
  BY FS_CardinalityType
<1>2. ASSUME NEW k \in 1 .. c PROVE h + k \in new
  <2> SUFFICES ASSUME h + k \notin new PROVE FALSE
    OBVIOUS
  <2>1. new \subseteq h + 1 .. h + k - 1
    <3> SUFFICES ASSUME NEW n \in new PROVE n \in h + 1 .. h + k - 1
      OBVIOUS
    <3>1. n \in Nat /\ n > h /\ h + k \notin h + 1 .. n
      OBVIOUS
    <3> QED
      BY <1>1, <1>2, <3>1
  <2>2. IsFiniteSet(h + 1 .. h + k - 1) /\ Cardinality(h + 1 .. h + k - 1) = k - 1
    <3>1. h + 1 \in Int /\ h + k - 1 \in Int /\ (h + 1 > h + k - 1 => k = 1)
          /\ (h + k - 1) - (h + 1) + 1 = k - 1
      BY <1>1, <1>2
    <3> QED
      BY <3>1, FS_Interval
  <2>3. c <= k - 1
    <3> DEFINE I == h + 1 .. h + k - 1
    <3>1. new \in SUBSET I /\ IsFiniteSet(I) /\ Cardinality(I) = k - 1
      BY <2>1, <2>2
    <3> HIDE DEF I
    <3>2. Cardinality(new) <= Cardinality(I)
      BY <3>1, FS_Subset
    <3> QED
      BY <3>1, <3>2
  <2> QED
    BY <1>1, <1>2, <2>3
<1>3. ASSUME NEW n \in new PROVE Cardinality({m \in new : m <= n}) = n - h
  <2>1. n \in Nat /\ n > h /\ {m \in new : m <= n} = h + 1 .. n
    <3>1. n \in Nat /\ n > h /\ h + 1 .. n \subseteq new
      OBVIOUS
    <3>2. ASSUME NEW m \in new, m <= n PROVE m \in h + 1 .. n
      <4>1. m \in Nat /\ m > h
        OBVIOUS
      <4> QED
        BY <3>1, <3>2, <4>1
    <3>3. \A m \in h + 1 .. n : m <= n
      BY <3>1
    <3> QED
      BY <3>1, <3>2, <3>3
  <2>2. h + 1 \in Int /\ n \in Int /\ ~(h + 1 > n) /\ n - (h + 1) + 1 = n - h
    BY <2>1
  <2> QED
    BY <2>1, <2>2, FS_Interval
<1>4. ASSUME NEW k \in 1 .. c
      PROVE  (CHOOSE n \in new : Cardinality({m \in new : m <= n}) = k) = h + k
  <2>1. h + k \in new /\ Cardinality({m \in new : m <= h + k}) = k
    BY <1>1, <1>2, <1>3, <1>4
  <2>2. \A n \in new : Cardinality({m \in new : m <= n}) = k => n = h + k
    BY <1>1, <1>3, <1>4
  <2> QED
    BY <2>1, <2>2
<1>5. Sorted(new) = [k \in 1 .. c |-> h + k]
  BY <1>4 DEF Sorted
<1>6. \A n \in new : n <= h + c
  <2> SUFFICES ASSUME NEW n \in new PROVE n <= h + c
    OBVIOUS
  <2>1. {m \in new : m <= n} \in SUBSET new
    OBVIOUS
  <2>2. Cardinality({m \in new : m <= n}) <= c
    BY <2>1, FS_Subset
  <2>3. n - h <= c /\ n \in Nat
    BY <1>3, <2>2
  <2> QED
    BY <1>1, <2>3
<1> HIDE DEF c
<1>7. Sorted(new) \in Seq(Nat) /\ Len(Sorted(new)) = c
  BY <1>1, <1>5
<1> QED
  BY <1>1, <1>2, <1>5, <1>6, <1>7

\* The buffered events extend what a load has read, if there is no gap.
LEMMA MergedShows ==
    ASSUME ClientType, EventsReal, NEW s \in Sessions, NEW seqs, Shows(seqs, s),
           NEW view, view = [session |-> s, seqs |-> seqs], ~MergeGap(view, buffered[s])
    PROVE  /\ Merged(view, buffered[s]).seqs \in Seq(Nat) /\ Shows(Merged(view, buffered[s]).seqs, s)
           /\ Len(seqs) <= Len(Merged(view, buffered[s]).seqs)
           /\ \A e \in ToSet(buffered[s]) : e.seq <= Len(Merged(view, buffered[s]).seqs)
<1> DEFINE new == New(view, buffered[s])
<1>1. PICK h \in 0 .. Len(stored[s]) : seqs = First(h)
  BY DEF Shows
<1>2. Len(stored[s]) \in Nat /\ h \in Nat
  BY DEF ClientType
<1>3. HeadSeq(view) = h
  BY <1>1, <1>2, FirstIs DEF HeadSeq
<1>4. \A n \in new : n \in h + 1 .. Len(stored[s])
  <2> SUFFICES ASSUME NEW k \in DOMAIN buffered[s], buffered[s][k].seq > h
               PROVE  buffered[s][k].seq \in h + 1 .. Len(stored[s])
    BY <1>3 DEF New
  <2>1. buffered[s] \in Seq(EventsOf(s))
    BY DEF EventsReal
  <2>2. buffered[s][k] \in EventsOf(s)
    BY <2>1
  <2>3. buffered[s][k].seq \in Nat /\ buffered[s][k].seq <= Len(stored[s])
    BY <2>2 DEF EventsOf, Events
  <2> QED
    BY <1>2, <2>3
<1>5. \A n \in new : h + 1 .. n \subseteq new
  BY <1>3 DEF MergeGap
<1>6. IsFiniteSet(new) /\ new \subseteq Nat /\ \A n \in new : n > h
  <2>1. IsFiniteSet(h + 1 .. Len(stored[s]))
    BY <1>2, FS_Interval
  <2>2. new \subseteq h + 1 .. Len(stored[s])
    BY <1>4
  <2>3. IsFiniteSet(new)
    BY <2>1, <2>2, FS_Subset
  <2> QED
    BY <1>2, <2>2, <2>3
<1> DEFINE r == Sorted(new)
<1> HIDE DEF new
<1>7. /\ r \in Seq(Nat) /\ \A k \in 1 .. Len(r) : r[k] = h + k /\ h + k \in new
      /\ \A n \in new : n <= h + Len(r)
  BY <1>2, <1>5, <1>6, SortedNew
<1>8. Merged(view, buffered[s]).seqs = First(h) \o r
  BY <1>1 DEF Merged, new
<1> HIDE DEF r
<1>9. First(h) \o r = First(h + Len(r))
  BY <1>2, <1>7, FirstGoesOn
<1>10. h + Len(r) \in 0 .. Len(stored[s])
  <2>1. Len(r) \in Nat
    BY <1>7
  <2>2. CASE Len(r) = 0
    BY <1>1, <1>2, <2>2
  <2>3. CASE Len(r) > 0
    <3>1. h + Len(r) \in new
      BY <1>7, <2>1, <2>3
    <3> QED
      BY <1>2, <1>4, <2>1, <3>1
  <2> QED
    BY <2>1, <2>2, <2>3
<1>11. PICK q : q = Merged(view, buffered[s]).seqs /\ q = First(h + Len(r))
  BY <1>8, <1>9
<1>12. Len(seqs) = h /\ Len(q) = h + Len(r) /\ q \in Seq(Nat) /\ Len(r) \in Nat
  <2>1. h + Len(r) \in Nat /\ Len(r) \in Nat
    BY <1>2, <1>7
  <2> QED
    BY <1>1, <1>2, <1>11, <2>1, FirstIs
<1>13. Shows(q, s) /\ Len(seqs) <= Len(q)
  BY <1>2, <1>10, <1>11, <1>12 DEF Shows
<1>14. \A e \in ToSet(buffered[s]) : e.seq <= Len(q)
  <2> SUFFICES ASSUME NEW k \in DOMAIN buffered[s] PROVE buffered[s][k].seq <= Len(q)
    BY DEF ToSet
  <2>1. buffered[s] \in Seq(EventsOf(s))
    BY DEF EventsReal
  <2>2. buffered[s][k].seq \in Nat
    BY <2>1 DEF EventsOf, Events
  <2>3. CASE buffered[s][k].seq > h
    <3>1. buffered[s][k].seq \in new
      BY <1>3, <2>3 DEF new, New
    <3> QED
      BY <1>7, <1>12, <3>1
  <2>4. CASE ~(buffered[s][k].seq > h)
    BY <1>2, <1>12, <2>2, <2>4
  <2> QED
    BY <2>3, <2>4
<1> QED
  BY <1>11, <1>12, <1>13, <1>14
-----------------------------------------------------------------------------
(* What stays true of messages and loads.                                  *)

StoreGrows ==
    /\ stored' \in [Sessions -> Seq(Types)]
    /\ \A s \in Sessions : Len(stored[s]) <= Len(stored'[s])
SameLoad(g) ==
    /\ Loading(g) /\ loads'[g].session = loads[g].session /\ loads'[g].seqs = loads[g].seqs
    /\ loads'[g].paging = loads[g].paging /\ loads'[g].stalled = loads[g].stalled
    /\ loads'[g].at = loads[g].at

\* What was shown or announced stays in the store.
LEMMA StoreStill ==
    ASSUME ClientType, StoreGrows
    PROVE  /\ \A seqs : \A s \in Sessions : Shows(seqs, s) => Shows(seqs, s)'
           /\ \A s \in Sessions : EventsOf(s) \subseteq EventsOf(s)'
           /\ RealNotices \subseteq RealNotices'
<1>1. \A s \in Sessions : /\ Len(stored[s]) \in Nat /\ Len(stored'[s]) \in Nat
                          /\ Len(stored[s]) <= Len(stored'[s])
  BY DEF ClientType, StoreGrows
<1>2. ASSUME NEW s \in Sessions, NEW seqs, Shows(seqs, s) PROVE Shows(seqs, s)'
  BY <1>1, <1>2 DEF Shows
<1>3. \A s \in Sessions : EventsOf(s) \subseteq EventsOf(s)'
  BY <1>1 DEF EventsOf, Events
<1>4. RealNotices \subseteq RealNotices'
  BY <1>3 DEF RealNotices, Notices, Events
<1> QED
  BY <1>2, <1>3, <1>4

\* A message that fits still fits when the store has grown.
LEMMA FitsLonger ==
    ASSUME NEW a \in Nat, NEW b \in Nat, NEW c \in Nat, NEW d \in Nat, a + b <= c, c <= d
    PROVE  a + b <= d
  OBVIOUS

\* A message fits as before, unless it is a page for the one load that has changed.
LEMMA FitStill ==
    ASSUME ClientType, StoreGrows, generation' \in Nat, generation <= generation', NEW g0,
           \A g \in 1 .. generation : g # g0 /\ Loading(g)' => SameLoad(g)
    PROVE  /\ \A m \in FitRequests : ~Pages(g0, m) => m \in FitRequests'
           /\ \A m \in FitReplies : ~Pages(g0, m) => m \in FitReplies'
<1>1. /\ \A s \in Sessions : /\ Len(stored[s]) \in Nat /\ Len(stored'[s]) \in Nat
                             /\ Len(stored[s]) <= Len(stored'[s])
      /\ generation \in Nat /\ \A g \in 1 .. generation : g \in Loads /\ g \in 1 .. generation'
  BY DEF ClientType, StoreGrows
<1>2. ASSUME NEW m \in FitRequests, ~Pages(g0, m) PROVE m \in FitRequests'
  <2>1. m \in Requests /\ m.session \in Sessions /\ m.after \in Nat
    BY <1>2 DEF FitRequests, Requests
  <2>2. CASE ~IsPage(m)
    BY <2>1, <2>2 DEF FitRequests, IsPage
  <2>3. CASE IsPage(m)
    <3>1. /\ m.who \in 1 .. generation /\ m.after <= Len(stored[m.session]) /\ m.who # g0
          /\ Loading(m.who) => m.session = loads[m.who].session /\ m.after = Len(loads[m.who].seqs)
      BY <1>2, <2>3 DEF FitRequests, Pages
    <3>2. m.who \in 1 .. generation' /\ m.after <= Len(stored'[m.session])
      BY <1>1, <2>1, <3>1
    <3>3. Loading(m.who)' => m.session = loads'[m.who].session /\ m.after = Len(loads'[m.who].seqs)
      BY <3>1 DEF SameLoad
    <3> QED
      BY <2>1, <3>2, <3>3 DEF FitRequests
  <2> QED
    BY <2>2, <2>3
<1>3. ASSUME NEW m \in FitReplies, ~Pages(g0, m) PROVE m \in FitReplies'
  <2>1. m \in Replies /\ m.session \in Sessions /\ m.seqs \in Seq(Nat)
    BY <1>3 DEF FitReplies, Replies
  <2>2. CASE ~IsPage(m)
    BY <2>1, <2>2 DEF FitReplies, IsPage
  <2>3. CASE IsPage(m)
    <3>1. m.who \in 1 .. generation /\ m.who # g0
      BY <1>3, <2>3 DEF FitReplies, Pages
    <3>2. ASSUME Loading(m.who)'
          PROVE  /\ m.session = loads'[m.who].session
                 /\ Len(loads'[m.who].seqs) + Len(m.seqs) <= Len(stored'[m.session])
                 /\ \A k \in 1 .. Len(m.seqs) : m.seqs[k] = Len(loads'[m.who].seqs) + k
      <4>1. SameLoad(m.who)
        BY <3>1, <3>2
      <4>2. /\ m.session = loads[m.who].session
            /\ Len(loads[m.who].seqs) + Len(m.seqs) <= Len(stored[m.session])
            /\ \A k \in 1 .. Len(m.seqs) : m.seqs[k] = Len(loads[m.who].seqs) + k
        BY <1>3, <2>3, <4>1 DEF FitReplies, SameLoad
      <4>3. Len(m.seqs) \in Nat /\ Len(loads[m.who].seqs) \in Nat
        <5>1. loads[m.who].seqs \in Seq(Nat)
          BY <1>1, <3>1 DEF ClientType, LoadStates
        <5> QED
          BY <2>1, <5>1
      <4>4. Len(loads[m.who].seqs) + Len(m.seqs) <= Len(stored'[m.session])
        <5>1. /\ Len(stored[m.session]) \in Nat /\ Len(stored'[m.session]) \in Nat
              /\ Len(stored[m.session]) <= Len(stored'[m.session])
          BY <1>1, <2>1
        <5>2. Len(loads[m.who].seqs) + Len(m.seqs) <= Len(stored[m.session])
          BY <4>2
        <5> QED
          BY <4>3, <5>1, <5>2, FitsLonger
      <4> QED
        BY <4>1, <4>2, <4>4 DEF SameLoad
    <3>3. m.who \in 1 .. generation' /\ m.head <= Len(stored'[m.session]) /\ (m.seqs = <<>> => ~m.more)
      <4>1. m.head <= Len(stored[m.session]) /\ m.head \in Nat /\ (m.seqs = <<>> => ~m.more)
        BY <1>3, <2>3 DEF FitReplies, Replies
      <4> QED
        BY <1>1, <2>1, <3>1, <4>1
    <3>4. ASSUME Loading(m.who)', m.seqs = <<>> PROVE ~Stalled(loads'[m.who])
      <4>1. SameLoad(m.who)
        BY <3>1, <3>4
      <4>2. ~Stalled(loads[m.who])
        BY <1>3, <2>3, <3>4, <4>1 DEF FitReplies, SameLoad
      <4> QED
        BY <4>1, <4>2 DEF SameLoad, Stalled
    <3> QED
      BY <2>1, <3>2, <3>3, <3>4 DEF FitReplies
  <2> QED
    BY <2>2, <2>3
<1> QED
  BY <1>2, <1>3

\* No message is a page for load 0.
LEMMA SetsStill ==
    ASSUME ClientType, StoreGrows, generation' \in Nat, generation <= generation',
           \A g \in 1 .. generation : Loading(g)' => SameLoad(g)
    PROVE  /\ \A q \in Seq(FitRequests) : q \in Seq(FitRequests')
           /\ \A q \in Seq(FitReplies) : q \in Seq(FitReplies')
           /\ \A q \in Seq(FitReplies \cup RealNotices) : q \in Seq(FitReplies' \cup RealNotices')
           /\ FitRequests \subseteq FitRequests' /\ FitReplies \subseteq FitReplies'
           /\ RealNotices \subseteq RealNotices'
<1>1. generation \in Nat
  BY DEF ClientType
<1>2. /\ \A m \in FitRequests : ~Pages(0, m)
      /\ \A m \in FitReplies : ~Pages(0, m)
  <2>1. 0 \notin 1 .. generation
    BY <1>1
  <2>2. \A m \in FitRequests : IsPage(m) => m.who \in 1 .. generation
    BY DEF FitRequests
  <2>3. \A m \in FitReplies : IsPage(m) => m.who \in 1 .. generation
    BY DEF FitReplies
  <2> QED
    BY <2>1, <2>2, <2>3 DEF Pages
<1>3. FitRequests \subseteq FitRequests' /\ FitReplies \subseteq FitReplies'
  <2>1. \A g \in 1 .. generation : g # 0 /\ Loading(g)' => SameLoad(g)
    OBVIOUS
  <2>2. /\ \A m \in FitRequests : ~Pages(0, m) => m \in FitRequests'
        /\ \A m \in FitReplies : ~Pages(0, m) => m \in FitReplies'
    BY <2>1, FitStill
  <2> QED
    BY <1>2, <2>2
<1>4. RealNotices \subseteq RealNotices'
  BY StoreStill
<1>5. FitReplies \cup RealNotices \subseteq FitReplies' \cup RealNotices'
  BY <1>3, <1>4
<1> QED
  BY <1>3, <1>4, <1>5, SeqWiden

\* The parts of a count.
LEMMA CountsAre ==
    ASSUME ClientInv
    PROVE  \A g : Count(inbox, g) \in Nat /\ Count(pipe, g) \in Nat /\ Count(ready, g) \in Nat
<1>1. /\ inbox \in Seq(FitRequests) /\ ready \in Seq(FitReplies)
      /\ pipe \in Seq(FitReplies \cup RealNotices)
  BY DEF ClientInv, MessagesFit
<1> QED
  BY <1>1, CountType

\* A step that moves messages only, and may write to the store.
LEMMA MessagesMove ==
    ASSUME ClientInv, StoreGrows, UNCHANGED <<selected, transcript, Replay>>,
           \A e \in unsent' : e \in Events /\ e \in EventsOf(e.session)',
           inbox' \in Seq(FitRequests'), serving' \in FitReplies' \cup {Nothing},
           pipe' \in Seq(FitReplies' \cup RealNotices'), ready' \in Seq(FitReplies'),
           \A g \in Loads : InFlight(g)' <= InFlight(g)
    PROVE  ClientInv'
<1>1. UNCHANGED <<selected, transcript, loading, buffered, generation, loads>> /\ ClientType
  BY DEF Replay, ClientInv
<1>2. ClientType'
  BY <1>1 DEF ClientType, StoreGrows
<1>3. ScreenShows'
  <2>1. selected \in Sessions /\ Shows(transcript.seqs, selected)
    BY <1>1 DEF ClientInv, ScreenShows, ClientType
  <2>2. Shows(transcript.seqs, selected)'
    BY <1>1, <2>1, StoreStill DEF Shows
  <2> QED
    BY <1>1, <2>2 DEF ClientInv, ScreenShows
<1>4. EventsReal'
  <2>1. \A s \in Sessions : EventsOf(s) \subseteq EventsOf(s)'
    BY <1>1, StoreStill
  <2>2. \A s \in Sessions : buffered[s] \in Seq(EventsOf(s)')
    BY <2>1, SeqWiden DEF ClientInv, EventsReal
  <2> QED
    BY <1>1, <2>2 DEF ClientInv, EventsReal
<1>5. LoadsShow'
  <2> SUFFICES ASSUME NEW g \in Loads, Loading(g)
               PROVE  g <= generation /\ Shows(loads[g].seqs, loads[g].session)'
    BY <1>1 DEF LoadsShow, Loading
  <2>1. g <= generation /\ Shows(loads[g].seqs, loads[g].session) /\ loads[g].session \in Sessions
    BY <1>1 DEF ClientInv, LoadsShow, ClientType, LoadStates
  <2> QED
    BY <1>1, <2>1, StoreStill DEF Shows
<1>6. MessagesFit'
  BY DEF MessagesFit
<1>7. OnePage'
  <2> SUFFICES ASSUME NEW g \in Loads, Loading(g)
               PROVE  InFlight(g)' <= IF loads[g].paging THEN 1 ELSE 0
    BY <1>1 DEF OnePage, Loading
  <2>1. InFlight(g) <= IF loads[g].paging THEN 1 ELSE 0
    BY DEF ClientInv, OnePage
  <2>2. InFlight(g) \in Nat
    BY CountsAre DEF InFlight
  <2>3. InFlight(g)' \in Nat
    <3>1. Count(inbox', g) \in Nat /\ Count(pipe', g) \in Nat /\ Count(ready', g) \in Nat
      BY CountType
    <3> QED
      BY <3>1 DEF InFlight, Count, Pages, IsPage
  <2>4. InFlight(g)' <= InFlight(g)
    OBVIOUS
  <2> HIDE DEF InFlight
  <2> QED
    BY <2>1, <2>2, <2>3, <2>4
<1>8. LoadsPage'
  <2> SUFFICES ASSUME NEW g \in Loads, Loading(g), Stalled(loads[g]) PROVE Behind(loads[g])'
    BY <1>1 DEF ClientInv, LoadsPage, Loading, PagingFits, Stalled
  <2>1. Behind(loads[g]) /\ loads[g].session \in Sessions /\ loads[g].seqs \in Seq(Nat)
    <3>1. loads[g] \in LoadStates
      BY <1>1 DEF ClientInv, ClientType
    <3> QED
      BY <1>1, <3>1 DEF ClientInv, LoadsPage, PagingFits, LoadStates
  <2>2. /\ Len(stored[loads[g].session]) \in Nat /\ Len(stored'[loads[g].session]) \in Nat
        /\ Len(stored[loads[g].session]) <= Len(stored'[loads[g].session])
        /\ Len(loads[g].seqs) \in Nat
    <3>1. Len(loads[g].seqs) \in Nat
      BY <2>1
    <3>2. \A s \in Sessions : /\ Len(stored[s]) \in Nat /\ Len(stored'[s]) \in Nat
                              /\ Len(stored[s]) <= Len(stored'[s])
      BY <1>1 DEF ClientType, StoreGrows
    <3> QED
      BY <2>1, <3>1, <3>2
  <2>3. PICK old : old = Len(stored[loads[g].session])
    OBVIOUS
  <2>4. PICK new : new = Len(stored'[loads[g].session])
    OBVIOUS
  <2>5. PICK read : read = Len(loads[g].seqs)
    OBVIOUS
  <2>6. read < old
    BY <2>1, <2>3, <2>5 DEF Behind
  <2>7. read \in Nat /\ old \in Nat /\ new \in Nat /\ old <= new
    BY <2>2, <2>3, <2>4, <2>5
  <2>9. read < new
    BY <2>6, <2>7
  <2>8. loads' = loads
    BY <1>1
  <2> QED
    BY <2>4, <2>5, <2>8, <2>9 DEF Behind
<1> QED
  BY <1>2, <1>3, <1>4, <1>5, <1>6, <1>7, <1>8 DEF ClientInv

-----------------------------------------------------------------------------
(* The Worker.                                                             *)

\* The pages of a load that are on their way, counted by queue.
LEMMA FlightNow ==
    \A g : InFlight(g)' = Count(inbox', g) + (IF Pages(g, serving') THEN 1 ELSE 0)
                          + Count(pipe', g) + Count(ready', g)
  BY DEF InFlight, Count, Pages, IsPage

\* Of four counts, what one loses another may gain.
LEMMA SumIsLess ==
    ASSUME NEW a \in Nat, NEW b \in Nat, NEW c \in Nat, NEW d \in Nat, NEW e \in Nat, NEW f \in Nat,
           NEW x \in Nat, a <= b, c + d <= e + f
    PROVE  a + x + c + d <= b + x + e + f
  OBVIOUS

\* A step that hands a page on, or drops it, leaves no more of them.
LEMMA FewerInFlight ==
    ASSUME NEW g, serving' = serving,
           Count(inbox, g) \in Nat, Count(pipe, g) \in Nat, Count(ready, g) \in Nat,
           Count(inbox', g) \in Nat, Count(pipe', g) \in Nat, Count(ready', g) \in Nat,
           Count(inbox', g) <= Count(inbox, g),
           Count(pipe', g) + Count(ready', g) <= Count(pipe, g) + Count(ready, g)
    PROVE  InFlight(g)' <= InFlight(g)
<1>1. PICK x \in Nat : x = IF Pages(g, serving) THEN 1 ELSE 0
  OBVIOUS
<1>2. /\ InFlight(g) = Count(inbox, g) + x + Count(pipe, g) + Count(ready, g)
      /\ InFlight(g)' = Count(inbox', g) + x + Count(pipe', g) + Count(ready', g)
  BY <1>1, FlightNow DEF InFlight
<1> QED
  BY <1>2, SumIsLess

\* A sequence stays one when an element of its set is added.
LEMMA Longer ==
    ASSUME NEW S, NEW q \in Seq(S), NEW x \in S
    PROVE  Append(q, x) \in Seq(S) /\ Len(Append(q, x)) = Len(q) + 1 /\ Len(q) \in Nat
  OBVIOUS

\* An event is written.
LEMMA WriteGrows ==
    ASSUME ClientType, NEW s \in Sessions, NEW type \in Types,
           stored' = [stored EXCEPT ![s] = Append(stored[s], type)]
    PROVE  StoreGrows /\ NextEvent(s, type) \in Events /\ NextEvent(s, type).session = s
           /\ NextEvent(s, type) \in EventsOf(s)'
<1>1. stored[s] \in Seq(Types) /\ Len(stored[s]) \in Nat
  BY DEF ClientType
<1> DEFINE q == Append(stored[s], type)
<1>2. q \in Seq(Types) /\ Len(q) = Len(stored[s]) + 1
  BY <1>1, Longer
<1> HIDE DEF q
<1>3. StoreGrows
  <2>1. stored' = [stored EXCEPT ![s] = q] /\ stored \in [Sessions -> Seq(Types)]
    BY DEF q, ClientType
  <2>2. stored' \in [Sessions -> Seq(Types)]
    BY <1>2, <2>1
  <2>3. \A r \in Sessions : stored'[r] = IF r = s THEN q ELSE stored[r]
    BY <2>1
  <2>4. \A r \in Sessions : Len(stored[r]) \in Nat
    BY <2>1
  <2> QED
    <3>1. \A r \in Sessions : Len(stored[r]) <= Len(stored'[r])
      <4> TAKE r \in Sessions
      <4>1. CASE r = s
        BY <1>1, <1>2, <2>3, <4>1
      <4>2. CASE r # s
        BY <2>3, <2>4, <4>2
      <4> QED
        BY <4>1, <4>2
    <3> QED
      BY <2>2, <3>1 DEF StoreGrows
<1>4. Len(stored'[s]) = Len(stored[s]) + 1
  BY <1>2 DEF ClientType, q
<1>5. NextEvent(s, type) \in Events /\ NextEvent(s, type).session = s
      /\ NextEvent(s, type).seq = Len(stored[s]) + 1
  BY <1>1 DEF NextEvent, Events
<1> QED
  BY <1>1, <1>3, <1>4, <1>5 DEF EventsOf

\* The store is as it was.
LEMMA StoreSame ==
    ASSUME ClientType, UNCHANGED stored
    PROVE  StoreGrows
<1>1. \A s \in Sessions : Len(stored[s]) \in Nat
  BY DEF ClientType
<1> QED
  BY <1>1 DEF ClientType, StoreGrows

\* While no load changes, what fits goes on fitting.
LEMMA Fits ==
    ASSUME ClientInv, StoreGrows, UNCHANGED Replay
    PROVE  /\ inbox \in Seq(FitRequests') /\ serving \in FitReplies' \cup {Nothing}
           /\ pipe \in Seq(FitReplies' \cup RealNotices') /\ ready \in Seq(FitReplies')
           /\ FitRequests \subseteq FitRequests' /\ FitReplies \subseteq FitReplies'
           /\ RealNotices \subseteq RealNotices'
           /\ \A e \in unsent : e \in Events /\ e \in EventsOf(e.session)'
<1>1. /\ generation' = generation /\ loads' = loads /\ generation \in Nat /\ ClientType
      /\ inbox \in Seq(FitRequests) /\ serving \in FitReplies \cup {Nothing}
      /\ pipe \in Seq(FitReplies \cup RealNotices) /\ ready \in Seq(FitReplies)
  BY DEF Replay, ClientInv, ClientType, MessagesFit
<1>2. \A g \in 1 .. generation : Loading(g)' => SameLoad(g)
  BY <1>1 DEF Loading, SameLoad
<1>3. /\ \A q \in Seq(FitRequests) : q \in Seq(FitRequests')
      /\ \A q \in Seq(FitReplies) : q \in Seq(FitReplies')
      /\ \A q \in Seq(FitReplies \cup RealNotices) : q \in Seq(FitReplies' \cup RealNotices')
      /\ FitRequests \subseteq FitRequests' /\ FitReplies \subseteq FitReplies'
      /\ RealNotices \subseteq RealNotices'
  <2>1. generation' \in Nat /\ generation <= generation'
    BY <1>1
  <2> QED
    BY <1>1, <1>2, <2>1, SetsStill
<1>4. \A e \in unsent : e \in Events /\ e \in EventsOf(e.session)'
  BY <1>1, StoreStill DEF ClientInv, EventsReal, Events
<1> QED
  BY <1>1, <1>3, <1>4

LEMMA RunThreadKeeps ==
    ASSUME ClientInv, NEW s \in Sessions, RunThread(s) \/ Foreign(s)
    PROVE  ClientInv'
<1>1. /\ UNCHANGED <<selected, transcript, Replay, inbox, serving, pipe, ready>>
      /\ \E type \in Types : /\ stored' = [stored EXCEPT ![s] = Append(stored[s], type)]
                             /\ unsent' \subseteq unsent \cup {NextEvent(s, type)}
  <2>1. CASE Foreign(s)
    BY <2>1 DEF Foreign, Screen, Types
  <2>2. CASE RunThread(s)
    <3>1. \E type \in Types : Emitted(s, type)
      BY <2>2 DEF RunThread, Types
    <3>2. UNCHANGED <<selected, transcript, Replay, inbox, serving, pipe, ready>>
      BY <2>2 DEF RunThread, Screen
    <3> QED
      BY <3>1, <3>2 DEF Emitted, Write
  <2> QED
    BY <2>1, <2>2
<1>2. PICK type \in Types : /\ stored' = [stored EXCEPT ![s] = Append(stored[s], type)]
                            /\ unsent' \subseteq unsent \cup {NextEvent(s, type)}
  BY <1>1
<1>e. PICK e : e = NextEvent(s, type)
  OBVIOUS
<1>3. StoreGrows /\ e \in Events /\ e \in EventsOf(e.session)'
  <2>1. StoreGrows /\ e \in Events /\ e.session = s /\ e \in EventsOf(s)'
    BY <1>e, <1>2, WriteGrows DEF ClientInv
  <2> QED
    BY <2>1
<1>4. \A g \in Loads : InFlight(g)' <= InFlight(g)
  <2> TAKE g \in Loads
  <2>1. InFlight(g)' = InFlight(g) /\ InFlight(g) \in Nat
    BY <1>1, FlightNow, CountsAre DEF InFlight
  <2> QED
    BY <2>1
<1>5. \A x \in unsent' : x \in Events /\ x \in EventsOf(x.session)'
  <2>1. \A x \in unsent : x \in Events /\ x \in EventsOf(x.session)'
    BY <1>1, <1>3, Fits
  <2>2. unsent' \subseteq unsent \cup {e}
    BY <1>e, <1>2
  <2> QED
    BY <1>3, <2>1, <2>2
<1> QED
  BY <1>1, <1>3, <1>4, <1>5, Fits, MessagesMove

LEMMA AnnounceKeeps ==
    ASSUME ClientInv, NEW event \in unsent, Announce(event)
    PROVE  ClientInv'
<1> DEFINE m == [kind |-> "event", event |-> event]
<1>1. /\ UNCHANGED <<stored, selected, transcript, Replay, inbox, serving, ready>>
      /\ pipe' = Append(pipe, m) /\ unsent' \subseteq unsent
  BY DEF Announce, Screen
<1>2. StoreGrows
  BY <1>1, StoreSame DEF ClientInv
<1>3. m \in RealNotices /\ \A g : ~Pages(g, m)
  <2>1. event \in Events /\ event \in EventsOf(event.session)
    BY DEF ClientInv, EventsReal
  <2> QED
    BY <2>1 DEF RealNotices, Notices, Pages, IsPage
<1> HIDE DEF m
<1>4. pipe' \in Seq(FitReplies' \cup RealNotices')
  <2> DEFINE S == FitReplies' \cup RealNotices'
  <2>1. pipe \in Seq(S) /\ m \in S
    BY <1>1, <1>2, <1>3, Fits
  <2> HIDE DEF S
  <2>2. Append(pipe, m) \in Seq(S)
    BY <2>1
  <2> QED
    BY <1>1, <2>2 DEF S
<1>5. \A g \in Loads : InFlight(g)' <= InFlight(g)
  <2> TAKE g \in Loads
  <2>1. pipe \in Seq(FitReplies \cup RealNotices)
    BY DEF ClientInv, MessagesFit
  <2>2. Count(pipe', g) = Count(pipe, g) + 0
    BY <1>1, <1>3, <2>1, CountAppend
  <2>3. InFlight(g)' = InFlight(g) /\ InFlight(g) \in Nat
    BY <1>1, <2>2, FlightNow, CountsAre DEF InFlight
  <2> QED
    BY <2>3
<1>6. \A e \in unsent' : e \in Events /\ e \in EventsOf(e.session)'
  BY <1>1, <1>2, Fits
<1> QED
  BY <1>1, <1>2, <1>4, <1>5, <1>6, Fits, MessagesMove

\* Min of two numbers.
LEMMA LeastOfTwo ==
    ASSUME NEW a \in Nat, NEW b \in Nat
    PROVE  Min({a, b}) = IF a <= b THEN a ELSE b
<1> DEFINE c == IF a <= b THEN a ELSE b
<1>1. c \in {a, b} /\ \A y \in {a, b} : c <= y
  OBVIOUS
<1>2. \A x \in {a, b} : (\A y \in {a, b} : x <= y) => x = c
  OBVIOUS
<1> HIDE DEF c
<1>3. Min({a, b}) = c
  BY <1>1, <1>2 DEF Min
<1> QED
  BY <1>3 DEF c

\* Where the page that follows event a ends, of b.
LEMMA PageEnds ==
    ASSUME NEW a \in Nat, NEW b \in Nat, a <= b, NEW p \in Nat
    PROVE  Min({b, a + p}) \in Nat /\ a <= Min({b, a + p}) /\ Min({b, a + p}) <= b
<1>1. Min({b, a + p}) = IF b <= a + p THEN b ELSE a + p
  BY LeastOfTwo
<1> QED
  BY <1>1

\* A page is empty only at the end.
LEMMA NotEmpty ==
    ASSUME NEW a \in Nat, NEW b \in Nat, NEW p \in Nat \ {0}, a = IF b <= a + p THEN b ELSE a + p
    PROVE  a = b
  OBVIOUS

\* The page that answers a request for it.
LEMMA PageAnswers ==
    ASSUME ClientInv, NEW request \in FitRequests, IsPage(request),
           NEW end, end = Len(stored[request.session]),
           NEW last, last = Min({end, request.after + PageSize})
    PROVE  Reply(request, TRUE, [k \in 1 .. last - request.after |-> request.after + k], last < end, 0)
              \in FitReplies
<1> DEFINE after == request.after
           seqs == [k \in 1 .. last - after |-> after + k]
           m == Reply(request, TRUE, seqs, last < end, 0)
<1>1. /\ request \in Requests /\ after \in Nat /\ request.session \in Sessions /\ request.who \in Nat
      /\ request.kind = "events"
  BY DEF FitRequests, Requests, IsPage
<1>2. /\ request.who \in 1 .. generation /\ after <= end
      /\ Loading(request.who) => /\ request.session = loads[request.who].session
                                 /\ after = Len(loads[request.who].seqs)
  BY DEF FitRequests
<1>3. end \in Nat /\ PageSize \in Nat
  BY <1>1 DEF ClientInv, ClientType
<1>4. last \in Nat /\ after <= last /\ last <= end
  <2>1. after <= end
    BY <1>2
  <2> HIDE DEF after
  <2>2. last = Min({end, after + PageSize})
    BY DEF after
  <2> QED
    <3> DEFINE low == Min({end, after + PageSize})
    <3>1. low \in Nat /\ after <= low /\ low <= end
      BY <1>1, <1>3, <2>1, PageEnds
    <3>2. last = low
      BY <2>2
    <3> HIDE DEF low
    <3> QED
      BY <3>1, <3>2
<1>5. /\ seqs \in Seq(Nat) /\ Len(seqs) = last - after
      /\ \A k \in 1 .. Len(seqs) : seqs[k] = after + k
  <2>1. last - after \in Nat
    BY <1>1, <1>4
  <2> DEFINE n == last - after
  <2>2. seqs = [k \in 1 .. n |-> after + k] /\ n \in Nat
    BY <2>1
  <2> HIDE DEF n, after, seqs
  <2>3. after \in Nat
    BY <1>1 DEF after
  <2>4. seqs \in Seq(Nat) /\ Len(seqs) = n /\ \A k \in 1 .. n : seqs[k] = after + k
    BY <2>2, <2>3
  <2> QED
    BY <2>4 DEF n
<1> HIDE DEF seqs, after
<1>6. /\ m.kind = "events" /\ m.session = request.session /\ m.who = request.who /\ m.seqs = seqs
      /\ m \in Replies
  BY <1>1, <1>5 DEF Reply, Replies, Kinds
<1> HIDE DEF m
<1>7. after + Len(seqs) <= Len(stored[request.session])
  BY <1>1, <1>3, <1>4, <1>5 DEF after
<1>8. m.more = (last < end) /\ m.head = 0
  BY DEF m, Reply
<1>9. seqs = <<>> => last = end /\ after = end
  <2> SUFFICES ASSUME seqs = <<>> PROVE last = end /\ after = end
    OBVIOUS
  <2>1. last = after
    BY <1>1, <1>4, <1>5
  <2>2. last = IF end <= after + PageSize THEN end ELSE after + PageSize
    <3>1. after + PageSize \in Nat /\ last = Min({end, after + PageSize})
      BY <1>1, <1>3 DEF after
    <3> QED
      BY <1>3, <3>1, LeastOfTwo
  <2>3. after = IF end <= after + PageSize THEN end ELSE after + PageSize
    BY <2>1, <2>2
  <2>4. after \in Nat /\ PageSize \in Nat \ {0}
    BY <1>1
  <2>5. after = end
    BY <1>3, <2>3, <2>4, NotEmpty
  <2> QED
    BY <2>1, <2>5
<1>10. Loading(m.who) /\ seqs = <<>> => ~Stalled(loads[m.who])
  <2> SUFFICES ASSUME Loading(m.who), seqs = <<>>, Stalled(loads[m.who]) PROVE FALSE
    OBVIOUS
  <2>1. m.who \in Loads
    BY <1>2, <1>6 DEF ClientInv, ClientType
  <2>2. Len(loads[m.who].seqs) < Len(stored[loads[m.who].session])
    BY <2>1 DEF ClientInv, LoadsPage, PagingFits, Behind
  <2>3. Len(loads[m.who].seqs) = after /\ Len(stored[loads[m.who].session]) = end
    BY <1>2, <1>6
  <2> QED
    BY <1>1, <1>3, <1>9, <2>2, <2>3
<1>11. m.head <= Len(stored[m.session]) /\ (m.seqs = <<>> => ~m.more)
  <2>1. 0 <= end /\ Len(stored[m.session]) = end
    BY <1>3, <1>6
  <2>2. ~(end < end)
    BY <1>3
  <2> QED
    BY <1>6, <1>8, <1>9, <2>1, <2>2
<1>12. m \in FitReplies
  BY <1>2, <1>5, <1>6, <1>7, <1>10, <1>11 DEF FitReplies, IsPage
<1> QED
  BY <1>12 DEF m, seqs, after

LEMMA HeadAndTail ==
    ASSUME NEW S, NEW q \in Seq(S), q # <<>>
    PROVE  Head(q) \in S /\ Tail(q) \in Seq(S)
  OBVIOUS

LEMMA ServeEventsKeeps ==
    ASSUME ClientInv, ServeEvents
    PROVE  ClientInv'
<1>1. PICK request : request = Head(inbox)
  OBVIOUS
<1>2. PICK reply : /\ reply = serving' /\ reply \in FitReplies /\ reply.kind = "events"
                   /\ reply.who = request.who
  <2>1. inbox \in Seq(FitRequests) /\ inbox # <<>>
    BY DEF ClientInv, MessagesFit, ServeEvents
  <2>2. request \in FitRequests /\ request.kind = "events"
    BY <1>1, <2>1, HeadAndTail DEF ServeEvents
  <2> DEFINE end == Len(stored[request.session])
             last == Min({end, request.after + PageSize})
             reply == Reply(request, TRUE, [k \in 1 .. last - request.after |-> request.after + k],
                            last < end, 0)
  <2>3. serving' = reply
    BY <1>1 DEF ServeEvents
  <2>4. reply \in FitReplies
    BY <2>2, PageAnswers DEF IsPage
  <2>5. reply.kind = "events" /\ reply.who = request.who
    BY <2>2 DEF Reply
  <2> HIDE DEF reply
  <2> QED
    BY <2>3, <2>4, <2>5
<1>3. /\ UNCHANGED <<stored, unsent, selected, transcript, Replay, pipe, ready>>
      /\ serving = Nothing /\ inbox # <<>> /\ inbox' = Tail(inbox) /\ Head(inbox).kind = "events"
  BY DEF ServeEvents, Store, Screen
<1>4. StoreGrows
  BY <1>3, StoreSame DEF ClientInv
<1>5. inbox' \in Seq(FitRequests')
  BY <1>3, <1>4, Fits, HeadAndTail
<1>6. serving' \in FitReplies' \cup {Nothing}
  BY <1>2, <1>3, <1>4, Fits
<1>7. \A g \in Loads : InFlight(g)' <= InFlight(g)
  <2> TAKE g \in Loads
  <2>1. inbox \in Seq(FitRequests)
    BY DEF ClientInv, MessagesFit
  <2>2. Count(inbox, g) = Count(inbox', g) + IF Pages(g, request) THEN 1 ELSE 0
    BY <1>1, <1>3, <2>1, CountTail
  <2>3. Pages(g, serving') <=> Pages(g, request)
    BY <1>1, <1>2, <1>3 DEF Pages, IsPage
  <2>4. ~Pages(g, serving)
    BY <1>3 DEF Pages, IsPage, Nothing
  <2>5. Count(inbox', g) \in Nat
    BY <1>5, CountType
  <2> QED
    BY <1>3, <2>2, <2>3, <2>4, <2>5, FlightNow, CountsAre DEF InFlight
<1> QED
  BY <1>3, <1>4, <1>5, <1>6, <1>7, Fits, MessagesMove

LEMMA ServeHeadKeeps ==
    ASSUME ClientInv, ServeHead
    PROVE  ClientInv'
<1>1. PICK reply : reply = [serving EXCEPT !.head = Len(stored[serving.session])]
  OBVIOUS
<1>2. /\ UNCHANGED <<stored, unsent, selected, transcript, Replay, inbox, ready>>
      /\ serving # Nothing /\ serving' = Nothing /\ pipe' = Append(pipe, reply)
  BY <1>1 DEF ServeHead, Store, Screen
<1>3. StoreGrows
  BY <1>2, StoreSame DEF ClientInv
<1>4. serving \in FitReplies
  BY <1>2 DEF ClientInv, MessagesFit
<1>5. reply \in FitReplies /\ reply.kind = serving.kind /\ reply.who = serving.who
  <2>1. serving \in Replies /\ serving.session \in Sessions
    BY <1>4 DEF FitReplies, Replies
  <2>2. Len(stored[serving.session]) \in Nat
    BY <2>1 DEF ClientInv, ClientType
  <2>3. /\ reply \in Replies /\ reply.kind = serving.kind /\ reply.who = serving.who
        /\ reply.session = serving.session /\ reply.seqs = serving.seqs /\ reply.more = serving.more
        /\ reply.head <= Len(stored[reply.session])
    BY <1>1, <2>1, <2>2 DEF Replies
  <2> QED
    BY <1>4, <2>3 DEF FitReplies, IsPage
<1>6. pipe' \in Seq(FitReplies' \cup RealNotices')
  <2> DEFINE S == FitReplies' \cup RealNotices'
  <2>1. pipe \in Seq(S) /\ reply \in S
    BY <1>2, <1>3, <1>5, Fits
  <2> HIDE DEF S
  <2>2. Append(pipe, reply) \in Seq(S)
    BY <2>1, Longer
  <2> QED
    BY <1>2, <2>2 DEF S
<1>7. \A g \in Loads : InFlight(g)' <= InFlight(g)
  <2> TAKE g \in Loads
  <2>1. pipe \in Seq(FitReplies \cup RealNotices)
    BY DEF ClientInv, MessagesFit
  <2>2. Count(pipe', g) = Count(pipe, g) + IF Pages(g, serving) THEN 1 ELSE 0
    <3>1. Pages(g, reply) <=> Pages(g, serving)
      BY <1>5 DEF Pages, IsPage
    <3> QED
      BY <1>2, <2>1, <3>1, CountAppend
  <2>3. ~Pages(g, serving')
    BY <1>2 DEF Pages, IsPage, Nothing
  <2> QED
    BY <1>2, <2>2, <2>3, FlightNow, CountsAre DEF InFlight
<1> QED
  BY <1>2, <1>3, <1>6, <1>7, Fits, MessagesMove

\* A request that is not for a page is answered.
LEMMA AnswerMoves ==
    ASSUME ClientInv, StoreGrows, UNCHANGED <<selected, transcript, Replay, ready, unsent, serving>>,
           inbox # <<>>, inbox' = Tail(inbox), pipe' \in Seq(FitReplies' \cup RealNotices'),
           \A g : Count(pipe', g) = Count(pipe, g)
    PROVE  ClientInv'
<1>1. inbox \in Seq(FitRequests)
  BY DEF ClientInv, MessagesFit
<1>2. UNCHANGED Replay
  OBVIOUS
<1>3. inbox' \in Seq(FitRequests')
  BY <1>2, Fits, HeadAndTail
<1>4. \A g \in Loads : InFlight(g)' <= InFlight(g)
  <2> TAKE g \in Loads
  <2>1. Count(inbox, g) = Count(inbox', g) + IF Pages(g, Head(inbox)) THEN 1 ELSE 0
    BY <1>1, CountTail
  <2>2. Count(inbox', g) \in Nat
    BY <1>3, CountType
  <2>3. Count(inbox', g) <= Count(inbox, g)
    BY <2>1, <2>2
  <2>4. Count(inbox, g) \in Nat /\ Count(pipe, g) \in Nat /\ Count(ready, g) \in Nat
    BY CountsAre
  <2>5. Count(pipe', g) = Count(pipe, g) /\ Count(ready', g) = Count(ready, g) /\ serving' = serving
    OBVIOUS
  <2> QED
    BY <2>2, <2>3, <2>4, <2>5, FlightNow DEF InFlight
<1> QED
  BY <1>2, <1>3, <1>4, Fits, MessagesMove

\* An answer without a page.
LEMMA OtherReply ==
    ASSUME NEW request \in FitRequests, ~IsPage(request), NEW ok \in BOOLEAN, NEW reply,
           reply = Reply(request, ok, <<>>, FALSE, 0)
    PROVE  reply \in FitReplies /\ \A g : ~Pages(g, reply)
<1>1. request \in Requests
  BY DEF FitRequests
<1>2. reply \in Replies /\ reply.kind = request.kind
  BY <1>1 DEF Reply, Requests, Replies, Kinds
<1> QED
  BY <1>2 DEF FitReplies, Pages, IsPage

LEMMA RespondKeeps ==
    ASSUME ClientInv, UNCHANGED <<stored, unsent, selected, transcript, Replay, ready>>, inbox # <<>>,
           NEW request, request = Head(inbox), ~IsPage(request), NEW ok \in BOOLEAN,
           Respond(request, ok)
    PROVE  ClientInv'
<1>1. PICK reply : reply = Reply(request, ok, <<>>, FALSE, 0)
  OBVIOUS
<1>2. pipe' = Append(pipe, reply) /\ inbox' = Tail(inbox) /\ serving' = serving
  BY <1>1 DEF Respond
<1>3. inbox \in Seq(FitRequests) /\ pipe \in Seq(FitReplies \cup RealNotices)
  BY DEF ClientInv, MessagesFit
<1>4. reply \in FitReplies /\ \A g : ~Pages(g, reply)
  BY <1>1, <1>3, HeadAndTail, OtherReply
<1>5. StoreGrows /\ UNCHANGED Replay
  BY StoreSame DEF ClientInv
<1>6. pipe' \in Seq(FitReplies' \cup RealNotices')
  <2> DEFINE S == FitReplies' \cup RealNotices'
  <2>1. pipe \in Seq(S) /\ reply \in S
    BY <1>4, <1>5, Fits
  <2> HIDE DEF S
  <2>2. Append(pipe, reply) \in Seq(S)
    BY <2>1, Longer
  <2> QED
    BY <1>2, <2>2 DEF S
<1>7. \A g : Count(pipe', g) = Count(pipe, g)
  <2> SUFFICES ASSUME NEW g PROVE Count(pipe', g) = Count(pipe, g)
    OBVIOUS
  <2>1. Count(pipe', g) = Count(pipe, g) + 0 /\ Count(pipe, g) \in Nat
    BY <1>2, <1>3, <1>4, CountAppend, CountsAre
  <2> QED
    BY <2>1
<1> QED
  BY <1>2, <1>5, <1>6, <1>7, AnswerMoves

\* Two messages are added one by one.
LEMMA TwoMore ==
    ASSUME NEW S, NEW q \in Seq(S), NEW a \in S, NEW b \in S
    PROVE  q \o <<a, b>> = Append(Append(q, a), b)
<1> DEFINE r == q \o <<a, b>>
           t == Append(Append(q, a), b)
<1>1. r \in Seq(S) /\ Len(r) = Len(q) + 2 /\ Len(q) \in Nat
  OBVIOUS
<1>2. t \in Seq(S) /\ Len(t) = Len(q) + 2
  OBVIOUS
<1>3. ASSUME NEW k \in 1 .. Len(q) + 2 PROVE r[k] = t[k]
  <2>1. CASE k \in 1 .. Len(q)
    BY <2>1
  <2>2. CASE k = Len(q) + 1
    BY <2>2
  <2>3. CASE k = Len(q) + 2
    BY <2>3
  <2> QED
    BY <1>1, <1>3, <2>1, <2>2, <2>3
<1> HIDE DEF r, t
<1>4. r = t
  BY <1>1, <1>2, <1>3, SeqEqual
<1> QED
  BY <1>4 DEF r, t

\* approval.resolve writes an event, announces it and answers.
LEMMA ResolveKeeps ==
    ASSUME ClientInv, UNCHANGED <<unsent, selected, transcript, Replay, ready, serving>>, inbox # <<>>,
           NEW request, request = Head(inbox), ~IsPage(request), NEW s, s = request.session,
           stored' = [stored EXCEPT ![s] = Append(stored[s], "resolved")],
           pipe' = pipe \o <<[kind |-> "event", event |-> NextEvent(s, "resolved")],
                             Reply(request, TRUE, <<>>, FALSE, 0)>>,
           inbox' = Tail(inbox)
    PROVE  ClientInv'
<1>1. PICK reply : reply = Reply(request, TRUE, <<>>, FALSE, 0)
  OBVIOUS
<1>2. PICK event : event = NextEvent(s, "resolved")
  OBVIOUS
<1>3. PICK m : m = [kind |-> "event", event |-> event]
  OBVIOUS
<1>4. inbox \in Seq(FitRequests) /\ pipe \in Seq(FitReplies \cup RealNotices)
  BY DEF ClientInv, MessagesFit
<1>5. request \in FitRequests /\ s \in Sessions
  <2>1. request \in FitRequests
    BY <1>4, HeadAndTail
  <2> QED
    BY <2>1 DEF FitRequests, Requests
<1>6. reply \in FitReplies /\ \A g : ~Pages(g, reply)
  BY <1>1, <1>5, OtherReply
<1>7. StoreGrows /\ event \in Events /\ event.session = s /\ event \in EventsOf(s)'
  <2>1. "resolved" \in Types /\ ClientType
    BY DEF Types, ClientInv
  <2> QED
    BY <1>2, <1>5, <2>1, WriteGrows
<1>8. m \in RealNotices' /\ \A g : ~Pages(g, m)
  <2>1. m.event = event /\ m \in Notices
    BY <1>3, <1>7 DEF Notices
  <2>2. m.event \in EventsOf(m.event.session)'
    BY <1>7, <2>1
  <2> QED
    BY <1>3, <2>1, <2>2 DEF RealNotices, Pages, IsPage
<1>9. pipe' \in Seq(FitReplies' \cup RealNotices') /\ \A g : Count(pipe', g) = Count(pipe, g)
  <2> DEFINE S == FitReplies' \cup RealNotices'
  <2>1. pipe \in Seq(S) /\ reply \in S /\ m \in S
    BY <1>6, <1>7, <1>8, Fits
  <2>2. pipe' = pipe \o <<m, reply>>
    BY <1>1, <1>2, <1>3
  <2> HIDE DEF S
  <2>3. pipe' = Append(Append(pipe, m), reply)
    <3>1. pipe \o <<m, reply>> = Append(Append(pipe, m), reply)
      BY <2>1, TwoMore
    <3> QED
      BY <2>2, <3>1, Zenon
  <2>4. Append(pipe, m) \in Seq(S) /\ Append(Append(pipe, m), reply) \in Seq(S)
    BY <2>1, Longer
  <2>5. ASSUME NEW g PROVE Count(pipe', g) = Count(pipe, g)
    <3>1. Count(pipe, g) \in Nat
      BY CountsAre
    <3>2. Count(Append(pipe, m), g) = Count(pipe, g) + 0
      BY <1>8, <2>1, CountAppend
    <3>3. Count(pipe', g) = Count(Append(pipe, m), g) + 0
      BY <1>6, <2>3, <2>4, CountAppend
    <3> QED
      BY <3>1, <3>2, <3>3
  <2> QED
    BY <2>3, <2>4, <2>5 DEF S
<1>10. UNCHANGED Replay
  OBVIOUS
<1> QED
  BY <1>7, <1>9, <1>10, AnswerMoves

\* The Worker answers, and writes an event when it resolves an approval.
Answers(request, s) ==
    /\ UNCHANGED <<selected, transcript, Replay, ready>> /\ UNCHANGED failures
    /\ inbox # <<>> /\ ~IsPage(request)
    /\ \/ UNCHANGED <<stored, unsent>> /\ \E ok \in BOOLEAN : Respond(request, ok)
       \/ /\ UNCHANGED <<unsent, serving>>
          /\ stored' = [stored EXCEPT ![s] = Append(stored[s], "resolved")]
          /\ pipe' = pipe \o <<[kind |-> "event", event |-> NextEvent(s, "resolved")],
                               Reply(request, TRUE, <<>>, FALSE, 0)>>
          /\ inbox' = Tail(inbox)

\* What Serve does, kind by kind, is one of the two.
LEMMA ServeIs ==
    ASSUME Serve, NEW request, request = Head(inbox), NEW s, s = request.session
    PROVE  Answers(request, s)
<1>1. UNCHANGED <<selected, transcript, Replay, ready>> /\ UNCHANGED failures /\ inbox # <<>>
  BY DEF Serve, Screen
<1>2. CASE request.kind = "approvals"
  <2>1. Respond(request, Pending(s)) /\ UNCHANGED Store
    BY <1>2 DEF Serve
  <2>2. Pending(s) \in BOOLEAN
    BY DEF Pending, LastIs
  <2> QED
    BY <1>1, <1>2, <2>1, <2>2 DEF Answers, Store, IsPage
<1>3. CASE request.kind = "start"
  <2>1. Respond(request, run[s] \in {"none", "ended"}) /\ UNCHANGED <<stored, unsent>>
    BY <1>3 DEF Serve
  <2>2. (run[s] \in {"none", "ended"}) \in BOOLEAN
    OBVIOUS
  <2> QED
    BY <1>1, <1>3, <2>1, <2>2 DEF Answers, IsPage
<1>4. CASE request.kind = "resolve"
  <2>1. CASE ~Pending(s)
    <3>1. Respond(request, FALSE) /\ UNCHANGED <<stored, unsent>>
      BY <1>4, <2>1 DEF Serve
    <3> QED
      BY <1>1, <1>4, <3>1 DEF Answers, IsPage
  <2>2. CASE Pending(s)
    <3>1. /\ UNCHANGED <<unsent, serving>> /\ Write(s, "resolved") /\ inbox' = Tail(inbox)
          /\ pipe' = pipe \o <<[kind |-> "event", event |-> NextEvent(s, "resolved")],
                               Reply(request, TRUE, <<>>, FALSE, 0)>>
      BY <1>4, <2>2 DEF Serve
    <3> QED
      BY <1>1, <1>4, <3>1 DEF Answers, IsPage, Write
  <2> QED
    BY <2>1, <2>2
<1>5. CASE request.kind = "resume"
  <2>1. Respond(request, run[s] = "suspended" /\ ~Pending(s)) /\ UNCHANGED <<stored, unsent>>
    BY <1>5 DEF Serve
  <2>2. (run[s] = "suspended" /\ ~Pending(s)) \in BOOLEAN
    OBVIOUS
  <2> QED
    BY <1>1, <1>5, <2>1, <2>2 DEF Answers, IsPage
<1>6. request.kind \in {"approvals", "start", "resolve", "resume"}
  BY DEF Serve
<1> QED
  BY <1>2, <1>3, <1>4, <1>5, <1>6

LEMMA ServeKeeps ==
    ASSUME ClientInv, Serve
    PROVE  ClientInv'
<1>1. PICK request : request = Head(inbox)
  OBVIOUS
<1>2. PICK s : s = request.session
  OBVIOUS
<1>3. /\ UNCHANGED <<selected, transcript, Replay, ready>> /\ inbox # <<>> /\ ~IsPage(request)
      /\ \/ UNCHANGED <<stored, unsent>> /\ \E ok \in BOOLEAN : Respond(request, ok)
         \/ /\ UNCHANGED <<unsent, serving>>
            /\ stored' = [stored EXCEPT ![s] = Append(stored[s], "resolved")]
            /\ pipe' = pipe \o <<[kind |-> "event", event |-> NextEvent(s, "resolved")],
                                 Reply(request, TRUE, <<>>, FALSE, 0)>>
            /\ inbox' = Tail(inbox)
  <2>1. Answers(request, s)
    BY <1>1, <1>2, ServeIs
  <2> QED
    BY <2>1, Zenon DEF Answers
<1>4. CASE UNCHANGED <<stored, unsent>> /\ \E ok \in BOOLEAN : Respond(request, ok)
  <2>1. PICK ok \in BOOLEAN : Respond(request, ok)
    BY <1>4
  <2> QED
    BY <1>1, <1>3, <1>4, <2>1, RespondKeeps
<1> QED
  BY <1>1, <1>2, <1>3, <1>4, ResolveKeeps
-----------------------------------------------------------------------------
(* The client.                                                             *)

\* A reply or a notice is handled, or none; requests are made that are not for pages, or none.
Handled ==
    /\ pipe' \in Seq(FitReplies \cup RealNotices) /\ ready' \in Seq(FitReplies)
    /\ \A g : Count(pipe', g) + Count(ready', g) <= Count(pipe, g) + Count(ready, g)
Asked == inbox' \in Seq(FitRequests) /\ \A g : Count(inbox', g) <= Count(inbox, g)
OtherRequests == {m \in Requests : ~IsPage(m)}

\* The parts of the client that are no messages.
ViewsHold ==
    /\ stored' = stored /\ unsent' = unsent /\ serving' = serving
    /\ selected' \in Sessions
    /\ transcript' = [session |-> selected', seqs |-> transcript'.seqs]
    /\ Shows(transcript'.seqs, selected')
    /\ loading' \in [Sessions -> 0 .. MaxLoads]
    /\ generation' \in Loads /\ generation <= generation'
    /\ loads' \in [Loads -> LoadStates]
    /\ \A s \in Sessions : buffered'[s] \in Seq(EventsOf(s))
    /\ buffered' \in [Sessions -> Seq(Events)]

\* A step of the client, by the parts of the invariant.
LEMMA ClientStep ==
    ASSUME ClientInv, ViewsHold, LoadsShow', LoadsPage', MessagesFit', OnePage'
    PROVE  ClientInv'
<1>1. ClientType'
  BY DEF ViewsHold, ClientInv, ClientType
<1>2. ScreenShows'
  BY DEF ViewsHold, ScreenShows, Shows
<1>3. EventsReal'
  BY DEF ViewsHold, ClientInv, EventsReal, EventsOf
<1> QED
  BY <1>1, <1>2, <1>3 DEF ClientInv

\* No load changes what it has read, but it may end.
LEMMA QuietStep ==
    ASSUME ClientInv, ViewsHold, Handled, Asked,
           \A g \in Loads : Loading(g)' => SameLoad(g)
    PROVE  ClientInv'
<1>1. StoreGrows /\ ClientType /\ generation' \in Nat /\ generation <= generation' /\ stored' = stored
      /\ serving' = serving
  BY StoreSame DEF ClientInv, ViewsHold
<1>2. MessagesFit'
  <2>1. \A g \in 1 .. generation : Loading(g)' => SameLoad(g)
    BY DEF ClientInv, ClientType
  <2>2. serving \in FitReplies \cup {Nothing}
    BY DEF ClientInv, MessagesFit
  <2> QED
    BY <1>1, <2>1, <2>2, SetsStill DEF MessagesFit, Handled, Asked
<1>3. LoadsShow'
  <2> SUFFICES ASSUME NEW g \in Loads, Loading(g)'
               PROVE  g <= generation' /\ Shows(loads[g].seqs, loads[g].session)'
    BY DEF LoadsShow
  <2>1. SameLoad(g)
    OBVIOUS
  <2>2. g <= generation /\ Shows(loads[g].seqs, loads[g].session)
    BY <2>1 DEF ClientInv, LoadsShow, SameLoad
  <2>3. g <= generation'
    BY <1>1, <2>2 DEF ClientType
  <2> QED
    BY <1>1, <2>1, <2>2, <2>3 DEF SameLoad, Shows
<1>4. OnePage'
  <2> SUFFICES ASSUME NEW g \in Loads, Loading(g)'
               PROVE  InFlight(g)' <= IF loads'[g].paging THEN 1 ELSE 0
    BY DEF OnePage
  <2>1. SameLoad(g)
    OBVIOUS
  <2>2. InFlight(g) <= IF loads[g].paging THEN 1 ELSE 0
    BY <2>1 DEF ClientInv, OnePage, SameLoad
  <2>3. Count(inbox', g) \in Nat /\ Count(pipe', g) \in Nat /\ Count(ready', g) \in Nat
    BY CountType DEF Handled, Asked
  <2>4. Count(inbox, g) \in Nat /\ Count(pipe, g) \in Nat /\ Count(ready, g) \in Nat
    BY CountsAre
  <2>5. /\ Count(inbox', g) <= Count(inbox, g)
        /\ Count(pipe', g) + Count(ready', g) <= Count(pipe, g) + Count(ready, g)
    BY DEF Handled, Asked
  <2>6. InFlight(g)' <= InFlight(g)
    BY <1>1, <2>3, <2>4, <2>5, FewerInFlight
  <2>7. InFlight(g) \in Nat /\ InFlight(g)' \in Nat
    BY <2>3, <2>4, FlightNow DEF InFlight
  <2> HIDE DEF InFlight
  <2> QED
    BY <2>1, <2>2, <2>6, <2>7 DEF SameLoad
<1>5. LoadsPage'
  <2> SUFFICES ASSUME NEW g \in Loads, Loading(g)' PROVE PagingFits(loads[g])'
    BY DEF LoadsPage
  <2>1. SameLoad(g)
    OBVIOUS
  <2>2. PagingFits(loads[g])
    BY <2>1 DEF ClientInv, LoadsPage, SameLoad
  <2> QED
    BY <1>1, <2>1, <2>2 DEF PagingFits, Stalled, Behind, SameLoad
<1> QED
  BY <1>2, <1>3, <1>4, <1>5, ClientStep

\* One load goes on or starts while no page is on its way for it.
LEMMA LoadStep ==
    ASSUME ClientInv, ViewsHold, Handled, NEW g0 \in Loads, g0 <= generation',
           Shows(loads'[g0].seqs, loads'[g0].session), PagingFits(loads'[g0]),
           \A g \in Loads : g # g0 => loads'[g] = loads[g],
           Count(inbox, g0) = 0, ~Pages(g0, serving), Count(pipe', g0) = 0, Count(ready', g0) = 0,
           inbox \in Seq(FitRequests') => inbox' \in Seq(FitRequests'),
           \A g : g # g0 => Count(inbox', g) <= Count(inbox, g),
           Count(inbox', g0) <= IF loads'[g0].paging THEN 1 ELSE 0
    PROVE  ClientInv'
<1>1. StoreGrows /\ ClientType /\ generation' \in Nat /\ generation <= generation' /\ stored' = stored
      /\ serving' = serving
  BY StoreSame DEF ClientInv, ViewsHold
<1>2. \A g \in 1 .. generation : g \in Loads /\ (g # g0 /\ Loading(g)' => SameLoad(g))
  <2>1. \A g \in 1 .. generation : g \in Loads
    BY DEF ClientInv, ClientType
  <2> QED
    BY <2>1 DEF Loading, SameLoad
<1>3. /\ inbox \in Seq(FitRequests) /\ serving \in FitReplies \cup {Nothing}
      /\ pipe' \in Seq(FitReplies \cup RealNotices) /\ ready' \in Seq(FitReplies)
  BY DEF ClientInv, MessagesFit, Handled
<1>4. /\ \A m \in FitRequests : ~Pages(g0, m) => m \in FitRequests'
      /\ \A m \in FitReplies : ~Pages(g0, m) => m \in FitReplies'
      /\ RealNotices \subseteq RealNotices'
  BY <1>1, <1>2, FitStill, StoreStill
<1>5. MessagesFit'
  <2>1. inbox \in Seq(FitRequests')
    <3>1. \A k \in DOMAIN inbox : ~Pages(g0, inbox[k])
      BY <1>3, CountType
    <3> QED
      BY <1>3, <1>4, <3>1, Within
  <2>2. ready' \in Seq(FitReplies')
    <3>1. \A k \in DOMAIN ready' : ~Pages(g0, ready'[k])
      BY <1>3, CountType
    <3> QED
      BY <1>3, <1>4, <3>1, Within
  <2>3. pipe' \in Seq(FitReplies' \cup RealNotices')
    <3>1. \A k \in DOMAIN pipe' : ~Pages(g0, pipe'[k])
      BY <1>3, CountType
    <3>2. \A m \in FitReplies \cup RealNotices : ~Pages(g0, m) => m \in FitReplies' \cup RealNotices'
      BY <1>4
    <3> QED
      BY <1>3, <3>1, <3>2, Within
  <2>4. serving' \in FitReplies' \cup {Nothing}
    BY <1>1, <1>3, <1>4
  <2> QED
    BY <2>1, <2>2, <2>3, <2>4 DEF MessagesFit
<1>6. LoadsShow'
  <2> SUFFICES ASSUME NEW g \in Loads, Loading(g)'
               PROVE  g <= generation' /\ Shows(loads[g].seqs, loads[g].session)'
    BY DEF LoadsShow
  <2>1. CASE g = g0
    BY <1>1, <2>1 DEF Shows
  <2>2. CASE g # g0
    <3>1. loads'[g] = loads[g] /\ Loading(g)
      BY <2>2 DEF Loading
    <3>2. g <= generation /\ Shows(loads[g].seqs, loads[g].session)
      BY <3>1 DEF ClientInv, LoadsShow
    <3>3. g <= generation'
      BY <1>1, <3>2 DEF ClientType
    <3> QED
      BY <1>1, <3>1, <3>2, <3>3 DEF Shows
  <2> QED
    BY <2>1, <2>2
<1>7. OnePage'
  <2> SUFFICES ASSUME NEW g \in Loads, Loading(g)'
               PROVE  InFlight(g)' <= IF loads'[g].paging THEN 1 ELSE 0
    BY DEF OnePage
  <2>1. Count(inbox', g) \in Nat /\ Count(pipe', g) \in Nat /\ Count(ready', g) \in Nat
    BY <1>3, <1>5, CountType DEF MessagesFit
  <2>2. CASE g = g0
    <3>1. InFlight(g)' = Count(inbox', g0)
      BY <1>1, <2>1, <2>2, FlightNow
    <3> QED
      BY <2>2, <3>1
  <2>3. CASE g # g0
    <3>1. loads'[g] = loads[g] /\ Loading(g)
      BY <2>3 DEF Loading
    <3>2. InFlight(g) <= IF loads[g].paging THEN 1 ELSE 0
      BY <3>1 DEF ClientInv, OnePage
    <3>3. Count(inbox, g) \in Nat /\ Count(pipe, g) \in Nat /\ Count(ready, g) \in Nat
      BY CountsAre
    <3>4. /\ Count(inbox', g) <= Count(inbox, g)
          /\ Count(pipe', g) + Count(ready', g) <= Count(pipe, g) + Count(ready, g)
      BY <2>3 DEF Handled
    <3>5. InFlight(g)' <= InFlight(g)
      BY <1>1, <2>1, <3>3, <3>4, FewerInFlight
    <3>6. InFlight(g) \in Nat
      BY <3>3 DEF InFlight
    <3>7. InFlight(g)' \in Nat
      BY <2>1, FlightNow
    <3> HIDE DEF InFlight
    <3> QED
      BY <3>1, <3>2, <3>5, <3>6, <3>7
  <2> QED
    BY <2>2, <2>3
<1>8. LoadsPage'
  <2> SUFFICES ASSUME NEW g \in Loads, Loading(g)' PROVE PagingFits(loads[g])'
    BY DEF LoadsPage
  <2>1. CASE g = g0
    BY <1>1, <2>1 DEF PagingFits, Stalled, Behind
  <2>2. CASE g # g0
    <3>1. loads'[g] = loads[g] /\ Loading(g)
      BY <2>2 DEF Loading
    <3> QED
      BY <1>1, <3>1 DEF ClientInv, LoadsPage, PagingFits, Stalled, Behind
  <2> QED
    BY <2>1, <2>2
<1> QED
  BY <1>5, <1>6, <1>7, <1>8, ClientStep

\* Nothing is taken from the pipe.
LEMMA HandledNone ==
    ASSUME ClientInv, UNCHANGED <<pipe, ready>>
    PROVE  Handled
<1>1. pipe \in Seq(FitReplies \cup RealNotices) /\ ready \in Seq(FitReplies)
  BY DEF ClientInv, MessagesFit
<1>2. \A g : Count(pipe, g) + Count(ready, g) \in Nat
  BY CountsAre
<1> QED
  BY <1>1, <1>2 DEF Handled

\* A message of the pipe is a notice of an event or a reply.
LEMMA HandledMessage ==
    ASSUME ClientInv, pipe # <<>>, pipe' = Tail(pipe)
    PROVE  /\ Head(pipe).kind = "event" => Head(pipe) \in RealNotices
           /\ Head(pipe).kind = "event" /\ ready' = ready => Handled
           /\ Head(pipe).kind # "event" /\ ready' = Append(ready, Head(pipe)) => Handled
<1>1. PICK m : m = Head(pipe)
  OBVIOUS
<1>2. pipe \in Seq(FitReplies \cup RealNotices) /\ ready \in Seq(FitReplies)
  BY DEF ClientInv, MessagesFit
<1>3. m \in FitReplies \cup RealNotices /\ pipe' \in Seq(FitReplies \cup RealNotices)
  <2> DEFINE S == FitReplies \cup RealNotices
  <2> HIDE DEF S
  <2>1. pipe \in Seq(S)
    BY <1>2 DEF S
  <2>2. m \in S /\ pipe' \in Seq(S)
    BY <1>1, <2>1, HeadAndTail
  <2> QED
    BY <2>2 DEF S
<1>4. (m \in FitReplies => m.kind # "event") /\ (m \in RealNotices => m.kind = "event")
  BY DEF FitReplies, Replies, Kinds, RealNotices, Notices
<1>5. \A g : /\ Count(pipe, g) = Count(pipe', g) + IF Pages(g, m) THEN 1 ELSE 0
             /\ Count(pipe', g) \in Nat /\ Count(ready, g) \in Nat
  BY <1>1, <1>2, <1>3, CountTail, CountType
<1>6. ASSUME ready' = ready PROVE Handled
  <2>1. \A g : Count(pipe', g) + Count(ready', g) <= Count(pipe, g) + Count(ready, g)
    BY <1>5, <1>6
  <2> QED
    BY <1>2, <1>3, <1>6, <2>1 DEF Handled
<1>7. ASSUME m \in FitReplies, ready' = Append(ready, m) PROVE Handled
  <2>1. ready' \in Seq(FitReplies)
    BY <1>2, <1>7, Longer
  <2>2. \A g : Count(ready', g) = Count(ready, g) + IF Pages(g, m) THEN 1 ELSE 0
    BY <1>2, <1>7, CountAppend
  <2>3. \A g : Count(pipe', g) + Count(ready', g) <= Count(pipe, g) + Count(ready, g)
    BY <1>5, <2>2
  <2> QED
    BY <1>3, <2>1, <2>3 DEF Handled
<1> QED
  BY <1>1, <1>3, <1>4, <1>6, <1>7

\* The continuation of a reply runs.
LEMMA HandledReply ==
    ASSUME ClientInv, ready # <<>>, ready' = Tail(ready), pipe' = pipe
    PROVE  Handled /\ Head(ready) \in FitReplies
           /\ \A g : Count(ready', g) \in Nat /\ Count(ready, g) = Count(ready', g) + IF Pages(g, Head(ready)) THEN 1 ELSE 0
<1>1. pipe \in Seq(FitReplies \cup RealNotices) /\ ready \in Seq(FitReplies)
  BY DEF ClientInv, MessagesFit
<1>2. Head(ready) \in FitReplies /\ ready' \in Seq(FitReplies)
  BY <1>1, HeadAndTail
<1>3. \A g : /\ Count(ready, g) = Count(ready', g) + IF Pages(g, Head(ready)) THEN 1 ELSE 0
             /\ Count(ready', g) \in Nat /\ Count(pipe, g) \in Nat
  BY <1>1, <1>2, CountTail, CountType
<1>4. \A g : Count(pipe', g) + Count(ready', g) <= Count(pipe, g) + Count(ready, g)
  BY <1>3
<1> QED
  BY <1>1, <1>2, <1>3, <1>4 DEF Handled

\* Nothing is asked.
LEMMA AskedNone ==
    ASSUME ClientInv, inbox' = inbox
    PROVE  Asked
<1>1. inbox \in Seq(FitRequests) /\ \A g : Count(inbox, g) \in Nat
  BY CountsAre DEF ClientInv, MessagesFit
<1> QED
  BY <1>1 DEF Asked

\* A request is made that is not for a page.
LEMMA AskedOne ==
    ASSUME ClientInv, NEW m \in OtherRequests, inbox' = Append(inbox, m)
    PROVE  Asked
<1>1. inbox \in Seq(FitRequests) /\ \A g : Count(inbox, g) \in Nat
  BY CountsAre DEF ClientInv, MessagesFit
<1>2. m \in FitRequests /\ \A g : ~Pages(g, m)
  BY DEF OtherRequests, FitRequests, Pages
<1>3. inbox' \in Seq(FitRequests) /\ \A g : Count(inbox', g) = Count(inbox, g) + 0
  BY <1>1, <1>2, CountAppend, Longer
<1> QED
  BY <1>1, <1>3 DEF Asked

\* Nothing changes but messages.
LEMMA ViewsSame ==
    ASSUME ClientInv, UNCHANGED <<stored, unsent, serving, selected, transcript, Replay>>
    PROVE  /\ ViewsHold
           /\ \A g \in Loads : Loading(g)' => SameLoad(g)
<1>1. generation \in Nat /\ generation <= generation
  BY DEF ClientInv, ClientType
<1> QED
  BY <1>1 DEF ClientInv, ClientType, ScreenShows, EventsReal, ViewsHold, Replay, Loading, SameLoad, Shows

\* A request for approvals, or of a command, is not for a page.
LEMMA OtherIs ==
    ASSUME NEW kind \in {"approvals", "start", "resolve", "resume"}, NEW s \in Sessions, NEW who \in Nat
    PROVE  Request(kind, s, who, 0) \in OtherRequests
  BY DEF OtherRequests, Requests, Request, Kinds, IsPage

LEMMA CommandKeeps ==
    ASSUME ClientInv, Submit \/ ResolveApproval
    PROVE  ClientInv'
<1>1. /\ UNCHANGED <<stored, unsent, serving, selected, transcript, Replay>> /\ UNCHANGED <<pipe, ready>>
      /\ \E m \in OtherRequests : inbox' = Append(inbox, m)
  <2>1. selected \in Sessions /\ 0 \in Nat
    BY DEF ClientInv, ClientType
  <2>2. CASE Submit
    <3>1. Request("start", selected, 0, 0) \in OtherRequests
      BY <2>1, OtherIs
    <3> QED
      BY <2>2, <3>1 DEF Submit, Store
  <2>3. CASE ResolveApproval
    <3>1. Request("resolve", selected, 0, 0) \in OtherRequests
      BY <2>1, OtherIs
    <3> QED
      BY <2>3, <3>1 DEF ResolveApproval, Store, Screen
  <2> QED
    BY <2>2, <2>3
<1> QED
  BY <1>1, HandledNone, AskedOne, ViewsSame, QuietStep

\* A command has its reply.
LEMMA ContinueKeeps ==
    ASSUME ClientInv, ready # <<>>, ready' = Tail(ready), UNCHANGED <<Store, serving, pipe>>,
           NEW reply, reply = Head(ready), Continue(reply), UNCHANGED <<selected, transcript, Replay>>
    PROVE  ClientInv'
<1>1. UNCHANGED <<stored, unsent, serving, selected, transcript, Replay>> /\ pipe' = pipe
  BY DEF Store
<1>2. Handled /\ reply \in FitReplies
  BY <1>1, HandledReply
<1>3. Asked
  <2>1. reply.session \in Sessions /\ 0 \in Nat /\ MaxLoads + 1 \in Nat
    BY <1>2 DEF FitReplies, Replies
  <2>2. inbox' = inbox \/ \E m \in OtherRequests : inbox' = Append(inbox, m)
    <3>1. /\ Request("resume", reply.session, 0, 0) \in OtherRequests
          /\ Request("approvals", reply.session, MaxLoads + 1, 0) \in OtherRequests
      BY <2>1, OtherIs
    <3> QED
      BY <3>1 DEF Continue
  <2> QED
    BY <2>2, AskedNone, AskedOne
<1> QED
  BY <1>1, <1>2, <1>3, ViewsSame, QuietStep

\* Nothing is the beginning of every session.
LEMMA EmptyShows ==
    ASSUME ClientType, NEW s \in Sessions
    PROVE  Shows(<<>>, s)
<1>1. First(0) \in Seq(Nat) /\ Len(First(0)) = 0
  BY FirstIs
<1>2. First(0) = <<>>
  BY <1>1
<1>3. 0 \in 0 .. Len(stored[s])
  BY DEF ClientType
<1> QED
  BY <1>2, <1>3 DEF Shows

\* No message is for a load that has yet to start.
LEMMA NoneAhead ==
    ASSUME ClientType, NEW S, S \in {FitRequests, FitReplies, FitReplies \cup RealNotices},
           NEW q \in Seq(S), NEW g \in Nat, g > generation
    PROVE  Count(q, g) = 0
<1>1. \A m \in S : ~Pages(g, m)
  <2>1. g \notin 1 .. generation
    BY DEF ClientType
  <2>2. \A m \in FitRequests : ~Pages(g, m)
    BY <2>1 DEF FitRequests, Pages
  <2>3. \A m \in FitReplies : ~Pages(g, m)
    BY <2>1 DEF FitReplies, Pages
  <2>4. \A m \in RealNotices : ~Pages(g, m)
    BY DEF RealNotices, Notices, Pages, IsPage
  <2> QED
    BY <2>2, <2>3, <2>4
<1>2. \A k \in DOMAIN q : q[k] \in S
  OBVIOUS
<1> QED
  BY <1>1, <1>2, CountType

\* A load starts: its first page is asked for, and the approvals.
LEMMA StartLoadKeeps ==
    ASSUME ClientInv, NEW s \in Sessions, NEW more, more = <<>> \/ \E m \in OtherRequests : more = <<m>>,
           StartLoad(s, more), Handled,
           UNCHANGED <<stored, unsent, serving, selected, transcript, buffered>>
    PROVE  ClientInv'
<1>1. PICK g0 : g0 = generation + 1
  OBVIOUS
<1>2. ClientType /\ g0 \in Loads /\ g0 \in Nat /\ generation \in Nat /\ g0 > generation
  BY <1>1 DEF ClientInv, ClientType, StartLoad
<1>3. PICK load : load = NewLoad(s)
  OBVIOUS
<1>4. /\ load \in LoadStates /\ load.at = "fetch" /\ load.session = s /\ load.seqs = <<>>
      /\ load.paging = TRUE /\ ~load.stalled
  <2>1. load = [session |-> s, at |-> "fetch", seqs |-> <<>>, paging |-> TRUE, listed |-> FALSE,
                pending |-> FALSE, stalled |-> FALSE, dirty |-> FALSE]
    BY <1>3 DEF NewLoad, NoLoad
  <2>2. <<>> \in Seq(Nat)
    OBVIOUS
  <2> QED
    BY <2>1, <2>2 DEF LoadStates
<1>5. /\ generation' = g0 /\ loading' = [loading EXCEPT ![s] = g0]
      /\ loads' = [loads EXCEPT ![g0] = load]
      /\ inbox' = (inbox \o LoadRequests(s, g0)) \o more
  BY <1>1, <1>3 DEF StartLoad
<1>6. ViewsHold
  <2>1. loading' \in [Sessions -> 0 .. MaxLoads]
    <3>1. g0 \in 0 .. MaxLoads
      BY <1>2
    <3> QED
      BY <1>5, <3>1 DEF ClientInv, ClientType
  <2>2. loads' \in [Loads -> LoadStates]
    BY <1>2, <1>4, <1>5 DEF ClientType
  <2>3. generation' \in Loads /\ generation <= generation'
    BY <1>1, <1>2, <1>5
  <2> QED
    BY <2>1, <2>2, <2>3 DEF ClientInv, ClientType, ScreenShows, EventsReal, ViewsHold, Shows
<1>7. loads'[g0] = load /\ \A g \in Loads : g # g0 => loads'[g] = loads[g]
  BY <1>2, <1>5 DEF ClientType
<1>8. Shows(loads'[g0].seqs, loads'[g0].session)
  BY <1>2, <1>4, <1>7, EmptyShows
<1>9. Count(inbox, g0) = 0 /\ ~Pages(g0, serving) /\ Count(pipe', g0) = 0 /\ Count(ready', g0) = 0
  <2>1. /\ inbox \in Seq(FitRequests) /\ serving \in FitReplies \cup {Nothing}
        /\ pipe' \in Seq(FitReplies \cup RealNotices) /\ ready' \in Seq(FitReplies)
    BY DEF ClientInv, MessagesFit, Handled
  <2>2. ~Pages(g0, serving)
    <3>1. g0 \notin 1 .. generation
      BY <1>2
    <3>2. CASE serving \in FitReplies
      BY <3>1, <3>2 DEF FitReplies, Pages
    <3>3. CASE serving = Nothing
      BY <3>3 DEF Pages, IsPage, Nothing
    <3> QED
      BY <2>1, <3>2, <3>3
  <2> QED
    BY <1>2, <2>1, <2>2, NoneAhead
<1>a. PICK a : a = Request("events", s, g0, 0)
  OBVIOUS
<1>b. PICK b : b = Request("approvals", s, g0, 0)
  OBVIOUS
<1>10. Pages(g0, a) /\ (\A g : g # g0 => ~Pages(g, a)) /\ \A g : ~Pages(g, b)
  BY <1>a, <1>b DEF Request, Pages, IsPage
<1>11. OtherRequests \subseteq FitRequests' /\ a \in FitRequests' /\ b \in OtherRequests
  <2>1. a \in FitRequests'
    <3>1. a \in Requests /\ a.who = g0 /\ a.session = s /\ a.after = 0
      BY <1>2, <1>a DEF Requests, Request, Kinds
    <3>2. Len(stored'[s]) \in Nat
      BY DEF ClientInv, ClientType
    <3>3. a.who \in 1 .. generation' /\ a.after <= Len(stored'[a.session])
      BY <1>2, <1>5, <3>1, <3>2
    <3>4. a.session = loads'[a.who].session /\ a.after = Len(loads'[a.who].seqs)
      BY <1>4, <1>7, <3>1
    <3> QED
      BY <3>1, <3>3, <3>4 DEF FitRequests
  <2>2. b \in OtherRequests
    BY <1>2, <1>b, OtherIs
  <2> QED
    BY <2>1, <2>2 DEF OtherRequests, FitRequests
<1>12. inbox' = Append(Append(inbox, a), b)
       \/ \E m \in OtherRequests : inbox' = Append(Append(Append(inbox, a), b), m)
  <2> DEFINE q == inbox \o LoadRequests(s, g0)
             S == FitRequests \cup {a, b}
  <2>1. q = inbox \o <<a, b>>
    BY <1>a, <1>b DEF LoadRequests
  <2>2. inbox \in Seq(S)
    BY SeqWiden DEF ClientInv, MessagesFit
  <2>3. a \in S /\ b \in S
    OBVIOUS
  <2> HIDE DEF S
  <2>4. inbox \o <<a, b>> = Append(Append(inbox, a), b)
    BY <2>2, <2>3, TwoMore
  <2>5. q = Append(Append(inbox, a), b) /\ q \in Seq(S) /\ inbox' = q \o more
    BY <1>5, <2>1, <2>2, <2>3, <2>4
  <2> HIDE DEF q
  <2>6. CASE more = <<>>
    <3>1. inbox' = q
      BY <2>5, <2>6
    <3> QED
      BY <2>5, <3>1
  <2>7. CASE \E m \in OtherRequests : more = <<m>>
    <3>1. PICK m \in OtherRequests : more = <<m>>
      BY <2>7
    <3>2. inbox' = Append(q, m)
      BY <2>5, <3>1
    <3> QED
      BY <2>5, <3>2
  <2> QED
    BY <2>6, <2>7
<1>13. ASSUME NEW S, inbox \in Seq(S), a \in S, OtherRequests \subseteq S
       PROVE  /\ inbox' \in Seq(S)
              /\ \A g : Count(inbox', g) = Count(inbox, g) + IF g = g0 THEN 1 ELSE 0
  <2>1. PICK q : q = Append(inbox, a)
    OBVIOUS
  <2>2. PICK r : r = Append(q, b)
    OBVIOUS
  <2>3. /\ \A g : Count(inbox, g) \in Nat
        /\ q \in Seq(S) /\ \A g : Count(q, g) = Count(inbox, g) + IF g = g0 THEN 1 ELSE 0
    BY <1>10, <1>13, <2>1, CountAppend, CountType, Longer
  <2>4. r \in Seq(S) /\ \A g : Count(r, g) = Count(q, g) + 0
    <3>1. b \in S
      BY <1>11, <1>13
    <3> QED
      BY <1>10, <2>2, <2>3, <3>1, CountAppend, Longer
  <2>5. ASSUME NEW m \in OtherRequests
        PROVE  Append(r, m) \in Seq(S) /\ \A g : Count(Append(r, m), g) = Count(r, g) + 0
    <3>1. m \in S /\ \A g : ~Pages(g, m)
      BY <1>13, <2>5 DEF OtherRequests, Pages
    <3> QED
      BY <2>4, <3>1, CountAppend, Longer
  <2>6. inbox' = r \/ \E m \in OtherRequests : inbox' = Append(r, m)
    BY <1>12, <2>1, <2>2
  <2>7. inbox' \in Seq(S)
    BY <2>4, <2>5, <2>6
  <2>8. ASSUME NEW g PROVE Count(inbox', g) = Count(inbox, g) + IF g = g0 THEN 1 ELSE 0
    <3>1. Count(inbox, g) \in Nat /\ Count(q, g) \in Nat /\ Count(r, g) \in Nat
      BY <2>3, <2>4, CountType
    <3>2. Count(inbox', g) = Count(r, g) \/ Count(inbox', g) = Count(r, g) + 0
      BY <2>5, <2>6
    <3>3. Count(r, g) = Count(q, g) + 0 /\ Count(q, g) = Count(inbox, g) + IF g = g0 THEN 1 ELSE 0
      BY <2>3, <2>4
    <3> QED
      BY <3>1, <3>2, <3>3
  <2> QED
    BY <2>7, <2>8
<1>14. inbox \in Seq(FitRequests') => inbox' \in Seq(FitRequests')
  BY <1>11, <1>13
<1>15. \A g : Count(inbox', g) = Count(inbox, g) + IF g = g0 THEN 1 ELSE 0
  <2>1. inbox \in Seq(FitRequests \cup OtherRequests \cup {a})
    BY SeqWiden DEF ClientInv, MessagesFit
  <2> QED
    BY <1>13, <2>1
<1>16. /\ \A g : g # g0 => Count(inbox', g) <= Count(inbox, g)
       /\ Count(inbox', g0) <= IF loads'[g0].paging THEN 1 ELSE 0
  BY <1>4, <1>7, <1>9, <1>15, CountsAre
<1>17. g0 <= generation' /\ PagingFits(loads'[g0])
  BY <1>2, <1>4, <1>5, <1>7 DEF PagingFits, Stalled
<1> QED
  BY <1>2, <1>6, <1>7, <1>8, <1>9, <1>14, <1>16, <1>17, LoadStep

LEMMA OpenKeeps ==
    ASSUME ClientInv, NEW s \in Sessions, OpenSession(s)
    PROVE  ClientInv'
<1>1. StartLoad(s, <<>>) /\ UNCHANGED <<stored, unsent, serving, selected, transcript, buffered>>
      /\ UNCHANGED <<pipe, ready>>
  BY DEF OpenSession, Store, Screen
<1>2. Handled
  BY <1>1, HandledNone
<1> QED
  BY <1>1, <1>2, StartLoadKeeps

\* An event that is next extends what is shown.
LEMMA ExtendShows ==
    ASSUME ClientInv, NEW event \in EventsOf(selected)
    PROVE  /\ Extend(transcript, event) = [session |-> selected, seqs |-> Extend(transcript, event).seqs]
           /\ Shows(Extend(transcript, event).seqs, selected)
<1>1. /\ transcript = [session |-> selected, seqs |-> transcript.seqs]
      /\ Shows(transcript.seqs, selected) /\ selected \in Sessions
  BY DEF ClientInv, ScreenShows, ClientType
<1>2. event.session = selected /\ event.seq \in Nat /\ event.seq <= Len(stored[selected])
  BY DEF EventsOf, Events
<1>3. PICK n \in 0 .. Len(stored[selected]) : transcript.seqs = First(n)
  BY <1>1 DEF Shows
<1>4. Len(stored[selected]) \in Nat /\ n \in Nat
  BY <1>1 DEF ClientInv, ClientType
<1>5. HeadSeq(transcript) = n
  BY <1>3, <1>4, FirstIs DEF HeadSeq
<1>6. CASE event.seq = n + 1
  <2>1. Extend(transcript, event) = [session |-> selected, seqs |-> Append(First(n), n + 1)]
    BY <1>2, <1>3, <1>5, <1>6 DEF Extend
  <2>2. Append(First(n), n + 1) = First(n + 1)
    BY <1>4, FirstGrows
  <2>3. n + 1 \in 0 .. Len(stored[selected])
    BY <1>2, <1>4, <1>6
  <2> QED
    BY <2>1, <2>2, <2>3 DEF Shows
<1>7. CASE event.seq # n + 1
  <2>1. Extend(transcript, event) = transcript
    BY <1>5, <1>7 DEF Extend
  <2> QED
    BY <1>1, <2>1
<1> QED
  BY <1>6, <1>7

\* The listener for live events.
LEMMA ListenKeeps ==
    ASSUME ClientInv, Handled, UNCHANGED <<stored, unsent, serving>>,
           NEW event, event \in EventsOf(event.session), event \in Events, Listen(event)
    PROVE  ClientInv'
<1>1. PICK s : s = event.session
  OBVIOUS
<1>2. s \in Sessions /\ ClientType /\ event \in EventsOf(s)
  BY <1>1 DEF ClientInv, Events
<1>3. CASE loading[s] # 0
  <2>1. /\ buffered' = [buffered EXCEPT ![s] = Append(buffered[s], event)]
        /\ UNCHANGED <<selected, transcript, loading, generation, loads, inbox>>
    BY <1>1, <1>3 DEF Listen, Screen
  <2>2. PICK q : q = Append(buffered[s], event)
    OBVIOUS
  <2>3. q \in Seq(Events) /\ q \in Seq(EventsOf(s))
    <3>1. buffered[s] \in Seq(Events) /\ buffered[s] \in Seq(EventsOf(s))
      BY <1>2 DEF ClientInv, EventsReal
    <3> QED
      BY <1>2, <2>2, <3>1, Longer
  <2>4. /\ buffered' \in [Sessions -> Seq(Events)]
        /\ \A r \in Sessions : buffered'[r] \in Seq(EventsOf(r))
    <3>1. buffered \in [Sessions -> Seq(Events)] /\ buffered' = [buffered EXCEPT ![s] = q]
          /\ \A r \in Sessions : buffered[r] \in Seq(EventsOf(r))
      BY <2>1, <2>2 DEF ClientInv, EventsReal
    <3>2. \A r \in Sessions : buffered'[r] = IF r = s THEN q ELSE buffered[r]
      BY <3>1
    <3> QED
      BY <2>3, <3>1, <3>2
  <2>5. ViewsHold
    <3>1. generation <= generation
      BY DEF ClientInv, ClientType
    <3> QED
      BY <2>1, <2>4, <3>1 DEF ViewsHold, ClientInv, ClientType, ScreenShows
  <2>6. \A g \in Loads : Loading(g)' => SameLoad(g)
    BY <2>1 DEF Loading, SameLoad
  <2> QED
    BY <2>1, <2>5, <2>6, AskedNone, QuietStep
<1>4. CASE loading[s] = 0 /\ s # selected
  <2>1. UNCHANGED <<selected, transcript, Replay, inbox>>
    BY <1>1, <1>4 DEF Listen, Screen
  <2> QED
    BY <2>1, AskedNone, ViewsSame, QuietStep
<1>5. CASE loading[s] = 0 /\ s = selected
  <2>1. PICK list : list = IF Approval(event.type) THEN <<Request("approvals", s, 0, 0)>> ELSE <<>>
    OBVIOUS
  <2>2. list = <<>> \/ \E m \in OtherRequests : list = <<m>>
    <3>1. Request("approvals", s, 0, 0) \in OtherRequests
      BY <1>2, OtherIs
    <3> QED
      BY <2>1, <3>1
  <2>3. UNCHANGED <<selected, buffered>>
    BY <1>1, <1>5 DEF Listen
  <2>4. CASE Gap(transcript, event)
    <3>1. transcript' = transcript /\ StartLoad(s, list)
      BY <1>1, <1>5, <2>1, <2>4 DEF Listen
    <3> QED
      BY <1>2, <2>2, <2>3, <3>1, StartLoadKeeps
  <2>5. CASE ~Gap(transcript, event)
    <3>1. transcript' = Extend(transcript, event) /\ inbox' = inbox \o list
          /\ UNCHANGED <<loading, generation, loads>>
      BY <1>1, <1>5, <2>1, <2>5 DEF Listen
    <3>2. Asked
      <4>1. CASE list = <<>>
        <5>1. inbox \in Seq(FitRequests)
          BY DEF ClientInv, MessagesFit
        <5>2. inbox' = inbox
          BY <3>1, <4>1, <5>1
        <5> QED
          BY <5>2, AskedNone
      <4>2. CASE \E m \in OtherRequests : list = <<m>>
        <5>1. PICK m \in OtherRequests : list = <<m>>
          BY <4>2
        <5>2. inbox \in Seq(FitRequests)
          BY DEF ClientInv, MessagesFit
        <5>3. inbox' = Append(inbox, m)
          BY <3>1, <5>1, <5>2
        <5> QED
          BY <5>3, AskedOne
      <4> QED
        BY <2>2, <4>1, <4>2
    <3>3. ViewsHold
      <4>1. /\ transcript' = [session |-> selected', seqs |-> transcript'.seqs]
            /\ Shows(transcript'.seqs, selected')
        BY <1>2, <1>5, <2>3, <3>1, ExtendShows
      <4>2. generation <= generation
        BY DEF ClientInv, ClientType
      <4> QED
        BY <2>3, <3>1, <4>1, <4>2 DEF ViewsHold, ClientInv, ClientType, EventsReal
    <3>4. \A g \in Loads : Loading(g)' => SameLoad(g)
      BY <3>1 DEF Loading, SameLoad
    <3> QED
      BY <3>2, <3>3, <3>4, QuietStep
  <2> QED
    BY <2>4, <2>5
<1> QED
  BY <1>3, <1>4, <1>5

LEMMA DeliverKeeps ==
    ASSUME ClientInv, Deliver
    PROVE  ClientInv'
<1>1. PICK m : m = Head(pipe)
  OBVIOUS
<1>2. pipe # <<>> /\ pipe' = Tail(pipe) /\ UNCHANGED <<stored, unsent, serving>>
  BY DEF Deliver, Store
<1>3. CASE m.kind = "event"
  <2>1. Listen(m.event) /\ ready' = ready
    BY <1>1, <1>3 DEF Deliver
  <2>2. m \in RealNotices /\ Handled
    BY <1>1, <1>2, <1>3, <2>1, HandledMessage
  <2>3. m.event \in EventsOf(m.event.session) /\ m.event \in Events
    BY <2>2 DEF RealNotices, Notices
  <2>4. PICK event : event = m.event
    OBVIOUS
  <2> QED
    BY <1>2, <2>1, <2>2, <2>3, <2>4, ListenKeeps
<1>4. CASE m.kind # "event"
  <2>1. ready' = Append(ready, m) /\ UNCHANGED <<selected, transcript, Replay, inbox>>
    BY <1>1, <1>4 DEF Deliver, Screen
  <2>2. Handled
    BY <1>1, <1>2, <1>4, <2>1, HandledMessage
  <2> QED
    BY <1>2, <2>1, <2>2, AskedNone, ViewsSame, QuietStep
<1> QED
  BY <1>3, <1>4

\* An emptied buffer holds what it should.
LEMMA BufferEmptied ==
    ASSUME ClientInv, NEW s, buffered' = buffered \/ buffered' = [buffered EXCEPT ![s] = <<>>]
    PROVE  /\ buffered' \in [Sessions -> Seq(Events)]
           /\ \A r \in Sessions : buffered'[r] \in Seq(EventsOf(r))
<1>1. buffered \in [Sessions -> Seq(Events)] /\ \A r \in Sessions : buffered[r] \in Seq(EventsOf(r))
  BY DEF ClientInv, EventsReal
<1>2. \A r \in Sessions : buffered'[r] = buffered[r] \/ buffered'[r] = <<>>
  BY <1>1
<1>3. buffered' \in [Sessions -> Seq(Events)]
  <2>1. <<>> \in Seq(Events)
    OBVIOUS
  <2>2. PICK E : E = Seq(Events)
    OBVIOUS
  <2> QED
    BY <1>1, <2>1, <2>2
<1>4. \A r \in Sessions : <<>> \in Seq(EventsOf(r))
  OBVIOUS
<1> QED
  BY <1>1, <1>2, <1>3, <1>4

\* A load that ends leaves the other loads alone.
LEMMA EndLoadEnds ==
    ASSUME ClientInv, NEW g \in Loads, EndLoad(g)
    PROVE  /\ loading' \in [Sessions -> 0 .. MaxLoads] /\ loads' \in [Loads -> LoadStates]
           /\ \A h \in Loads : Loading(h)' => SameLoad(h)
<1>1. PICK ended : ended = [NoLoad EXCEPT !.session = loads[g].session]
  OBVIOUS
<1>2. loads[g].session \in Sessions /\ loads \in [Loads -> LoadStates]
  BY DEF ClientInv, ClientType, LoadStates
<1>3. ended \in LoadStates /\ ended.at = "done"
  <2>1. ended = [session |-> loads[g].session, at |-> "done", seqs |-> <<>>, paging |-> FALSE,
                 listed |-> FALSE, pending |-> FALSE, stalled |-> FALSE, dirty |-> FALSE]
    BY <1>1 DEF NoLoad
  <2>2. <<>> \in Seq(Nat)
    OBVIOUS
  <2> QED
    BY <1>2, <2>1, <2>2 DEF LoadStates
<1>4. loads' = [loads EXCEPT ![g] = ended]
  BY <1>1 DEF EndLoad
<1>5. loads' \in [Loads -> LoadStates] /\ \A h \in Loads : loads'[h] = IF h = g THEN ended ELSE loads[h]
  BY <1>2, <1>3, <1>4
<1>6. loading' \in [Sessions -> 0 .. MaxLoads]
  <2>1. loading \in [Sessions -> 0 .. MaxLoads] /\ 0 \in 0 .. MaxLoads
    BY DEF ClientInv, ClientType
  <2>2. PICK s : s = loads[g].session
    OBVIOUS
  <2>3. loading' = loading \/ loading' = [loading EXCEPT ![s] = 0]
    BY <2>2 DEF EndLoad
  <2> QED
    BY <2>1, <2>3
<1> QED
  BY <1>3, <1>5, <1>6 DEF Loading, SameLoad

LEMMA FailLoadKeeps ==
    ASSUME ClientInv, NEW g \in Loads, FailLoad(g), Handled, UNCHANGED <<stored, unsent, serving>>
    PROVE  ClientInv'
<1>1. EndLoad(g) /\ UNCHANGED <<selected, transcript, generation, inbox>>
  BY DEF FailLoad, Screen
<1>2. /\ buffered' \in [Sessions -> Seq(Events)]
      /\ \A r \in Sessions : buffered'[r] \in Seq(EventsOf(r))
  <2>1. PICK s : s = loads[g].session
    OBVIOUS
  <2>2. buffered' = buffered \/ buffered' = [buffered EXCEPT ![s] = <<>>]
    BY <2>1 DEF FailLoad, Discard
  <2> QED
    BY <2>2, BufferEmptied
<1>3. ViewsHold
  <2>1. generation <= generation
    BY DEF ClientInv, ClientType
  <2> QED
    BY <1>1, <1>2, <2>1, EndLoadEnds DEF ViewsHold, ClientInv, ClientType, ScreenShows
<1> QED
  BY <1>1, <1>3, AskedNone, EndLoadEnds, QuietStep

LEMMA LoadFailsKeeps ==
    ASSUME ClientInv, NEW g \in Loads, LoadFails(g)
    PROVE  ClientInv'
<1>1. FailLoad(g) /\ UNCHANGED <<stored, unsent, serving>> /\ UNCHANGED <<pipe, ready>>
  BY DEF LoadFails, Store
<1> QED
  BY <1>1, HandledNone, FailLoadKeeps

LEMMA PublishKeeps ==
    ASSUME ClientInv, NEW g \in Loads, NEW load, load.session \in Sessions,
           Shows(load.seqs, load.session), Publish(g, load), Handled, UNCHANGED <<stored, unsent, serving>>
    PROVE  ClientInv'
<1>1. PICK s : s = load.session
  OBVIOUS
<1>2. EndLoad(g) /\ UNCHANGED <<generation, inbox>> /\ selected' = s
      /\ buffered' = [buffered EXCEPT ![s] = <<>>]
  BY <1>1 DEF Publish
<1>3. transcript' = [session |-> s, seqs |-> transcript'.seqs] /\ Shows(transcript'.seqs, s)
  <2>1. transcript = [session |-> selected, seqs |-> transcript.seqs] /\ Shows(transcript.seqs, selected)
    BY DEF ClientInv, ScreenShows
  <2>2. \/ transcript' = transcript /\ transcript.session = s
        \/ transcript' = [session |-> s, seqs |-> load.seqs]
    BY <1>1 DEF Publish
  <2>3. CASE transcript' = transcript /\ transcript.session = s
    <3>1. transcript.session = selected
      BY <2>1
    <3> QED
      BY <2>1, <2>3, <3>1
  <2>4. CASE transcript' = [session |-> s, seqs |-> load.seqs]
    BY <1>1, <2>4
  <2> QED
    BY <2>2, <2>3, <2>4
<1>4. /\ buffered' \in [Sessions -> Seq(Events)]
      /\ \A r \in Sessions : buffered'[r] \in Seq(EventsOf(r))
  BY <1>2, BufferEmptied
<1>5. ViewsHold
  <2>1. generation <= generation
    BY DEF ClientInv, ClientType
  <2> QED
    BY <1>1, <1>2, <1>3, <1>4, <2>1, EndLoadEnds DEF ViewsHold, ClientInv, ClientType
<1> QED
  BY <1>2, <1>5, AskedNone, EndLoadEnds, QuietStep

\* No page is on its way for load g, once the reply at hand is handled.
NoPage(g) ==
    Count(inbox, g) = 0 /\ ~Pages(g, serving) /\ Count(pipe', g) = 0 /\ Count(ready', g) = 0

\* A load that waits for no page goes on, and may ask for one.
LEMMA GoesOn ==
    ASSUME ClientInv, NEW g \in Loads, g <= generation, Handled, NoPage(g),
           UNCHANGED <<stored, unsent, serving, selected, transcript, loading, generation>>,
           buffered' \in [Sessions -> Seq(Events)],
           \A r \in Sessions : buffered'[r] \in Seq(EventsOf(r)),
           NEW load \in LoadStates, loads' = [loads EXCEPT ![g] = load],
           Shows(load.seqs, load.session), PagingFits(load),
           \/ inbox' = inbox
           \/ \E m \in Requests :
                 /\ inbox' = Append(inbox, m)
                 /\ IsPage(m) => /\ m.who = g /\ load.paging
                                 /\ m.session = load.session /\ m.after = Len(load.seqs)
    PROVE  ClientInv'
<1>1. ClientType /\ generation \in Nat /\ loads \in [Loads -> LoadStates]
  BY DEF ClientInv, ClientType
<1>2. loads'[g] = load /\ loads' \in [Loads -> LoadStates]
      /\ \A h \in Loads : h # g => loads'[h] = loads[h]
  BY <1>1
<1>3. ViewsHold
  BY <1>1, <1>2 DEF ViewsHold, ClientInv, ClientType, ScreenShows
<1>4. load.session \in Sessions /\ Len(load.seqs) \in Nat /\ Len(load.seqs) <= Len(stored[load.session])
  <2>1. load.session \in Sessions
    BY DEF LoadStates
  <2>2. PICK n \in 0 .. Len(stored[load.session]) : load.seqs = First(n)
    BY DEF Shows
  <2>3. Len(stored[load.session]) \in Nat /\ n \in Nat /\ n <= Len(stored[load.session])
    BY <1>1, <2>1 DEF ClientType
  <2> QED
    BY <2>1, <2>2, <2>3, FirstIs
<1>5. inbox \in Seq(FitRequests) /\ \A h : Count(inbox, h) \in Nat
  BY CountsAre DEF ClientInv, MessagesFit
<1>6. CASE inbox' = inbox
  <2>1. Count(inbox', g) <= IF loads'[g].paging THEN 1 ELSE 0
    BY <1>6 DEF NoPage
  <2>2. \A h : Count(inbox', h) <= Count(inbox, h)
    BY <1>5, <1>6
  <2> QED
    BY <1>2, <1>3, <1>6, <2>1, <2>2, LoadStep DEF NoPage
<1>7. CASE \E m \in Requests :
              /\ inbox' = Append(inbox, m)
              /\ IsPage(m) => /\ m.who = g /\ load.paging
                              /\ m.session = load.session /\ m.after = Len(load.seqs)
  <2>1. PICK m \in Requests :
              /\ inbox' = Append(inbox, m)
              /\ IsPage(m) => /\ m.who = g /\ load.paging
                              /\ m.session = load.session /\ m.after = Len(load.seqs)
    BY <1>7
  <2>2. m \in FitRequests'
    <3>1. CASE ~IsPage(m)
      BY <3>1 DEF FitRequests
    <3>2. CASE IsPage(m)
      <4>1. m.who \in 1 .. generation' /\ m.after <= Len(stored'[m.session])
        BY <1>1, <1>4, <2>1, <3>2
      <4>2. m.session = loads'[m.who].session /\ m.after = Len(loads'[m.who].seqs)
        BY <1>2, <2>1, <3>2
      <4> QED
        BY <4>1, <4>2 DEF FitRequests
    <3> QED
      BY <3>1, <3>2
  <2>3. inbox \in Seq(FitRequests') => inbox' \in Seq(FitRequests')
    BY <2>1, <2>2, Longer
  <2>4. \A h : Count(inbox', h) = Count(inbox, h) + IF Pages(h, m) THEN 1 ELSE 0
    BY <1>5, <2>1, CountAppend
  <2>5. \A h : h # g => Count(inbox', h) <= Count(inbox, h)
    <3> SUFFICES ASSUME NEW h, h # g PROVE Count(inbox', h) <= Count(inbox, h)
      OBVIOUS
    <3>1. ~Pages(h, m)
      BY <2>1 DEF Pages
    <3> QED
      BY <1>5, <2>4, <3>1
  <2>6. Count(inbox', g) <= IF loads'[g].paging THEN 1 ELSE 0
    <3>1. Pages(g, m) => load.paging
      BY <2>1 DEF Pages
    <3>2. Count(inbox', g) = 0 + IF Pages(g, m) THEN 1 ELSE 0
      BY <2>4 DEF NoPage
    <3> QED
      BY <1>2, <3>1, <3>2
  <2> QED
    BY <1>2, <1>3, <2>3, <2>5, <2>6, LoadStep DEF NoPage
<1> QED
  BY <1>6, <1>7

\* The loop before publishing.
LEMMA DrainKeeps ==
    ASSUME ClientInv, NEW g \in Loads, g <= generation, Handled, NoPage(g), generation' = generation,
           UNCHANGED <<stored, unsent, serving>>, NEW load \in LoadStates,
           ~load.paging, Shows(load.seqs, load.session), Drain(g, load)
    PROVE  ClientInv'
<1>1. PICK s : s = load.session
  OBVIOUS
<1>2. PICK view : view = [session |-> s, seqs |-> load.seqs]
  OBVIOUS
<1>3. PICK batch : batch = buffered[s]
  OBVIOUS
<1>4. PICK dirty : dirty = (load.dirty \/ \E k \in 1 .. Len(batch) : Approval(batch[k].type))
  OBVIOUS
<1>5. s \in Sessions /\ ClientType /\ EventsReal /\ g \in Nat
  BY <1>1 DEF LoadStates, ClientInv
<1>6. CASE g # generation
  <2>1. FailLoad(g)
    BY <1>6 DEF Drain
  <2> QED
    BY <2>1, FailLoadKeeps
<1>7. CASE g = generation /\ MergeGap(view, batch)
  <2>1. PICK next : next = [[load EXCEPT !.seqs = <<>>, !.paging = TRUE, !.stalled = FALSE, !.dirty = TRUE]
                            EXCEPT !.at = "repair"]
    OBVIOUS
  <2>2. /\ loads' = [loads EXCEPT ![g] = next] /\ buffered' = [buffered EXCEPT ![s] = <<>>]
        /\ inbox' = Append(inbox, Request("events", s, g, 0))
        /\ UNCHANGED <<selected, transcript, loading>>
    BY <1>1, <1>2, <1>3, <1>7, <2>1 DEF Drain, Screen
  <2>3. next \in LoadStates /\ next.session = s /\ next.seqs = <<>> /\ next.paging /\ PagingFits(next)
    <3>1. <<>> \in Seq(Nat)
      OBVIOUS
    <3> QED
      BY <1>1, <2>1, <3>1 DEF LoadStates, PagingFits, Stalled
  <2>4. Shows(next.seqs, next.session)
    BY <1>5, <2>3, EmptyShows
  <2>5. PICK m : m = Request("events", s, g, 0)
    OBVIOUS
  <2>6. m \in Requests /\ m.who = g /\ m.session = s /\ m.after = 0
    BY <1>5, <2>5 DEF Requests, Request, Kinds
  <2>7. \E x \in Requests :
           /\ inbox' = Append(inbox, x)
           /\ IsPage(x) => /\ x.who = g /\ next.paging
                           /\ x.session = next.session /\ x.after = Len(next.seqs)
    BY <2>2, <2>3, <2>5, <2>6
  <2>8. /\ buffered' \in [Sessions -> Seq(Events)]
        /\ \A r \in Sessions : buffered'[r] \in Seq(EventsOf(r))
    BY <2>2, BufferEmptied
  <2> QED
    BY <2>2, <2>3, <2>4, <2>7, <2>8, GoesOn
<1>8. ASSUME ~MergeGap(view, batch)
      PROVE  Merged(view, batch).seqs \in Seq(Nat) /\ Shows(Merged(view, batch).seqs, s)
  BY <1>1, <1>2, <1>3, <1>5, <1>8, MergedShows
<1>9. CASE g = generation /\ ~MergeGap(view, batch) /\ dirty
  <2>1. PICK seqs : seqs = Merged(view, batch).seqs
    OBVIOUS
  <2>2. PICK next : next = [[load EXCEPT !.seqs = seqs, !.dirty = FALSE] EXCEPT !.at = "approvals"]
    OBVIOUS
  <2>3. /\ loads' = [loads EXCEPT ![g] = next] /\ buffered' = [buffered EXCEPT ![s] = <<>>]
        /\ inbox' = Append(inbox, Request("approvals", s, g, 0))
        /\ UNCHANGED <<selected, transcript, loading>>
    BY <1>1, <1>2, <1>3, <1>4, <1>9, <2>1, <2>2 DEF Drain, Screen
  <2>4. seqs \in Seq(Nat) /\ Shows(seqs, s)
    BY <1>8, <1>9, <2>1
  <2>5. next \in LoadStates /\ next.session = s /\ next.seqs = seqs /\ PagingFits(next)
    BY <1>1, <2>2, <2>4 DEF LoadStates, PagingFits, Stalled
  <2>6. Shows(next.seqs, next.session)
    BY <2>4, <2>5
  <2>7. Request("approvals", s, g, 0) \in OtherRequests
    BY <1>5, OtherIs
  <2>8. \E x \in Requests :
           /\ inbox' = Append(inbox, x)
           /\ IsPage(x) => /\ x.who = g /\ next.paging
                           /\ x.session = next.session /\ x.after = Len(next.seqs)
    BY <2>3, <2>7 DEF OtherRequests
  <2>9. /\ buffered' \in [Sessions -> Seq(Events)]
        /\ \A r \in Sessions : buffered'[r] \in Seq(EventsOf(r))
    BY <2>3, BufferEmptied
  <2> QED
    BY <2>3, <2>5, <2>6, <2>8, <2>9, GoesOn
<1>10. CASE g = generation /\ ~MergeGap(view, batch) /\ ~dirty
  <2>1. PICK seqs : seqs = Merged(view, batch).seqs
    OBVIOUS
  <2>2. PICK next : next = [load EXCEPT !.seqs = seqs]
    OBVIOUS
  <2>3. Publish(g, next)
    BY <1>1, <1>2, <1>3, <1>4, <1>10, <2>1, <2>2 DEF Drain
  <2>4. seqs \in Seq(Nat) /\ Shows(seqs, s)
    BY <1>8, <1>10, <2>1
  <2>5. next.session = s /\ next.seqs = seqs
    BY <1>1, <2>2 DEF LoadStates
  <2> QED
    BY <1>5, <2>3, <2>4, <2>5, PublishKeeps
<1> QED
  BY <1>6, <1>7, <1>9, <1>10

\* The reply at hand is the only page of its load; a load that is not paging has none.
LEMMA LastPage ==
    ASSUME ClientInv, ready # <<>>, ready' = Tail(ready), pipe' = pipe, NEW g \in Loads, Loading(g),
           Pages(g, Head(ready)) \/ ~loads[g].paging
    PROVE  NoPage(g)
<1>1. /\ Count(inbox, g) \in Nat /\ Count(pipe, g) \in Nat /\ Count(ready', g) \in Nat
      /\ Count(ready, g) = Count(ready', g) + IF Pages(g, Head(ready)) THEN 1 ELSE 0
  BY CountsAre, HandledReply
<1>2. InFlight(g) <= IF loads[g].paging THEN 1 ELSE 0
  BY DEF ClientInv, OnePage
<1>3. Count(inbox, g) + (IF Pages(g, serving) THEN 1 ELSE 0) + Count(pipe, g) + Count(ready, g)
         <= IF loads[g].paging THEN 1 ELSE 0
  BY <1>2 DEF InFlight
<1> QED
  BY <1>1, <1>3 DEF NoPage

\* A load that has a page was waiting for it.
LEMMA PageIsAwaited ==
    ASSUME ClientInv, ready # <<>>, ready' = Tail(ready), pipe' = pipe, NEW g \in Loads, Loading(g),
           Pages(g, Head(ready))
    PROVE  loads[g].paging
<1> SUFFICES ASSUME ~loads[g].paging PROVE FALSE
  OBVIOUS
<1>1. InFlight(g) <= 0
  BY DEF ClientInv, OnePage
<1>2. /\ Count(inbox, g) \in Nat /\ Count(pipe, g) \in Nat /\ Count(ready', g) \in Nat
      /\ Count(ready, g) = Count(ready', g) + 1
  BY CountsAre, HandledReply
<1> QED
  BY <1>1, <1>2 DEF InFlight

\* The next page of a load goes on where it stands.
LEMMA PageShows ==
    ASSUME ClientInv, NEW g \in Loads, Loading(g), NEW reply \in FitReplies, Pages(g, reply)
    PROVE  /\ loads[g].seqs \o reply.seqs \in Seq(Nat)
           /\ Shows(loads[g].seqs \o reply.seqs, loads[g].session)
<1>1. loads[g].seqs \in Seq(Nat) /\ loads[g].session \in Sessions
  BY DEF ClientInv, ClientType, LoadStates
<1>2. PICK s : s = loads[g].session
  OBVIOUS
<1>3. PICK n \in 0 .. Len(stored[s]) : loads[g].seqs = First(n)
  BY <1>2 DEF ClientInv, LoadsShow, Shows
<1>4. n \in Nat /\ Len(stored[s]) \in Nat /\ Len(loads[g].seqs) = n
  <2>1. n \in Nat /\ Len(stored[s]) \in Nat
    BY <1>1, <1>2 DEF ClientInv, ClientType
  <2> QED
    BY <1>3, <2>1, FirstIs
<1>5. PICK r : r = reply.seqs
  OBVIOUS
<1>6. r \in Seq(Nat) /\ n + Len(r) <= Len(stored[s]) /\ \A k \in 1 .. Len(r) : r[k] = n + k
  <2>1. reply.who = g /\ IsPage(reply)
    BY DEF Pages
  <2>2. /\ reply.session = loads[g].session
        /\ Len(loads[g].seqs) + Len(reply.seqs) <= Len(stored[reply.session])
        /\ \A k \in 1 .. Len(reply.seqs) : reply.seqs[k] = Len(loads[g].seqs) + k
    BY <2>1 DEF FitReplies
  <2>3. reply.seqs \in Seq(Nat)
    BY DEF FitReplies, Replies
  <2> QED
    BY <1>2, <1>4, <1>5, <2>2, <2>3
<1>7. First(n) \o r = First(n + Len(r))
  BY <1>4, <1>6, FirstGoesOn
<1>8. n + Len(r) \in 0 .. Len(stored[s]) /\ n + Len(r) \in Nat
  <2>1. Len(r) \in Nat
    BY <1>6
  <2> QED
    BY <1>4, <1>6, <2>1
<1>9. PICK q : q = loads[g].seqs \o reply.seqs /\ q = First(n + Len(r))
  BY <1>3, <1>5, <1>7
<1>10. q \in Seq(Nat) /\ Shows(q, s)
  BY <1>8, <1>9, FirstIs DEF Shows
<1> QED
  BY <1>2, <1>9, <1>10

\* A page is read.
LEMMA PageKeeps ==
    ASSUME ClientInv, ready # <<>>, ready' = Tail(ready), UNCHANGED <<Store, serving, pipe>>,
           NEW g \in Loads, Loading(g), NEW reply, reply = Head(ready), Pages(g, reply),
           Page(g, reply), generation' = generation
    PROVE  ClientInv'
<1>1. UNCHANGED <<stored, unsent, serving>> /\ pipe' = pipe
  BY DEF Store
<1>2. Handled /\ reply \in FitReplies /\ NoPage(g)
  BY <1>1, HandledReply, LastPage
<1>3. PICK seqs : seqs = loads[g].seqs \o reply.seqs
  OBVIOUS
<1>4. PICK load : load = [loads[g] EXCEPT !.seqs = seqs]
  OBVIOUS
<1>5. /\ loads[g] \in LoadStates /\ loads[g].session \in Sessions /\ g \in Nat /\ g <= generation
      /\ seqs \in Seq(Nat) /\ Shows(seqs, loads[g].session)
  <2>1. loads[g] \in LoadStates /\ loads[g].session \in Sessions
    BY DEF ClientInv, ClientType, LoadStates
  <2>2. seqs \in Seq(Nat) /\ Shows(seqs, loads[g].session)
    BY <1>2, <1>3, PageShows
  <2>3. g <= generation
    BY DEF ClientInv, LoadsShow
  <2> QED
    BY <2>1, <2>2, <2>3
<1>6. load \in LoadStates /\ load.session = loads[g].session /\ load.seqs = seqs
      /\ load.paging = loads[g].paging /\ load.stalled = loads[g].stalled
  BY <1>4, <1>5 DEF LoadStates
<1>7. loads[g].paging
  BY <1>1, PageIsAwaited
<1>8. PICK moved : moved = (Len(load.seqs) < reply.head)
  OBVIOUS
<1>9. CASE ~reply.more /\ ~moved /\ (load.at = "repair" \/ load.listed)
  <2>1. PICK next : next = [load EXCEPT !.paging = FALSE]
    OBVIOUS
  <2>2. Drain(g, next)
    BY <1>3, <1>4, <1>8, <1>9, <2>1 DEF Page
  <2>3. next \in LoadStates /\ next.session = load.session /\ next.seqs = load.seqs /\ ~next.paging
    BY <1>6, <2>1 DEF LoadStates
  <2>4. Shows(next.seqs, next.session)
    BY <1>5, <1>6, <2>3
  <2> QED
    BY <1>1, <1>2, <1>5, <2>2, <2>3, <2>4, DrainKeeps
<1>10. CASE ~reply.more /\ ~moved /\ load.at = "fetch" /\ ~load.listed
  <2>1. PICK next : next = [load EXCEPT !.paging = FALSE]
    OBVIOUS
  <2>2. /\ loads' = [loads EXCEPT ![g] = next]
        /\ UNCHANGED <<selected, transcript, loading, buffered, inbox>>
    BY <1>3, <1>4, <1>8, <1>10, <2>1 DEF Page, Screen
  <2>3. next \in LoadStates /\ next.session = load.session /\ next.seqs = load.seqs /\ ~next.paging
    BY <1>6, <2>1 DEF LoadStates
  <2>4. Shows(next.seqs, next.session)
    BY <1>5, <1>6, <2>3
  <2>5. /\ buffered' \in [Sessions -> Seq(Events)]
        /\ \A r \in Sessions : buffered'[r] \in Seq(EventsOf(r))
    BY <2>2 DEF ClientInv, EventsReal
  <2> QED
    BY <1>1, <1>2, <1>5, <2>2, <2>3, <2>4, <2>5, GoesOn DEF PagingFits, Stalled
<1>11. CASE (reply.more \/ moved) /\ ReadsOn(load, reply)
  <2>1. PICK next : next = [load EXCEPT !.stalled = (reply.seqs = <<>>)]
    OBVIOUS
  <2>2. /\ loads' = [loads EXCEPT ![g] = next]
        /\ inbox' = Append(inbox, Request("events", load.session, g, Len(load.seqs)))
        /\ UNCHANGED <<selected, transcript, loading, buffered>>
    BY <1>3, <1>4, <1>8, <1>11, <2>1 DEF Page, Screen
  <2>3. next \in LoadStates /\ next.session = load.session /\ next.seqs = load.seqs
        /\ next.paging = load.paging /\ (next.stalled => reply.seqs = <<>>)
    BY <1>6, <2>1 DEF LoadStates
  <2>4. Shows(next.seqs, next.session)
    BY <1>5, <1>6, <2>3
  <2>5. PICK m : m = Request("events", load.session, g, Len(load.seqs))
    OBVIOUS
  <2>6. m \in Requests /\ m.who = g /\ m.session = next.session /\ m.after = Len(next.seqs)
    <3>1. Len(load.seqs) \in Nat /\ load.session \in Sessions
      BY <1>5, <1>6
    <3> QED
      BY <1>5, <2>3, <2>5, <3>1 DEF Requests, Request, Kinds
  <2>7. \E x \in Requests :
           /\ inbox' = Append(inbox, x)
           /\ IsPage(x) => /\ x.who = g /\ next.paging
                           /\ x.session = next.session /\ x.after = Len(next.seqs)
    BY <1>6, <1>7, <2>2, <2>3, <2>5, <2>6
  <2>8. /\ buffered' \in [Sessions -> Seq(Events)]
        /\ \A r \in Sessions : buffered'[r] \in Seq(EventsOf(r))
    BY <2>2 DEF ClientInv, EventsReal
  <2>9. PagingFits(next)
    <3>a. next.at # "approvals"
      <4>1. next.at = loads[g].at
        BY <1>4, <1>5, <2>1 DEF LoadStates
      <4> QED
        BY <1>7, <4>1 DEF ClientInv, LoadsPage, PagingFits
    <3> SUFFICES ASSUME reply.seqs = <<>> PROVE Behind(next)
      BY <2>3, <3>a DEF PagingFits, Stalled
    <3>1. Pages(g, reply) /\ reply.seqs = <<>> => ~reply.more
      BY <1>2 DEF FitReplies, Pages
    <3>2. /\ reply.head <= Len(stored[reply.session]) /\ reply.session = loads[g].session
          /\ reply.head \in Nat
      BY <1>2 DEF FitReplies, Replies, Pages
    <3>3. moved
      BY <1>11, <3>1
    <3>4. Len(next.seqs) < reply.head /\ Len(next.seqs) \in Nat /\ next.session = loads[g].session
      <4>1. Len(seqs) \in Nat /\ next.seqs = seqs /\ next.session = loads[g].session
        BY <1>5, <1>6, <2>3
      <4>2. Len(seqs) < reply.head
        BY <1>6, <1>8, <3>3
      <4> QED
        BY <4>1, <4>2
    <3>5. Len(stored[loads[g].session]) \in Nat
      BY <1>5 DEF ClientInv, ClientType
    <3> QED
      BY <3>2, <3>4, <3>5 DEF Behind
  <2> QED
    BY <1>1, <1>2, <1>5, <2>2, <2>3, <2>4, <2>7, <2>8, <2>9, GoesOn
<1>12. CASE FailLoad(g)
  BY <1>1, <1>2, <1>12, FailLoadKeeps
<1> QED
  BY <1>3, <1>4, <1>8, <1>9, <1>10, <1>11, <1>12 DEF Page

\* The approvals of a load are listed.
LEMMA ListedKeeps ==
    ASSUME ClientInv, ready # <<>>, ready' = Tail(ready), UNCHANGED <<Store, serving, pipe>>,
           NEW g \in Loads, Loading(g), NEW reply, reply = Head(ready),
           Listed(g, reply), generation' = generation
    PROVE  ClientInv'
<1>1. UNCHANGED <<stored, unsent, serving>> /\ pipe' = pipe
  BY DEF Store
<1>2. Handled /\ reply \in FitReplies
  BY <1>1, HandledReply
<1>3. PICK load : load = [loads[g] EXCEPT !.listed = TRUE, !.pending = reply.ok]
  OBVIOUS
<1>4. loads[g] \in LoadStates /\ reply.ok \in BOOLEAN
  BY <1>2 DEF ClientInv, ClientType, FitReplies, Replies
<1>5. /\ load \in LoadStates /\ load.session = loads[g].session /\ load.seqs = loads[g].seqs
      /\ load.paging = loads[g].paging /\ load.stalled = loads[g].stalled /\ load.at = loads[g].at
  BY <1>3, <1>4 DEF LoadStates
<1>6. g <= generation /\ Shows(load.seqs, load.session)
  BY <1>5 DEF ClientInv, LoadsShow
<1>7. CASE load.paging
  <2>1. loads' = [loads EXCEPT ![g] = load] /\ UNCHANGED <<selected, transcript, loading, buffered, inbox>>
    BY <1>3, <1>7 DEF Listed, Screen
  <2>2. loads' \in [Loads -> LoadStates] /\ \A h \in Loads : loads'[h] = IF h = g THEN load ELSE loads[h]
    BY <1>5, <2>1 DEF ClientInv, ClientType
  <2>3. ViewsHold
    <3>1. generation <= generation
      BY DEF ClientInv, ClientType
    <3> QED
      BY <1>1, <2>1, <2>2, <3>1 DEF ViewsHold, ClientInv, ClientType, ScreenShows, EventsReal
  <2>4. \A h \in Loads : Loading(h)' => SameLoad(h)
    BY <1>5, <2>2 DEF Loading, SameLoad
  <2> QED
    BY <1>2, <2>1, <2>3, <2>4, AskedNone, QuietStep
<1>8. CASE ~load.paging
  <2>1. Drain(g, load)
    BY <1>3, <1>8 DEF Listed
  <2>2. NoPage(g)
    BY <1>1, <1>5, <1>8, LastPage
  <2> QED
    BY <1>1, <1>2, <1>5, <1>6, <1>8, <2>1, <2>2, DrainKeeps
<1> QED
  BY <1>7, <1>8

LEMMA RunContinuationKeeps ==
    ASSUME ClientInv, RunContinuation
    PROVE  ClientInv'
<1>1. PICK reply : reply = Head(ready)
  OBVIOUS
<1>2. PICK g : g = reply.who
  OBVIOUS
<1>3. ready # <<>> /\ ready' = Tail(ready) /\ UNCHANGED <<Store, serving, pipe>>
  BY DEF RunContinuation
<1>4. \/ UNCHANGED <<Screen, Replay, inbox, command>>
      \/ g \in Loads /\ Loading(g) /\ reply.kind = "events" /\ Page(g, reply) /\ generation' = generation
      \/ g \in Loads /\ Loading(g) /\ Listed(g, reply) /\ generation' = generation
      \/ Continue(reply) /\ UNCHANGED <<selected, transcript, Replay>>
  BY <1>1, <1>2 DEF RunContinuation, Loading
<1>5. CASE UNCHANGED <<Screen, Replay, inbox, command>>
  <2>1. UNCHANGED <<stored, unsent, serving, selected, transcript, Replay>> /\ inbox' = inbox
        /\ pipe' = pipe
    BY <1>3, <1>5 DEF Screen, Store
  <2>2. Handled
    BY <1>3, <2>1, HandledReply
  <2> QED
    BY <2>1, <2>2, AskedNone, ViewsSame, QuietStep
<1>6. CASE g \in Loads /\ Loading(g) /\ reply.kind = "events" /\ Page(g, reply) /\ generation' = generation
  <2>1. Pages(g, reply)
    BY <1>2, <1>6 DEF Pages, IsPage
  <2> QED
    BY <1>1, <1>3, <1>6, <2>1, PageKeeps
<1>7. CASE g \in Loads /\ Loading(g) /\ Listed(g, reply) /\ generation' = generation
  BY <1>1, <1>3, <1>7, ListedKeeps
<1>8. CASE Continue(reply) /\ UNCHANGED <<selected, transcript, Replay>>
  <2>1. UNCHANGED <<selected, transcript, Replay>>
    BY <1>8
  <2> QED
    BY <1>1, <1>3, <1>8, <2>1, ContinueKeeps
<1> QED
  BY <1>4, <1>5, <1>6, <1>7, <1>8
-----------------------------------------------------------------------------
(* The theorem.                                                            *)

\* The load of the command line has asked for its first page.
LEMMA ClientStarts == ClientInit => ClientInv
<1> SUFFICES ASSUME ClientInit PROVE ClientInv
  OBVIOUS
<1>1. PICK first : first = NewLoad(Opened)
  OBVIOUS
<1>2. /\ first \in LoadStates /\ first.session = Opened /\ first.seqs = <<>> /\ first.paging
      /\ ~first.stalled /\ first.at = "fetch"
  <2>1. first = [session |-> Opened, at |-> "fetch", seqs |-> <<>>, paging |-> TRUE, listed |-> FALSE,
                 pending |-> FALSE, stalled |-> FALSE, dirty |-> FALSE]
    BY <1>1 DEF NewLoad, NoLoad
  <2>2. <<>> \in Seq(Nat)
    OBVIOUS
  <2> QED
    BY <2>1, <2>2 DEF LoadStates
<1>3. NoLoad \in LoadStates /\ NoLoad.at = "done"
  <2>1. <<>> \in Seq(Nat)
    OBVIOUS
  <2> QED
    BY <2>1 DEF NoLoad, LoadStates
<1>4. /\ loads = [g \in Loads |-> IF g = 1 THEN first ELSE NoLoad] /\ generation = 1 /\ 1 \in Loads
      /\ loads[1] = first /\ \A g \in Loads : g # 1 => loads[g] = NoLoad
  BY <1>1 DEF ClientInit
<1>5. ClientType
  <2>1. loads \in [Loads -> LoadStates]
    BY <1>2, <1>3, <1>4
  <2>2. loading \in [Sessions -> 0 .. MaxLoads] /\ selected \in Sessions
    BY DEF ClientInit
  <2>3. stored \in [Sessions -> Seq(Types)]
    <3>1. <<>> \in Seq(Types)
      OBVIOUS
    <3>2. PICK T : T = Seq(Types)
      OBVIOUS
    <3> QED
      BY <3>1, <3>2 DEF ClientInit
  <2> QED
    BY <1>4, <2>1, <2>2, <2>3 DEF ClientType
<1>6. ScreenShows
  BY <1>5, EmptyShows DEF ClientInit, ScreenShows
<1>7. EventsReal
  <2>1. buffered = [s \in Sessions |-> <<>>] /\ unsent = {}
    BY DEF ClientInit
  <2>2. <<>> \in Seq(Events) /\ \A s \in Sessions : <<>> \in Seq(EventsOf(s))
    OBVIOUS
  <2>3. \A s \in Sessions : buffered[s] \in Seq(EventsOf(s))
    BY <2>1, <2>2
  <2>4. PICK E : E = Seq(Events)
    OBVIOUS
  <2>5. buffered \in [Sessions -> E]
    BY <2>1, <2>2, <2>4
  <2> QED
    BY <2>1, <2>3, <2>4, <2>5 DEF EventsReal
<1>8. LoadsShow
  <2> SUFFICES ASSUME NEW g \in Loads, Loading(g)
               PROVE  g <= generation /\ Shows(loads[g].seqs, loads[g].session)
    BY DEF LoadsShow
  <2>1. g = 1
    BY <1>3, <1>4 DEF Loading
  <2>2. Shows(<<>>, Opened)
    BY <1>5, EmptyShows
  <2> QED
    BY <1>2, <1>4, <2>1, <2>2
<1>a. PICK a : a = Request("events", Opened, 1, 0)
  OBVIOUS
<1>b. PICK b : b = Request("approvals", Opened, 1, 0)
  OBVIOUS
<1>9. a \in FitRequests /\ b \in FitRequests /\ \A g : ~Pages(g, b)
  <2>1. a \in Requests /\ a.who = 1 /\ a.session = Opened /\ a.after = 0
    BY <1>a DEF Requests, Request, Kinds
  <2>2. Len(stored[Opened]) \in Nat
    BY <1>5 DEF ClientType
  <2>3. a \in FitRequests
    BY <1>2, <1>4, <2>1, <2>2 DEF FitRequests
  <2>4. b \in OtherRequests
    BY <1>b, OtherIs
  <2> QED
    BY <2>3, <2>4 DEF OtherRequests, FitRequests, Pages
<1>10. inbox = Append(Append(<<>>, a), b) /\ <<>> \in Seq(FitRequests)
  <2>1. inbox = <<a, b>>
    BY <1>a, <1>b DEF ClientInit, LoadRequests
  <2> QED
    BY <2>1
<1>11. serving = Nothing /\ pipe = <<>> /\ ready = <<>>
  BY DEF ClientInit
<1>12. MessagesFit
  BY <1>9, <1>10, <1>11, Longer DEF MessagesFit
<1>13. OnePage
  <2> SUFFICES ASSUME NEW g \in Loads, Loading(g)
               PROVE  InFlight(g) <= IF loads[g].paging THEN 1 ELSE 0
    BY DEF OnePage
  <2>1. g = 1
    BY <1>3, <1>4 DEF Loading
  <2>2. Count(<<>>, g) = 0
    <3>1. DOMAIN <<>> = {} /\ <<>> \in Seq(FitRequests)
      OBVIOUS
    <3> QED
      BY <3>1, CountType
  <2>3. PICK q : q = Append(<<>>, a)
    OBVIOUS
  <2>4. q \in Seq(FitRequests) /\ Count(q, g) = 0 + IF Pages(g, a) THEN 1 ELSE 0
    BY <1>9, <1>10, <2>2, <2>3, CountAppend, Longer
  <2>5. Count(inbox, g) = Count(q, g) + 0
    BY <1>9, <1>10, <2>3, <2>4, CountAppend
  <2>6. ~Pages(g, serving) /\ Count(pipe, g) = 0 /\ Count(ready, g) = 0
    BY <1>11, <2>2 DEF Pages, IsPage, Nothing
  <2>7. InFlight(g) <= 1
    BY <2>4, <2>5, <2>6 DEF InFlight
  <2> HIDE DEF InFlight
  <2> QED
    BY <1>2, <1>4, <2>1, <2>7
<1>14. LoadsPage
  <2>1. \A g \in Loads : Loading(g) => loads[g] = first
    BY <1>3, <1>4 DEF Loading
  <2> QED
    BY <1>2, <2>1 DEF LoadsPage, PagingFits, Stalled
<1> QED
  BY <1>5, <1>6, <1>7, <1>8, <1>12, <1>13, <1>14 DEF ClientInv

\* Every step keeps the invariant.
LEMMA ClientInductive == ClientInv /\ [ClientNext]_clientVars => ClientInv'
<1> SUFFICES ASSUME ClientInv, [ClientNext]_clientVars PROVE ClientInv'
  OBVIOUS
<1>1. CASE UNCHANGED clientVars
  <2>1. /\ UNCHANGED <<stored, unsent, serving, selected, transcript, Replay>>
        /\ UNCHANGED <<pipe, ready>> /\ inbox' = inbox
    BY <1>1 DEF clientVars, Replay
  <2> QED
    BY <2>1, HandledNone, AskedNone, ViewsSame, QuietStep
<1>2. ASSUME NEW s \in Sessions, RunThread(s) \/ Foreign(s) PROVE ClientInv'
  BY <1>2, RunThreadKeeps
<1>3. ASSUME NEW s \in Sessions, OpenSession(s) PROVE ClientInv'
  BY <1>3, OpenKeeps
<1>4. ASSUME NEW event \in unsent, Announce(event) PROVE ClientInv'
  BY <1>4, AnnounceKeeps
<1>5. CASE ServeEvents
  BY <1>5, ServeEventsKeeps
<1>6. CASE ServeHead
  BY <1>6, ServeHeadKeeps
<1>7. CASE Serve
  BY <1>7, ServeKeeps
<1>8. CASE Deliver
  BY <1>8, DeliverKeeps
<1>9. CASE RunContinuation
  BY <1>9, RunContinuationKeeps
<1>10. CASE Submit \/ ResolveApproval
  BY <1>10, CommandKeeps
<1>11. ASSUME NEW g \in Loads, LoadFails(g) PROVE ClientInv'
  BY <1>11, LoadFailsKeeps
<1> QED
  BY <1>1, <1>2, <1>3, <1>4, <1>5, <1>6, <1>7, <1>8, <1>9, <1>10, <1>11 DEF ClientNext

\* The invariant is as strong as the property.
LEMMA ClientShows == ClientInv => TranscriptIsPrefix
<1> SUFFICES ASSUME ClientInv PROVE TranscriptIsPrefix
  OBVIOUS
<1>1. /\ transcript = [session |-> selected, seqs |-> transcript.seqs] /\ selected \in Sessions
      /\ Shows(transcript.seqs, selected)
  BY DEF ClientInv, ScreenShows, ClientType
<1>2. PICK n \in 0 .. Len(stored[selected]) : transcript.seqs = First(n)
  BY <1>1 DEF Shows
<1>3. n \in Nat /\ n <= Len(stored[selected])
  BY <1>1 DEF ClientInv, ClientType
<1>4. HeadSeq(transcript) = n
  BY <1>2, <1>3, FirstIs DEF HeadSeq
<1>5. transcript.session = selected
  BY <1>1
<1> QED
  BY <1>2, <1>3, <1>4, <1>5 DEF TranscriptIsPrefix, First

\* What is shown is the beginning of the selected session, every event once and in
\* order, whatever notices come late, twice or not at all (mergeTranscriptEvents,
\* appendTranscriptEvent, loadSession).
THEOREM TranscriptIsPrefixCorrect == ClientSpec => []TranscriptIsPrefix
<1>1. ClientSpec => []ClientInv
  BY ClientStarts, ClientInductive, PTL DEF ClientSpec
<1> QED
  BY <1>1, ClientShows, PTL
-----------------------------------------------------------------------------
(* The newest load is shown when it ends.                                  *)

\* Load g is on the screen, not behind what it had read.
OnScreen(g) ==
    /\ transcript'.session = loads[g].session /\ selected' = loads[g].session
    /\ HeadSeq(transcript') >= Len(loads[g].seqs)
NewestEndsShown == \A g \in Loads : Loading(g) /\ ~Loading(g)' /\ g = generation => OnScreen(g)

\* A step of load g leaves the others alone.
LEMMA OtherLoads ==
    ASSUME NEW g, \A h \in Loads : h # g => loads'[h] = loads[h],
           g \in Loads /\ g = generation => Loading(g)' \/ OnScreen(g)
    PROVE  NewestEndsShown
  BY DEF NewestEndsShown, Loading

\* A load that publishes is on the screen, not behind what it had read.
LEMMA PublishShown ==
    ASSUME ClientInv, NEW g \in Loads, NEW load, load.session = loads[g].session,
           Len(load.seqs) \in Nat, Len(loads[g].seqs) <= Len(load.seqs), Publish(g, load)
    PROVE  OnScreen(g) /\ \A h \in Loads : h # g => loads'[h] = loads[h]
<1>1. PICK s : s = load.session
  OBVIOUS
<1>2. EndLoad(g) /\ selected' = s
  BY <1>1 DEF Publish
<1>3. \A h \in Loads : h # g => loads'[h] = loads[h]
  BY <1>2 DEF EndLoad, ClientInv, ClientType
<1>4. Len(loads[g].seqs) \in Nat /\ HeadSeq(transcript) \in Nat
  <2>1. loads[g].seqs \in Seq(Nat)
    BY DEF ClientInv, ClientType, LoadStates
  <2>2. PICK n \in 0 .. Len(stored[selected]) : transcript.seqs = First(n)
    BY DEF ClientInv, ScreenShows, Shows
  <2>3. n \in Nat
    BY <2>2
  <2> QED
    BY <2>1, <2>2, <2>3, FirstIs DEF HeadSeq
<1>5. \/ transcript' = transcript /\ transcript.session = s /\ HeadSeq(transcript) > Len(load.seqs)
      \/ transcript' = [session |-> s, seqs |-> load.seqs]
  BY <1>1 DEF Publish
<1>6. transcript'.session = s /\ HeadSeq(transcript') >= Len(load.seqs)
  <2>1. CASE transcript' = transcript /\ transcript.session = s /\ HeadSeq(transcript) > Len(load.seqs)
    BY <1>4, <2>1
  <2>2. CASE transcript' = [session |-> s, seqs |-> load.seqs]
    BY <2>2 DEF HeadSeq
  <2> QED
    BY <1>5, <2>1, <2>2
<1>7. HeadSeq(transcript') \in Nat
  BY <1>4, <1>5 DEF HeadSeq
<1>8. HeadSeq(transcript') >= Len(loads[g].seqs)
  BY <1>4, <1>6, <1>7
<1> QED
  BY <1>1, <1>2, <1>3, <1>6, <1>8 DEF OnScreen

\* The loop before publishing publishes, or goes on.
LEMMA DrainShown ==
    ASSUME ClientInv, NEW g \in Loads, NEW load \in LoadStates, load.session = loads[g].session,
           Shows(load.seqs, load.session), Len(loads[g].seqs) <= Len(load.seqs), Drain(g, load)
    PROVE  NewestEndsShown
<1>1. PICK s : s = load.session
  OBVIOUS
<1>2. PICK view : view = [session |-> s, seqs |-> load.seqs]
  OBVIOUS
<1>3. PICK batch : batch = buffered[s]
  OBVIOUS
<1>4. s \in Sessions /\ ClientType /\ EventsReal /\ loads \in [Loads -> LoadStates]
  BY <1>1 DEF LoadStates, ClientInv, ClientType
<1>5. CASE g # generation
  <2>1. EndLoad(g)
    BY <1>5 DEF Drain, FailLoad
  <2>2. \A h \in Loads : h # g => loads'[h] = loads[h]
    BY <1>4, <2>1 DEF EndLoad
  <2> QED
    BY <1>5, <2>2, OtherLoads
<1>6. ASSUME NEW next, loads' = [loads EXCEPT ![g] = next], next.at # "done"
      PROVE  NewestEndsShown
  BY <1>4, <1>6, OtherLoads DEF Loading
<1>7. ASSUME g = generation, MergeGap(view, batch) PROVE NewestEndsShown
  <2>1. PICK next : next = [[load EXCEPT !.seqs = <<>>, !.paging = TRUE, !.stalled = FALSE, !.dirty = TRUE]
                            EXCEPT !.at = "repair"]
    OBVIOUS
  <2>2. loads' = [loads EXCEPT ![g] = next]
    BY <1>1, <1>2, <1>3, <1>7, <2>1 DEF Drain
  <2>3. next.at # "done"
    BY <2>1 DEF LoadStates
  <2> QED
    BY <1>6, <2>2, <2>3
<1>8. PICK seqs : seqs = Merged(view, batch).seqs
  OBVIOUS
<1>9. ASSUME g = generation, ~MergeGap(view, batch) PROVE NewestEndsShown
  <2>1. \/ loads' = [loads EXCEPT ![g] = [[load EXCEPT !.seqs = seqs, !.dirty = FALSE]
                                          EXCEPT !.at = "approvals"]]
        \/ Publish(g, [load EXCEPT !.seqs = seqs])
    BY <1>1, <1>2, <1>3, <1>8, <1>9 DEF Drain
  <2>2. CASE loads' = [loads EXCEPT ![g] = [[load EXCEPT !.seqs = seqs, !.dirty = FALSE]
                                            EXCEPT !.at = "approvals"]]
    <3>1. PICK next : next = [[load EXCEPT !.seqs = seqs, !.dirty = FALSE] EXCEPT !.at = "approvals"]
      OBVIOUS
    <3>2. loads' = [loads EXCEPT ![g] = next]
      BY <2>2, <3>1
    <3>3. next.at # "done"
      BY <3>1 DEF LoadStates
    <3> QED
      BY <1>6, <3>2, <3>3
  <2>3. CASE Publish(g, [load EXCEPT !.seqs = seqs])
    <3>1. PICK next : next = [load EXCEPT !.seqs = seqs]
      OBVIOUS
    <3>2. next.session = s /\ next.seqs = seqs
      BY <1>1, <3>1 DEF LoadStates
    <3>3. seqs \in Seq(Nat) /\ Len(load.seqs) <= Len(seqs)
      BY <1>1, <1>2, <1>3, <1>4, <1>8, <1>9, MergedShows
    <3>4. Len(seqs) \in Nat /\ Len(load.seqs) \in Nat /\ Len(loads[g].seqs) \in Nat
      <4>1. load.seqs \in Seq(Nat) /\ loads[g].seqs \in Seq(Nat)
        BY <1>4 DEF LoadStates
      <4> QED
        BY <3>3, <4>1
    <3>5. Len(loads[g].seqs) <= Len(seqs)
      BY <3>3, <3>4
    <3>6. Publish(g, next)
      BY <2>3, <3>1
    <3>7. OnScreen(g) /\ \A h \in Loads : h # g => loads'[h] = loads[h]
      BY <1>1, <3>2, <3>4, <3>5, <3>6, PublishShown
    <3> QED
      BY <3>7, OtherLoads
  <2> QED
    BY <2>1, <2>2, <2>3
<1> QED
  BY <1>5, <1>7, <1>9

\* A page is never the last of an unfinished history: an empty one says that nothing
\* follows, and the one after it is not empty.
LEMMA PageReadsOn ==
    ASSUME ClientInv, NEW g \in Loads, Loading(g), loads[g].paging, NEW reply \in FitReplies,
           Pages(g, reply), NEW load, load.stalled = loads[g].stalled
    PROVE  ReadsOn(load, reply)
<1>1. reply.who = g /\ IsPage(reply)
  BY DEF Pages
<1>2. reply.seqs = <<>> => ~reply.more /\ ~Stalled(loads[g])
  BY <1>1 DEF FitReplies
<1> QED
  BY <1>2 DEF ReadsOn, Stalled

\* A page is never the end of a load, but for the loop that publishes.
LEMMA PageShown ==
    ASSUME ClientInv, ready # <<>>, ready' = Tail(ready), UNCHANGED <<Store, serving, pipe>>,
           NEW g \in Loads, Loading(g), NEW reply, reply = Head(ready), Pages(g, reply), Page(g, reply)
    PROVE  NewestEndsShown
<1>1. pipe' = pipe
  BY DEF Store
<1>2. reply \in FitReplies
  BY <1>1, HandledReply
<1>3. PICK seqs : seqs = loads[g].seqs \o reply.seqs
  OBVIOUS
<1>4. PICK load : load = [loads[g] EXCEPT !.seqs = seqs]
  OBVIOUS
<1>5. /\ loads[g] \in LoadStates /\ loads[g].session \in Sessions /\ loads[g].seqs \in Seq(Nat)
      /\ reply.seqs \in Seq(Nat) /\ loads \in [Loads -> LoadStates]
      /\ seqs \in Seq(Nat) /\ Shows(seqs, loads[g].session)
  <2>1. loads \in [Loads -> LoadStates]
    BY DEF ClientInv, ClientType
  <2>2. loads[g] \in LoadStates /\ loads[g].session \in Sessions /\ loads[g].seqs \in Seq(Nat)
    BY <2>1 DEF LoadStates
  <2>3. seqs \in Seq(Nat) /\ Shows(seqs, loads[g].session)
    BY <1>2, <1>3, PageShows
  <2>4. reply.seqs \in Seq(Nat)
    BY <1>2 DEF FitReplies, Replies
  <2> QED
    BY <2>1, <2>2, <2>3, <2>4
<1>6. load \in LoadStates /\ load.session = loads[g].session /\ load.seqs = seqs
      /\ load.stalled = loads[g].stalled /\ load.at = loads[g].at
  BY <1>4, <1>5 DEF LoadStates
<1>7. Len(loads[g].seqs) <= Len(seqs)
  <2>1. PICK old : old = loads[g].seqs
    OBVIOUS
  <2>2. PICK new : new = reply.seqs
    OBVIOUS
  <2>3. Len(old \o new) = Len(old) + Len(new) /\ Len(old) \in Nat /\ Len(new) \in Nat
    BY <1>5, <2>1, <2>2
  <2>4. Len(old) <= Len(old \o new)
    BY <2>3
  <2>5. seqs = old \o new
    BY <1>3, <2>1, <2>2
  <2> QED
    BY <2>1, <2>4, <2>5
<1>8. loads[g].paging
  BY <1>1, PageIsAwaited
<1>9. ReadsOn(load, reply)
  BY <1>2, <1>6, <1>8, PageReadsOn
<1>10. load.at = "fetch" \/ load.at = "repair"
  <2>1. loads[g].at # "approvals" /\ loads[g].at # "done"
    BY <1>8 DEF ClientInv, LoadsPage, PagingFits, Loading
  <2> QED
    BY <1>6, <2>1 DEF LoadStates
<1>11. ASSUME NEW next, loads' = [loads EXCEPT ![g] = next], next.at = load.at
       PROVE  NewestEndsShown
  <2>1. Loading(g)' /\ \A h \in Loads : h # g => loads'[h] = loads[h]
    BY <1>5, <1>10, <1>11 DEF Loading
  <2> QED
    BY <2>1, OtherLoads
<1>12. PICK last : last = [load EXCEPT !.paging = FALSE]
  OBVIOUS
<1>13. last \in LoadStates /\ last.session = load.session /\ last.seqs = load.seqs /\ last.at = load.at
  BY <1>6, <1>12 DEF LoadStates
<1>14. PICK next : next = [load EXCEPT !.stalled = (reply.seqs = <<>>)]
  OBVIOUS
<1>15. next.at = load.at
  BY <1>6, <1>14 DEF LoadStates
<1>16. Drain(g, last) \/ loads' = [loads EXCEPT ![g] = last] \/ loads' = [loads EXCEPT ![g] = next]
  BY <1>3, <1>4, <1>9, <1>10, <1>12, <1>14 DEF Page
<1>17. CASE Drain(g, last)
  BY <1>5, <1>6, <1>7, <1>13, <1>17, DrainShown
<1> QED
  BY <1>11, <1>13, <1>15, <1>16, <1>17

LEMMA ListedShown ==
    ASSUME ClientInv, NEW g \in Loads, Loading(g), NEW reply \in FitReplies, Listed(g, reply)
    PROVE  NewestEndsShown
<1>1. PICK load : load = [loads[g] EXCEPT !.listed = TRUE, !.pending = reply.ok]
  OBVIOUS
<1>2. loads[g] \in LoadStates /\ reply.ok \in BOOLEAN /\ loads \in [Loads -> LoadStates]
  BY DEF ClientInv, ClientType, FitReplies, Replies
<1>3. /\ load \in LoadStates /\ load.session = loads[g].session /\ load.seqs = loads[g].seqs
      /\ load.at = loads[g].at
  BY <1>1, <1>2 DEF LoadStates
<1>4. CASE loads' = [loads EXCEPT ![g] = load]
  <2>1. Loading(g)' /\ \A h \in Loads : h # g => loads'[h] = loads[h]
    BY <1>2, <1>3, <1>4 DEF Loading
  <2> QED
    BY <2>1, OtherLoads
<1>5. CASE Drain(g, load)
  <2>1. Shows(load.seqs, load.session)
    BY <1>3 DEF ClientInv, LoadsShow
  <2>2. Len(loads[g].seqs) <= Len(load.seqs)
    <3>1. load.seqs \in Seq(Nat)
      BY <1>3 DEF LoadStates
    <3>2. Len(load.seqs) \in Nat
      BY <3>1
    <3> QED
      BY <1>3, <3>2
  <2> QED
    BY <1>3, <1>5, <2>1, <2>2, DrainShown
<1> QED
  BY <1>1, <1>4, <1>5 DEF Listed

LEMMA ContinuationShown ==
    ASSUME ClientInv, RunContinuation
    PROVE  NewestEndsShown
<1>1. PICK reply : reply = Head(ready)
  OBVIOUS
<1>2. PICK g : g = reply.who
  OBVIOUS
<1>3. ready # <<>> /\ ready' = Tail(ready) /\ UNCHANGED <<Store, serving, pipe>>
  BY DEF RunContinuation
<1>4. \/ UNCHANGED loads
      \/ g \in Loads /\ Loading(g) /\ reply.kind = "events" /\ Page(g, reply)
      \/ g \in Loads /\ Loading(g) /\ Listed(g, reply)
  BY <1>1, <1>2 DEF RunContinuation, Loading, Replay
<1>5. reply \in FitReplies
  BY <1>1, <1>3, HandledReply DEF Store
<1>6. CASE UNCHANGED loads
  BY <1>6 DEF NewestEndsShown, Loading
<1>7. CASE g \in Loads /\ Loading(g) /\ reply.kind = "events" /\ Page(g, reply)
  <2>1. Pages(g, reply)
    BY <1>2, <1>7 DEF Pages, IsPage
  <2> QED
    BY <1>1, <1>3, <1>7, <2>1, PageShown
<1>8. CASE g \in Loads /\ Loading(g) /\ Listed(g, reply)
  BY <1>5, <1>8, ListedShown
<1> QED
  BY <1>4, <1>6, <1>7, <1>8

\* A new load leaves the others alone.
LEMMA StartLoadShown ==
    ASSUME ClientInv, NEW s, NEW more, StartLoad(s, more)
    PROVE  NewestEndsShown
<1>1. PICK g : g = generation + 1
  OBVIOUS
<1>2. loads' = [loads EXCEPT ![g] = NewLoad(s)]
  BY <1>1 DEF StartLoad
<1>3. \A h \in Loads : h # g => loads'[h] = loads[h]
  BY <1>2 DEF ClientInv, ClientType
<1>4. g # generation
  BY <1>1 DEF ClientInv, ClientType
<1> QED
  BY <1>3, <1>4, OtherLoads

\* Only a request that fails ends the newest load without showing it.
LEMMA StepShows ==
    ASSUME ClientInv, failures \in Nat, [ClientNext]_clientVars
    PROVE  failures' \in Nat /\ (failures' = failures => NewestEndsShown)
<1>1. ASSUME UNCHANGED loads PROVE NewestEndsShown
  BY <1>1 DEF NewestEndsShown, Loading
<1>2. CASE UNCHANGED clientVars
  BY <1>1, <1>2 DEF clientVars
<1>3. ASSUME NEW s \in Sessions, RunThread(s) \/ Foreign(s)
      PROVE  failures' = failures /\ NewestEndsShown
  BY <1>1, <1>3 DEF RunThread, Foreign, Replay
<1>4. ASSUME NEW s \in Sessions, OpenSession(s) PROVE failures' = failures /\ NewestEndsShown
  BY <1>4, StartLoadShown DEF OpenSession
<1>5. ASSUME NEW event \in unsent, Announce(event) PROVE failures' = failures /\ NewestEndsShown
  BY <1>1, <1>5 DEF Announce, Replay
<1>6. CASE ServeEvents \/ ServeHead \/ Serve
  BY <1>1, <1>6 DEF ServeEvents, ServeHead, Serve, Replay
<1>7. CASE Submit \/ ResolveApproval
  BY <1>1, <1>7 DEF Submit, ResolveApproval, Replay
<1>8. CASE Deliver
  <2>1. failures' = failures
    BY <1>8 DEF Deliver
  <2>2. UNCHANGED loads \/ \E s, more : StartLoad(s, more)
    BY <1>8 DEF Deliver, Listen, Replay
  <2> QED
    BY <1>1, <2>1, <2>2, StartLoadShown
<1>9. CASE RunContinuation
  BY <1>9, ContinuationShown DEF RunContinuation
<1>10. ASSUME NEW g \in Loads, LoadFails(g) PROVE failures' \in Nat /\ failures' # failures
  BY <1>10 DEF LoadFails
<1> QED
  BY <1>2, <1>3, <1>4, <1>5, <1>6, <1>7, <1>8, <1>9, <1>10 DEF ClientNext

\* The newest load ends with its session on the screen, not behind what it had read,
\* unless a request fails (readSessionHistory, loadSession).
THEOREM NewestLoadIsShownCorrect == ClientSpec => NewestLoadIsShown
<1>1. ClientInit => failures \in Nat
  BY DEF ClientInit
<1>2. ClientInv /\ failures \in Nat /\ [ClientNext]_clientVars => (failures \in Nat)'
  BY StepShows
<1>3. ClientInv /\ failures \in Nat /\ [ClientNext]_clientVars
      => [\A g \in 1 .. MaxLoads :
             /\ loads[g].at # "done" /\ loads'[g].at = "done"
             /\ g = generation /\ failures' = failures
             => /\ transcript'.session = loads[g].session /\ selected' = loads[g].session
                /\ HeadSeq(transcript') >= Len(loads[g].seqs)]_clientVars
  BY StepShows DEF NewestEndsShown, OnScreen, Loading
<1> QED
  BY <1>1, <1>2, <1>3, ClientStarts, ClientInductive, PTL DEF ClientSpec, NewestLoadIsShown
===============================================================================
