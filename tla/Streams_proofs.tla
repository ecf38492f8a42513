---------------------------- MODULE Streams_proofs ----------------------------
(***************************************************************************)
(* Proofs about what the program reads from the other end of a stream.     *)
(* ToolProcess: a task gets the reply to its own request, and a mutation   *)
(* is sent once, however tasks, cancellations and deaths of the process    *)
(* interleave.  Commands: the result of a command is what it wrote, and    *)
(* its leader does not survive a timeout.  ModelStream: what reaches the   *)
(* log is what was shown, and both adapters implement the chunk stream.    *)
(* Turns: a turn that has ended has shown every event of its run.          *)
(***************************************************************************)
EXTENDS ToolProcess, Commands, ModelStream, Turns,
        FiniteSetTheorems, NaturalsInduction, WellFoundedInduction, SequenceTheorems, TLAPS

-----------------------------------------------------------------------------
(* Processes of tools and plugins.                                         *)

Messages ==
    {"none", "spawn", "initialize", "notify", "read", "mutate", "close", "start", "stop", "kill"}

TaskStates ==
    [at : {"idle", "queued", "writing", "reading"},
     op : {"none", "read", "mutate", "close", "start", "stop"},
     message : Messages, id : Nat, tries : Nat, again : BOOLEAN, sent : Nat,
     foreign : BOOLEAN]

\* What the child may find in its input, and a task in the output.
RequestLines == [id : Nat, from : Tasks \cup {"gone"}, what : Messages]
ReplyLines == [id : Nat, from : Tasks \cup {"gone"}, what : {"reply"}]
OtherLines == [id : {0}, from : {"none"}, what : {"note", "junk"}]

ProcessType ==
    /\ task \in [Tasks -> TaskStates]
    /\ stdin \in Seq(RequestLines)
    /\ stdout \in Seq(ReplyLines \cup OtherLines)

\* A task with a request under way has numbered it.
Numbered(r) ==
    r.at \in {"writing", "reading"} \/ (r.at = "queued" /\ r.message \in Requests) => r.id # 0

\* The call has reached a process since the last retry.
Reached(r) == r.message = "kill" \/ (r.at = "reading" /\ r.message = r.op)

\* Each try reaches a process once, and only calls that may be repeated are.
Counted(r) ==
    /\ r.sent <= r.tries + IF Reached(r) THEN 1 ELSE 0
    /\ r.tries <= Attempts
    /\ ~Retryable(r.op) => r.tries = 0
    /\ r.message = "kill" => r.at = "queued"

Sound(r) == r \in TaskStates /\ Numbered(r) /\ Counted(r) /\ ~r.foreign

\* A request that has its number and is not written yet.
Pending(r) ==
    \/ r.at = "writing" /\ r.message # "notify"
    \/ r.at = "queued" /\ r.message \in Requests \ {"notify"}

\* A number belongs to one task.  No line carries it before its request is written;
\* a line that carries the number of the reply a task waits for is that request, or
\* the reply to it.
NumbersApart ==
    /\ \A t, u \in Tasks : t # u /\ task[t].id = task[u].id => task[t].id = 0
    /\ \A t \in Tasks : \A line \in ToSet(stdin) \cup ToSet(stdout) :
          line.id = task[t].id /\ line.id # 0 =>
             ~Pending(task[t]) /\ (task[t].at = "reading" => line.from = t)

ProcessInv ==
    /\ ProcessType
    /\ \A t \in Tasks : Sound(task[t])
    /\ NumbersApart

Lines == ToSet(stdin) \cup ToSet(stdout)

\* A task keeps its number while it goes on with the request that has it.
Continues(old, r) ==
    /\ r.id = old.id
    /\ Pending(r) => Pending(old)
    /\ r.at = "reading" => old.at = "reading" \/ Pending(old)

\* What a step does to the task it is about, and to the pipes: a number that
\* appears is new; a line that appears is the message that a task was writing, and
\* makes the lines of its earlier messages nobody's.
TaskMoves(t) ==
    \E r : /\ task' = [task EXCEPT ![t] = r]
          /\ Sound(r) /\ (r.id \in {0, FreshId} \/ Continues(task[t], r))

Writer(t) == t \in Tasks /\ task[t].at = "writing"

\* Its request is in the pipe, or it has none any more.
Passed(t) == ~Pending(task'[t]) \/ task'[t].id # task[t].id

PipesMove ==
    /\ stdin' \in Seq(RequestLines) /\ stdout' \in Seq(ReplyLines \cup OtherLines)
    /\ \A line \in Lines' :
          \/ line.id = 0
          \/ \E old \in Lines : line.id = old.id /\ (line.from = old.from \/ Writer(old.from))
          \/ \E t \in Tasks : /\ Writer(t) /\ Passed(t)
                            /\ line.id = task[t].id /\ line.from = t
-----------------------------------------------------------------------------
USE ToolProcessAssumption

LEMMA ElementsOf ==
    /\ ToSet(<<>>) = {}
    /\ \A S : \A s \in Seq(S) : ToSet(s) \subseteq S
    /\ \A S : \A s \in Seq(S) : s # <<>> => Head(s) \in ToSet(s) /\ ToSet(Tail(s)) \subseteq ToSet(s)
    /\ \A S : \A s \in Seq(S), x \in S : ToSet(Append(s, x)) = ToSet(s) \cup {x}
<1>1. \A S : \A s \in Seq(S) : s # <<>> => Head(s) \in ToSet(s) /\ ToSet(Tail(s)) \subseteq ToSet(s)
  BY DEF ToSet
<1>2. \A S : \A s \in Seq(S), x \in S : ToSet(Append(s, x)) = ToSet(s) \cup {x}
  <2> SUFFICES ASSUME NEW S, NEW s \in Seq(S), NEW x \in S
               PROVE  ToSet(Append(s, x)) = ToSet(s) \cup {x}
    OBVIOUS
  <2>1. ASSUME NEW y \in ToSet(Append(s, x)) PROVE y \in ToSet(s) \cup {x}
    BY <2>1 DEF ToSet
  <2>2. ASSUME NEW y \in ToSet(s) PROVE y \in ToSet(Append(s, x))
    BY <2>2 DEF ToSet
  <2>3. x \in ToSet(Append(s, x))
    <3>1. Len(s) + 1 \in DOMAIN Append(s, x) /\ Append(s, x)[Len(s) + 1] = x
      OBVIOUS
    <3> QED
      BY <3>1 DEF ToSet
  <2> QED
    BY <2>1, <2>2, <2>3
<1>3. \A S : \A s \in Seq(S) : ToSet(s) \subseteq S
  BY DEF ToSet
<1>4. ToSet(<<>>) = {}
  BY DEF ToSet
<1> QED
  BY <1>1, <1>2, <1>3, <1>4

LEMMA ElementsOfBoth ==
    ASSUME NEW S, NEW s \in Seq(S), NEW r \in Seq(S)
    PROVE  ToSet(s \o r) = ToSet(s) \cup ToSet(r)
<1>1. ASSUME NEW x \in ToSet(s \o r) PROVE x \in ToSet(s) \cup ToSet(r)
  BY <1>1 DEF ToSet
<1>2. ASSUME NEW x \in ToSet(s) PROVE x \in ToSet(s \o r)
  BY <1>2 DEF ToSet
<1>3. ASSUME NEW x \in ToSet(r) PROVE x \in ToSet(s \o r)
  <2>1. PICK i \in 1 .. Len(r) : x = r[i]
    BY <1>3 DEF ToSet
  <2>2. Len(s) + i \in 1 .. Len(s \o r) /\ (s \o r)[Len(s) + i] = r[i]
    BY <2>1
  <2> QED
    BY <2>1, <2>2 DEF ToSet
<1> QED
  BY <1>1, <1>2, <1>3

LEMMA FiniteElements ==
    ASSUME NEW S, NEW s \in Seq(S)
    PROVE  IsFiniteSet({line.id : line \in ToSet(s)})
<1> DEFINE ids == {line.id : line \in ToSet(s)}
           f == [i \in 1 .. Len(s) |-> s[i].id]
<1>1. f \in Surjection(1 .. Len(s), ids)
  BY DEF Surjection, ToSet
<1>2. IsFiniteSet(1 .. Len(s))
  BY FS_Interval
<1> QED
  BY <1>1, <1>2, FS_Surjection

\* The number a request takes is in use nowhere else.
LEMMA FreshIsFresh ==
    ASSUME ProcessType
    PROVE  /\ FreshId \in Nat \ {0}
           /\ \A t \in Tasks : task[t].id # FreshId
           /\ \A line \in Lines : line.id # FreshId
<1> DEFINE ids == {task[t].id : t \in Tasks}
           f == [t \in Tasks |-> task[t].id]
           n == Cardinality(Used) + 1
<1>1. IsFiniteSet(ids)
  <2>1. f \in Surjection(Tasks, ids)
    BY DEF Surjection
  <2> QED
    BY <2>1, FS_Surjection
<1>2. Used = ids \cup {line.id : line \in ToSet(stdin)} \cup {line.id : line \in ToSet(stdout)}
  <2>1. stdin \in Seq(RequestLines \cup ReplyLines \cup OtherLines)
    BY DEF ProcessType
  <2>2. stdout \in Seq(RequestLines \cup ReplyLines \cup OtherLines)
    BY DEF ProcessType
  <2>3. ToSet(stdin \o stdout) = ToSet(stdin) \cup ToSet(stdout)
    BY <2>1, <2>2, ElementsOfBoth
  <2> QED
    BY <2>3 DEF Used
<1>3. IsFiniteSet(Used)
  <2>1. IsFiniteSet({line.id : line \in ToSet(stdin)})
    BY FiniteElements DEF ProcessType
  <2>2. IsFiniteSet({line.id : line \in ToSet(stdout)})
    BY FiniteElements DEF ProcessType
  <2> QED
    BY <1>1, <1>2, <2>1, <2>2, FS_Union
<1>4. n \in Nat \ {0} /\ IsFiniteSet(1 .. n) /\ Cardinality(1 .. n) = n
  <2>1. n \in Nat \ {0}
    BY <1>3, FS_CardinalityType
  <2> HIDE DEF n
  <2> QED
    BY <2>1, FS_Interval
<1>5. ~(1 .. n \subseteq Used)
  <2>1. Cardinality(Used) \in Nat
    BY <1>3, FS_CardinalityType
  <2>2. SUFFICES ASSUME 1 .. n \subseteq Used PROVE FALSE
    OBVIOUS
  <2>3. Cardinality(1 .. n) <= Cardinality(Used)
    BY <1>3, <2>2, FS_Subset
  <2> QED
    BY <1>4, <2>1, <2>3
<1>6. FreshId \in 1 .. n /\ FreshId \notin Used
  BY <1>5 DEF FreshId
<1> QED
  BY <1>2, <1>4, <1>6 DEF Lines

\* What the moves of a step keep.
LEMMA MovesKeep ==
    ASSUME ProcessInv, PipesMove,
           UNCHANGED task \/ \E t \in Tasks : TaskMoves(t)
    PROVE  ProcessInv'
<1>1. /\ ProcessType /\ NumbersApart /\ \A t \in Tasks : Sound(task[t])
      /\ FreshId \in Nat \ {0}
      /\ \A t \in Tasks : task[t].id # FreshId
      /\ \A line \in Lines : line.id # FreshId
  BY FreshIsFresh DEF ProcessInv
<1>2. /\ task' \in [Tasks -> TaskStates]
      /\ \A t \in Tasks : Sound(task'[t]) /\ (task'[t].id \in {0, FreshId} \/ Continues(task[t], task'[t]))
      /\ \A t, u \in Tasks : task'[t].id = FreshId /\ task'[u].id = FreshId => t = u
  <2>1. CASE UNCHANGED task
    BY <1>1, <2>1 DEF ProcessType, Continues
  <2>2. CASE \E t \in Tasks : TaskMoves(t)
    <3>0. PICK t \in Tasks : TaskMoves(t)
      BY <2>2
    <3>1. PICK r : /\ task' = [task EXCEPT ![t] = r]
                   /\ Sound(r) /\ (r.id \in {0, FreshId} \/ Continues(task[t], r))
      BY <3>0 DEF TaskMoves
    <3>2. r \in TaskStates /\ task' \in [Tasks -> TaskStates]
      BY <1>1, <3>1 DEF Sound, ProcessType
    <3>3. \A u \in Tasks : task'[u] = IF u = t THEN r ELSE task[u]
      BY <1>1, <3>1 DEF ProcessType
    <3> QED
      BY <1>1, <3>1, <3>2, <3>3 DEF Continues
  <2> QED
    BY <2>1, <2>2
<1>3. ProcessType'
  BY <1>2 DEF ProcessType, PipesMove
<1>4. ASSUME NEW t \in Tasks, NEW u \in Tasks, t # u, task'[t].id = task'[u].id
      PROVE  task'[t].id = 0
  BY <1>1, <1>2, <1>4 DEF NumbersApart, Continues
<1>5. ASSUME NEW t \in Tasks, NEW line \in Lines', line.id = task'[t].id, line.id # 0
      PROVE  ~Pending(task'[t]) /\ (task'[t].at = "reading" => line.from = t)
  <2>1. CASE \E old \in Lines : line.id = old.id /\ (line.from = old.from \/ Writer(old.from))
    <3>1. PICK old \in Lines : line.id = old.id /\ (line.from = old.from \/ Writer(old.from))
      BY <2>1
    <3>2. Continues(task[t], task'[t]) /\ old.id = task[t].id
      BY <1>1, <1>2, <1>5, <3>1 DEF Continues
    <3>3. ~Pending(task[t]) /\ (task[t].at = "reading" => old.from = t)
      BY <1>1, <1>5, <3>1, <3>2 DEF NumbersApart, Lines
    <3> QED
      BY <3>1, <3>2, <3>3 DEF Continues, Writer
  <2>2. CASE \E u \in Tasks : Writer(u) /\ Passed(u) /\ line.id = task[u].id /\ line.from = u
    <3>1. PICK u \in Tasks : Passed(u) /\ line.id = task[u].id /\ line.from = u
      BY <2>2
    <3>2. task[u].id = task[t].id
      BY <1>1, <1>2, <1>5, <3>1 DEF Continues
    <3>3. t = u
      BY <1>1, <1>5, <3>1, <3>2 DEF NumbersApart
    <3> QED
      BY <1>5, <3>1, <3>3 DEF Passed
  <2> QED
    BY <1>5, <2>1, <2>2 DEF PipesMove
<1> QED
  BY <1>2, <1>3, <1>4, <1>5 DEF ProcessInv, NumbersApart, Lines

\* The lines keep their numbers, and only those of the writer lose it.
LEMMA DisownedLines ==
    ASSUME NEW S, NEW pipe \in Seq(S), NEW t \in Tasks,
           S \in {RequestLines, ReplyLines \cup OtherLines}
    PROVE  /\ Disowned(pipe, t) \in Seq(S)
           /\ \A line \in ToSet(Disowned(pipe, t)) : \E old \in ToSet(pipe) :
                line.id = old.id /\ (line.from = old.from \/ old.from = t)
<1> DEFINE d(i) == IF pipe[i].from = t THEN [pipe[i] EXCEPT !.from = "gone"] ELSE pipe[i]
           n == Len(pipe)
<1>1. n \in Nat /\ DOMAIN pipe = 1 .. n /\ \A i \in 1 .. n : pipe[i] \in S
  OBVIOUS
<1>2. ASSUME NEW i \in 1 .. n
      PROVE  /\ d(i) \in S
             /\ d(i).id = pipe[i].id /\ (d(i).from = pipe[i].from \/ pipe[i].from = t)
  <2>1. pipe[i] \in RequestLines \/ pipe[i] \in ReplyLines \/ pipe[i] \in OtherLines
    BY <1>1
  <2>2. CASE pipe[i].from # t
    BY <1>1, <2>2
  <2>3. CASE pipe[i].from = t
    <3>1. pipe[i] \notin OtherLines
      BY <2>3 DEF OtherLines
    <3>2. d(i) = [id |-> pipe[i].id, from |-> "gone", what |-> pipe[i].what]
      BY <2>1, <2>3, <3>1 DEF RequestLines, ReplyLines
    <3> QED
      BY <1>1, <2>1, <2>3, <3>1, <3>2 DEF RequestLines, ReplyLines
  <2> QED
    BY <2>2, <2>3
<1>3. Disowned(pipe, t) = [i \in 1 .. n |-> d(i)]
  BY <1>1 DEF Disowned
<1> HIDE DEF d, n
<1>4. Disowned(pipe, t) \in [1 .. n -> S]
  BY <1>2, <1>3
<1>5. Disowned(pipe, t) \in Seq(S)
  BY <1>1, <1>4, SeqDef
<1>6. ASSUME NEW line \in ToSet(Disowned(pipe, t))
      PROVE  \E old \in ToSet(pipe) : line.id = old.id /\ (line.from = old.from \/ old.from = t)
  <2>1. PICK i \in 1 .. n : line = d(i)
    BY <1>3 DEF ToSet
  <2>2. pipe[i] \in ToSet(pipe)
    BY <1>1 DEF ToSet
  <2> QED
    BY <1>2, <2>1, <2>2
<1> QED
  BY <1>5, <1>6

\* The moves of the pipes.
LEMMA PipeMoves ==
    ASSUME ProcessType
    PROVE  /\ UNCHANGED Pipes => PipesMove
           /\ stdin' = <<>> /\ stdout' \in {stdout, <<>>} => PipesMove
           /\ Kill \/ (Consume /\ stdout # <<>>) => PipesMove
           /\ \A t \in Tasks : Writer(t) /\ Deliver(t) /\ Passed(t) => PipesMove
<1>1. /\ stdin \in Seq(RequestLines) /\ stdout \in Seq(ReplyLines \cup OtherLines)
      /\ <<>> \in Seq(RequestLines) /\ <<>> \in Seq(ReplyLines \cup OtherLines)
  BY DEF ProcessType
<1>2. ASSUME stdin' \in Seq(RequestLines), stdout' \in Seq(ReplyLines \cup OtherLines),
             Lines' \subseteq Lines
      PROVE  PipesMove
  BY <1>2 DEF PipesMove
<1>3. ASSUME UNCHANGED Pipes PROVE PipesMove
  BY <1>1, <1>2, <1>3 DEF Pipes, Lines
<1>4. ASSUME stdin' = <<>>, stdout' \in {stdout, <<>>} PROVE PipesMove
  BY <1>1, <1>2, <1>4, ElementsOf DEF Lines
<1>5. ASSUME Consume, stdout # <<>> PROVE PipesMove
  <2>1. Tail(stdout) \in Seq(ReplyLines \cup OtherLines)
    BY <1>1, <1>5
  <2>2. ToSet(Tail(stdout)) \subseteq ToSet(stdout)
    BY <1>1, <1>5, ElementsOf
  <2> QED
    BY <1>1, <1>2, <1>5, <2>1, <2>2 DEF Consume, Lines
<1>6. ASSUME NEW t \in Tasks, Writer(t), Deliver(t), Passed(t) PROVE PipesMove
  <2>1. Message(t) \in RequestLines /\ Message(t).id = task[t].id /\ Message(t).from = t
    BY DEF ProcessType, TaskStates, RequestLines, Message
  <2>2. Disowned(stdin, t) \in Seq(RequestLines)
    BY <1>1, DisownedLines
  <2>3. stdin' \in Seq(RequestLines) /\ ToSet(stdin') = ToSet(Disowned(stdin, t)) \cup {Message(t)}
    BY <1>6, <2>1, <2>2, ElementsOf DEF Deliver
  <2>4. stdout' = Disowned(stdout, t) /\ stdout' \in Seq(ReplyLines \cup OtherLines)
    BY <1>1, <1>6, DisownedLines DEF Deliver
  <2>5. \A line \in ToSet(Disowned(stdin, t)) \cup ToSet(Disowned(stdout, t)) :
          \E old \in Lines : line.id = old.id /\ (line.from = old.from \/ old.from = t)
    BY <1>1, DisownedLines DEF Lines
  <2>6. \A line \in Lines' : line = Message(t)
                             \/ line \in ToSet(Disowned(stdin, t)) \cup ToSet(Disowned(stdout, t))
    BY <2>3, <2>4 DEF Lines
  <2> QED
    BY <1>6, <2>1, <2>3, <2>4, <2>5, <2>6 DEF PipesMove
<1> QED
  BY <1>3, <1>4, <1>5, <1>6 DEF Kill

\* A task whose operation ends, and one that waits for the lock again.
LEMMA Ends == Sound(End) /\ End.id = 0
BY DEF Sound, Numbered, Counted, Reached, Retryable, Requests, End, NewTask, TaskStates, Messages

\* A task that waits for the lock of the process to send a message.
LEMMA Waits ==
    ASSUME ProcessType, NEW t \in Tasks, NEW message \in Messages
    PROVE  LET r == WaitFor(t, message)
           IN  /\ r \in TaskStates /\ r.at = "queued" /\ r.message = message
               /\ r.op = task[t].op /\ r.id = task[t].id /\ r.tries = task[t].tries
               /\ r.sent = task[t].sent /\ r.foreign = task[t].foreign
               /\ r.again = task[t].again
<1>1. task[t] \in TaskStates
  BY DEF ProcessType
<1> QED
  BY <1>1 DEF WaitFor, TaskStates

\* The errors end the operation, or make it try again.
LEMMA ErrorMoves ==
    ASSUME ProcessInv, NEW t \in Tasks, NEW waits,
           TransportError(t, waits) \/ OtherError(t, waits) \/ Lost(t, waits)
    PROVE  TaskMoves(t) /\ ~Pending(task'[t])
<1>0. task \in [Tasks -> TaskStates] /\ ~Pending(End)
  BY DEF ProcessInv, ProcessType, Pending, End, NewTask
<1>1. ASSUME OtherError(t, waits) PROVE TaskMoves(t) /\ ~Pending(task'[t])
  BY <1>0, <1>1, Ends DEF OtherError, TaskMoves
<1>2. ASSUME TransportError(t, waits) PROVE TaskMoves(t) /\ ~Pending(task'[t])
  <2> DEFINE w == WaitFor(t, "spawn")
             r == [w EXCEPT !.tries = @ + 1, !.again = TRUE]
  <2>1. CASE Retryable(task[t].op) /\ task[t].tries < Attempts /\ ~task[t].again
    <3>1. task' = [task EXCEPT ![t] = r]
      BY <1>2, <2>1 DEF TransportError
    <3>2. task[t] \in TaskStates /\ Counted(task[t]) /\ ~task[t].foreign
      BY DEF ProcessInv, Sound
    <3>3. /\ r \in TaskStates /\ r.at = "queued" /\ r.message = "spawn" /\ r.op = "read"
          /\ r.tries = task[t].tries + 1 /\ r.id = task[t].id
          /\ r.sent = task[t].sent /\ ~r.foreign
      <4>1. /\ w \in TaskStates /\ w.at = "queued" /\ w.message = "spawn"
            /\ w.op = task[t].op /\ w.id = task[t].id /\ w.tries = task[t].tries
            /\ w.sent = task[t].sent /\ w.foreign = task[t].foreign
        BY Waits DEF Messages, ProcessInv
      <4> HIDE DEF w
      <4> DEFINE v == [w EXCEPT !.tries = @ + 1]
      <4>2. v \in TaskStates /\ r = [v EXCEPT !.again = TRUE]
        BY <4>1 DEF TaskStates
      <4>3. r \in TaskStates
        BY <4>2 DEF TaskStates
      <4>4. /\ r.at = w.at /\ r.message = w.message /\ r.op = w.op /\ r.id = w.id
            /\ r.tries = w.tries + 1 /\ r.sent = w.sent /\ r.foreign = w.foreign
        BY <4>1 DEF TaskStates
      <4> QED
        BY <2>1, <3>2, <4>1, <4>3, <4>4 DEF Retryable
    <3> HIDE DEF r
    <3>4. Numbered(r) /\ r.tries <= Attempts
      BY <2>1, <3>2, <3>3 DEF Numbered, Requests, TaskStates
    <3>5. r.sent <= r.tries
      BY <3>2, <3>3 DEF Counted, TaskStates
    <3>6. ~Reached(r) /\ r.sent <= r.tries + 0
      BY <3>3, <3>5 DEF Reached, TaskStates
    <3>7. Counted(r)
      BY <3>3, <3>4, <3>6 DEF Counted, Retryable
    <3> QED
      BY <1>0, <3>1, <3>3, <3>4, <3>7 DEF TaskMoves, Sound, Continues, Pending, Requests
  <2>2. CASE ~(Retryable(task[t].op) /\ task[t].tries < Attempts /\ ~task[t].again)
    BY <1>0, <1>2, <2>2, Ends DEF TransportError, TaskMoves
  <2> QED
    BY <2>1, <2>2
<1> QED
  BY <1>1, <1>2 DEF Lost

\* A task that waits for the lock to go on with its operation.
LEMMA GoesOn ==
    ASSUME ProcessInv, NEW t \in Tasks, ~Reached(task[t]),
           NEW message \in {"spawn", "notify"}, message = "notify" => task[t].id # 0
    PROVE  /\ Sound(WaitFor(t, message)) /\ ~Pending(WaitFor(t, message))
           /\ Continues(task[t], WaitFor(t, message))
<1> DEFINE r == WaitFor(t, message)
<1>1. Sound(task[t]) /\ ProcessType /\ message \in Messages
  BY DEF ProcessInv, Messages
<1>2. /\ r \in TaskStates /\ r.at = "queued" /\ r.message = message
      /\ r.op = task[t].op /\ r.id = task[t].id /\ r.tries = task[t].tries
      /\ r.sent = task[t].sent /\ r.foreign = task[t].foreign
  BY <1>1, Waits
<1> HIDE DEF r
<1>3. Numbered(r) /\ ~Reached(r) /\ r.message # "kill"
  BY <1>2 DEF Numbered, Reached, Requests
<1>4. r.sent <= r.tries + 0 /\ r.tries <= Attempts /\ (~Retryable(r.op) => r.tries = 0)
  BY <1>1, <1>2 DEF Sound, Counted
<1>5. Counted(r)
  BY <1>3, <1>4 DEF Counted
<1>6. Sound(r)
  BY <1>1, <1>2, <1>3, <1>5 DEF Sound
<1>7. ~Pending(r) /\ Continues(task[t], r)
  BY <1>2 DEF Pending, Continues, Requests
<1> QED
  BY <1>6, <1>7 DEF r

\* The same with a new request.
LEMMA Asks ==
    ASSUME ProcessInv, NEW t \in Tasks, ~Reached(task[t]),
           NEW r \in TaskStates, r.at \in {"queued", "writing"}, r.message # "kill",
           r.op = task[t].op, r.id = FreshId, r.tries = task[t].tries, r.sent = task[t].sent,
           ~r.foreign
    PROVE  Sound(r)
<1>1. Sound(task[t]) /\ FreshId # 0
  BY FreshIsFresh DEF ProcessInv
<1>2. Numbered(r) /\ ~Reached(r) /\ r.message # "kill"
  BY <1>1 DEF Numbered, Reached, Requests
<1>3. r.sent <= r.tries + 0 /\ r.tries <= Attempts /\ (~Retryable(r.op) => r.tries = 0)
  BY <1>1 DEF Sound, Counted
<1>4. Counted(r)
  BY <1>2, <1>3 DEF Counted
<1> QED
  BY <1>2, <1>4 DEF Sound

\* A task that begins.
LEMMA Begins ==
    ASSUME ProcessInv, NEW r \in TaskStates, r.at = "queued", r.message # "kill",
           r.message \in Requests => r.id = FreshId, r.tries = 0, r.sent = 0, ~r.foreign
    PROVE  Sound(r)
<1>1. FreshId # 0 /\ Attempts >= 0
  BY FreshIsFresh DEF ProcessInv
<1>2. Numbered(r) /\ ~Reached(r)
  BY <1>1 DEF Numbered, Reached
<1> QED
  BY <1>1, <1>2 DEF Sound, Counted

\* Each step of ToolProcess keeps the invariant, one lemma for one action.
LEMMA CallKeeps ==
    ASSUME ProcessInv, NEW t \in Tasks, NEW op, Call(t, op)
    PROVE  ProcessInv'
<1> DEFINE state == [NewTask EXCEPT !.op = op, !.at = "queued"]
<1>1. PipesMove /\ op \in {"close", "start", "read", "mutate", "stop"} /\ FreshId \in Nat \ {0}
  BY PipeMoves, FreshIsFresh DEF Call, ProcessInv, Operations
<1> SUFFICES TaskMoves(t)
  BY <1>1, MovesKeep
<1>2. /\ state \in TaskStates /\ state.at = "queued" /\ state.op = op /\ state.tries = 0
      /\ state.sent = 0 /\ ~state.foreign /\ state.id = 0
  <2>1. NewTask \in TaskStates /\ NewTask.tries = 0 /\ NewTask.sent = 0 /\ ~NewTask.foreign
        /\ NewTask.id = 0
    BY DEF NewTask, TaskStates, Messages
  <2> QED
    BY <1>1, <2>1 DEF TaskStates
<1>3. CASE Send(t, state) /\ op \in {"read", "mutate"}
  <2> DEFINE r == [state EXCEPT !.at = "queued", !.message = state.op, !.id = FreshId,
                                !.again = FALSE]
  <2>1. op \in Messages /\ task' = [task EXCEPT ![t] = r]
    BY <1>3 DEF Messages, Send
  <2> HIDE DEF state
  <2>2. /\ r \in TaskStates /\ r.at = "queued" /\ r.message = op /\ r.id = FreshId /\ r.tries = 0
        /\ r.sent = 0 /\ ~r.foreign
    BY <1>1, <1>2, <2>1 DEF TaskStates
  <2> HIDE DEF r
  <2> QED
    BY <1>3, <2>1, <2>2, Begins DEF TaskMoves
<1>4. CASE \E m \in {"spawn", "close", "stop"} : task' = [task EXCEPT ![t] = [state EXCEPT !.message = m]]
  <2>1. PICK m \in {"spawn", "close", "stop"} : task' = [task EXCEPT ![t] = [state EXCEPT !.message = m]]
    BY <1>4
  <2> DEFINE r == [state EXCEPT !.message = m]
  <2> HIDE DEF state
  <2>2. /\ r \in TaskStates /\ r.at = "queued" /\ r.message = m /\ r.id = 0 /\ r.tries = 0
        /\ r.sent = 0 /\ ~r.foreign
    BY <1>1, <1>2 DEF TaskStates, Messages
  <2> HIDE DEF r
  <2>3. Sound(r)
    BY <2>2, Begins DEF Requests
  <2> QED
    BY <2>1, <2>2, <2>3 DEF TaskMoves, r
<1>5. CASE task' = [task EXCEPT ![t] = End]
  BY <1>5, Ends DEF TaskMoves
<1> QED
  <2>1. \/ Send(t, state) /\ op \in {"read", "mutate"}
        \/ \E m \in {"spawn", "close", "stop"} : task' = [task EXCEPT ![t] = [state EXCEPT !.message = m]]
        \/ task' = [task EXCEPT ![t] = End]
    BY <1>1 DEF Call
  <2> QED
    BY <1>3, <1>4, <1>5, <2>1

\* The lock for connect() leads to its first request.
LEMMA SpawnKeeps ==
    ASSUME ProcessInv, NEW t \in Tasks, SpawnMcp(t) \/ SpawnPlugin(t) \/ SpawnFails(t)
    PROVE  ProcessInv'
<1>1. /\ ProcessType /\ task[t] \in TaskStates /\ ~Reached(task[t]) /\ ~task[t].foreign
      /\ FreshId \in Nat \ {0}
  BY FreshIsFresh DEF SpawnMcp, SpawnPlugin, SpawnFails, ProcessInv, Sound, Reached
<1>2. PipesMove
  BY <1>1, PipeMoves DEF SpawnMcp, SpawnPlugin, SpawnFails, NewProcess, Pipes
<1> DEFINE w == WaitFor(t, "initialize")
           r == [w EXCEPT !.id = FreshId]
           p == [r EXCEPT !.at = "writing"]
<1>3. /\ w \in TaskStates /\ w.at = "queued" /\ w.message = "initialize"
      /\ w.op = task[t].op /\ w.tries = task[t].tries /\ w.sent = task[t].sent /\ ~w.foreign
  BY <1>1, Waits DEF Messages
<1>4. Sound(r) /\ r.id = FreshId /\ Sound(p) /\ p.id = FreshId
  <2> HIDE DEF w
  <2>1. /\ r \in TaskStates /\ r.at = "queued" /\ r.message = "initialize" /\ r.id = FreshId
        /\ r.op = task[t].op /\ r.tries = task[t].tries /\ r.sent = task[t].sent /\ ~r.foreign
    BY <1>1, <1>3 DEF TaskStates
  <2> HIDE DEF r
  <2>2. /\ p \in TaskStates /\ p.at = "writing" /\ p.message = "initialize" /\ p.id = FreshId
        /\ p.op = task[t].op /\ p.tries = task[t].tries /\ p.sent = task[t].sent /\ ~p.foreign
    BY <2>1 DEF TaskStates
  <2> HIDE DEF p
  <2> QED
    BY <1>1, <2>1, <2>2, Asks DEF Requests
<1>5. /\ SpawnMcp(t) => task' = [task EXCEPT ![t] = r]
      /\ SpawnPlugin(t) => task' \in {[task EXCEPT ![t] = End], [task EXCEPT ![t] = p]}
  BY DEF SpawnMcp, SpawnPlugin, Spawned
<1> HIDE DEF w, r, p
<1>6. TaskMoves(t)
  <2>1. CASE task' = [task EXCEPT ![t] = End]
    BY <2>1, Ends DEF TaskMoves
  <2>2. CASE task' = [task EXCEPT ![t] = r]
    BY <1>4, <2>2 DEF TaskMoves
  <2>3. CASE task' = [task EXCEPT ![t] = p]
    BY <1>4, <2>3 DEF TaskMoves
  <2>4. CASE SpawnFails(t)
    BY <2>4, ErrorMoves DEF SpawnFails
  <2> QED
    BY <1>5, <2>1, <2>2, <2>3, <2>4
<1> QED
  BY <1>2, <1>6, MovesKeep

LEMMA AcquireKeeps ==
    ASSUME ProcessInv, NEW t \in Tasks, Acquire(t)
    PROVE  ProcessInv'
<1>1. /\ ProcessType /\ Sound(task[t]) /\ task[t] \in TaskStates
      /\ task[t].at = "queued" /\ task[t].message \in Requests
  BY DEF ProcessInv, Sound, Acquire
<1>2. PipesMove
  BY <1>1, PipeMoves DEF Acquire
<1>3. CASE Running
  <2> DEFINE r == [task[t] EXCEPT !.at = "writing"]
  <2>1. /\ r \in TaskStates /\ r.at = "writing" /\ r.message = task[t].message
        /\ r.id = task[t].id /\ r.op = task[t].op /\ r.tries = task[t].tries
        /\ r.sent = task[t].sent /\ r.foreign = task[t].foreign
    BY <1>1 DEF TaskStates
  <2>2. task' = [task EXCEPT ![t] = r]
    BY <1>3 DEF Acquire
  <2> HIDE DEF r
  <2>3. r.id # 0 /\ ~Reached(r) /\ ~Reached(task[t]) /\ r.message # "kill"
    BY <1>1, <2>1 DEF Sound, Numbered, Reached, Requests
  <2>4. Sound(r)
    BY <1>1, <2>1, <2>3 DEF Sound, Counted, Numbered
  <2> QED
    BY <1>1, <1>2, <2>1, <2>2, <2>4, MovesKeep DEF TaskMoves, Continues, Pending
<1>4. CASE ~Running
  BY <1>2, <1>4, ErrorMoves, MovesKeep DEF Acquire
<1> QED
  BY <1>3, <1>4

\* The call is counted when it reaches the pipe.
LEMMA WriteKeeps ==
    ASSUME ProcessInv, NEW t \in Tasks, Write(t) \/ WriteFails(t)
    PROVE  ProcessInv'
<1>1. /\ ProcessType /\ Sound(task[t]) /\ task[t] \in TaskStates /\ task[t].at = "writing"
      /\ task[t].sent \in Nat /\ task[t].message # "kill" /\ ~Reached(task[t])
  BY DEF ProcessInv, Sound, Write, WriteFails, Writing, Counted, TaskStates, Reached
<1>2. CASE Write(t)
  <2> DEFINE n == IF task[t].message = task[t].op THEN task[t].sent + 1 ELSE task[t].sent
             r == [task[t] EXCEPT !.at = "reading", !.sent = n]
  <2>1. n \in Nat
    BY <1>1
  <2>2. task' = [task EXCEPT ![t] = r]
    BY <1>2 DEF Write
  <2> HIDE DEF n
  <2>3. /\ r \in TaskStates /\ r.at = "reading" /\ r.message = task[t].message
        /\ r.id = task[t].id /\ r.op = task[t].op /\ r.tries = task[t].tries
        /\ r.sent = n /\ r.foreign = task[t].foreign
    BY <1>1, <2>1 DEF TaskStates
  <2> HIDE DEF r
  <2>4. Counted(r) /\ Numbered(r)
    <3>1. task[t].tries \in Nat /\ task[t].sent <= task[t].tries /\ task[t].id # 0
      BY <1>1 DEF TaskStates, Sound, Counted, Numbered
    <3>2. CASE r.message = r.op
      BY <1>1, <2>3, <3>1, <3>2 DEF Counted, Reached, n, Sound, Numbered
    <3>3. CASE r.message # r.op
      BY <1>1, <2>3, <3>1, <3>3 DEF Counted, Reached, n, Sound, Numbered
    <3> QED
      BY <3>2, <3>3
  <2>5. TaskMoves(t)
    BY <1>1, <1>2, <2>2, <2>3, <2>4 DEF Sound, TaskMoves, Continues, Pending, Write
  <2>6. PipesMove
    <3>1. task'[t] = r /\ ~Pending(r)
      BY <1>1, <2>2, <2>3 DEF ProcessType, Pending
    <3> QED
      BY <1>1, <1>2, <3>1, PipeMoves DEF Write, Writer, Passed
  <2> QED
    BY <2>5, <2>6, MovesKeep
<1>3. CASE WriteFails(t)
  BY <1>1, <1>3, PipeMoves, ErrorMoves, MovesKeep DEF WriteFails
<1> QED
  BY <1>2, <1>3

LEMMA NotifiedKeeps ==
    ASSUME ProcessInv, NEW t \in Tasks, Notified(t)
    PROVE  ProcessInv'
<1>1. /\ ProcessType /\ Sound(task[t]) /\ task[t] \in TaskStates /\ task[t].at = "writing"
      /\ ~task[t].foreign /\ ~Reached(task[t]) /\ FreshId \in Nat \ {0}
  BY FreshIsFresh DEF ProcessInv, Sound, Notified, Writing, Reached
<1>2. \A r \in TaskStates : task' = [task EXCEPT ![t] = r] => task'[t] = r
  BY <1>1 DEF ProcessType
<1> SUFFICES TaskMoves(t) /\ Passed(t)
  BY <1>1, PipeMoves, MovesKeep DEF Notified, Writer
<1>3. ASSUME task' = [task EXCEPT ![t] = [WaitFor(t, task[t].op) EXCEPT !.id = FreshId, !.again = FALSE]]
      PROVE  TaskMoves(t) /\ Passed(t)
  <2> DEFINE w == WaitFor(t, task[t].op)
             r == [w EXCEPT !.id = FreshId, !.again = FALSE]
  <2>1. task[t].op \in Messages /\ task[t].op # "kill"
    BY <1>1 DEF TaskStates, Messages
  <2>2. /\ w \in TaskStates /\ w.at = "queued" /\ w.message = task[t].op
        /\ w.op = task[t].op /\ w.tries = task[t].tries /\ w.sent = task[t].sent /\ ~w.foreign
    BY <1>1, <2>1, Waits
  <2> HIDE DEF w
  <2>3. /\ r \in TaskStates /\ r.at = "queued" /\ r.message = task[t].op /\ r.id = FreshId
        /\ r.op = task[t].op /\ r.tries = task[t].tries /\ r.sent = task[t].sent /\ ~r.foreign
    BY <1>1, <2>2 DEF TaskStates
  <2>4. task' = [task EXCEPT ![t] = r]
    BY <1>3 DEF w
  <2> HIDE DEF r
  <2> QED
    BY <1>1, <1>2, <2>1, <2>3, <2>4, Asks, FreshIsFresh DEF TaskMoves, Passed
<1>4. ASSUME task' = [task EXCEPT ![t] = [WaitFor(t, "spawn") EXCEPT !.again = FALSE]]
      PROVE  TaskMoves(t) /\ Passed(t)
  <2> DEFINE w == WaitFor(t, "spawn")
             r == [w EXCEPT !.again = FALSE]
  <2>1. /\ w \in TaskStates /\ w.at = "queued" /\ w.message = "spawn" /\ w.id = task[t].id
        /\ w.op = task[t].op /\ w.tries = task[t].tries /\ w.sent = task[t].sent /\ ~w.foreign
    BY <1>1, Waits DEF Messages
  <2>2. Sound(w) /\ ~Pending(w) /\ Continues(task[t], w)
    BY <1>1, GoesOn
  <2> HIDE DEF w
  <2>3. /\ r \in TaskStates /\ r.at = w.at /\ r.message = w.message /\ r.id = w.id
        /\ r.op = w.op /\ r.tries = w.tries /\ r.sent = w.sent /\ r.foreign = w.foreign
    BY <1>1, <2>1 DEF TaskStates
  <2>4. task' = [task EXCEPT ![t] = r]
    BY <1>4 DEF w
  <2> HIDE DEF r
  <2>5. Sound(r) /\ ~Pending(r) /\ Continues(task[t], r)
    BY <2>2, <2>3 DEF Sound, Numbered, Counted, Reached, Pending, Continues
  <2> QED
    BY <1>2, <2>3, <2>4, <2>5 DEF TaskMoves, Passed
<1> QED
  BY <1>3, <1>4, ErrorMoves DEF Notified, Passed

\* A reply that carries the number of a task's request is the answer to it.
LEMMA ReadKeeps ==
    ASSUME ProcessInv, NEW t \in Tasks, Read(t)
    PROVE  ProcessInv'
<1> DEFINE line == Head(stdout)
<1>1. /\ ProcessType /\ NumbersApart /\ Sound(task[t]) /\ task[t] \in TaskStates
      /\ task[t].at = "reading" /\ task[t].id # 0 /\ ~task[t].foreign /\ stdout # <<>>
      /\ stdout \in Seq(ReplyLines \cup OtherLines)
  BY DEF ProcessInv, ProcessType, Sound, Read, Numbered
<1>2. PipesMove
  BY <1>1, PipeMoves DEF Read, Answered, Refused
<1> SUFFICES UNCHANGED task \/ TaskMoves(t)
  BY <1>2, MovesKeep
<1>3. ASSUME Answered(t, line), Answers(line, t) PROVE TaskMoves(t)
  <2>1. line \in ToSet(stdout)
    BY <1>1, ElementsOf
  <2>2. line.from = t
    BY <1>1, <1>3, <2>1 DEF NumbersApart, Answers
  <2>0. ASSUME NEW w, Sound(w) PROVE [w EXCEPT !.foreign = line.from # t] = w
    <3>1. w \in TaskStates /\ w.foreign = FALSE /\ (line.from # t) = FALSE
      BY <2>0, <2>2 DEF Sound, TaskStates
    <3> QED
      BY <3>1 DEF TaskStates
  <2>3. CASE task' = Took(line, t, End)
    BY <2>0, <2>3, Ends DEF Took, TaskMoves
  <2>4. CASE task' = [task EXCEPT ![t] = End]
    BY <2>4, Ends DEF TaskMoves
  <2>5. CASE task[t].message = "initialize" /\ task' = Took(line, t, WaitFor(t, "notify"))
    <3>1. ~Reached(task[t])
      BY <1>1, <2>5 DEF Reached, TaskStates
    <3>2. Sound(WaitFor(t, "notify")) /\ Continues(task[t], WaitFor(t, "notify"))
      BY <1>1, <3>1, GoesOn
    <3> QED
      BY <2>0, <2>5, <3>2 DEF Took, TaskMoves
  <2> QED
    BY <1>3, <2>3, <2>4, <2>5 DEF Answered
<1>4. ASSUME Refused(t) PROVE TaskMoves(t)
  <2>1. CASE task' = [task EXCEPT ![t] = WaitFor(t, "kill")]
    <3> DEFINE r == WaitFor(t, "kill")
    <3>1. /\ r \in TaskStates /\ r.at = "queued" /\ r.message = "kill" /\ r.id = task[t].id
          /\ r.op = task[t].op /\ r.tries = task[t].tries /\ r.sent = task[t].sent /\ ~r.foreign
      BY <1>1, Waits DEF Messages
    <3> HIDE DEF r
    <3>2. r.sent <= r.tries + 1 /\ r.tries <= Attempts /\ (~Retryable(r.op) => r.tries = 0)
      BY <1>1, <3>1 DEF Sound, Counted, TaskStates
    <3>3. Sound(r)
      BY <3>1, <3>2 DEF Sound, Counted, Reached, Numbered, Requests
    <3>4. task' = [task EXCEPT ![t] = r]
      BY <2>1 DEF r
    <3> QED
      BY <3>1, <3>3, <3>4 DEF TaskMoves, Continues, Pending, Requests
  <2>2. CASE OtherError(t, Tail(lockQueue))
    BY <2>2, ErrorMoves
  <2> QED
    BY <1>4, <2>1, <2>2 DEF Refused
<1> QED
  BY <1>3, <1>4, ErrorMoves DEF Read

LEMMA StopKeeps ==
    ASSUME ProcessInv, NEW t \in Tasks, Stop(t)
    PROVE  ProcessInv'
<1>1. /\ ProcessType /\ Sound(task[t]) /\ task[t] \in TaskStates /\ ~task[t].foreign
      /\ task[t].message \in {"close", "stop"} /\ task[t].at = "queued" /\ FreshId \in Nat \ {0}
  BY FreshIsFresh DEF ProcessInv, Sound, Stop
<1>2. PipesMove
  BY <1>1, PipeMoves DEF Stop
<1> SUFFICES TaskMoves(t)
  BY <1>2, MovesKeep
<1>3. CASE task' = [task EXCEPT ![t] = End]
  BY <1>3, Ends DEF TaskMoves
<1>4. CASE task' = [task EXCEPT ![t].at = "writing", ![t].id = FreshId]
  <2> DEFINE r == [task[t] EXCEPT !.at = "writing", !.id = FreshId]
  <2>1. task' = [task EXCEPT ![t] = r]
    BY <1>1, <1>4 DEF ProcessType
  <2>2. /\ r \in TaskStates /\ r.at = "writing" /\ r.message = task[t].message /\ r.id = FreshId
        /\ r.op = task[t].op /\ r.tries = task[t].tries /\ r.sent = task[t].sent /\ ~r.foreign
    BY <1>1 DEF TaskStates
  <2> HIDE DEF r
  <2>3. ~Reached(task[t])
    BY <1>1 DEF Reached
  <2> QED
    BY <1>1, <2>1, <2>2, <2>3, Asks DEF TaskMoves
<1> QED
  BY <1>3, <1>4 DEF Stop

\* A task that stops at an await: what it was writing may arrive.
LEMMA StoppedKeeps ==
    ASSUME ProcessInv, NEW t \in Tasks,
           ReadFails(t) \/ KillLater(t) \/ TimeOut(t) \/ Cancel(t)
    PROVE  ProcessInv'
<1>1. task \in [Tasks -> TaskStates] /\ ~Pending(End) /\ Sound(End) /\ End.id = 0
  BY Ends DEF ProcessInv, ProcessType, Pending, End, NewTask
<1>2. TaskMoves(t) /\ ~Pending(task'[t])
  <2>1. CASE Cancel(t)
    BY <1>1, <2>1 DEF Cancel, TaskMoves
  <2> QED
    BY <2>1, ErrorMoves DEF ReadFails, KillLater, TimeOut
<1>3. ASSUME Abort(t) PROVE PipesMove
  BY <1>2, <1>3, PipeMoves DEF Abort, ProcessInv, Pipes, Writer, Passed
<1>4. PipesMove
  BY <1>3, PipeMoves DEF ReadFails, KillLater, TimeOut, Cancel, ProcessInv
<1> QED
  BY <1>2, <1>4, MovesKeep

\* The child answers under the number, and to the task, of the request.
LEMMA ChildKeeps ==
    ASSUME ProcessInv, Serve \/ Chatter \/ Die
    PROVE  ProcessInv'
<1>1. /\ ProcessType /\ stdin \in Seq(RequestLines) /\ stdout \in Seq(ReplyLines \cup OtherLines)
      /\ UNCHANGED task
  BY DEF ProcessInv, ProcessType, Serve, Chatter, Die
<1> SUFFICES PipesMove
  BY <1>1, MovesKeep
<1>2. CASE Serve
  <2> DEFINE request == Head(stdin)
             reply == [what |-> "reply", id |-> request.id, from |-> request.from]
  <2>1. /\ request \in RequestLines /\ request \in ToSet(stdin)
        /\ stdin' \in Seq(RequestLines) /\ ToSet(stdin') \subseteq ToSet(stdin)
    BY <1>1, <1>2, ElementsOf DEF Serve
  <2>2. reply \in ReplyLines /\ reply.id = request.id /\ reply.from = request.from
    BY <2>1 DEF RequestLines, ReplyLines
  <2>3. stdout' = stdout \/ stdout' = stdout \o <<reply>>
    BY <1>1, <1>2 DEF Serve, Replies
  <2> HIDE DEF reply, request
  <2>4. CASE stdout' = stdout
    BY <1>1, <2>1, <2>4 DEF PipesMove, Lines
  <2>5. CASE stdout' = stdout \o <<reply>>
    <3>1. <<reply>> \in Seq(ReplyLines \cup OtherLines) /\ ToSet(<<reply>>) = {reply}
      BY <2>2 DEF ToSet
    <3>2. stdout' \in Seq(ReplyLines \cup OtherLines) /\ ToSet(stdout') = ToSet(stdout) \cup {reply}
      <4> DEFINE S == ReplyLines \cup OtherLines
                 one == <<reply>>
      <4>1. stdout \in Seq(S) /\ one \in Seq(S)
        BY <1>1, <3>1
      <4>2. stdout' = stdout \o one /\ ToSet(one) = {reply}
        BY <2>5, <3>1
      <4> HIDE DEF S, one
      <4>3. stdout \o one \in Seq(S)
        BY <4>1
      <4>4. ToSet(stdout \o one) = ToSet(stdout) \cup ToSet(one)
        BY <4>1, ElementsOfBoth
      <4> QED
        BY <4>2, <4>3, <4>4 DEF S
    <3> QED
      BY <2>1, <2>2, <3>2 DEF PipesMove, Lines
  <2> QED
    BY <2>3, <2>4, <2>5
<1>3. CASE Chatter
  <2>1. PICK what \in {"note", "junk"} : stdout' = Append(stdout, [what |-> what, id |-> 0, from |-> "none"])
    BY <1>3 DEF Chatter
  <2> DEFINE line == [what |-> what, id |-> 0, from |-> "none"]
  <2>2. line \in OtherLines /\ line.id = 0
    BY DEF OtherLines
  <2> HIDE DEF line
  <2>3. stdout' \in Seq(ReplyLines \cup OtherLines) /\ ToSet(stdout') = ToSet(stdout) \cup {line}
    <3>1. stdout' = Append(stdout, line)
      BY <2>1 DEF line
    <3> QED
      BY <1>1, <2>2, <3>1, ElementsOf
  <2> QED
    BY <1>1, <1>3, <2>2, <2>3 DEF PipesMove, Lines, Chatter
<1>4. CASE Die
  BY <1>1, <1>4, PipeMoves DEF Die
<1> QED
  BY <1>2, <1>3, <1>4

\* Every reachable state of the child's pipes and of the tasks that share them
\* keeps what the two properties below rest on: the numbers of requests are used
\* once, and each reply in the pipe was given to the request it names.
THEOREM ProcessInvariance == Spec => []ProcessInv
<1>1. Init => ProcessInv
  <2> SUFFICES ASSUME Init PROVE ProcessInv
    OBVIOUS
  <2>1. task = [t \in Tasks |-> End] /\ stdin = <<>> /\ stdout = <<>>
    BY DEF Init, End
  <2>2. ProcessType
    BY <2>1, Ends DEF ProcessType, Sound
  <2> QED
    BY <2>1, <2>2, Ends, ElementsOf DEF ProcessInv, NumbersApart
<1>2. ProcessInv /\ [Next]_toolVars => ProcessInv'
  <2> SUFFICES ASSUME ProcessInv, [Next]_toolVars PROVE ProcessInv'
    OBVIOUS
  <2>1. CASE UNCHANGED toolVars
    BY <2>1, PipeMoves, MovesKeep DEF toolVars, Pipes, ProcessInv
  <2>2. ASSUME NEW t \in Tasks, Step(t) PROVE ProcessInv'
    BY <2>2, SpawnKeeps, AcquireKeeps, WriteKeeps, ReadKeeps, StopKeeps, StoppedKeeps DEF Step
  <2>3. ASSUME NEW t \in Tasks,
               Write(t) \/ Notified(t) \/ Cancel(t) \/ \E op \in Operations : Call(t, op)
        PROVE  ProcessInv'
    BY <2>3, WriteKeeps, NotifiedKeeps, StoppedKeeps, CallKeeps
  <2>4. CASE Serve \/ Chatter \/ Die
    BY <2>4, ChildKeeps
  <2> QED
    BY <2>1, <2>2, <2>3, <2>4 DEF Next
<1> QED
  BY <1>1, <1>2, PTL DEF Spec

\* Whatever is cancelled, times out or is answered late, no task takes the answer to
\* another request, of its own or not, for that to the request it waits for
\* (validate_response, the ids of _read_locked).
THEOREM ReplyIsOwnCorrect == Spec => []ReplyIsOwn
<1>1. ProcessInv => ReplyIsOwn
  BY DEF ProcessInv, Sound, ReplyIsOwn
<1> QED
  BY <1>1, ProcessInvariance, PTL

\* A call of a mutating tool reaches a process at most once, and any other call at
\* most once for each attempt (retry=not definition.mutates in call_tool).
THEOREM MutationRunsOnceCorrect == Spec => []MutationRunsOnce
<1>1. ProcessInv => MutationRunsOnce
  <2> SUFFICES ASSUME ProcessInv, NEW t \in Tasks
               PROVE  task[t].sent <= IF task[t].op = "mutate" THEN 1 ELSE 1 + Attempts
    BY DEF MutationRunsOnce
  <2>1. /\ task[t].sent \in Nat /\ task[t].tries \in Nat /\ task[t].tries <= Attempts
        /\ task[t].sent <= task[t].tries + 1 /\ (task[t].op # "read" => task[t].tries = 0)
    BY DEF ProcessInv, Sound, Counted, TaskStates, Retryable
  <2> QED
    BY <2>1
<1> QED
  BY <1>1, ProcessInvariance, PTL

HIDE ToolProcessAssumption

-----------------------------------------------------------------------------
(* Commands.                                                               *)

ProcessStates ==
    [alive : BOOLEAN, new : BOOLEAN, group : BOOLEAN, stubborn : BOOLEAN, doomed : BOOLEAN,
     holds : SUBSET Streams]

ReaderStates == [at : {"reading", "done", "cancelled"}, total : Nat, kept : Nat]

CommandType ==
    /\ backend \in {"sandbox", "local"} /\ reaped \in BOOLEAN
    /\ proc \in [Processes -> ProcessStates]
    /\ written \in [Streams -> Nat]
    /\ reader \in [Streams -> ReaderStates]
    /\ killer \in {"none", "term", "kill", "done"}
    /\ cause \in {"none", "timeout", "cancel"}

\* A reader has counted no more than was written, kept what fits, and ends with the pipe.
ReadersCount ==
    \A s \in Streams :
       /\ reader[s].total <= written[s]
       /\ reader[s].kept = Least(reader[s].total, Limit)
       /\ reader[s].at = "done" => reader[s].total = written[s] /\ ~PipeOpen(s)

\* The leader stays in its group, and a SIGKILL has been sent to it or it has exited
\* by the time its group is given up, unless the caller was cancelled in between.
LeaderDies ==
    /\ proc["leader"].group /\ ~proc["leader"].new
    /\ reaped => ~proc["leader"].alive
    /\ killer = "kill" => ~Lives("leader")
    /\ killer = "done" => ~Lives("leader") \/ (at = "raised" /\ cause = "timeout")

\* Where run_command stands, what it waits for, and what its readers do.
CallStands ==
    /\ at \in {"wait", "cleanup", "drain", "returned", "raised"}
    /\ at = "wait" => killer = "none" /\ cause = "none"
    /\ at \in {"cleanup", "drain", "raised"} => killer # "none" /\ cause # "none"
    /\ at = "drain" => cause = "timeout" /\ killer = "done"
    /\ at = "returned" =>
         /\ ~Lives("leader")
         /\ \A s \in Streams : reader[s].at # "reading"
         /\ cause = "none" => ~proc["leader"].alive

CommandInv == CommandType /\ ReadersCount /\ LeaderDies /\ CallStands
-----------------------------------------------------------------------------
LEMMA CommandStarts == CommandInit => CommandInv
<1> SUFFICES ASSUME CommandInit PROVE CommandInv
  OBVIOUS
<1>1. PICK stubborn \in BOOLEAN :
         proc = [p \in Processes |-> IF p = "leader" THEN Started(stubborn, TRUE, Streams)
                                     ELSE NotStarted]
  BY DEF CommandInit
<1>2. /\ Started(stubborn, TRUE, Streams) \in ProcessStates /\ NotStarted \in ProcessStates
      /\ Started(stubborn, TRUE, Streams).group /\ ~Started(stubborn, TRUE, Streams).new
  BY DEF Started, NotStarted, ProcessStates
<1>3. "leader" \in Processes
  BY DEF Processes
<1>4. 0 = Least(0, Limit)
  BY CommandsAssumption DEF Least
<1>5. proc \in [Processes -> ProcessStates] /\ proc["leader"].group /\ ~proc["leader"].new
  BY <1>1, <1>2, <1>3
<1>6. /\ written = [s \in Streams |-> 0]
      /\ reader = [s \in Streams |-> [at |-> "reading", total |-> 0, kept |-> 0]]
      /\ backend \in {"sandbox", "local"} /\ reaped = FALSE /\ killer = "none" /\ at = "wait"
      /\ cause = "none"
  BY DEF CommandInit
<1>7. CommandType
  BY <1>5, <1>6 DEF CommandType, ReaderStates
<1>8. ReadersCount
  BY <1>4, <1>6 DEF ReadersCount
<1> QED
  BY <1>5, <1>6, <1>7, <1>8 DEF CommandInv, LeaderDies, CallStands

\* What happens to the processes: none comes back, and no pipe is opened again.
ProcessesEnd ==
    /\ proc' \in [Processes -> ProcessStates]
    /\ proc'["leader"].group /\ ~proc'["leader"].new
    /\ proc'["leader"].alive => proc["leader"].alive /\ (proc["leader"].doomed => proc'["leader"].doomed)
    /\ \A s \in Streams : PipeOpen(s)' => PipeOpen(s)

\* What a step that leaves the processes alone keeps of them.
LEMMA ProcessesStay ==
    ASSUME CommandInv, UNCHANGED proc
    PROVE  ProcessesEnd
BY DEF CommandInv, CommandType, LeaderDies, ProcessesEnd, PipeOpen

\* A signal leaves none of those it is sent to alive.
LEMMA SignalsReach ==
    ASSUME CommandInv, NEW victims, Signal(victims)
    PROVE  /\ ProcessesEnd
           /\ "leader" \in victims => ~Lives("leader")'
<1>1. "leader" \in Processes
  BY DEF Processes
<1>2. \A p \in Processes : proc[p] \in ProcessStates
  BY DEF CommandInv, CommandType
<1>3. \A p \in Processes :
         /\ proc'[p] \in ProcessStates
         /\ proc'[p].alive = proc[p].alive /\ proc'[p].group = proc[p].group
         /\ proc'[p].new = proc[p].new /\ proc'[p].holds = proc[p].holds
         /\ proc[p].doomed => proc'[p].doomed
         /\ proc[p].alive /\ proc[p].group /\ p \in victims => proc'[p].doomed
  BY <1>2 DEF Signal, ProcessStates
<1>4. proc' \in [Processes -> ProcessStates]
  BY <1>3 DEF Signal
<1> QED
  BY <1>1, <1>3, <1>4 DEF ProcessesEnd, PipeOpen, Lives, CommandInv, LeaderDies

\* A process that is forked.
LEMMA ForkEnds ==
    ASSUME CommandInv, NEW p \in Processes, NEW child \in Children, Fork(p, child)
    PROVE  ProcessesEnd
<1>1. PICK stubborn \in BOOLEAN, group \in {TRUE, FALSE}, pipes \in SUBSET proc[p].holds :
         proc' = [proc EXCEPT ![child] = Started(stubborn, group, pipes)]
  BY DEF Fork
<1>2. Started(stubborn, group, pipes) \in ProcessStates /\ Started(stubborn, group, pipes).holds = pipes
  BY DEF Started, ProcessStates, CommandInv, CommandType
<1>3. child \in Processes /\ child # "leader" /\ "leader" \in Processes
  BY CommandsAssumption DEF Processes
<1>4. proc' \in [Processes -> ProcessStates]
  BY <1>1, <1>2 DEF CommandInv, CommandType
<1>5. \A q \in Processes : proc'[q] = IF q = child THEN Started(stubborn, group, pipes) ELSE proc[q]
  BY <1>1 DEF CommandInv, CommandType
<1>6. ASSUME NEW s \in Streams, PipeOpen(s)' PROVE PipeOpen(s)
  BY <1>2, <1>5, <1>6 DEF PipeOpen
<1> QED
  BY <1>3, <1>4, <1>5, <1>6 DEF ProcessesEnd, CommandInv, LeaderDies

LEMMA ExitEnds ==
    ASSUME CommandInv, NEW p \in Processes, Exit(p)
    PROVE  ProcessesEnd
<1>1. /\ [proc[p] EXCEPT !.alive = FALSE, !.holds = {}] \in ProcessStates
      /\ [proc[p] EXCEPT !.alive = FALSE, !.holds = {}].holds = {}
      /\ [proc[p] EXCEPT !.alive = FALSE, !.holds = {}].alive = FALSE
      /\ [proc[p] EXCEPT !.alive = FALSE, !.holds = {}].group = proc[p].group
      /\ [proc[p] EXCEPT !.alive = FALSE, !.holds = {}].new = proc[p].new
  BY DEF CommandInv, CommandType, ProcessStates
<1>2. "leader" \in Processes /\ proc \in [Processes -> ProcessStates]
  BY DEF Processes, CommandInv, CommandType
<1>3. \A q \in Processes :
         proc'[q] = IF q = p THEN [proc[p] EXCEPT !.alive = FALSE, !.holds = {}] ELSE proc[q]
  BY <1>2 DEF Exit
<1>4. proc' \in [Processes -> ProcessStates]
  BY <1>1, <1>2 DEF Exit
<1>5. ASSUME NEW s \in Streams, PipeOpen(s)' PROVE PipeOpen(s)
  BY <1>1, <1>3, <1>5 DEF PipeOpen
<1> QED
  BY <1>1, <1>2, <1>3, <1>4, <1>5 DEF ProcessesEnd, CommandInv, LeaderDies

\* What an ended process keeps true.
LEMMA LeaderStays ==
    ASSUME CommandInv, ProcessesEnd
    PROVE  /\ ~Lives("leader") => ~Lives("leader")'
           /\ ~proc["leader"].alive => ~proc'["leader"].alive
BY DEF ProcessesEnd, Lives, CommandInv, CommandType

\* Steps of the processes keep the invariant.
LEMMA ProcessesKeep ==
    ASSUME CommandInv, ProcessesEnd, UNCHANGED <<reader, reaped, killer, Runner>>,
           written' \in [Streams -> Nat],
           \A s \in Streams : written'[s] = written[s] \/ (PipeOpen(s) /\ written'[s] > written[s])
    PROVE  CommandInv'
<1>1. CommandType' /\ LeaderDies' /\ CallStands'
  BY LeaderStays DEF CommandInv, CommandType, ProcessesEnd, LeaderDies, CallStands, Runner
<1>2. ASSUME NEW s \in Streams
      PROVE  /\ reader[s].total <= written'[s]
             /\ reader[s].at = "done" => reader[s].total = written'[s] /\ ~PipeOpen(s)'
  <2>1. reader[s].total \in Nat /\ written[s] \in Nat /\ written'[s] \in Nat
    BY DEF CommandInv, CommandType, ReaderStates
  <2>2. /\ reader[s].total <= written[s]
        /\ reader[s].at = "done" => reader[s].total = written[s] /\ ~PipeOpen(s)
    BY DEF CommandInv, ReadersCount
  <2> QED
    BY <2>1, <2>2 DEF ProcessesEnd
<1>3. ReadersCount'
  BY <1>2 DEF ReadersCount, CommandInv, Least
<1> QED
  BY <1>1, <1>3 DEF CommandInv

LEMMA CommandProcessesKeep ==
    ASSUME CommandInv,
           \/ \E p \in Processes : \E child \in Children : Fork(p, child)
           \/ \E p \in Processes, s \in Streams : WritePipe(p, s)
           \/ \E p \in Processes : Exit(p)
    PROVE  CommandInv'
<1>1. CASE \E p \in Processes : \E child \in Children : Fork(p, child)
  BY <1>1, ForkEnds, ProcessesKeep DEF Fork, CommandInv, CommandType
<1>2. CASE \E p \in Processes, s \in Streams : WritePipe(p, s)
  <2>1. PICK p \in Processes, s \in Streams : WritePipe(p, s)
    BY <1>2
  <2>2. written' \in [Streams -> Nat] /\ PipeOpen(s)
        /\ \A r \in Streams : written'[r] = IF r = s THEN written[r] + 1 ELSE written[r]
    BY <2>1 DEF WritePipe, CommandInv, CommandType, PipeOpen
  <2>3. \A r \in Streams : written'[r] = written[r] \/ (PipeOpen(r) /\ written'[r] > written[r])
    BY <2>2 DEF CommandInv, CommandType
  <2> QED
    BY <2>1, <2>2, <2>3, ProcessesStay, ProcessesKeep DEF WritePipe
<1>3. CASE \E p \in Processes : Exit(p)
  BY <1>3, ExitEnds, ProcessesKeep DEF Exit, CommandInv, CommandType
<1> QED
  BY <1>1, <1>2, <1>3

LEMMA ReapKeeps ==
    ASSUME CommandInv, Reap
    PROVE  CommandInv'
BY DEF Reap, World, Runner, CommandInv, CommandType, ReadersCount, LeaderDies, CallStands, PipeOpen, Lives

\* Keeping up to a limit piece by piece keeps as much as keeping it at once.
LEMMA LeastAdds ==
    ASSUME NEW a \in Nat, NEW n \in Nat
    PROVE  Least(a, Limit) + Least(n, Limit - Least(a, Limit)) = Least(a + n, Limit)
BY CommandsAssumption DEF Least

LEMMA ReadPipeKeeps ==
    ASSUME CommandInv, NEW s \in Streams, ReadPipe(s)
    PROVE  CommandInv'
<1>1. /\ reader \in [Streams -> ReaderStates] /\ written[s] \in Nat /\ reader[s].at = "reading"
      /\ reader[s].total \in Nat /\ reader[s].kept = Least(reader[s].total, Limit)
      /\ at # "returned"
  BY DEF CommandInv, CommandType, ReadersCount, ReaderStates, ReadPipe, CallStands
<1>2. UNCHANGED <<World, reaped, killer, Runner>>
  BY DEF ReadPipe
<1>3. ASSUME NEW r \in ReaderStates, reader' = [reader EXCEPT ![s] = r],
             r.total <= written[s], r.kept = Least(r.total, Limit),
             r.at = "done" => r.total = written[s] /\ ~PipeOpen(s)
      PROVE  CommandInv'
  <2>1. reader' \in [Streams -> ReaderStates] /\ \A q \in Streams : reader'[q] = IF q = s THEN r ELSE reader[q]
    BY <1>1, <1>3
  <2> QED
    BY <1>1, <1>2, <1>3, <2>1
       DEF CommandInv, CommandType, ReadersCount, LeaderDies, CallStands, World, Runner, PipeOpen, Lives
<1>4. ASSUME NEW n \in 1 .. written[s] - reader[s].total,
             reader' = [reader EXCEPT ![s].total = @ + n, ![s].kept = @ + Least(n, Limit - @)]
      PROVE  CommandInv'
  <2> DEFINE total == reader[s].total + n
             kept == reader[s].kept + Least(n, Limit - reader[s].kept)
             r == [reader[s] EXCEPT !.total = total, !.kept = kept]
  <2>1. n \in Nat /\ total \in Nat /\ total <= written[s]
    BY <1>1
  <2>2. kept = Least(total, Limit) /\ kept \in Nat
    BY <1>1, <2>1, LeastAdds, CommandsAssumption DEF Least
  <2>3. reader' = [reader EXCEPT ![s] = r]
    BY <1>1, <1>4
  <2> HIDE DEF total, kept
  <2>4. r \in ReaderStates /\ r.total = total /\ r.kept = kept /\ r.at = "reading"
    BY <1>1, <2>1, <2>2 DEF ReaderStates
  <2> HIDE DEF r
  <2> QED
    BY <1>3, <2>1, <2>2, <2>3, <2>4
<1>5. CASE /\ reader[s].total = written[s] /\ ~PipeOpen(s)
           /\ reader' = [reader EXCEPT ![s].at = "done"]
  <2> DEFINE r == [reader[s] EXCEPT !.at = "done"]
  <2>1. r \in ReaderStates /\ r.total = reader[s].total /\ r.kept = reader[s].kept
    BY <1>1 DEF ReaderStates
  <2>2. reader' = [reader EXCEPT ![s] = r]
    BY <1>1, <1>5
  <2> HIDE DEF r
  <2>3. r.total <= written[s] /\ r.kept = Least(r.total, Limit)
    BY <1>1, <1>5, <2>1
  <2> QED
    BY <1>3, <1>5, <2>1, <2>2, <2>3
<1> QED
  BY <1>4, <1>5 DEF ReadPipe

\* The group is signalled: the leader is in it.
LEMMA StartsKiller ==
    ASSUME CommandInv, StartKiller
    PROVE  /\ ProcessesEnd /\ killer' \in {"term", "done"}
           /\ killer' = "done" => ~Lives("leader")'
<1>1. CASE (reaped /\ ~Forces) \/ GroupGone
  <2>1. reaped /\ UNCHANGED proc /\ killer' = "done"
    BY <1>1 DEF GroupGone, StartKiller
  <2> QED
    BY <2>1, ProcessesStay DEF CommandInv, LeaderDies, Lives
<1>2. CASE ~((reaped /\ ~Forces) \/ GroupGone)
  BY <1>2, SignalsReach DEF StartKiller
<1> QED
  BY <1>1, <1>2

\* A step of the call or of its cleanup, which writes nothing: what it has to keep.
LEMMA CallKeepsInv ==
    ASSUME CommandInv, ProcessesEnd, UNCHANGED <<backend, written, reaped>>,
           UNCHANGED reader \/ CancelReaders,
           killer' \in {"none", "term", "kill", "done"}, cause' \in {"none", "timeout", "cancel"},
           killer' = "kill" => ~Lives("leader")',
           killer' = "done" => ~Lives("leader")' \/ (at' = "raised" /\ cause' = "timeout"),
           CallStands'
    PROVE  CommandInv'
<1>1. /\ reader' \in [Streams -> ReaderStates]
      /\ \A s \in Streams : /\ reader'[s].total = reader[s].total /\ reader'[s].kept = reader[s].kept
                            /\ reader'[s].at = "done" => reader[s].at = "done"
  <2>1. reader \in [Streams -> ReaderStates]
    BY DEF CommandInv, CommandType
  <2>2. CASE UNCHANGED reader
    BY <2>1, <2>2
  <2>3. CASE CancelReaders
    <3> DEFINE r(s) == [reader[s] EXCEPT !.at = "cancelled"]
    <3>1. \A s \in Streams : /\ r(s) \in ReaderStates /\ r(s).total = reader[s].total
                             /\ r(s).kept = reader[s].kept /\ r(s).at = "cancelled"
      BY <2>1 DEF ReaderStates
    <3>2. reader' = [s \in Streams |-> IF reader[s].at = "reading" THEN r(s) ELSE reader[s]]
      BY <2>3 DEF CancelReaders
    <3> HIDE DEF r
    <3> QED
      BY <2>1, <3>1, <3>2
  <2> QED
    BY <2>2, <2>3
<1>2. CommandType'
  BY <1>1 DEF CommandInv, CommandType, ProcessesEnd
<1>3. ReadersCount'
  BY <1>1 DEF CommandInv, ReadersCount, ProcessesEnd, Least
<1>4. LeaderDies'
  BY DEF CommandInv, LeaderDies, ProcessesEnd
<1> QED
  BY <1>2, <1>3, <1>4 DEF CommandInv

LEMMA TerminateKeeps ==
    ASSUME CommandInv, Terminate
    PROVE  CommandInv'
<1>1. CASE LeaderGone
  <2>1. ~Lives("leader") /\ ProcessesEnd
    BY <1>1, ProcessesStay DEF LeaderGone, World, CommandInv, LeaderDies, Lives
  <2> QED
    BY <1>1, <2>1, LeaderStays, CallKeepsInv
       DEF LeaderGone, World, Runner, CommandInv, CommandType, CallStands
<1>2. CASE TermExpires
  <2>1. ProcessesEnd /\ ~Lives("leader")' /\ killer' \in {"kill", "done"}
    <3>1. CASE GroupGone
      <4>1. UNCHANGED proc /\ reaped
        BY <1>2, <3>1 DEF TermExpires, GroupGone
      <4> QED
        BY <1>2, <3>1, <4>1, ProcessesStay DEF TermExpires, CommandInv, LeaderDies, Lives
    <3>2. CASE ~GroupGone
      BY <1>2, <3>2, SignalsReach DEF TermExpires, KillAll, Processes
    <3> QED
      BY <3>1, <3>2
  <2>2. CallStands'
    BY <1>2, <2>1, LeaderStays DEF TermExpires, Runner, CommandInv, CallStands
  <2> QED
    BY <1>2, <2>1, <2>2, CallKeepsInv DEF TermExpires, Runner, CommandInv, CommandType
<1>3. CASE KillExpires
  <2>1. ~Lives("leader") /\ ProcessesEnd
    BY <1>3, ProcessesStay DEF KillExpires, World, CommandInv, LeaderDies
  <2> QED
    BY <1>3, <2>1, LeaderStays, CallKeepsInv
       DEF KillExpires, World, Runner, CommandInv, CommandType, CallStands
<1> QED
  BY <1>1, <1>2, <1>3 DEF Terminate

LEMMA RunCommandKeeps ==
    ASSUME CommandInv, RunCommand
    PROVE  CommandInv'
<1>1. CASE Return
  <2>1. /\ ProcessesEnd /\ ~proc["leader"].alive /\ ~Lives("leader")
        /\ \A s \in Streams : reader[s].at = "done"
    BY <1>1, ProcessesStay DEF Return, AllDone, World, CommandInv, LeaderDies, Lives
  <2>2. CallStands'
    BY <1>1, <2>1, LeaderStays DEF Return, Reach, World, CallStands
  <2> QED
    BY <1>1, <2>1, <2>2, LeaderStays, CallKeepsInv
       DEF Return, Reach, World, CommandInv, CommandType, LeaderDies
<1>2. CASE Expire
  <2>1. CallStands'
    BY <1>2, StartsKiller DEF Expire, Reach, CommandInv, CallStands
  <2> QED
    BY <1>2, <2>1, StartsKiller, CallKeepsInv DEF Expire, Reach
<1>3. CASE CleanedUp
  <2>1. ProcessesEnd /\ ~Lives("leader") /\ at = "cleanup" /\ killer = "done" /\ cause # "none"
    BY <1>3, ProcessesStay DEF CleanedUp, World, CommandInv, LeaderDies, CallStands
  <2>2. CallStands'
    BY <1>3, <2>1 DEF CleanedUp, Reach, CallStands
  <2> QED
    BY <1>3, <2>1, <2>2, LeaderStays, CallKeepsInv
       DEF CleanedUp, Reach, World, CommandInv, CommandType
<1>4. CASE DrainExpires
  <2>1. ProcessesEnd /\ ~Lives("leader") /\ at = "drain" /\ killer = "done" /\ cause = "timeout"
    BY <1>4, ProcessesStay DEF DrainExpires, World, CommandInv, LeaderDies, CallStands
  <2>2. \A s \in Streams : reader'[s].at # "reading"
    <3> DEFINE r(s) == [reader[s] EXCEPT !.at = "cancelled"]
    <3>1. \A s \in Streams : r(s).at = "cancelled"
      BY DEF CommandInv, CommandType, ReaderStates
    <3>2. reader' = [s \in Streams |-> IF reader[s].at = "reading" THEN r(s) ELSE reader[s]]
      BY <1>4 DEF DrainExpires, CancelReaders
    <3> HIDE DEF r
    <3> QED
      BY <3>1, <3>2
  <2>3. CallStands'
    BY <1>4, <2>1, <2>2, LeaderStays DEF DrainExpires, Reach, World, CallStands
  <2> QED
    BY <1>4, <2>1, <2>3, LeaderStays, CallKeepsInv
       DEF DrainExpires, Reach, World, CommandInv, CommandType
<1> QED
  BY <1>1, <1>2, <1>3, <1>4 DEF RunCommand

LEMMA CancelCommandKeeps ==
    ASSUME CommandInv, CancelCommand
    PROVE  CommandInv'
<1>1. UNCHANGED <<backend, written, reaped>>
  BY DEF CancelCommand
<1>2. CASE at = "wait" /\ at' = "cleanup" /\ cause' = "cancel" /\ StartKiller /\ UNCHANGED reader
  <2>1. CallStands'
    BY <1>2, StartsKiller DEF CallStands
  <2> QED
    BY <1>1, <1>2, <2>1, StartsKiller, CallKeepsInv
<1>3. CASE /\ at \in {"cleanup", "drain"} /\ at' = "raised" /\ CancelReaders
           /\ killer' = IF StopsWithCaller THEN "done" ELSE killer
           /\ UNCHANGED <<proc, cause>>
  <2>1. /\ ProcessesEnd /\ killer # "none" /\ cause # "none" /\ UNCHANGED cause
        /\ cause = "timeout" => killer' = "done"
        /\ cause # "timeout" => killer' = killer
    BY <1>3, ProcessesStay DEF CommandInv, CallStands, StopsWithCaller
  <2>2. CallStands'
    BY <1>3, <2>1 DEF CallStands
  <2> QED
    BY <1>1, <1>3, <2>1, <2>2, LeaderStays, CallKeepsInv DEF CommandInv, CommandType, LeaderDies
<1> QED
  BY <1>2, <1>3 DEF CancelCommand

\* Every reachable state of a command keeps what the two properties below rest
\* on: what each reader has, and which processes of the group a kill has reached.
THEOREM CommandInvariance == CommandSpec => []CommandInv
<1>1. CommandInv /\ [CommandNext]_commandVars => CommandInv'
  <2> SUFFICES ASSUME CommandInv, [CommandNext]_commandVars PROVE CommandInv'
    OBVIOUS
  <2>1. CASE UNCHANGED commandVars
    BY <2>1, ProcessesStay, ProcessesKeep DEF commandVars, Runner, CommandInv, CommandType
  <2> QED
    BY <2>1, CommandProcessesKeep, ReapKeeps, ReadPipeKeeps, RunCommandKeeps, TerminateKeeps,
       CancelCommandKeeps DEF CommandNext
<1> QED
  BY <1>1, CommandStarts, PTL DEF CommandSpec

\* Output that is not marked as truncated is all there is, also of a command that
\* timed out or left processes behind, and a command that did not time out has
\* exited (run_command, _read_limited, _task_output).
THEOREM ResultIsWholeCorrect == CommandSpec => []ResultIsWhole
<1>1. CommandInv => ResultIsWhole
  <2> SUFFICES ASSUME CommandInv, at = "returned" PROVE ResultIsWhole
    BY DEF ResultIsWhole
  <2>1. ASSUME NEW s \in Streams, ~Truncated(s)
        PROVE  Output(s) = written[s] /\ ~PipeOpen(s)
    <3>1. /\ reader[s].total \in Nat /\ reader[s].kept = Least(reader[s].total, Limit)
          /\ reader[s].at = "done" => reader[s].total = written[s] /\ ~PipeOpen(s)
          /\ reader[s].at \in {"done", "cancelled"}
      BY DEF CommandInv, CommandType, ReaderStates, ReadersCount, CallStands
    <3>2. reader[s].at = "done" /\ ~(reader[s].total > Limit)
      BY <2>1, <3>1 DEF Truncated
    <3> QED
      BY <3>1, <3>2, CommandsAssumption DEF Output, Least
  <2> QED
    BY <2>1 DEF ResultIsWhole, CommandInv, CallStands
<1> QED
  BY <1>1, CommandInvariance, PTL

\* The leader of a command does not outlive its result or its cancellation
\* (_terminate_process_group, shielded when the call is cancelled).
THEOREM LeaderIsStoppedCorrect == CommandSpec => []LeaderIsStopped
<1>1. CommandInv => LeaderIsStopped
  BY DEF CommandInv, CommandType, LeaderDies, CallStands, LeaderIsStopped, Ended
<1> QED
  BY <1>1, CommandInvariance, PTL

-----------------------------------------------------------------------------
(* Model streams.                                                          *)

BlockStates ==
    [kind : Kinds, call : Nat, named : BOOLEAN, initial : Nat, parts : Nat, open : BOOLEAN]

StreamType ==
    /\ adapter \in {"openai", "anthropic"}
    /\ phase \in {"ready", "reading", "closing", "ended", "failed", "over"}
    /\ blocks \in [DOMAIN blocks -> BlockStates] /\ DOMAIN blocks \subseteq Indexes
    /\ shown \in [DOMAIN blocks -> Nat]
    /\ begun \in BOOLEAN
    /\ requests \in Nat

\* What a block holds is what it began with and what was shown of it.
ShownIsKept == \A i \in DOMAIN blocks : blocks[i].parts = blocks[i].initial + shown[i]

\* The parser of OpenAI numbers the blocks from 0.
NumbersInTurn == adapter = "openai" => \E n \in Nat : DOMAIN blocks = 0 .. n - 1

PhaseFits ==
    /\ DOMAIN blocks # {} => begun
    /\ requests = 0 => phase = "ready" /\ DOMAIN blocks = {}
    /\ phase \in {"reading", "closing", "ended"} => failure = "none"
    /\ phase = "failed" => failure # "none"
    /\ phase = "ended" => \A i \in DOMAIN blocks : Whole(blocks[i])

\* What is in the log was shown, and is whole.
RecordedIsKept ==
    \A i \in DOMAIN recorded :
        /\ recorded[i].block.parts = recorded[i].block.initial + recorded[i].shown
        /\ Whole(recorded[i].block)

StreamInv == StreamType /\ ShownIsKept /\ NumbersInTurn /\ PhaseFits /\ RecordedIsKept
-----------------------------------------------------------------------------
USE StreamAssumption

LEMMA EmptyIsEmpty == DOMAIN Empty = {} /\ \A S : Empty \in [{} -> S]
BY DEF Empty

LEMMA StreamStarts == StreamInit => StreamInv
<1>1. 0 .. 0 - 1 = {}
  OBVIOUS
<1>2. StreamInit => NumbersInTurn
  BY <1>1, EmptyIsEmpty DEF StreamInit, NumbersInTurn
<1> SUFFICES ASSUME StreamInit PROVE StreamInv
  OBVIOUS
<1>3. /\ DOMAIN blocks = {} /\ blocks \in [{} -> BlockStates] /\ shown \in [{} -> Nat]
      /\ DOMAIN recorded = {}
  BY EmptyIsEmpty DEF StreamInit
<1> QED
  BY <1>2, <1>3
     DEF StreamInit, StreamInv, StreamType, ShownIsKept, PhaseFits, RecordedIsKept

\* What an event does to the blocks.
Grows(i) ==
    /\ i \in Indexes \ DOMAIN blocks
    /\ DOMAIN blocks' = DOMAIN blocks \cup {i} /\ blocks'[i].open
    /\ \A j \in DOMAIN blocks : blocks'[j] = blocks[j]

Stays ==
    /\ DOMAIN blocks' = DOMAIN blocks
    /\ \A j \in DOMAIN blocks : blocks'[j].open = blocks[j].open

Typed ==
    /\ blocks' \in [DOMAIN blocks' -> BlockStates] /\ DOMAIN blocks' \subseteq Indexes
    /\ shown' \in [DOMAIN blocks' -> Nat]
    /\ ShownIsKept'

\* The number of the next block is that of no block so far.
LEMMA NextIsNew ==
    ASSUME StreamInv, adapter = "openai"
    PROVE  /\ NextIndex \notin DOMAIN blocks
           /\ \E n \in Nat : DOMAIN blocks \cup {NextIndex} = 0 .. n - 1
<1>1. PICK n \in Nat : DOMAIN blocks = 0 .. n - 1
  BY DEF StreamInv, NumbersInTurn
<1>2. NextIndex = n
  BY <1>1, FS_Interval DEF NextIndex
<1>3. n \notin 0 .. n - 1 /\ (0 .. n - 1) \cup {n} = 0 .. (n + 1) - 1
  BY <1>1
<1>4. n + 1 \in Nat /\ DOMAIN blocks \cup {NextIndex} = 0 .. (n + 1) - 1
  BY <1>1, <1>2, <1>3
<1>5. NextIndex \notin DOMAIN blocks
  BY <1>1, <1>2, <1>3
<1> QED
  BY <1>4, <1>5

\* A fragment for a block: a new one, or one that is there.
LEMMA ContentGrows ==
    ASSUME StreamInv, adapter = "openai",
           NEW kind \in {"text", "thinking", "tool"}, NEW call \in Nat, NEW named \in BOOLEAN,
           NEW fragment \in BOOLEAN, IndexOf(kind, call) \in Indexes,
           OpenAIContent(kind, call, named, fragment)
    PROVE  /\ Typed /\ \E n \in Nat : DOMAIN blocks' = 0 .. n - 1
           /\ Stays \/ \E i \in Indexes : Grows(i)
<1> DEFINE i == IndexOf(kind, call)
           known == {j \in DOMAIN blocks : blocks[j].kind = kind /\ blocks[j].call = call}
           b == IF i \in DOMAIN blocks THEN blocks[i] ELSE Block(kind, call, FALSE, 0)
           n == IF fragment THEN 1 ELSE 0
           s == IF i \in DOMAIN shown THEN shown[i] ELSE 0
           r == [b EXCEPT !.named = @ \/ named, !.parts = @ + n]
<1>1. /\ blocks \in [DOMAIN blocks -> BlockStates] /\ shown \in [DOMAIN blocks -> Nat]
      /\ ShownIsKept /\ DOMAIN blocks \subseteq Indexes
  BY DEF StreamInv, StreamType
<1>2. /\ blocks' = [j \in DOMAIN blocks \cup {i} |-> IF j = i THEN r ELSE blocks[j]]
      /\ shown' = [j \in DOMAIN shown \cup {i} |-> IF j = i THEN s + n ELSE shown[j]]
  BY DEF OpenAIContent
<1>3. i \in DOMAIN blocks \/ i = NextIndex
  BY DEF IndexOf
<1>4. Block(kind, call, FALSE, 0) \in BlockStates
  BY DEF Block, BlockStates, Kinds
<1>5. b \in BlockStates /\ s \in Nat /\ n \in Nat /\ b.parts = b.initial + s
      /\ (i \notin DOMAIN blocks => b.open)
  <2>1. CASE i \in DOMAIN blocks
    BY <1>1, <2>1 DEF ShownIsKept
  <2>2. CASE i \notin DOMAIN blocks
    BY <1>1, <1>4, <2>2 DEF Block
  <2> QED
    BY <2>1, <2>2
<1>6. r \in BlockStates /\ r.parts = r.initial + (s + n) /\ r.open = b.open
  <2> DEFINE q == b.named \/ named
             m == b.parts + n
  <2> HIDE DEF b, n, s
  <2>1. q \in BOOLEAN /\ m \in Nat /\ r = [b EXCEPT !.named = q, !.parts = m]
    BY <1>5 DEF BlockStates
  <2> HIDE DEF q, r
  <2>2. m = b.initial + (s + n)
    BY <1>5 DEF BlockStates
  <2> HIDE DEF m
  <2>3. r \in BlockStates /\ r.parts = m /\ r.initial = b.initial /\ r.open = b.open
    BY <1>5, <2>1 DEF BlockStates
  <2> QED
    BY <2>2, <2>3
<1> HIDE DEF r
<1>7. Typed
  BY <1>1, <1>2, <1>5, <1>6 DEF Typed, ShownIsKept
<1>8. \E k \in Nat : DOMAIN blocks' = 0 .. k - 1
  <2>1. CASE i \in DOMAIN blocks
    BY <1>2, <2>1 DEF StreamInv, NumbersInTurn
  <2>2. CASE i = NextIndex
    BY <1>2, <2>2, NextIsNew
  <2> QED
    BY <1>3, <2>1, <2>2
<1>9. Stays \/ Grows(i)
  <2>1. CASE i \in DOMAIN blocks
    BY <1>2, <1>6, <2>1 DEF Stays
  <2>2. CASE i \notin DOMAIN blocks
    BY <1>2, <1>5, <1>6, <2>2 DEF Grows
  <2> QED
    BY <2>1, <2>2
<1> QED
  BY <1>7, <1>8, <1>9

\* A step that leaves the parser alone.
LEMMA ParserStays ==
    ASSUME StreamInv, UNCHANGED <<blocks, shown>>
    PROVE  Typed /\ Stays /\ (NumbersInTurn /\ UNCHANGED adapter => NumbersInTurn')
BY DEF StreamInv, StreamType, Typed, Stays, ShownIsKept, NumbersInTurn

\* A failure of the stream.
LEMMA FailKeeps ==
    ASSUME StreamInv, requests # 0, NEW why, why # "none", Fail(why)
    PROVE  StreamInv'
<1>1. UNCHANGED <<blocks, shown, begun, recorded, requests, adapter>> /\ phase' = "failed" /\ failure' = why
  BY DEF Fail, Parser, Consumer
<1>2. StreamType'
  BY <1>1 DEF StreamInv, StreamType
<1>3. ShownIsKept' /\ NumbersInTurn'
  BY <1>1 DEF StreamInv, ShownIsKept, NumbersInTurn
<1>4. PhaseFits'
  BY <1>1 DEF StreamInv, PhaseFits
<1>5. RecordedIsKept'
  BY <1>1 DEF StreamInv, RecordedIsKept, Whole
<1> QED
  BY <1>2, <1>3, <1>4, <1>5 DEF StreamInv

LEMMA Requested == ASSUME StreamInv, phase # "ready" PROVE requests # 0
BY DEF StreamInv, PhaseFits

\* An event of the wire that is taken.
LEMMA EventKeeps ==
    ASSUME StreamInv, phase = "reading", Typed, NumbersInTurn',
           UNCHANGED <<phase, failure, Consumer>>, begun' \in BOOLEAN,
           DOMAIN blocks' # {} => begun'
    PROVE  StreamInv'
BY DEF Typed, Consumer, StreamInv, StreamType, PhaseFits, RecordedIsKept, Whole

\* What one event of OpenAI does, but for a finish reason.
LEMMA OpenAIOutcome ==
    ASSUME StreamInv, OpenAIEvent
    PROVE  \/ Fail("protocol")
           \/ /\ Typed /\ NumbersInTurn'
              /\ UNCHANGED <<phase, begun, failure, Consumer>>
              /\ Stays \/ \E i \in Indexes : Grows(i)
<1>1. phase = "reading" /\ adapter = "openai" /\ begun
  BY DEF OpenAIEvent, Receive
<1>2. PICK reason \in Reasons \cup {"none"}, kind \in {"none", "text", "thinking", "tool"} :
           \E call \in IF kind = "tool" THEN 0 .. 1 ELSE {0} :
           \E named \in IF kind = "tool" THEN BOOLEAN ELSE {TRUE} :
           \E fragment \in IF kind = "tool" THEN BOOLEAN ELSE {TRUE} :
              OpenAITakes(reason, kind, call, named, fragment)
  BY DEF OpenAIEvent
<1>3. PICK call \in IF kind = "tool" THEN 0 .. 1 ELSE {0} :
           \E named \in IF kind = "tool" THEN BOOLEAN ELSE {TRUE} :
           \E fragment \in IF kind = "tool" THEN BOOLEAN ELSE {TRUE} :
              OpenAITakes(reason, kind, call, named, fragment)
  BY <1>2
<1>4. PICK named \in IF kind = "tool" THEN BOOLEAN ELSE {TRUE},
           fragment \in IF kind = "tool" THEN BOOLEAN ELSE {TRUE} :
              OpenAITakes(reason, kind, call, named, fragment)
  BY <1>3
<1>5. call \in Nat /\ named \in BOOLEAN /\ fragment \in BOOLEAN
  <2>1. CASE kind = "tool"
    BY <2>1
  <2>2. CASE kind # "tool"
    BY <2>2
  <2> QED
    BY <2>1, <2>2
<1>6. CASE kind = "none"
  BY <1>1, <1>4, <1>6, ParserStays DEF OpenAITakes, Consumer, StreamInv
<1>7. CASE kind # "none"
  <2>1. /\ kind \in {"text", "thinking", "tool"} /\ IndexOf(kind, call) \in Indexes
        /\ \/ Fail("protocol")
           \/ /\ OpenAIContent(kind, call, named, fragment)
              /\ UNCHANGED <<phase, begun, failure, Consumer>>
    BY <1>4, <1>7 DEF OpenAITakes
  <2>2. ASSUME OpenAIContent(kind, call, named, fragment)
        PROVE  Typed /\ NumbersInTurn' /\ (Stays \/ \E i \in Indexes : Grows(i))
    BY <1>1, <1>5, <2>1, <2>2, ContentGrows DEF NumbersInTurn
  <2> QED
    BY <2>1, <2>2
<1> QED
  BY <1>6, <1>7

LEMMA OpenAIKeeps ==
    ASSUME StreamInv, OpenAIStart \/ OpenAIEvent
    PROVE  StreamInv'
<1>1. CASE OpenAIStart
  BY <1>1, ParserStays, EventKeeps DEF OpenAIStart, Consumer, StreamInv, NumbersInTurn, PhaseFits
<1>2. CASE OpenAIEvent
  <2>1. phase = "reading" /\ begun /\ begun \in BOOLEAN
    BY <1>2 DEF OpenAIEvent, Receive, StreamInv, StreamType
  <2>2. CASE Fail("protocol")
    BY <2>1, <2>2, FailKeeps, Requested
  <2>3. CASE ~Fail("protocol")
    BY <1>2, <2>1, <2>3, OpenAIOutcome, EventKeeps
  <2> QED
    BY <2>2, <2>3
<1> QED
  BY <1>1, <1>2

BlockBegins(i, r) ==
    /\ begun /\ i \notin DOMAIN blocks
    /\ blocks' = [j \in DOMAIN blocks \cup {i} |-> IF j = i THEN r ELSE blocks[j]]
    /\ shown' = [j \in DOMAIN shown \cup {i} |-> IF j = i THEN 0 ELSE shown[j]]
    /\ UNCHANGED <<phase, begun, finish, final, failure, Consumer>>

\* One new block, as Anthropic announces it.
LEMMA AnthropicGrows ==
    ASSUME StreamInv, NEW i \in Indexes \ DOMAIN blocks, NEW r \in BlockStates,
           r.parts = r.initial, r.open,
           blocks' = [j \in DOMAIN blocks \cup {i} |-> IF j = i THEN r ELSE blocks[j]],
           shown' = [j \in DOMAIN shown \cup {i} |-> IF j = i THEN 0 ELSE shown[j]]
    PROVE  Typed /\ Grows(i)
BY DEF StreamInv, StreamType, Typed, Grows, ShownIsKept, BlockStates

\* A block of a stream that is open.
LEMMA AnthropicStays ==
    ASSUME StreamInv, NEW i \in DOMAIN blocks, NEW r \in BlockStates, NEW n \in Nat,
           blocks' = [blocks EXCEPT ![i] = r], shown' = [shown EXCEPT ![i] = n],
           r.parts = r.initial + n
    PROVE  /\ Typed /\ DOMAIN blocks' = DOMAIN blocks
           /\ \A j \in DOMAIN blocks : blocks'[j] = IF j = i THEN r ELSE blocks[j]
BY DEF StreamInv, StreamType, Typed, ShownIsKept

\* A delta is kept, or only shown.
LEMMA DeltaStays ==
    ASSUME StreamInv, NEW i \in DOMAIN blocks, NEW n \in {0, 1},
           blocks' = [blocks EXCEPT ![i].parts = @ + n], shown' = [shown EXCEPT ![i] = @ + n]
    PROVE  Typed /\ Stays
<1> DEFINE m == blocks[i].parts + n
           r == [blocks[i] EXCEPT !.parts = m]
           k == shown[i] + n
<1>1. /\ blocks \in [DOMAIN blocks -> BlockStates] /\ shown \in [DOMAIN blocks -> Nat]
      /\ blocks[i].parts = blocks[i].initial + shown[i]
  BY DEF StreamInv, StreamType, ShownIsKept
<1>2. m \in Nat /\ m = blocks[i].initial + k /\ k \in Nat
  BY <1>1 DEF BlockStates
<1>3. blocks' = [blocks EXCEPT ![i] = r] /\ shown' = [shown EXCEPT ![i] = k]
  BY <1>1
<1> HIDE DEF m, k
<1>4. r \in BlockStates /\ r.parts = m /\ r.initial = blocks[i].initial /\ r.open = blocks[i].open
  BY <1>1, <1>2 DEF BlockStates
<1> HIDE DEF r
<1>5. r \in BlockStates /\ k \in Nat /\ r.parts = r.initial + k
  BY <1>2, <1>4
<1>6. Typed /\ DOMAIN blocks' = DOMAIN blocks
      /\ \A j \in DOMAIN blocks : blocks'[j] = IF j = i THEN r ELSE blocks[j]
  BY <1>3, <1>5, AnthropicStays
<1> QED
  BY <1>4, <1>6 DEF Stays

LEMMA StopStays ==
    ASSUME StreamInv, NEW i \in DOMAIN blocks,
           blocks' = [blocks EXCEPT ![i].open = FALSE], UNCHANGED shown
    PROVE  /\ Typed /\ DOMAIN blocks' = DOMAIN blocks /\ ~blocks'[i].open
           /\ \A j \in DOMAIN blocks : j # i => blocks'[j] = blocks[j]
           /\ \A j \in DOMAIN blocks : Whole(blocks[j]) => Whole(blocks'[j])
<1> DEFINE r == [blocks[i] EXCEPT !.open = FALSE]
<1>1. /\ blocks \in [DOMAIN blocks -> BlockStates] /\ shown \in [DOMAIN blocks -> Nat]
      /\ blocks[i].parts = blocks[i].initial + shown[i]
  BY DEF StreamInv, StreamType, ShownIsKept
<1>2. blocks' = [blocks EXCEPT ![i] = r] /\ shown' = [shown EXCEPT ![i] = shown[i]] /\ shown[i] \in Nat
  BY <1>1
<1>3. /\ r \in BlockStates /\ r.parts = blocks[i].parts /\ r.initial = blocks[i].initial /\ ~r.open
      /\ r.kind = blocks[i].kind /\ r.named = blocks[i].named
  BY <1>1 DEF BlockStates
<1>4. ASSUME NEW k, k = shown[i]
      PROVE  /\ Typed /\ DOMAIN blocks' = DOMAIN blocks
             /\ \A j \in DOMAIN blocks : blocks'[j] = IF j = i THEN r ELSE blocks[j]
  <2>1. r.parts = r.initial + k /\ k \in Nat /\ shown' = [shown EXCEPT ![i] = k]
    BY <1>1, <1>2, <1>3, <1>4
  <2> HIDE DEF r
  <2>2. r \in BlockStates /\ blocks' = [blocks EXCEPT ![i] = r]
    BY <1>2, <1>3
  <2> QED
    BY <2>1, <2>2, AnthropicStays
<1>5. /\ Typed /\ DOMAIN blocks' = DOMAIN blocks
      /\ \A j \in DOMAIN blocks : blocks'[j] = IF j = i THEN r ELSE blocks[j]
  BY <1>4
<1> QED
  BY <1>3, <1>5 DEF Whole

LEMMA AnthropicStartsBlock ==
    ASSUME StreamInv, NEW i \in Indexes, AnthropicBlockStart(i)
    PROVE  StreamInv'
<1>1. phase = "reading" /\ adapter = "anthropic" /\ requests # 0
  BY Requested DEF AnthropicBlockStart, Receive
<1>2. CASE Fail("protocol")
  BY <1>1, <1>2, FailKeeps
<1>3. CASE ~Fail("protocol")
  <2>1. PICK kind \in Kinds :
            \E named \in IF kind = "tool" THEN BOOLEAN ELSE {TRUE} :
            \E initial \in IF kind = "tool" THEN {0, 2} ELSE {0} :
               BlockBegins(i, Block(kind, i, named, initial))
    BY <1>3 DEF AnthropicBlockStart, BlockBegins
  <2> PICK named \in IF kind = "tool" THEN BOOLEAN ELSE {TRUE},
           initial \in IF kind = "tool" THEN {0, 2} ELSE {0} :
               BlockBegins(i, Block(kind, i, named, initial))
    BY <2>1
  <2> DEFINE r == Block(kind, i, named, initial)
  <2>2. r \in BlockStates /\ r.parts = r.initial /\ r.open
    <3>1. named \in BOOLEAN /\ initial \in Nat
      <4>1. CASE kind = "tool"
        BY <4>1
      <4>2. CASE kind # "tool"
        BY <4>2
      <4> QED
        BY <4>1, <4>2
    <3> QED
      BY <3>1 DEF Block, BlockStates
  <2> BlockBegins(i, r)
    OBVIOUS
  <2> HIDE DEF r
  <2>3. Typed
    BY <2>2, AnthropicGrows DEF BlockBegins
  <2> QED
    BY <1>1, <2>3, EventKeeps DEF BlockBegins, Consumer, NumbersInTurn
<1> QED
  BY <1>2, <1>3

LEMMA AnthropicTakesDelta ==
    ASSUME StreamInv, NEW i \in Indexes, AnthropicDelta(i)
    PROVE  StreamInv'
<1>1. phase = "reading" /\ adapter = "anthropic" /\ requests # 0
  BY Requested DEF AnthropicDelta, Receive
<1>2. CASE Fail("protocol")
  BY <1>1, <1>2, FailKeeps
<1>3. CASE ~Fail("protocol")
  <2>1. PICK n \in {0, 1} :
          /\ begun /\ i \in DOMAIN blocks
          /\ blocks' = [blocks EXCEPT ![i].parts = @ + n]
          /\ shown' = [shown EXCEPT ![i] = @ + n]
          /\ UNCHANGED <<phase, begun, finish, final, failure, Consumer>>
    BY <1>3 DEF AnthropicDelta
  <2>2. Typed
    BY <2>1, DeltaStays
  <2> QED
    BY <1>1, <2>1, <2>2, EventKeeps DEF Consumer, NumbersInTurn
<1> QED
  BY <1>2, <1>3

LEMMA AnthropicStopsBlock ==
    ASSUME StreamInv, NEW i \in Indexes, AnthropicBlockStop(i)
    PROVE  StreamInv'
<1>1. phase = "reading" /\ adapter = "anthropic" /\ requests # 0
  BY Requested DEF AnthropicBlockStop, Receive
<1>2. CASE Fail("protocol")
  BY <1>1, <1>2, FailKeeps
<1>3. CASE ~Fail("protocol")
  <2>1. /\ i \in DOMAIN blocks /\ blocks' = [blocks EXCEPT ![i].open = FALSE]
        /\ UNCHANGED <<phase, begun, finish, final, shown, stray, failure, Consumer>>
    BY <1>3 DEF AnthropicBlockStop
  <2>2. Typed /\ begun
    BY <2>1, StopStays DEF StreamInv, PhaseFits
  <2> QED
    BY <1>1, <2>1, <2>2, EventKeeps DEF Consumer, NumbersInTurn
<1> QED
  BY <1>2, <1>3

\* The rest of the events of Anthropic.
LEMMA AnthropicKeeps ==
    ASSUME StreamInv, AnthropicStart \/ AnthropicMessageDelta
    PROVE  StreamInv'
<1>1. phase = "reading" /\ adapter = "anthropic" /\ requests # 0
  BY Requested DEF AnthropicStart, AnthropicMessageDelta, Receive
<1>2. CASE Fail("protocol")
  BY <1>1, <1>2, FailKeeps
<1>3. CASE ~Fail("protocol")
  <2>1. /\ UNCHANGED <<phase, blocks, shown, failure, Consumer>>
        /\ begun' \in BOOLEAN /\ (DOMAIN blocks' # {} => begun')
    BY <1>3 DEF AnthropicStart, AnthropicMessageDelta, StreamInv, StreamType, PhaseFits
  <2>2. Typed
    BY <2>1, ParserStays
  <2> QED
    BY <1>1, <2>1, <2>2, EventKeeps DEF Consumer, NumbersInTurn
<1> QED
  BY <1>2, <1>3

\* The open block that is closed next is one of the open ones.
LEMMA LeastIndex ==
    ASSUME NEW S, S \subseteq Nat, S # {}
    PROVE  Min(S) \in S
<1> DEFINE R == {p \in Nat \X Nat : p[1] < p[2]}
<1>1. IsWellFoundedOn(R, Nat)
  BY NatLessThanWellFounded DEF OpToRel
<1> HIDE DEF R
<1>2. PICK x \in S : \A y \in S : <<y, x>> \notin R
  BY <1>1, WFMin
<1>3. \A y \in S : ~(y < x)
  BY <1>2, Zenon DEF R
<1>4. \A y \in S : x <= y
  BY <1>3
<1> QED
  BY <1>4 DEF Min

LEMMA ClosingKeeps ==
    ASSUME StreamInv, CloseBlock
    PROVE  StreamInv'
<1> DEFINE open == {i \in DOMAIN blocks : blocks[i].open}
           i == Min(open)
<1>1. /\ phase = "closing" /\ open # {}
      /\ blocks' = [blocks EXCEPT ![i].open = FALSE]
      /\ UNCHANGED <<phase, begun, finish, final, shown, stray, failure, wire, Consumer>>
  BY DEF CloseBlock
<1>2. open \subseteq Nat
  BY DEF StreamInv, StreamType
<1>3. i \in open
  BY <1>1, <1>2, LeastIndex
<1> HIDE DEF i
<1>4. i \in DOMAIN blocks
  BY <1>3
<1>5. Typed /\ DOMAIN blocks' = DOMAIN blocks
  BY <1>1, <1>4, StopStays
<1> QED
  BY <1>1, <1>5
     DEF Typed, Consumer, StreamInv, StreamType, NumbersInTurn, PhaseFits, RecordedIsKept, Whole

LEMMA StartKeeps ==
    ASSUME StreamInv, StartStream
    PROVE  StreamInv'
<1>1. 0 .. 0 - 1 = {}
  OBVIOUS
<1>2. /\ DOMAIN blocks' = {} /\ blocks' \in [{} -> BlockStates] /\ shown' \in [{} -> Nat]
      /\ DOMAIN recorded' = {}
      /\ phase' = "reading" /\ failure' = "none" /\ begun' = FALSE
      /\ requests' = requests + 1 /\ adapter' = adapter
  BY EmptyIsEmpty DEF StartStream, FreshParser
<1>3. NumbersInTurn'
  BY <1>1, <1>2 DEF NumbersInTurn
<1>4. requests' \in Nat /\ requests' # 0
  BY <1>2 DEF StreamInv, StreamType
<1>5. ShownIsKept' /\ PhaseFits' /\ RecordedIsKept'
  BY <1>2, <1>4 DEF ShownIsKept, PhaseFits, RecordedIsKept
<1>6. StreamType'
  BY <1>2, <1>4 DEF StreamInv, StreamType
<1> QED
  BY <1>3, <1>5, <1>6 DEF StreamInv

LEMMA FinishKeeps ==
    ASSUME StreamInv, Finish
    PROVE  StreamInv'
<1>1. CASE Fail("protocol")
  BY <1>1, FailKeeps, Requested DEF Finish
<1>2. CASE Completion /\ phase' = "ended" /\ UNCHANGED <<Parser, failure, Consumer>>
  BY <1>2 DEF Finish, Completion, Whole, Parser, Consumer, StreamInv, StreamType, ShownIsKept,
       NumbersInTurn, PhaseFits, RecordedIsKept
<1> QED
  BY <1>1, <1>2 DEF Finish

LEMMA RecordKeeps ==
    ASSUME StreamInv, Record
    PROVE  StreamInv'
<1>1. RecordedIsKept'
  BY DEF Record, Content, StreamInv, ShownIsKept, PhaseFits, RecordedIsKept, Whole
<1> QED
  BY <1>1 DEF Record, Parser, StreamInv, StreamType, ShownIsKept, NumbersInTurn, PhaseFits

\* The steps that leave the blocks and the log alone.
LEMMA StreamOthersKeep ==
    ASSUME StreamInv,
           WireFailure \/ OpenAIEof \/ AnthropicEof \/ HandleFailure \/ CancelStream \/ NewRun
    PROVE  StreamInv'
<1>1. CASE WireFailure \/ (AnthropicEof /\ Fail("protocol"))
  BY <1>1, FailKeeps, Requested DEF WireFailure, AnthropicEof
<1>2. CASE OpenAIEof \/ (AnthropicEof /\ ~Fail("protocol")) \/ HandleFailure \/ CancelStream \/ NewRun
  <2>1. /\ UNCHANGED <<blocks, shown, begun, recorded, requests, adapter>>
        /\ phase' \in {"ready", "closing", "over"} /\ requests # 0
        /\ phase' = "closing" => phase = "reading" /\ failure' = failure
    BY <1>2, Requested
       DEF OpenAIEof, AnthropicEof, HandleFailure, CancelStream, NewRun, Parser, Consumer
  <2>2. RecordedIsKept' /\ ShownIsKept' /\ NumbersInTurn'
    BY <2>1 DEF StreamInv, RecordedIsKept, Whole, ShownIsKept, NumbersInTurn
  <2>3. StreamType' /\ PhaseFits'
    BY <2>1 DEF StreamInv, StreamType, PhaseFits
  <2> QED
    BY <2>2, <2>3 DEF StreamInv
<1> QED
  BY <1>1, <1>2

\* Every step keeps the invariant.
LEMMA StreamStep == StreamInv /\ [StreamNext]_streamVars => StreamInv'
<1> SUFFICES ASSUME StreamInv, [StreamNext]_streamVars PROVE StreamInv'
  OBVIOUS
<1>1. CASE StreamNext
  BY <1>1, StartKeeps, StreamOthersKeep, OpenAIKeeps, ClosingKeeps, AnthropicKeeps,
     AnthropicStartsBlock, AnthropicTakesDelta, AnthropicStopsBlock, FinishKeeps, RecordKeeps
     DEF StreamNext
<1>2. CASE UNCHANGED streamVars
  BY <1>2 DEF streamVars, StreamInv, StreamType, ShownIsKept, NumbersInTurn, PhaseFits,
       RecordedIsKept, Whole
<1> QED
  BY <1>1, <1>2

\* Every reachable state of a stream keeps what is kept of a block equal to what
\* was shown of it, and the numbers of the blocks in the order they were opened.
THEOREM StreamInvariance == StreamSpec => []StreamInv
<1> QED
  BY StreamStarts, StreamStep, PTL DEF StreamSpec

\* The OpenAI adapter shows nothing of a block but what is of its kind.
Strays ==
    /\ adapter = "openai" => stray = {}
    /\ \A i \in DOMAIN recorded : recorded[i].stray => adapter = "anthropic"

LEMMA StraysAreAnthropic == StreamSpec => []Strays
<1>1. StreamInit => Strays
  BY EmptyIsEmpty DEF StreamInit, Strays
<1>2. /\ StreamInv /\ Strays /\ [StreamNext]_streamVars => Strays'
  <2> SUFFICES ASSUME StreamInv, Strays, [StreamNext]_streamVars PROVE Strays'
    OBVIOUS
  <2>1. ASSUME UNCHANGED <<stray, recorded, adapter>> PROVE Strays'
    BY <2>1 DEF Strays
  <2>2. ASSUME NEW why, Fail(why) PROVE Strays'
    BY <2>1, <2>2 DEF Fail, Parser, Consumer
  <2>3. CASE StartStream
    BY <2>3, EmptyIsEmpty DEF StartStream, FreshParser, Strays
  <2>4. CASE Record
    <3>1. UNCHANGED <<stray, adapter>> /\ adapter \in {"openai", "anthropic"}
      BY <2>4 DEF Record, Parser, StreamInv, StreamType
    <3>2. \A i \in DOMAIN recorded' : recorded'[i].stray = (i \in stray)
      BY <2>4 DEF Record
    <3> QED
      BY <3>1, <3>2 DEF Strays
  <2>5. CASE OpenAIStart \/ OpenAIEof \/ CloseBlock
    BY <2>1, <2>5 DEF OpenAIStart, OpenAIEof, CloseBlock, Parser, Consumer
  <2>6. CASE OpenAIEvent
    <3>1. \A reason, kind, call, named, fragment :
             OpenAITakes(reason, kind, call, named, fragment)
                => Fail("protocol") \/ UNCHANGED <<stray, Consumer>>
      BY DEF OpenAITakes, OpenAIContent
    <3>2. Fail("protocol") \/ UNCHANGED <<stray, Consumer>>
      BY <2>6, <3>1, Zenon DEF OpenAIEvent
    <3> QED
      BY <2>1, <2>2, <3>2 DEF Consumer
  <2>7. CASE WireFailure
    BY <2>2, <2>7 DEF WireFailure
  <2>8. CASE AnthropicStart \/ AnthropicMessageDelta
    BY <2>1, <2>2, <2>8 DEF AnthropicStart, AnthropicMessageDelta, Consumer
  <2>9. CASE AnthropicEof \/ Finish
    BY <2>1, <2>2, <2>9 DEF AnthropicEof, Finish, Parser, Consumer
  <2>10. ASSUME NEW i \in Indexes, AnthropicBlockStart(i) \/ AnthropicBlockStop(i) PROVE Strays'
    BY <2>1, <2>2, <2>10 DEF AnthropicBlockStart, AnthropicBlockStop, Consumer
  <2>11. ASSUME NEW i \in Indexes, AnthropicDelta(i) PROVE Strays'
    <3>1. adapter = "anthropic" /\ (Fail("protocol") \/ UNCHANGED Consumer)
      BY <2>11 DEF AnthropicDelta, Receive
    <3> QED
      BY <2>2, <3>1 DEF Strays, Consumer
  <2>12. CASE HandleFailure \/ CancelStream \/ NewRun
    BY <2>1, <2>12 DEF HandleFailure, CancelStream, NewRun, Parser, Consumer
  <2>13. CASE UNCHANGED streamVars
    BY <2>1, <2>13 DEF streamVars
  <2> QED
    BY <2>3, <2>4, <2>5, <2>6, <2>7, <2>8, <2>9, <2>10, <2>11, <2>12, <2>13 DEF StreamNext
<1> QED
  BY <1>1, <1>2, StreamInvariance, PTL DEF StreamSpec

\* For any content of the server's events and any number of retries, what is
\* recorded of a message is, block by block, what observers saw of its kind in the
\* stream that ended well, only the Anthropic adapter shows more than that, and no
\* tool call is recorded in part (_parse_stream).
THEOREM RecordedIsShownCorrect == StreamSpec => []RecordedIsShown
<1>1. StreamInv /\ Strays => RecordedIsShown
  BY DEF StreamInv, Strays, RecordedIsKept, RecordedIsShown
<1> QED
  BY <1>1, StreamInvariance, StraysAreAnthropic, PTL
-----------------------------------------------------------------------------
(* The refinement: every step of an adapter is a step of the chunk stream  *)
(* it promises, or none.                                                   *)

InStream(stage) ==
    /\ requests # 0 /\ phase \in {"reading", "closing"}
    /\ stage = IF begun THEN "body" ELSE "idle"

AfterStream(stage) ==
    /\ requests # 0 /\ phase \notin {"reading", "closing"}
    /\ stage = IF failure = "none" THEN "ended" ELSE "failed"

\* The abstract stream in terms of the parser.
LEMMA StageIs ==
    /\ requests # 0 => InStream(Stage) \/ AfterStream(Stage)
    /\ requests' # 0 => InStream(Stage)' \/ AfterStream(Stage)'
    /\ requests = 0 /\ phase = "ready" => Stage = "idle"
<1>1. requests # 0 => InStream(Stage) \/ AfterStream(Stage)
  <2>1. CASE phase \in {"reading", "closing"}
    BY <2>1 DEF Stage, InStream
  <2>2. CASE phase \notin {"reading", "closing"}
    BY <2>2 DEF Stage, AfterStream
  <2> QED
    BY <2>1, <2>2
<1>2. requests' # 0 => InStream(Stage)' \/ AfterStream(Stage)'
  <2>1. CASE phase' \in {"reading", "closing"}
    BY <2>1 DEF Stage, InStream
  <2>2. CASE phase' \notin {"reading", "closing"}
    BY <2>2 DEF Stage, AfterStream
  <2> QED
    BY <2>1, <2>2
<1>3. requests = 0 /\ phase = "ready" => Stage = "idle"
  BY DEF Stage
<1> QED
  BY <1>1, <1>2, <1>3

ChunkStep == [Chunks!Next]_(Chunks!vars)

\* Steps that no consumer sees.
LEMMA Stutters ==
    ASSUME Stage' = Stage, Stays
    PROVE  ChunkStep
<1>1. {i \in DOMAIN blocks : blocks[i].open}' = {i \in DOMAIN blocks : blocks[i].open}
  BY DEF Stays
<1> QED
  BY <1>1 DEF ChunkStep, Chunks!vars, Stays

LEMMA FailsChunks ==
    ASSUME StreamInv, phase \in {"reading", "closing"}, NEW why, why # "none", Fail(why)
    PROVE  ChunkStep
<1>1. requests # 0 /\ UNCHANGED <<blocks, requests>> /\ phase' = "failed" /\ failure' # "none"
  BY Requested DEF Fail, Parser, Consumer
<1>2. Stage \in {"idle", "body"} /\ Stage' = "failed"
  BY <1>1, StageIs DEF InStream, AfterStream
<1> QED
  BY <1>1, <1>2 DEF ChunkStep, Chunks!Next, Chunks!Fail

LEMMA StartsMessage ==
    ASSUME StreamInv, phase = "reading", ~begun, begun', UNCHANGED <<blocks, phase, requests>>
    PROVE  ChunkStep
<1>1. Stage = "idle" /\ Stage' = "body"
  BY StageIs, Requested DEF InStream, AfterStream
<1> QED
  BY <1>1 DEF ChunkStep, Chunks!Next, Chunks!MessageStart

LEMMA StartsBlock ==
    ASSUME StreamInv, phase = "reading", begun, UNCHANGED <<phase, begun, requests>>,
           NEW i \in Indexes, Grows(i)
    PROVE  ChunkStep
<1>1. Stage = "body" /\ Stage' = "body"
  BY StageIs, Requested DEF InStream, AfterStream
<1>2. {j \in DOMAIN blocks : blocks[j].open}' = {j \in DOMAIN blocks : blocks[j].open} \cup {i}
  BY DEF Grows
<1>3. Chunks!BlockStart(i)
  BY <1>1, <1>2 DEF Chunks!BlockStart, Grows
<1> QED
  BY <1>3 DEF ChunkStep, Chunks!Next

LEMMA EndsBlock ==
    ASSUME StreamInv, phase \in {"reading", "closing"}, UNCHANGED <<phase, begun, shown, requests>>,
           NEW i \in DOMAIN blocks, blocks[i].open, blocks' = [blocks EXCEPT ![i].open = FALSE]
    PROVE  ChunkStep
<1>1. begun /\ i \in Indexes
  BY DEF StreamInv, StreamType, PhaseFits
<1>2. Stage = "body" /\ Stage' = "body"
  BY <1>1, StageIs, Requested DEF InStream, AfterStream
<1>3. {j \in DOMAIN blocks : blocks[j].open}' = {j \in DOMAIN blocks : blocks[j].open} \ {i}
  BY StopStays
<1>4. Chunks!BlockEnd(i)
  BY <1>2, <1>3, StopStays DEF Chunks!BlockEnd
<1> QED
  BY <1>1, <1>4 DEF ChunkStep, Chunks!Next

\* A step inside the stream that no consumer sees.
LEMMA Silent ==
    ASSUME StreamInv, UNCHANGED <<begun, failure, requests>>, Stays,
           (phase \in {"reading", "closing"}) = (phase' \in {"reading", "closing"}),
           phase # "ready" \/ requests # 0
    PROVE  ChunkStep
<1>1. Stage' = Stage
  BY StageIs, Requested DEF InStream, AfterStream
<1> QED
  BY <1>1, Stutters

\* Each action of the adapters is a step of ChunkStream or a stutter.
LEMMA StartMapped ==
    ASSUME StreamInv, StartStream
    PROVE  ChunkStep
<1>1. /\ phase = "ready" /\ phase' = "reading" /\ begun' = FALSE /\ DOMAIN blocks' = {}
      /\ requests' = requests + 1
  BY EmptyIsEmpty DEF StartStream, FreshParser
<1>2. Stage' = "idle"
  BY <1>1, StageIs DEF StreamInv, StreamType, InStream, AfterStream
<1>3. CASE requests = 0
  BY <1>1, <1>2, <1>3, StageIs, Stutters DEF StreamInv, PhaseFits, Stays
<1>4. CASE requests # 0
  <2>1. Stage \in {"ended", "failed"}
    BY <1>1, <1>4, StageIs DEF InStream, AfterStream
  <2> QED
    BY <1>1, <1>2, <2>1 DEF ChunkStep, Chunks!Next, Chunks!NewStream
<1> QED
  BY <1>3, <1>4

LEMMA OpenAIMapped ==
    ASSUME StreamInv, OpenAIStart \/ OpenAIEvent \/ OpenAIEof
    PROVE  ChunkStep
<1>1. CASE OpenAIStart
  BY <1>1, StartsMessage DEF OpenAIStart, Consumer
<1>2. CASE OpenAIEvent
  <2>1. phase = "reading" /\ adapter = "openai" /\ begun
    BY <1>2 DEF OpenAIEvent, Receive
  <2>2. \/ Fail("protocol")
        \/ /\ UNCHANGED <<phase, begun, failure, requests>>
           /\ Stays \/ \E i \in Indexes : Grows(i)
    BY <1>2, OpenAIOutcome DEF Consumer
  <2> QED
    BY <2>1, <2>2, FailsChunks, StartsBlock, Silent
<1>3. CASE OpenAIEof
  BY <1>3, Silent, ParserStays DEF OpenAIEof, Parser, Consumer
<1> QED
  BY <1>1, <1>2, <1>3

LEMMA ClosingMapped ==
    ASSUME StreamInv, CloseBlock
    PROVE  ChunkStep
<1> DEFINE open == {i \in DOMAIN blocks : blocks[i].open}
           i == Min(open)
<1>1. /\ phase = "closing" /\ open # {}
      /\ blocks' = [blocks EXCEPT ![i].open = FALSE]
      /\ UNCHANGED <<phase, begun, shown, requests>>
  BY DEF CloseBlock, Consumer
<1>2. i \in open
  BY <1>1, LeastIndex DEF StreamInv, StreamType
<1> HIDE DEF i
<1>3. i \in DOMAIN blocks /\ blocks[i].open
  BY <1>2
<1> QED
  BY <1>1, <1>3, EndsBlock

LEMMA AnthropicMapped ==
    ASSUME StreamInv, AnthropicStart \/ AnthropicMessageDelta \/ AnthropicEof
    PROVE  ChunkStep
<1>1. phase = "reading"
  BY DEF AnthropicStart, AnthropicMessageDelta, AnthropicEof, Receive
<1>2. CASE Fail("protocol")
  BY <1>1, <1>2, FailsChunks
<1>3. CASE AnthropicStart /\ ~Fail("protocol")
  BY <1>1, <1>3, StartsMessage DEF AnthropicStart, Consumer
<1>4. CASE AnthropicMessageDelta /\ ~Fail("protocol")
  BY <1>1, <1>4, Silent, ParserStays DEF AnthropicMessageDelta, Consumer
<1>5. CASE AnthropicEof /\ ~Fail("protocol")
  BY <1>1, <1>5, Silent, ParserStays DEF AnthropicEof, Parser, Consumer
<1> QED
  BY <1>2, <1>3, <1>4, <1>5

LEMMA AnthropicBlockMapped ==
    ASSUME StreamInv, NEW i \in Indexes,
           AnthropicBlockStart(i) \/ AnthropicDelta(i) \/ AnthropicBlockStop(i)
    PROVE  ChunkStep
<1>1. phase = "reading"
  BY DEF AnthropicBlockStart, AnthropicDelta, AnthropicBlockStop, Receive
<1>2. CASE Fail("protocol")
  BY <1>1, <1>2, FailsChunks
<1>3. CASE AnthropicBlockStart(i) /\ ~Fail("protocol")
  <2>1. Grows(i) /\ begun /\ UNCHANGED <<phase, begun, requests>>
    BY <1>3 DEF AnthropicBlockStart, Grows, Block, Consumer
  <2> QED
    BY <1>1, <2>1, StartsBlock
<1>4. CASE AnthropicDelta(i) /\ ~Fail("protocol")
  <2>1. Stays /\ UNCHANGED <<phase, begun, failure, requests>>
    BY <1>4, DeltaStays DEF AnthropicDelta, Consumer
  <2> QED
    BY <1>1, <2>1, Silent
<1>5. CASE AnthropicBlockStop(i) /\ ~Fail("protocol")
  BY <1>1, <1>5, EndsBlock DEF AnthropicBlockStop, Consumer
<1> QED
  BY <1>2, <1>3, <1>4, <1>5

LEMMA EndMapped ==
    ASSUME StreamInv, Finish \/ WireFailure
    PROVE  ChunkStep
<1>1. phase \in {"reading", "closing"}
  BY DEF Finish, WireFailure
<1>2. CASE \E why : why # "none" /\ Fail(why)
  BY <1>1, <1>2, FailsChunks
<1>3. CASE Finish /\ ~Fail("protocol")
  <2>1. /\ begun /\ \A i \in DOMAIN blocks : ~blocks[i].open
        /\ phase = "closing" /\ phase' = "ended" /\ UNCHANGED <<blocks, failure, requests>>
    BY <1>3 DEF Finish, Completion, Parser, Consumer
  <2>2. Stage = "body" /\ Stage' = "ended"
    BY <2>1, StageIs, Requested DEF InStream, AfterStream, StreamInv, PhaseFits
  <2> QED
    BY <2>1, <2>2 DEF ChunkStep, Chunks!Next, Chunks!MessageEnd
<1> QED
  BY <1>2, <1>3 DEF WireFailure, Finish

LEMMA RunMapped ==
    ASSUME StreamInv, Record \/ HandleFailure \/ CancelStream \/ NewRun
    PROVE  ChunkStep
<1>1. Stays
  BY ParserStays DEF Record, HandleFailure, CancelStream, NewRun, Parser
<1>2. CASE Record \/ HandleFailure \/ NewRun
  BY <1>1, <1>2, Silent DEF Record, HandleFailure, NewRun, Parser
<1>3. CASE CancelStream /\ phase = "ended"
  BY <1>1, <1>3, Silent DEF CancelStream, Parser, Consumer, StreamInv, PhaseFits
<1>4. CASE CancelStream /\ phase # "ended"
  <2>1. /\ phase \in {"reading", "closing"} /\ phase' = "over" /\ failure' = "cancelled"
        /\ UNCHANGED <<blocks, requests>> /\ requests # 0
    BY <1>4, Requested DEF CancelStream, Parser, Consumer
  <2>2. Stage \in {"idle", "body"} /\ Stage' = "failed"
    BY <2>1, StageIs DEF InStream, AfterStream
  <2> QED
    BY <2>1, <2>2 DEF ChunkStep, Chunks!Next, Chunks!Fail
<1> QED
  BY <1>2, <1>3, <1>4

LEMMA ChunksStart == StreamInit => Chunks!Init
BY EmptyIsEmpty DEF StreamInit, Chunks!Init, Stage

LEMMA ChunksStep == StreamInv /\ [StreamNext]_streamVars => ChunkStep
<1> SUFFICES ASSUME StreamInv, [StreamNext]_streamVars PROVE ChunkStep
  OBVIOUS
<1>1. CASE StreamNext
  BY <1>1, StartMapped, OpenAIMapped, ClosingMapped, AnthropicMapped, AnthropicBlockMapped,
     EndMapped, RunMapped DEF StreamNext
<1>2. CASE UNCHANGED streamVars
  BY <1>2 DEF streamVars, ChunkStep, Chunks!vars, Stage
<1> QED
  BY <1>1, <1>2

\* Each of the adapters refines ChunkStream: whatever the server sends, what it
\* yields begins a message once, opens, fills and closes blocks in order and ends
\* with the message or a failure (Provider.stream).
THEOREM ImplementsChunksCorrect == StreamSpec => ImplementsChunks
<1> QED
  BY ChunksStart, ChunksStep, StreamInvariance, PTL
     DEF StreamSpec, ImplementsChunks, Chunks!Spec, ChunkStep
-----------------------------------------------------------------------------
(* Turns.                                                                  *)

TurnEvents == [turn : Turns, kind : EventKinds, seq : Nat] \cup {Done}

TurnsType ==
    /\ pump \in Turns \cup {0}
    /\ stream \in [Turns -> {"new", "open", "finished", "closed", "left", "finalized"}]
    /\ driver \in [Turns -> {"none", "running", "cancelled", "returned", "raised"}]
    /\ queue \in [Turns -> Seq(TurnEvents)]
    /\ emitted \in [Turns -> Seq(TurnEvents)]
    /\ given \in [Turns -> Seq(TurnEvents)]

Busy(t) == stream[t] \in {"open", "finished"}
NoneFinalized == \A t \in Turns : stream[t] # "finalized"

\* A turn that has not started has nothing, and is not attached.
NewIsEmpty ==
    \A t \in Turns : stream[t] = "new" =>
        driver[t] = "none" /\ queue[t] = <<>> /\ emitted[t] = <<>> /\ given[t] = <<>> /\ pump # t

\* A turn starts when the ones before are done with.
InOrderOfTurns ==
    \A t, u \in Turns : u < t /\ stream[t] # "new" => stream[u] \in {"closed", "left", "finalized"}

\* The events of a run are numbered.
EventsNumbered ==
    \A t \in Turns : \A k \in DOMAIN emitted[t] : emitted[t][k].turn = t /\ emitted[t][k].seq = k

\* The own events of turn t in its queue q, after those it has given, g: all that its run
\* has emitted, e, in order, and the end after them.
TurnWhole(t, e, g, q) ==
    /\ \A k \in DOMAIN e : Mapped(e[k]) => \/ \E i \in DOMAIN g : g[i] = e[k]
                                           \/ \E i \in DOMAIN q : q[i] = e[k]
    /\ \A i \in DOMAIN g : g[i].turn = t => Mapped(g[i]) /\ \E k \in DOMAIN e : g[i] = e[k]
    /\ \A i \in DOMAIN q : q[i].turn = t => \E k \in DOMAIN e : q[i] = e[k]
    /\ \A i, j \in DOMAIN g : i < j /\ g[i].turn = t /\ g[j].turn = t => g[i].seq < g[j].seq
    /\ \A i, j \in DOMAIN q : i < j /\ q[i].turn = t /\ q[j].turn = t => q[i].seq < q[j].seq
    /\ \A i \in DOMAIN g, j \in DOMAIN q : g[i].turn = t /\ q[j].turn = t => g[i].seq < q[j].seq
    /\ \A i, j \in DOMAIN q : i < j /\ q[i] = Done => q[j].turn # t

\* The turn under way hears its own run, and gets its end last.
Heard ==
    NoneFinalized =>
        \A t \in Turns : Busy(t) =>
            /\ pump = t /\ TurnWhole(t, emitted[t], given[t], queue[t])
            /\ driver[t] \in {"running", "cancelled"} => \A i \in DOMAIN queue[t] : queue[t][i] # Done
            /\ stream[t] = "finished" => /\ queue[t] # <<>> /\ Head(queue[t]) = Done
                                         /\ driver[t] = "returned"

TurnsInv == TurnsType /\ NewIsEmpty /\ InOrderOfTurns /\ EventsNumbered /\ Heard

-----------------------------------------------------------------------------
USE TurnsAssumption

\* A queue or a list of events grows at its end.
LEMMA AppendIndexes ==
    ASSUME NEW S, NEW q \in Seq(S), NEW x \in S
    PROVE  /\ Append(q, x) \in Seq(S)
           /\ Len(q) \in Nat /\ DOMAIN q = 1 .. Len(q)
           /\ DOMAIN Append(q, x) = 1 .. Len(q) + 1
           /\ \A i \in 1 .. Len(q) : Append(q, x)[i] = q[i]
           /\ Append(q, x)[Len(q) + 1] = x
           /\ q # <<>> => Append(q, x) # <<>> /\ Head(Append(q, x)) = Head(q)
  OBVIOUS

\* An event of another turn, or an end, comes to the queue.
LEMMA WholeOther ==
    ASSUME NEW t \in Turns, NEW e \in Seq(TurnEvents), NEW g \in Seq(TurnEvents),
           NEW q \in Seq(TurnEvents), TurnWhole(t, e, g, q),
           NEW x \in TurnEvents, x.turn # t
    PROVE  TurnWhole(t, e, g, Append(q, x))
<1> DEFINE r == Append(q, x)
<1>1. /\ Len(q) \in Nat /\ DOMAIN q = 1 .. Len(q) /\ DOMAIN r = 1 .. Len(q) + 1
      /\ \A i \in 1 .. Len(q) : r[i] = q[i]
      /\ r[Len(q) + 1] = x
  BY AppendIndexes
<1> HIDE DEF r
<1>2. /\ DOMAIN q \subseteq DOMAIN r
      /\ \A i \in DOMAIN r : r[i].turn = t => i \in DOMAIN q /\ r[i] = q[i]
      /\ \A i \in DOMAIN r, j \in DOMAIN r : i < j => i \in DOMAIN q /\ r[i] = q[i]
      /\ \A i \in DOMAIN q : r[i] = q[i]
  BY <1>1
<1>3. TurnWhole(t, e, g, r)
  BY <1>2 DEF TurnWhole
<1> QED
  BY <1>3 DEF r

\* The run emits an event into its own queue, before its end.
LEMMA WholeEmit ==
    ASSUME NEW t \in Turns, NEW e \in Seq(TurnEvents), NEW g \in Seq(TurnEvents),
           NEW q \in Seq(TurnEvents), TurnWhole(t, e, g, q),
           \A k \in DOMAIN e : e[k].seq = k,
           \A i \in DOMAIN q : q[i] # Done,
           NEW x \in TurnEvents, x.turn = t, x.seq = Len(e) + 1
    PROVE  TurnWhole(t, Append(e, x), g, Append(q, x))
<1> DEFINE r == Append(q, x)
           d == Append(e, x)
<1>1. /\ Len(q) \in Nat /\ DOMAIN q = 1 .. Len(q) /\ DOMAIN r = 1 .. Len(q) + 1
      /\ \A i \in 1 .. Len(q) : r[i] = q[i]
      /\ r[Len(q) + 1] = x
  BY AppendIndexes
<1>2. /\ Len(e) \in Nat /\ DOMAIN e = 1 .. Len(e) /\ DOMAIN d = 1 .. Len(e) + 1
      /\ \A i \in 1 .. Len(e) : d[i] = e[i]
      /\ d[Len(e) + 1] = x
  BY AppendIndexes
<1> HIDE DEF r, d
<1>3. /\ \A i \in DOMAIN g : g[i].turn = t => g[i].seq < x.seq
      /\ \A i \in DOMAIN q : q[i].turn = t => q[i].seq < x.seq
  BY <1>2 DEF TurnWhole
<1>4. \A k \in DOMAIN d : Mapped(d[k]) => \/ \E i \in DOMAIN g : g[i] = d[k]
                                          \/ \E i \in DOMAIN r : r[i] = d[k]
  <2> TAKE k \in DOMAIN d
  <2>1. CASE k \in DOMAIN e
    <3>1. d[k] = e[k] /\ \A i \in DOMAIN q : i \in DOMAIN r /\ r[i] = q[i]
      BY <1>1, <1>2, <2>1
    <3> QED
      BY <2>1, <3>1 DEF TurnWhole
  <2>2. CASE k = Len(e) + 1
    <3>1. d[k] = x
      BY <1>2, <2>2
    <3>2. Len(q) + 1 \in DOMAIN r /\ r[Len(q) + 1] = x
      BY <1>1
    <3> QED
      BY <3>1, <3>2
  <2> QED
    BY <1>2, <2>1, <2>2
<1>5. \A i \in DOMAIN g : g[i].turn = t => Mapped(g[i]) /\ \E k \in DOMAIN d : g[i] = d[k]
  BY <1>2 DEF TurnWhole
<1>6. \A i \in DOMAIN r : r[i].turn = t => \E k \in DOMAIN d : r[i] = d[k]
  <2> TAKE i \in DOMAIN r
  <2>1. CASE i \in DOMAIN q
    BY <1>1, <1>2, <2>1 DEF TurnWhole
  <2>2. CASE i = Len(q) + 1
    <3>1. r[i] = x
      BY <1>1, <2>2
    <3>2. Len(e) + 1 \in DOMAIN d /\ d[Len(e) + 1] = x
      BY <1>2
    <3> QED
      BY <3>1, <3>2
  <2> QED
    BY <1>1, <2>1, <2>2
<1>7. \A i, j \in DOMAIN r : i < j /\ r[i].turn = t /\ r[j].turn = t => r[i].seq < r[j].seq
  <2> SUFFICES ASSUME NEW i \in DOMAIN r, NEW j \in DOMAIN r, i < j, r[i].turn = t, r[j].turn = t
               PROVE  r[i].seq < r[j].seq
    OBVIOUS
  <2>1. i \in DOMAIN q /\ r[i] = q[i]
    BY <1>1
  <2>2. CASE j \in DOMAIN q
    <3>1. r[j] = q[j]
      BY <1>1, <2>2
    <3> QED
      BY <2>1, <2>2, <3>1 DEF TurnWhole
  <2>3. CASE j = Len(q) + 1
    BY <1>1, <1>3, <2>1, <2>3
  <2> QED
    BY <1>1, <2>2, <2>3
<1>8. \A i \in DOMAIN g, j \in DOMAIN r : g[i].turn = t /\ r[j].turn = t => g[i].seq < r[j].seq
  <2> TAKE i \in DOMAIN g, j \in DOMAIN r
  <2>1. CASE j \in DOMAIN q
    <3>1. r[j] = q[j]
      BY <1>1, <2>1
    <3> QED
      BY <2>1, <3>1 DEF TurnWhole
  <2>2. CASE j = Len(q) + 1
    BY <1>1, <1>3, <2>2
  <2> QED
    BY <1>1, <2>1, <2>2
<1>9. \A i, j \in DOMAIN r : i < j /\ r[i] = Done => r[j].turn # t
  BY <1>1
<1>10. \A i, j \in DOMAIN g : i < j /\ g[i].turn = t /\ g[j].turn = t => g[i].seq < g[j].seq
  BY DEF TurnWhole
<1>11. TurnWhole(t, d, g, r)
  BY <1>4, <1>5, <1>6, <1>7, <1>8, <1>9, <1>10 DEF TurnWhole
<1> QED
  BY <1>11 DEF d, r

\* The consumer takes the first event, and is given it if it is mapped.
LEMMA WholeTake ==
    ASSUME NEW t \in Turns, NEW e \in Seq(TurnEvents), NEW g \in Seq(TurnEvents),
           NEW q \in Seq(TurnEvents), TurnWhole(t, e, g, q), q # <<>>
    PROVE  /\ ~Mapped(Head(q)) => TurnWhole(t, e, g, Tail(q))
           /\ Mapped(Head(q)) => TurnWhole(t, e, Append(g, Head(q)), Tail(q))
<1> DEFINE x == Head(q)
           r == Tail(q)
           h == Append(g, x)
<1>1. /\ Len(q) \in Nat /\ Len(q) > 0 /\ DOMAIN q = 1 .. Len(q) /\ DOMAIN r = 1 .. Len(q) - 1
      /\ x = q[1] /\ x \in TurnEvents /\ \A i \in 1 .. Len(q) - 1 : r[i] = q[i + 1]
  OBVIOUS
<1> HIDE DEF x, r
<1>2. /\ Len(g) \in Nat /\ DOMAIN g = 1 .. Len(g) /\ DOMAIN h = 1 .. Len(g) + 1
      /\ \A i \in 1 .. Len(g) : h[i] = g[i]
      /\ h[Len(g) + 1] = x
  BY <1>1, AppendIndexes
<1> HIDE DEF h
<1>3. \A i \in DOMAIN r : i + 1 \in DOMAIN q /\ r[i] = q[i + 1] /\ 1 < i + 1
                          /\ \A j \in DOMAIN r : i < j => i + 1 < j + 1
  BY <1>1
<1>4. 1 \in DOMAIN q /\ \A i \in DOMAIN q : i = 1 \/ \E j \in DOMAIN r : i = j + 1
  <2> SUFFICES ASSUME NEW i \in DOMAIN q, i # 1 PROVE i - 1 \in DOMAIN r /\ i = (i - 1) + 1
    BY <1>1
  <2> QED
    BY <1>1
<1>5. \A i \in DOMAIN q : q[i] = x \/ \E j \in DOMAIN r : r[j] = q[i]
  BY <1>1, <1>3, <1>4
<1>6. /\ \A i \in DOMAIN r : r[i].turn = t => \E k \in DOMAIN e : r[i] = e[k]
      /\ \A i, j \in DOMAIN r : i < j /\ r[i].turn = t /\ r[j].turn = t => r[i].seq < r[j].seq
      /\ \A i \in DOMAIN g, j \in DOMAIN r : g[i].turn = t /\ r[j].turn = t => g[i].seq < r[j].seq
      /\ \A i, j \in DOMAIN r : i < j /\ r[i] = Done => r[j].turn # t
      /\ \A j \in DOMAIN r : x.turn = t /\ r[j].turn = t => x.seq < r[j].seq
      /\ x.turn = t => \E k \in DOMAIN e : x = e[k]
      /\ \A i \in DOMAIN g : g[i].turn = t /\ x.turn = t => g[i].seq < x.seq
  <2>1. \A i \in DOMAIN r : r[i].turn = t => \E k \in DOMAIN e : r[i] = e[k]
    BY <1>3 DEF TurnWhole
  <2>2. \A i, j \in DOMAIN r : i < j /\ r[i].turn = t /\ r[j].turn = t => r[i].seq < r[j].seq
    BY <1>3 DEF TurnWhole
  <2>3. \A i \in DOMAIN g, j \in DOMAIN r : g[i].turn = t /\ r[j].turn = t => g[i].seq < r[j].seq
    BY <1>3 DEF TurnWhole
  <2>4. \A i, j \in DOMAIN r : i < j /\ r[i] = Done => r[j].turn # t
    BY <1>3 DEF TurnWhole
  <2>5. \A j \in DOMAIN r : x.turn = t /\ r[j].turn = t => x.seq < r[j].seq
    <3>1. \A i, j \in DOMAIN q : i < j /\ q[i].turn = t /\ q[j].turn = t => q[i].seq < q[j].seq
      BY DEF TurnWhole
    <3>2. 1 \in DOMAIN q /\ q[1] = x
      BY <1>1
    <3> QED
      BY <1>3, <3>1, <3>2
  <2>6. /\ x.turn = t => \E k \in DOMAIN e : x = e[k]
        /\ \A i \in DOMAIN g : g[i].turn = t /\ x.turn = t => g[i].seq < x.seq
    BY <1>1, <1>4 DEF TurnWhole
  <2> QED
    BY <2>1, <2>2, <2>3, <2>4, <2>5, <2>6
<1>7. /\ \A k \in DOMAIN e : Mapped(e[k]) => \/ \E i \in DOMAIN g : g[i] = e[k]
                                             \/ e[k] = x
                                             \/ \E i \in DOMAIN r : r[i] = e[k]
      /\ \A i \in DOMAIN g : g[i].turn = t => Mapped(g[i]) /\ \E k \in DOMAIN e : g[i] = e[k]
      /\ \A i, j \in DOMAIN g : i < j /\ g[i].turn = t /\ g[j].turn = t => g[i].seq < g[j].seq
  <2>1. \A k \in DOMAIN e : Mapped(e[k]) => \/ \E i \in DOMAIN g : g[i] = e[k]
                                            \/ \E i \in DOMAIN q : q[i] = e[k]
    BY DEF TurnWhole
  <2>2. /\ \A i \in DOMAIN g : g[i].turn = t => Mapped(g[i]) /\ \E k \in DOMAIN e : g[i] = e[k]
        /\ \A i, j \in DOMAIN g : i < j /\ g[i].turn = t /\ g[j].turn = t => g[i].seq < g[j].seq
    BY DEF TurnWhole
  <2> QED
    BY <1>5, <2>1, <2>2
<1>8. ASSUME ~Mapped(x) PROVE TurnWhole(t, e, g, r)
  <2>1. \A k \in DOMAIN e : Mapped(e[k]) => \/ \E i \in DOMAIN g : g[i] = e[k]
                                            \/ \E i \in DOMAIN r : r[i] = e[k]
    BY <1>7, <1>8
  <2> QED
    BY <1>6, <1>7, <2>1 DEF TurnWhole
<1>9. ASSUME Mapped(x) PROVE TurnWhole(t, e, h, r)
  <2>1. \A k \in DOMAIN e : Mapped(e[k]) => \/ \E i \in DOMAIN h : h[i] = e[k]
                                            \/ \E i \in DOMAIN r : r[i] = e[k]
    <3>1. Len(g) + 1 \in DOMAIN h /\ \A i \in DOMAIN g : i \in DOMAIN h /\ h[i] = g[i]
      BY <1>2
    <3> QED
      BY <1>2, <1>7, <3>1
  <2>2. \A i \in DOMAIN h : \/ i \in DOMAIN g /\ h[i] = g[i]
                            \/ i = Len(g) + 1 /\ h[i] = x
    <3> TAKE i \in DOMAIN h
    <3>1. i \in 1 .. Len(g) \/ i = Len(g) + 1
      <4>1. i \in 1 .. Len(g) + 1 /\ Len(g) \in Nat
        BY <1>2
      <4> QED
        BY <4>1
    <3>2. CASE i \in 1 .. Len(g)
      <4>1. i \in DOMAIN g
        BY <1>2, <3>2
      <4>2. h[i] = g[i]
        BY <1>2, <3>2
      <4> QED
        BY <4>1, <4>2
    <3>3. CASE i = Len(g) + 1
      BY <1>2, <3>3
    <3> QED
      BY <3>1, <3>2, <3>3
  <2>3. \A i \in DOMAIN h : h[i].turn = t => Mapped(h[i]) /\ \E k \in DOMAIN e : h[i] = e[k]
    BY <1>6, <1>7, <1>9, <2>2
  <2>4. \A i, j \in DOMAIN h : i < j /\ h[i].turn = t /\ h[j].turn = t => h[i].seq < h[j].seq
    <3> SUFFICES ASSUME NEW i \in DOMAIN h, NEW j \in DOMAIN h, i < j, h[i].turn = t, h[j].turn = t
                 PROVE  h[i].seq < h[j].seq
      OBVIOUS
    <3>1. i \in DOMAIN g /\ h[i] = g[i]
      BY <1>2
    <3> QED
      BY <1>6, <1>7, <2>2, <3>1
  <2>5. \A i \in DOMAIN h, j \in DOMAIN r : h[i].turn = t /\ r[j].turn = t => h[i].seq < r[j].seq
    BY <1>6, <2>2
  <2> QED
    BY <1>6, <2>1, <2>3, <2>4, <2>5 DEF TurnWhole
<1> QED
  BY <1>8, <1>9 DEF x, r, h

\* A session starts with no turn.
LEMMA TurnsInitially == TurnsInit => TurnsInv
<1> SUFFICES ASSUME TurnsInit PROVE TurnsInv
  OBVIOUS
<1>1. TurnsType /\ NewIsEmpty /\ EventsNumbered
  BY DEF TurnsInit, TurnsType, NewIsEmpty, EventsNumbered
<1>2. InOrderOfTurns /\ Heard
  BY DEF TurnsInit, InOrderOfTurns, Heard, Busy
<1> QED
  BY <1>1, <1>2 DEF TurnsInv

\* At most one turn is under way.
LEMMA OneBusy ==
    ASSUME TurnsInv, NEW t \in Turns, NEW u \in Turns, Busy(t), Busy(u)
    PROVE  t = u
<1>1. t \in Nat /\ u \in Nat
  OBVIOUS
<1>2. ~(t < u) /\ ~(u < t)
  BY DEF TurnsInv, InOrderOfTurns, Busy
<1> QED
  BY <1>1, <1>2

\* The events of a turn, and the end.
LEMMA EventTypes ==
    /\ Done \in TurnEvents /\ \A t \in Turns : Done.turn # t
    /\ \A t \in Turns, kind \in EventKinds, n \in Nat :
          LET x == [turn |-> t, kind |-> kind, seq |-> n] IN
          x \in TurnEvents /\ x.turn = t /\ x.seq = n /\ x # Done
  BY DEF TurnEvents, Done

\* What is attached and given, through each action: a turn starts with nothing.
LEMMA StartTurnKeeps ==
    ASSUME TurnsInv, NEW t \in Turns, StartTurn(t)
    PROVE  TurnsInv'
<1>1. /\ stream[t] = "new" /\ stream' = [stream EXCEPT ![t] = "open"] /\ pump' = t
      /\ driver' = [driver EXCEPT ![t] = "running"] /\ UNCHANGED <<queue, emitted, given>>
      /\ \A u \in Turns : u < t => stream[u] \in {"closed", "left", "finalized"}
  BY DEF StartTurn
<1>2. TurnsType
  BY DEF TurnsInv
<1>3. TurnsType'
  BY <1>1, <1>2 DEF TurnsType
<1>4. /\ stream'[t] = "open" /\ \A u \in Turns \ {t} : stream'[u] = stream[u] /\ driver'[u] = driver[u]
      /\ driver'[t] = "running"
  BY <1>1, <1>2 DEF TurnsType
<1>5. NewIsEmpty'
  BY <1>1, <1>4 DEF TurnsInv, NewIsEmpty
<1>6. InOrderOfTurns'
  <2> SUFFICES ASSUME NEW v \in Turns, NEW u \in Turns, u < v, stream'[v] # "new"
               PROVE  stream'[u] \in {"closed", "left", "finalized"}
    BY DEF InOrderOfTurns
  <2>1. u # v
    OBVIOUS
  <2>2. CASE v = t
    BY <1>1, <1>4, <2>1, <2>2
  <2>3. CASE v # t
    <3>1. stream[u] \in {"closed", "left", "finalized"}
      BY <1>4, <2>3 DEF TurnsInv, InOrderOfTurns
    <3> QED
      BY <1>1, <1>4, <3>1
  <2> QED
    BY <2>2, <2>3
<1>7. EventsNumbered'
  BY <1>1 DEF TurnsInv, EventsNumbered
<1>8. Heard'
  <2> SUFFICES ASSUME NEW u \in Turns, stream'[u] \in {"open", "finished"}
               PROVE  /\ pump' = u /\ TurnWhole(u, emitted'[u], given'[u], queue'[u])
                      /\ \A i \in DOMAIN queue'[u] : queue'[u][i] # Done
                      /\ stream'[u] # "finished"
    BY DEF Heard, Busy
  <2>1. u = t
    <3> SUFFICES ASSUME u # t PROVE FALSE
      OBVIOUS
    <3>1. Busy(u)
      BY <1>4 DEF Busy
    <3>2. u < t => FALSE
      BY <1>1, <3>1 DEF Busy
    <3>3. t < u => FALSE
      BY <1>1, <3>1 DEF Busy, TurnsInv, InOrderOfTurns
    <3> QED
      BY <3>2, <3>3
  <2>2. queue'[t] = <<>> /\ emitted'[t] = <<>> /\ given'[t] = <<>>
    BY <1>1 DEF TurnsInv, NewIsEmpty
  <2>3. TurnWhole(t, <<>>, <<>>, <<>>)
    BY DEF TurnWhole
  <2> QED
    BY <1>1, <1>4, <2>1, <2>2, <2>3
<1> QED
  BY <1>3, <1>5, <1>6, <1>7, <1>8 DEF TurnsInv

\* An event goes to the turn that is attached, whose run it need not be.
LEMMA EmitEventKeeps ==
    ASSUME TurnsInv, NEW t \in Turns, NEW kind \in EventKinds, EmitEvent(t, kind)
    PROVE  TurnsInv'
<1> DEFINE x == [turn |-> t, kind |-> kind, seq |-> Len(emitted[t]) + 1]
<1>1. /\ driver[t] \in {"running", "cancelled"}
      /\ emitted' = [emitted EXCEPT ![t] = Append(emitted[t], x)]
      /\ queue' = IF pump = 0 THEN queue ELSE [queue EXCEPT ![pump] = Append(queue[pump], x)]
      /\ UNCHANGED <<pump, stream, driver, given>>
  BY DEF EmitEvent
<1>2. /\ TurnsType /\ pump \in Turns \cup {0} /\ emitted[t] \in Seq(TurnEvents)
      /\ \A u \in Turns : queue[u] \in Seq(TurnEvents) /\ emitted[u] \in Seq(TurnEvents)
                          /\ given[u] \in Seq(TurnEvents)
  BY DEF TurnsInv, TurnsType
<1>3. x \in TurnEvents /\ x.turn = t /\ x.seq = Len(emitted[t]) + 1
  BY <1>2, EventTypes
<1> HIDE DEF x
<1>4. TurnsType'
  <2>1. Append(emitted[t], x) \in Seq(TurnEvents)
    BY <1>2, <1>3
  <2>2. pump # 0 => Append(queue[pump], x) \in Seq(TurnEvents)
    BY <1>2, <1>3
  <2>3. emitted' \in [Turns -> Seq(TurnEvents)]
    BY <1>1, <1>2, <2>1 DEF TurnsType
  <2>4. queue' \in [Turns -> Seq(TurnEvents)]
    BY <1>1, <1>2, <2>2 DEF TurnsType
  <2> QED
    BY <1>1, <1>2, <2>3, <2>4 DEF TurnsType
<1>5. /\ emitted'[t] = Append(emitted[t], x)
      /\ \A u \in Turns \ {t} : emitted'[u] = emitted[u]
      /\ \A u \in Turns : queue'[u] = IF u = pump THEN Append(queue[u], x) ELSE queue[u]
  BY <1>1, <1>2 DEF TurnsType
<1>6. NewIsEmpty'
  <2> SUFFICES ASSUME NEW u \in Turns, stream[u] = "new"
               PROVE  driver[u] = "none" /\ queue'[u] = <<>> /\ emitted'[u] = <<>>
                      /\ given[u] = <<>> /\ pump # u
    BY <1>1 DEF NewIsEmpty
  <2> QED
    BY <1>1, <1>5 DEF TurnsInv, NewIsEmpty
<1>7. InOrderOfTurns'
  BY <1>1 DEF TurnsInv, InOrderOfTurns
<1>8. EventsNumbered'
  <2> SUFFICES ASSUME NEW u \in Turns, NEW k \in DOMAIN emitted'[u]
               PROVE  emitted'[u][k].turn = u /\ emitted'[u][k].seq = k
    BY DEF EventsNumbered
  <2>1. CASE u # t
    BY <1>5, <2>1 DEF TurnsInv, EventsNumbered
  <2>2. CASE u = t
    <3>1. /\ Len(emitted[t]) \in Nat /\ DOMAIN emitted[t] = 1 .. Len(emitted[t])
          /\ DOMAIN emitted'[t] = 1 .. Len(emitted[t]) + 1
          /\ \A i \in 1 .. Len(emitted[t]) : emitted'[t][i] = emitted[t][i]
          /\ emitted'[t][Len(emitted[t]) + 1] = x
      BY <1>2, <1>3, <1>5, AppendIndexes
    <3>2. CASE k \in DOMAIN emitted[t]
      <4>1. emitted[t][k].turn = t /\ emitted[t][k].seq = k
        BY <3>2 DEF TurnsInv, EventsNumbered
      <4> QED
        BY <2>2, <3>1, <3>2, <4>1
    <3>3. CASE k = Len(emitted[t]) + 1
      BY <1>3, <2>2, <3>1, <3>3
    <3> QED
      BY <2>2, <3>1, <3>2, <3>3
  <2> QED
    BY <2>1, <2>2
<1>9. Heard'
  <2> SUFFICES ASSUME NoneFinalized, NEW u \in Turns, Busy(u)
               PROVE  /\ pump = u /\ TurnWhole(u, emitted'[u], given[u], queue'[u])
                      /\ driver[u] \in {"running", "cancelled"} =>
                             \A i \in DOMAIN queue'[u] : queue'[u][i] # Done
                      /\ stream[u] = "finished" => /\ queue'[u] # <<>> /\ Head(queue'[u]) = Done
                                                   /\ driver[u] = "returned"
    BY <1>1 DEF Heard, Busy, NoneFinalized
  <2>1. /\ pump = u /\ TurnWhole(u, emitted[u], given[u], queue[u])
        /\ driver[u] \in {"running", "cancelled"} => \A i \in DOMAIN queue[u] : queue[u][i] # Done
        /\ stream[u] = "finished" => /\ queue[u] # <<>> /\ Head(queue[u]) = Done
                                     /\ driver[u] = "returned"
    BY DEF TurnsInv, Heard
  <2>2. queue'[u] = Append(queue[u], x) /\ queue[u] \in Seq(TurnEvents)
    BY <1>2, <1>5, <2>1
  <2>3. x # Done
    BY <1>3, EventTypes
  <2>4. TurnWhole(u, emitted'[u], given[u], queue'[u])
    <3>1. CASE u # t
      BY <1>2, <1>3, <1>5, <2>1, <2>2, <3>1, WholeOther
    <3>2. CASE u = t
      <4>1. /\ \A i \in DOMAIN queue[u] : queue[u][i] # Done
            /\ \A k \in DOMAIN emitted[u] : emitted[u][k].seq = k
        BY <1>1, <2>1, <3>2 DEF TurnsInv, EventsNumbered
      <4>2. TurnWhole(u, Append(emitted[u], x), given[u], Append(queue[u], x))
        BY <1>2, <1>3, <2>1, <3>2, <4>1, WholeEmit
      <4> QED
        BY <1>5, <2>2, <3>2, <4>2
    <3> QED
      BY <3>1, <3>2
  <2>5. /\ Len(queue[u]) \in Nat /\ DOMAIN queue[u] = 1 .. Len(queue[u])
        /\ DOMAIN queue'[u] = 1 .. Len(queue[u]) + 1
        /\ \A i \in 1 .. Len(queue[u]) : queue'[u][i] = queue[u][i]
        /\ queue'[u][Len(queue[u]) + 1] = x
    BY <1>3, <2>2, AppendIndexes
  <2>6. \A i \in DOMAIN queue'[u] : i \in DOMAIN queue[u] \/ i = Len(queue[u]) + 1
    BY <2>5
  <2>7. driver[u] \in {"running", "cancelled"} => \A i \in DOMAIN queue'[u] : queue'[u][i] # Done
    BY <2>1, <2>3, <2>5, <2>6
  <2>8. queue[u] # <<>> => queue'[u] # <<>> /\ Head(queue'[u]) = Head(queue[u])
    BY <1>3, <2>2, AppendIndexes
  <2> QED
    BY <2>1, <2>4, <2>7, <2>8
<1> QED
  BY <1>4, <1>6, <1>7, <1>8, <1>9 DEF TurnsInv

\* The end of a run goes to the queue of its own turn.
LEMMA EndTurnKeeps ==
    ASSUME TurnsInv, NEW t \in Turns, NEW outcome \in {"returned", "raised"}, EndTurn(t, outcome)
    PROVE  TurnsInv'
<1>1. /\ driver[t] \in {"running", "cancelled"} /\ driver' = [driver EXCEPT ![t] = outcome]
      /\ queue' = [queue EXCEPT ![t] = Append(queue[t], Done)]
      /\ UNCHANGED <<pump, stream, emitted, given>>
  BY DEF EndTurn
<1>2. /\ TurnsType
      /\ \A u \in Turns : queue[u] \in Seq(TurnEvents) /\ emitted[u] \in Seq(TurnEvents)
                          /\ given[u] \in Seq(TurnEvents)
  BY DEF TurnsInv, TurnsType
<1>3. Done \in TurnEvents /\ Done.turn # t
  BY EventTypes
<1>4. TurnsType'
  <2>1. Append(queue[t], Done) \in Seq(TurnEvents)
    BY <1>2, <1>3
  <2> QED
    BY <1>1, <1>2, <2>1 DEF TurnsType
<1>5. /\ queue'[t] = Append(queue[t], Done) /\ driver'[t] = outcome
      /\ \A u \in Turns \ {t} : queue'[u] = queue[u] /\ driver'[u] = driver[u]
  BY <1>1, <1>2 DEF TurnsType
<1>6. NewIsEmpty'
  BY <1>1, <1>5 DEF TurnsInv, NewIsEmpty
<1>7. InOrderOfTurns' /\ EventsNumbered'
  BY <1>1 DEF TurnsInv, InOrderOfTurns, EventsNumbered
<1>8. Heard'
  <2> SUFFICES ASSUME NoneFinalized, NEW u \in Turns, Busy(u)
               PROVE  /\ pump = u /\ TurnWhole(u, emitted[u], given[u], queue'[u])
                      /\ driver'[u] \in {"running", "cancelled"} =>
                             \A i \in DOMAIN queue'[u] : queue'[u][i] # Done
                      /\ stream[u] = "finished" => /\ queue'[u] # <<>> /\ Head(queue'[u]) = Done
                                                   /\ driver'[u] = "returned"
    BY <1>1 DEF Heard, Busy, NoneFinalized
  <2>1. /\ pump = u /\ TurnWhole(u, emitted[u], given[u], queue[u])
        /\ driver[u] \in {"running", "cancelled"} => \A i \in DOMAIN queue[u] : queue[u][i] # Done
        /\ stream[u] = "finished" => /\ queue[u] # <<>> /\ Head(queue[u]) = Done
                                     /\ driver[u] = "returned"
    BY DEF TurnsInv, Heard
  <2>2. CASE u # t
    BY <1>5, <2>1, <2>2
  <2>3. CASE u = t
    <3>1. TurnWhole(u, emitted[u], given[u], Append(queue[u], Done))
      BY <1>2, <1>3, <2>1, <2>3, WholeOther
    <3>2. stream[u] # "finished" /\ driver'[u] \notin {"running", "cancelled"}
      BY <1>1, <1>5, <2>1, <2>3
    <3> QED
      BY <1>5, <2>1, <2>3, <3>1, <3>2
  <2> QED
    BY <2>2, <2>3
<1> QED
  BY <1>4, <1>6, <1>7, <1>8 DEF TurnsInv

\* The consumer takes an event.
LEMMA TakeEventKeeps ==
    ASSUME TurnsInv, NEW t \in Turns, TakeEvent(t)
    PROVE  TurnsInv'
<1> DEFINE g == IF Mapped(Head(queue[t])) THEN Append(given[t], Head(queue[t])) ELSE given[t]
<1>1. /\ stream[t] = "open" /\ queue[t] # <<>> /\ Head(queue[t]) # Done
      /\ given' = [given EXCEPT ![t] = g] /\ queue' = [queue EXCEPT ![t] = Tail(queue[t])]
      /\ UNCHANGED <<pump, stream, driver, emitted>>
  BY DEF TakeEvent
<1>2. /\ TurnsType
      /\ \A u \in Turns : queue[u] \in Seq(TurnEvents) /\ emitted[u] \in Seq(TurnEvents)
                          /\ given[u] \in Seq(TurnEvents)
  BY DEF TurnsInv, TurnsType
<1>3. g \in Seq(TurnEvents) /\ Tail(queue[t]) \in Seq(TurnEvents)
  <2>1. Head(queue[t]) \in TurnEvents
    BY <1>1, <1>2
  <2> QED
    BY <1>1, <1>2, <2>1
<1>4. /\ queue'[t] = Tail(queue[t]) /\ given'[t] = g
      /\ \A u \in Turns \ {t} : queue'[u] = queue[u] /\ given'[u] = given[u]
  BY <1>1, <1>2 DEF TurnsType
<1>5. TurnWhole(t, emitted[t], given[t], queue[t]) => TurnWhole(t, emitted[t], g, Tail(queue[t]))
  BY <1>1, <1>2, WholeTake
<1> HIDE DEF g
<1>6. TurnsType'
  BY <1>1, <1>2, <1>3 DEF TurnsType
<1>7. NewIsEmpty'
  BY <1>1, <1>4 DEF TurnsInv, NewIsEmpty
<1>8. InOrderOfTurns' /\ EventsNumbered'
  BY <1>1 DEF TurnsInv, InOrderOfTurns, EventsNumbered
<1>9. Heard'
  <2> SUFFICES ASSUME NoneFinalized, NEW u \in Turns, Busy(u)
               PROVE  /\ pump = u /\ TurnWhole(u, emitted[u], given'[u], queue'[u])
                      /\ driver[u] \in {"running", "cancelled"} =>
                             \A i \in DOMAIN queue'[u] : queue'[u][i] # Done
                      /\ stream[u] # "finished"
    BY <1>1 DEF Heard, Busy, NoneFinalized
  <2>1. u = t
    BY <1>1, OneBusy DEF Busy
  <2>2. /\ pump = t /\ TurnWhole(t, emitted[t], given[t], queue[t])
        /\ driver[t] \in {"running", "cancelled"} => \A i \in DOMAIN queue[t] : queue[t][i] # Done
    BY <2>1 DEF TurnsInv, Heard
  <2>3. \A i \in DOMAIN Tail(queue[t]) : i + 1 \in DOMAIN queue[t] /\ Tail(queue[t])[i] = queue[t][i + 1]
    BY <1>1, <1>2
  <2> QED
    BY <1>1, <1>4, <1>5, <2>1, <2>2, <2>3
<1> QED
  BY <1>6, <1>7, <1>8, <1>9 DEF TurnsInv

\* The end comes out of the queue.
LEMMA FinishTurnKeeps ==
    ASSUME TurnsInv, NEW t \in Turns, FinishTurn(t)
    PROVE  TurnsInv'
<1>1. /\ stream[t] = "open" /\ queue[t] # <<>> /\ Head(queue[t]) = Done /\ driver[t] = "returned"
      /\ stream' = [stream EXCEPT ![t] = "finished"]
      /\ UNCHANGED <<pump, driver, queue, emitted, given>>
  BY DEF FinishTurn, EndReached
<1>2. TurnsType /\ TurnsType'
  BY <1>1 DEF TurnsInv, TurnsType
<1>3. stream'[t] = "finished" /\ \A u \in Turns \ {t} : stream'[u] = stream[u]
  BY <1>1, <1>2 DEF TurnsType
<1>4. NewIsEmpty' /\ InOrderOfTurns' /\ EventsNumbered'
  BY <1>1, <1>3 DEF TurnsInv, NewIsEmpty, InOrderOfTurns, EventsNumbered
<1>5. Heard'
  BY <1>1, <1>3 DEF TurnsInv, Heard, Busy, NoneFinalized
<1> QED
  BY <1>2, <1>4, <1>5 DEF TurnsInv

\* A turn that was under way or left is so no more.
LEMMA UnwindKeeps ==
    ASSUME TurnsInv, NEW t \in Turns, NEW how \in {"closed", "finalized"}, UnwindTurn(t, how),
           stream[t] \in {"open", "finished", "left"}, stream[t] = "left" => how = "finalized"
    PROVE  TurnsInv'
<1>1. /\ stream' = [stream EXCEPT ![t] = how] /\ pump' = 0
      /\ driver' = [driver EXCEPT ![t] = IF driver[t] = "running" THEN "cancelled" ELSE driver[t]]
      /\ UNCHANGED <<queue, emitted, given>>
  BY DEF UnwindTurn
<1>2. TurnsType
  BY DEF TurnsInv
<1>3. TurnsType'
  BY <1>1, <1>2 DEF TurnsType
<1>4. stream'[t] = how /\ \A u \in Turns \ {t} : stream'[u] = stream[u] /\ driver'[u] = driver[u]
  BY <1>1, <1>2 DEF TurnsType
<1>5. NewIsEmpty'
  BY <1>1, <1>4 DEF TurnsInv, NewIsEmpty
<1>6. InOrderOfTurns'
  BY <1>4 DEF TurnsInv, InOrderOfTurns
<1>7. EventsNumbered'
  BY <1>1 DEF TurnsInv, EventsNumbered
<1>8. Heard'
  <2> SUFFICES ASSUME NEW u \in Turns, stream'[u] \in {"open", "finished"},
                      \A v \in Turns : stream'[v] # "finalized"
               PROVE  FALSE
    BY DEF Heard, Busy, NoneFinalized
  <2>1. u # t /\ Busy(u) /\ Busy(t)
    BY <1>4 DEF Busy
  <2> QED
    BY <2>1, OneBusy
<1> QED
  BY <1>3, <1>5, <1>6, <1>7, <1>8 DEF TurnsInv

\* The consumer stops reading.
LEMMA LeaveTurnKeeps ==
    ASSUME TurnsInv, NEW t \in Turns, LeaveTurn(t)
    PROVE  TurnsInv'
<1>1. /\ stream[t] \in {"open", "finished"} /\ stream' = [stream EXCEPT ![t] = "left"]
      /\ UNCHANGED <<pump, driver, queue, emitted, given>>
  BY DEF LeaveTurn
<1>2. TurnsType /\ TurnsType'
  BY <1>1 DEF TurnsInv, TurnsType
<1>3. stream'[t] = "left" /\ \A u \in Turns \ {t} : stream'[u] = stream[u]
  BY <1>1, <1>2 DEF TurnsType
<1>4. NewIsEmpty' /\ InOrderOfTurns' /\ EventsNumbered'
  BY <1>1, <1>3 DEF TurnsInv, NewIsEmpty, InOrderOfTurns, EventsNumbered
<1>5. Heard'
  <2> SUFFICES ASSUME NEW u \in Turns, stream'[u] \in {"open", "finished"}
               PROVE  FALSE
    BY DEF Heard, Busy
  <2>1. u # t /\ Busy(u) /\ Busy(t)
    BY <1>1, <1>3 DEF Busy
  <2> QED
    BY <2>1, OneBusy
<1> QED
  BY <1>2, <1>4, <1>5 DEF TurnsInv

\* Every step keeps the invariant of the turns.
LEMMA TurnsInductive == TurnsInv /\ [TurnsNext]_turnVars => TurnsInv'
<1> SUFFICES ASSUME TurnsInv, [TurnsNext]_turnVars PROVE TurnsInv'
  OBVIOUS
<1>1. CASE UNCHANGED turnVars
  <2>1. TurnsType' /\ NewIsEmpty' /\ InOrderOfTurns' /\ EventsNumbered'
    BY <1>1 DEF turnVars, TurnsInv, TurnsType, NewIsEmpty, InOrderOfTurns, EventsNumbered
  <2>2. Heard'
    BY <1>1 DEF turnVars, TurnsInv, Heard, Busy, NoneFinalized
  <2> QED
    BY <2>1, <2>2 DEF TurnsInv
<1>2. CASE TurnsNext
  <2>1. PICK t \in Turns :
           \/ StartTurn(t)
           \/ \E kind \in EventKinds : EmitEvent(t, kind)
           \/ \E outcome \in {"returned", "raised"} : EndTurn(t, outcome)
           \/ TakeEvent(t) \/ FinishTurn(t) \/ CloseTurn(t)
           \/ LeaveTurn(t) \/ FinalizeTurn(t)
    BY <1>2 DEF TurnsNext
  <2>2. CASE CloseTurn(t)
    BY <2>2, UnwindKeeps DEF CloseTurn
  <2>3. CASE FinalizeTurn(t)
    BY <2>3, UnwindKeeps DEF FinalizeTurn
  <2> QED
    BY <2>1, <2>2, <2>3, StartTurnKeeps, EmitEventKeeps, EndTurnKeeps, TakeEventKeeps,
       FinishTurnKeeps, LeaveTurnKeeps
<1> QED
  BY <1>1, <1>2

\* When the end is at the head of the queue, no event of the run is left in it.
LEMMA TurnsInvImplies == TurnsInv => FinishedTurnIsWhole
<1> SUFFICES ASSUME TurnsInv, NEW t \in Turns, stream[t] = "finished", NoneFinalized
             PROVE  /\ {given[t][i] : i \in Own(t)} = {e \in ToSet(emitted[t]) : Mapped(e)}
                    /\ \A i, j \in Own(t) : i < j => given[t][i].seq < given[t][j].seq
  BY DEF FinishedTurnIsWhole, NoneFinalized
<1> DEFINE e == emitted[t]
           g == given[t]
           q == queue[t]
<1>1. /\ TurnWhole(t, e, g, q) /\ q # <<>> /\ Head(q) = Done
      /\ q \in Seq(TurnEvents) /\ \A k \in DOMAIN e : e[k].turn = t
  BY DEF TurnsInv, Heard, Busy, TurnsType, EventsNumbered
<1>2. \A i \in DOMAIN q : q[i].turn # t
  <2> SUFFICES ASSUME NEW i \in DOMAIN q PROVE q[i].turn # t
    OBVIOUS
  <2>1. 1 \in DOMAIN q /\ q[1] = Done /\ (i = 1 \/ 1 < i)
    BY <1>1
  <2>2. Done.turn # t
    BY EventTypes
  <2> QED
    BY <1>1, <2>1, <2>2 DEF TurnWhole
<1> HIDE DEF e, g, q
<1>3. ToSet(e) = {e[k] : k \in DOMAIN e}
  BY DEF ToSet
<1>4. \A k \in DOMAIN e : Mapped(e[k]) => \E i \in DOMAIN g : g[i] = e[k] /\ g[i].turn = t
  BY <1>1, <1>2 DEF TurnWhole
<1>5. \A i \in DOMAIN g : g[i].turn = t => Mapped(g[i]) /\ \E k \in DOMAIN e : g[i] = e[k]
  BY <1>1 DEF TurnWhole
<1>6. {g[i] : i \in {k \in DOMAIN g : g[k].turn = t}} = {x \in ToSet(e) : Mapped(x)}
  <2>1. ASSUME NEW i \in DOMAIN g, g[i].turn = t PROVE g[i] \in ToSet(e) /\ Mapped(g[i])
    BY <1>3, <1>5, <2>1
  <2>2. ASSUME NEW x \in ToSet(e), Mapped(x) PROVE \E i \in DOMAIN g : g[i].turn = t /\ g[i] = x
    BY <1>3, <1>4, <2>2
  <2> QED
    BY <2>1, <2>2
<1>7. \A i, j \in DOMAIN g : i < j /\ g[i].turn = t /\ g[j].turn = t => g[i].seq < g[j].seq
  BY <1>1 DEF TurnWhole
<1> QED
  BY <1>6, <1>7 DEF Own, e, g

\* For any number of turns and events: a turn that has yielded TurnFinished has shown
\* every event of its run once and in order (drive_turn, TurnEventPump).
THEOREM FinishedTurnIsWholeCorrect == TurnsSpec => []FinishedTurnIsWhole
<1> QED
  BY TurnsInitially, TurnsInductive, TurnsInvImplies, PTL DEF TurnsSpec
=============================================================================
