------------------------------ MODULE Workspace ------------------------------
(***************************************************************************)
(* The file tools of the coding agent (read_file, edit_file, write_file)   *)
(* over LocalWorkspace, on one path.  The calls come from runs of several  *)
(* sessions, subagents and worker processes that share the directory.  Each*)
(* read and each write is a thread of its own, which goes on when the call *)
(* that started it has timed out.                                          *)
(*                                                                         *)
(* A write is optimistic: a digest of what the call expects is checked     *)
(* under an advisory lock, and a new file is renamed over the old one.  The*)
(* lock belongs to the file (the inode) that the path named when it was    *)
(* opened; the digest and the rename go by the path.                       *)
(***************************************************************************)
EXTENDS Naturals, Sequences, FiniteSets, SequencesExt

CONSTANTS MaxCalls,  \* bound: tool calls, in the order they begin
          Runs,
          MaxRuns    \* max_runs of the ReadLedger

ASSUME WorkspaceAssumption == MaxCalls \in Nat /\ MaxRuns \in Nat \ {0}

Calls == 1 .. MaxCalls

VARIABLES files,   \* every inode the path has named, the last one now: its text, and
                   \* whether the write that made it checked a digest
          locked,  \* inodes with an exclusive flock
          ledger,  \* runs that have read the path, the oldest first
          call     \* what each call does

workspaceVars == <<files, locked, ledger, call>>

\* A text is the set of changes it carries.
Texts == SUBSET Calls
Exists == files # <<>>
Inode == Len(files)
Current == files[Inode].text

\* A call: the text it writes (of an edit: the change it makes or takes back),
\* the text it expects to replace if it has a digest, the inode it opened
\* (0: there was no file to lock), and whether it was reported as timed out.
NoCall == [at |-> "idle", tool |-> "none", run |-> "none", text |-> {}, expected |-> {},
           opened |-> 0, timedOut |-> FALSE]

WorkspaceInit ==
    /\ files \in {<<>>, <<[text |-> {}, checked |-> TRUE]>>}
    /\ ledger \in {order \in BoundedSeq(Runs, MaxRuns) :
                       IsInjective(order) /\ (~Exists => order = <<>>)}
    /\ locked = {}
    /\ call = [c \in Calls |-> NoCall]

Set(c, state) == call' = [call EXCEPT ![c] = state]
At(c, place) == IF place = "over" THEN [NoCall EXCEPT !.at = "over"]
                ELSE [call[c] EXCEPT !.at = place]
-----------------------------------------------------------------------------
(* The ledger.                                                             *)

HasRead(r) == r \in ToSet(ledger)
RecordRead(r) ==
    ledger' = IF HasRead(r) THEN ledger
              ELSE IF Len(ledger) >= MaxRuns THEN Append(Tail(ledger), r)
              ELSE Append(ledger, r)

\* A run makes one call at a time; it goes on when a call has timed out.
Busy(r) == \E c \in Calls : call[c].run = r /\ call[c].at \notin {"idle", "over"}
                            /\ ~call[c].timedOut

Reads(tool) == tool \in {"read_file", "edit_file"}

\* run() of a tool up to its first thread: the refusal of a run that has not read
\* the file, unless write_file creates it.
Begin(c, r, tool, text, expected) ==
    /\ call[c].at = "idle" /\ ~Busy(r)
    /\ \A d \in 1 .. c - 1 : call[d].at # "idle"
    /\ LET refused == tool # "read_file" /\ ~HasRead(r) /\ (tool = "edit_file" \/ Exists) IN
       Set(c, IF refused THEN At(c, "over")
              ELSE [at |-> IF Reads(tool) THEN "open" ELSE "write",
                    tool |-> tool, run |-> r, text |-> text, expected |-> expected,
                    opened |-> 0, timedOut |-> FALSE])
    /\ UNCHANGED <<files, locked, ledger>>

\* read_file; an edit that adds its own change or takes one back; a write of a new
\* text or of the empty one, with no digest or that of the file as it is now.
BeginAny(c, r) ==
    \/ Begin(c, r, "read_file", {}, {})
    \/ \E m \in 1 .. c : Begin(c, r, "edit_file", {m}, {})
    \/ \E text \in {{}, {c}} : \E expected \in {{}, {Current : k \in DOMAIN files}} :
           Begin(c, r, "write_file", text, expected)
-----------------------------------------------------------------------------
(* _read_text_sync, and what the tool does with the text.                  *)

ReadOpen(c) ==
    /\ call[c].at = "open"
    /\ Set(c, IF Exists THEN [At(c, "shared") EXCEPT !.opened = Inode] ELSE At(c, "over"))
    /\ UNCHANGED <<files, locked, ledger>>

\* The shared lock is held for one read of the path.
ReadLocked(c) ==
    /\ call[c].at = "shared" /\ call[c].opened \notin locked
    /\ Set(c, [At(c, "seen") EXCEPT !.expected = {Current}])
    /\ UNCHANGED <<files, locked, ledger>>

\* An edit puts its own change in, or takes another's back.
Edited(c, text) == IF call[c].text = {c} THEN text \cup {c} ELSE text \ call[c].text

\* The reader's result: the run has read the file, or the edit is made.
Resume(c) ==
    /\ call[c].at = "seen"
    /\ \E seen \in call[c].expected :
       IF call[c].tool = "read_file"
       THEN RecordRead(call[c].run) /\ Set(c, At(c, "over"))
       ELSE /\ Set(c, IF call[c].text \subseteq seen \cup {c}
                      THEN [At(c, "write") EXCEPT !.text = Edited(c, seen)]
                      ELSE At(c, "over"))       \* old_text was not found
            /\ UNCHANGED ledger
    /\ UNCHANGED <<files, locked>>
-----------------------------------------------------------------------------
(* _write_text_sync.                                                       *)

WriteOpen(c) ==
    /\ call[c].at = "write"
    /\ Set(c, [At(c, "lock") EXCEPT !.opened = Inode])
    /\ UNCHANGED <<files, locked, ledger>>

\* A file that is missing is not locked.
Lock(c) ==
    /\ call[c].at = "lock"
    /\ IF call[c].opened = 0 THEN UNCHANGED locked
       ELSE call[c].opened \notin locked /\ locked' = locked \cup {call[c].opened}
    /\ Set(c, At(c, "check"))
    /\ UNCHANGED <<files, ledger>>

\* Mutant: the digest is compared with the file that was opened for the lock.
MatchesOpened(c) ==
    call[c].expected = {}
    \/ (call[c].opened # 0 /\ call[c].expected = {files[call[c].opened].text})

Matches(c) == call[c].expected = {} \/ (Exists /\ call[c].expected = {Current})

Unlock(c) == locked' = locked \ {call[c].opened}

Check(c) ==
    /\ call[c].at = "check"
    /\ IF Matches(c) THEN Set(c, At(c, "replace")) /\ UNCHANGED locked
       ELSE Set(c, At(c, "over")) /\ Unlock(c)
    /\ UNCHANGED <<files, ledger>>

\* os.replace: the path names a new inode.
ReplaceFile(c) ==
    /\ call[c].at = "replace"
    /\ files' = Append(files, [text |-> call[c].text, checked |-> call[c].expected # {}])
    /\ Set(c, At(c, "over")) /\ Unlock(c)
    /\ UNCHANGED ledger

\* The temporary file cannot be written: it is removed, and the path is as before.
WriteFails(c) ==
    /\ call[c].at = "replace"
    /\ Set(c, At(c, "over")) /\ Unlock(c)
    /\ UNCHANGED <<files, ledger>>

\* The dispatcher gives a call up.  A thread that reads ends for nothing, a write
\* whose thread has not begun is dropped, and one that has begun goes on.
Timeout(c) ==
    /\ call[c].at \notin {"idle", "over"} /\ ~call[c].timedOut
    /\ \/ /\ call[c].at \in {"open", "shared", "seen", "write"}
          /\ Set(c, At(c, "over"))
       \/ /\ call[c].at \in {"write", "lock", "check", "replace"}
          /\ Set(c, [call[c] EXCEPT !.timedOut = TRUE])
    /\ UNCHANGED <<files, locked, ledger>>
-----------------------------------------------------------------------------
Step(c) ==
    \/ ReadOpen(c) \/ ReadLocked(c) \/ Resume(c)
    \/ WriteOpen(c) \/ Lock(c) \/ Check(c) \/ ReplaceFile(c) \/ WriteFails(c)

WorkspaceNext ==
    \E c \in Calls :
        \/ \E r \in Runs : BeginAny(c, r)
        \/ Step(c)
        \/ Timeout(c)

\* Threads run, and flock is granted to one of those that wait.
WorkspaceSpec ==
    /\ WorkspaceInit /\ [][WorkspaceNext]_workspaceVars
    /\ \A c \in Calls : WF_workspaceVars(Step(c))
-----------------------------------------------------------------------------
Lands(c) == call[c].at = "replace" /\ Len(files') > Len(files)

\* What a write with a digest replaces is what the digest was taken of.
OneWriterPerDigest ==
    [][\A c \in Calls : Lands(c) /\ call[c].expected # {}
                        => Exists /\ call[c].expected = {Current}]_workspaceVars

\* The path has named no two files with one text, and every write carried a digest.
Disciplined ==
    \A i \in DOMAIN files :
        files[i].checked /\ \A j \in DOMAIN files : files[i].text = files[j].text => i = j

\* As long as that is so, no edit is lost: not to another session or process, not to
\* a write that lands after its call was reported as timed out, and although a
\* writer that waited may hold the lock of a file that the path no longer names.
EditsAreKept ==
    [][\A c \in Calls : Lands(c) /\ call[c].expected # {} /\ Disciplined
                        => Exists /\ call[c].expected = {Current}]_workspaceVars
=============================================================================
