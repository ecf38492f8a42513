------------------------------- MODULE Skills -------------------------------
(***************************************************************************)
(* Skills: SkillDiscovery over the SKILL.md files of several roots, the    *)
(* lockfile of FileSkillTrustStore, the skill requests of the worker, each *)
(* with a store of its own, and SkillLoader in a run, whose store is read  *)
(* once when the runtime is built.  Anybody may edit the files meanwhile.  *)
(*                                                                         *)
(* A document stands for the whole content of a SKILL.md, hence for its    *)
(* hash; its name and version are functions of it.  One pass over the      *)
(* roots is one step.                                                      *)
(***************************************************************************)
EXTENDS Naturals, Sequences, FiniteSets

CONSTANTS Documents, Name, Version,  \* well-formed contents of a SKILL.md
          Dirs, ScopeOf,             \* directories that may hold one
          Shipped,                   \* what the package holds in a builtin one
          Requesters, SkillRuns,
          MaxEdits,                  \* bound: edits of a file
          MaxDecisions               \* bound: requests that changed the lockfile

Priority == [builtin |-> 10, user |-> 20, project |-> 30, workspace |-> 40]
Scopes == DOMAIN Priority
Names == {Name[k] : k \in Documents}
Versions == {Version[k] : k \in Documents}
Builtin == {d \in Dirs : ScopeOf[d] = "builtin"}

ASSUME SkillsAssumption ==
    /\ ScopeOf \in [Dirs -> Scopes]
    /\ Shipped \in [Builtin -> Documents]
    /\ {"absent", "broken"} \cap Documents = {}
    /\ MaxEdits \in Nat /\ MaxDecisions \in Nat

VARIABLES disk,       \* what each directory holds: a document, nothing, or a broken file
          lockfile,   \* the records in skills.lock.json
          request,    \* the skill request each requester is executing
          skillRun,   \* each run with its copy of the records, and the load it is in
          decisions,  \* what the requests have decided, in the order of their writes
          loaded,     \* the bodies that runs have been given
          edits

skillVars == <<disk, lockfile, request, skillRun, decisions, loaded, edits>>

-----------------------------------------------------------------------------
(* Discovery.  A candidate is a directory and the document found in it.    *)

Candidate == [dir : Dirs, document : Documents]
Found == {c \in Candidate : disk[c.dir] = c.document}

NameOf(c) == Name[c.document]
VersionOf(c) == Version[c.document]

\* discover: for each name the candidates of the highest scope that has one.
Effective(n) ==
    LET rank(c) == Priority[ScopeOf[c.dir]]
        named == {c \in Found : NameOf(c) = n}
    IN {c \in named : \A o \in named : rank(o) <= rank(c)}

\* One broken file, or one name twice in its highest scope, fails the whole pass.
CatalogFails ==
    \/ \E d \in Dirs : disk[d] = "broken"
    \/ \E n \in Names : Cardinality(Effective(n)) > 1

Catalog == IF CatalogFails THEN {} ELSE UNION {Effective(n) : n \in Names}

\* resolve: "name", or "name@version", among the effective candidates.
Resolved(n, v) == {c \in Catalog : NameOf(c) = n /\ v \in {"any", VersionOf(c)}}

-----------------------------------------------------------------------------
(* Trust records: content that somebody trusted for a name, version, scope. *)

RecordOf(c, e) == [scope |-> ScopeOf[c.dir], document |-> c.document, enabled |-> e]
Key(r) == <<Name[r.document], Version[r.document], r.scope>>

Without(records, r) == {o \in records : Key(o) # Key(r)}
Put(records, r) == Without(records, r) \cup {r}

\* Mutant: a record of the name, version and scope will do, whatever its hash.
LoadableByKey(records, c) ==
    \/ c.dir \in Builtin
    \/ \E r \in records : Key(r) = Key(RecordOf(c, TRUE)) /\ r.enabled

\* status(c).loadable: packaged, or its exact content is trusted and enabled.
Loadable(records, c) == c.dir \in Builtin \/ RecordOf(c, TRUE) \in records

\* The record a request writes, and whether it writes at all.  A builtin
\* candidate is refused; enable needs a record of the same content; disable
\* does nothing without one.
Trusts(records, c) == \E r \in records : r.document = c.document /\ r.scope = ScopeOf[c.dir]

Operations == {"trust", "trust_disabled", "enable", "disable", "untrust"}

Accepted(op, records, c) ==
    /\ c.dir \notin Builtin
    /\ op \in {"enable", "disable"} => Trusts(records, c)

Applied(op, records, c) ==
    CASE op \in {"trust", "enable"}           -> Put(records, RecordOf(c, TRUE))
      [] op \in {"trust_disabled", "disable"} -> Put(records, RecordOf(c, FALSE))
      [] op = "untrust"                       -> Without(records, RecordOf(c, TRUE))

-----------------------------------------------------------------------------

NoRequest == [op |-> "none"]
NoRun == [at |-> "none"]

SkillsInit ==
    /\ disk = [d \in Dirs |-> IF d \in Builtin THEN Shipped[d] ELSE "absent"]
    /\ lockfile = {}
    /\ request = [q \in Requesters |-> NoRequest]
    /\ skillRun = [r \in SkillRuns |-> NoRun]
    /\ decisions = <<>>
    /\ loaded = {}
    /\ edits = 0

\* A file outside the package is written, broken or removed.
Edit(d, content) ==
    /\ edits < MaxEdits /\ d \notin Builtin /\ content # disk[d]
    /\ disk' = [disk EXCEPT ![d] = content]
    /\ edits' = edits + 1
    /\ UNCHANGED <<lockfile, request, skillRun, decisions, loaded>>

\* A request opens a store of its own on the lockfile and resolves the name it was given.
OpenRequest(q, op, n, v) ==
    /\ request[q] = NoRequest /\ Len(decisions) < MaxDecisions
    /\ \E c \in Resolved(n, v) :
          request' = [request EXCEPT ![q] = [op |-> op, copy |-> lockfile, candidate |-> c]]
    /\ UNCHANGED <<disk, lockfile, skillRun, decisions, loaded, edits>>

\* It changes its copy and replaces the whole lockfile by it.
SaveRequest(q) ==
    LET a == request[q]
        verdict == [document |-> a.candidate.document, scope |-> ScopeOf[a.candidate.dir],
                    allowed |-> a.op \in {"trust", "enable"}]
    IN /\ a # NoRequest /\ Accepted(a.op, a.copy, a.candidate)
       /\ lockfile' = Applied(a.op, a.copy, a.candidate)
       /\ decisions' = Append(decisions, verdict)
       /\ request' = [request EXCEPT ![q] = NoRequest]
       /\ UNCHANGED <<disk, skillRun, loaded, edits>>

\* It is refused, has nothing to do, or its process dies before the file is replaced.
EndRequest(q) ==
    /\ request[q] # NoRequest
    /\ request' = [request EXCEPT ![q] = NoRequest]
    /\ UNCHANGED <<disk, lockfile, skillRun, decisions, loaded, edits>>

-----------------------------------------------------------------------------

\* The runtime of a run is built, and with it a store that is never read again.
BuildRun(r) ==
    /\ skillRun[r] = NoRun
    /\ skillRun' = [skillRun EXCEPT ![r] =
                      [at |-> "idle", records |-> lockfile, asOf |-> Len(decisions)]]
    /\ UNCHANGED <<disk, lockfile, request, decisions, loaded, edits>>

Move(r, at, c) ==
    /\ skillRun' = [skillRun EXCEPT ![r] =
          [at |-> at, records |-> @.records, asOf |-> @.asOf, candidate |-> c]]
    /\ UNCHANGED <<disk, lockfile, request, decisions, loaded, edits>>

Idle(r) == [at |-> "idle", records |-> skillRun[r].records, asOf |-> skillRun[r].asOf]

\* load_by_name resolves the reference, which need not stay the effective one.
AskSkill(r, n, v) ==
    /\ skillRun[r].at = "idle"
    /\ \E c \in Resolved(n, v) : Move(r, "asked", c)

\* require_loadable discovers again, and then reads the one file again.
FindEffective(r) ==
    /\ skillRun[r].at = "asked"
    /\ skillRun[r].candidate \in Catalog
    /\ Move(r, "effective", skillRun[r].candidate)

VerifySkill(r) ==
    LET c == skillRun[r].candidate
    IN /\ skillRun[r].at = "effective"
       /\ disk[c.dir] = c.document
       /\ Loadable(skillRun[r].records, c)
       /\ Move(r, "verified", c)

\* Mutant: the body is whatever the file holds by then.
UncheckedBody(c) == disk[c.dir]

\* The body comes from a last reading of the file, which must not differ.
Body(c) == IF disk[c.dir] = c.document THEN c.document ELSE "broken"

ReadBody(r) ==
    LET c == skillRun[r].candidate
    IN /\ skillRun[r].at = "verified"
       /\ Body(c) \in Documents
       /\ loaded' = loaded \cup {[scope |-> ScopeOf[c.dir], document |-> Body(c),
                                  asOf |-> skillRun[r].asOf]}
       /\ skillRun' = [skillRun EXCEPT ![r] = Idle(r)]
       /\ UNCHANGED <<disk, lockfile, request, decisions, edits>>

\* Any of these fails, and the tool returns an error.
RefuseSkill(r) ==
    /\ skillRun[r].at \in {"asked", "effective", "verified"}
    /\ skillRun' = [skillRun EXCEPT ![r] = Idle(r)]
    /\ UNCHANGED <<disk, lockfile, request, decisions, loaded, edits>>

SkillsNext ==
    \/ \E d \in Dirs, k \in Documents \cup {"absent", "broken"} : Edit(d, k)
    \/ \E q \in Requesters, op \in Operations, n \in Names, v \in Versions \cup {"any"} :
          OpenRequest(q, op, n, v)
    \/ \E q \in Requesters : SaveRequest(q) \/ EndRequest(q)
    \/ \E r \in SkillRuns :
          \/ BuildRun(r)
          \/ \E n \in Names, v \in Versions \cup {"any"} : AskSkill(r, n, v)
          \/ FindEffective(r) \/ VerifySkill(r) \/ ReadBody(r) \/ RefuseSkill(r)

SkillsSpec == SkillsInit /\ [][SkillsNext]_skillVars

-----------------------------------------------------------------------------

\* A body that a run is given is packaged, or its exact content is what the last
\* decision on its name, version and scope allowed when the run was built: not
\* an edit of it, not one in another scope, not one revoked by then.  Requests
\* come one after the other; two at once overwrite each other's records.
LoadedWasTrusted ==
    \A l \in loaded :
       \/ l.scope = "builtin"
       \/ \E i \in 1 .. l.asOf :
             /\ decisions[i] = [document |-> l.document, scope |-> l.scope, allowed |-> TRUE]
             /\ \A j \in i + 1 .. l.asOf : Key(decisions[j]) # Key(decisions[i])
=============================================================================
