------------------------------ MODULE Artifacts ------------------------------
(***************************************************************************)
(* FileArtifactStore and ArtifactLifecycle.  An artifact is two files, the *)
(* payload and its manifest; each is replaced or removed atomically, the   *)
(* pair is not, and processes put, read, delete and clean up at once, one  *)
(* file operation a step.  A process may die between two steps, and a file *)
(* may be damaged.                                                         *)
(*                                                                         *)
(* An id is the content (its hash) and the scope, as in _artifact_id.      *)
(***************************************************************************)
EXTENDS Naturals, FiniteSets

CONSTANTS Contents,
          Policies,      \* scopes: [session, run], either of which may be "none"
          Lifetimes,     \* expires_in_seconds; Forever for none
          Forever,
          Agents,        \* processes and threads on one directory
          AccessOf,      \* the ArtifactAccess of each: [session, run, delete]
          MaxClock,      \* bound: time
          MaxOps,        \* bound: operations ops
          MaxFaults      \* bound: deaths, and damages to files

ASSUME ArtifactsAssumption ==
    /\ MaxClock \in Nat /\ MaxOps \in Nat /\ MaxFaults \in Nat
    /\ Lifetimes \subseteq Nat /\ Forever \in Nat

Ids == [content : Contents, policy : Policies]

VARIABLES payload,    \* of each id: a content, "absent" or "garbage"
          manifest,   \* of each id: a manifest, or NoManifest, or Garbage
          clock,
          agent,      \* the operation each agent is in
          ops, faults

artifactVars == <<payload, manifest, clock, agent, ops, faults>>
Files == <<payload, manifest>>
Extent == <<clock, ops, faults>>

\* A manifest: its artifact_id, the content it has the hash of, policy and expiry.
Ref(id, expires) == [id |-> id, content |-> id.content, policy |-> id.policy,
                     expires |-> expires]
NoManifest == [id |-> "absent"]
Garbage == [id |-> "garbage"]

Expired(ref) == ref.expires <= clock

\* _load_ref: the manifest names the id, and its hash and scope make up that id.
LoadsRef(id) ==
    /\ manifest[id] \notin {NoManifest, Garbage}
    /\ manifest[id].id = id
    /\ id = [content |-> manifest[id].content, policy |-> manifest[id].policy]

\* can_access
CanAccess(a, policy) ==
    \/ policy.session = "none" /\ policy.run = "none"
    \/ /\ AccessOf[a].session = policy.session
       /\ policy.run \in {"none", AccessOf[a].run}

\* get_ref
MayGet(a, id, allowExpired) ==
    /\ LoadsRef(id)
    /\ CanAccess(a, manifest[id].policy)
    /\ allowExpired \/ ~Expired(manifest[id])

-----------------------------------------------------------------------------

Rest == [at |-> "rest"]

ArtifactsInit ==
    /\ payload = [id \in Ids |-> "absent"]
    /\ manifest = [id \in Ids |-> NoManifest]
    /\ clock = 0
    /\ agent = [a \in Agents |-> Rest]
    /\ ops = 0 /\ faults = 0

Fault == faults < MaxFaults /\ faults' = faults + 1
Begins == ops < MaxOps /\ ops' = ops + 1
Free(a) == agent[a].at \in {"rest", "put_done", "read_done"}
To(a, state) == agent' = [agent EXCEPT ![a] = state]

Putting == {"payload", "manifest", "check", "write", "put_done"}

\* A file of id is removed or damaged: every put of id under way or done is told.
Told(id, agents) ==
    [b \in Agents |-> IF agents[b].at \in Putting /\ agents[b].id = id
                      THEN [agents[b] EXCEPT !.disturbed = TRUE] ELSE agents[b]]

\* A put writes a manifest: every put of id that has looked for one, and that
\* returns another, is told.
Returned(s) == IF s.at = "put_done" THEN s.ref ELSE Ref(s.id, s.expires)

Overtaken(id, ref, agents) ==
    [b \in Agents |-> IF /\ agents[b].at \in {"check", "put_done"} /\ agents[b].id = id
                         /\ Returned(agents[b]) # ref
                      THEN [agents[b] EXCEPT !.raced = TRUE] ELSE agents[b]]

\* put_text: the payload is written unless the file there has the content already.
BeginPut(a, id, lifetime) ==
    /\ Free(a) /\ Begins
    /\ To(a, [at |-> "payload", id |-> id, expires |-> clock + lifetime,
              present |-> payload[id] = id.content, disturbed |-> FALSE, raced |-> FALSE])
    /\ UNCHANGED <<Files, clock, faults>>

\* Mutant: a payload that exists is not looked into.
KeepPayload(a) == agent[a].present \/ payload[agent[a].id] # "absent"

KeepsPayload(a) == agent[a].present

PutPayload(a) ==
    /\ agent[a].at = "payload"
    /\ payload' = IF KeepsPayload(a) THEN payload
                  ELSE [payload EXCEPT ![agent[a].id] = agent[a].id.content]
    /\ To(a, [agent[a] EXCEPT !.at = "manifest"])
    /\ UNCHANGED <<manifest, Extent>>

PutDone(s, ref) == [at |-> "put_done", id |-> s.id, disturbed |-> s.disturbed,
                    raced |-> s.raced, ref |-> ref]

\* An existing manifest is returned as it is, with its own expiry.
LoadManifest(a) ==
    LET id == agent[a].id
    IN /\ agent[a].at = "manifest"
       /\ To(a, IF LoadsRef(id) THEN PutDone(agent[a], manifest[id])
                ELSE [agent[a] EXCEPT !.at = "check"])
       /\ UNCHANGED <<Files, Extent>>

\* It is looked into again: one with the hash of the content, whosever it is by now,
\* is left in place, and a new one is returned all the same.
CheckManifest(a) ==
    LET id == agent[a].id
        valid == manifest[id] \notin {NoManifest, Garbage} /\ manifest[id].content = id.content
    IN /\ agent[a].at = "check"
       /\ To(a, IF valid THEN PutDone(agent[a], Returned(agent[a]))
                ELSE [agent[a] EXCEPT !.at = "write"])
       /\ UNCHANGED <<Files, Extent>>

WriteManifest(a) ==
    LET id == agent[a].id
        fresh == Returned(agent[a])
    IN /\ agent[a].at = "write"
       /\ manifest' = [manifest EXCEPT ![id] = fresh]
       /\ agent' = [Overtaken(id, fresh, agent) EXCEPT ![a] = PutDone(agent[a], fresh)]
       /\ UNCHANGED <<payload, Extent>>

\* read_text: the manifest, and then the payload that it describes.
BeginRead(a, id) ==
    /\ Free(a) /\ Begins
    /\ MayGet(a, id, FALSE)
    /\ To(a, [at |-> "reading", id |-> id, ref |-> manifest[id]])
    /\ UNCHANGED <<Files, clock, faults>>

Intact(id, ref) ==
    /\ payload[id] = ref.content
    /\ id = [content |-> payload[id], policy |-> ref.policy]

EndRead(a) ==
    LET id == agent[a].id
    IN /\ agent[a].at = "reading"
       /\ To(a, IF Intact(id, agent[a].ref)
                THEN [at |-> "read_done", id |-> id, text |-> payload[id]] ELSE Rest)
       /\ UNCHANGED <<Files, Extent>>

-----------------------------------------------------------------------------
(* Deletion: of one artifact, or of all that list_refs found to be expired. *)

MayDelete(a, id, allowExpired) == MayGet(a, id, allowExpired) /\ AccessOf[a].delete

BeginDelete(a, id) ==
    /\ Free(a) /\ Begins
    /\ MayDelete(a, id, FALSE)
    /\ To(a, [at |-> "unlink", id |-> id, todo |-> {}, removed |-> {}])
    /\ UNCHANGED <<Files, clock, faults>>

BeginCleanup(a) ==
    LET expired == {id \in Ids : MayGet(a, id, TRUE) /\ Expired(manifest[id])}
    IN /\ Free(a) /\ Begins
       /\ expired # {}
       /\ To(a, [at |-> "next", todo |-> expired, removed |-> {}])
       /\ UNCHANGED <<Files, clock, faults>>

\* One that is gone by now fails the cleanup, and what it has removed is not audited.
NextExpired(a) ==
    /\ agent[a].at = "next"
    /\ \E id \in agent[a].todo :
          To(a, IF MayDelete(a, id, TRUE)
                THEN [at |-> "unlink", id |-> id, todo |-> agent[a].todo \ {id},
                      removed |-> agent[a].removed]
                ELSE Rest)
    /\ UNCHANGED <<Files, Extent>>

UnlinkPayload(a) ==
    LET id == agent[a].id
    IN /\ agent[a].at = "unlink"
       /\ payload' = [payload EXCEPT ![id] = "absent"]
       /\ agent' = [Told(id, agent) EXCEPT ![a].at = "unlink_manifest"]
       /\ UNCHANGED <<manifest, Extent>>

UnlinkManifest(a) ==
    LET id == agent[a].id
        removed == agent[a].removed \cup {id}
    IN /\ agent[a].at = "unlink_manifest"
       /\ manifest' = [manifest EXCEPT ![id] = NoManifest]
       /\ agent' = [Told(id, agent) EXCEPT
                      ![a] = IF agent[a].todo = {} THEN [at |-> "audit", removed |-> removed]
                             ELSE [at |-> "next", todo |-> agent[a].todo, removed |-> removed]]
       /\ UNCHANGED <<payload, Extent>>

\* The lifecycle records each removal once all of them are done.
Audit(a) ==
    /\ agent[a].at = "audit"
    /\ \E id \in agent[a].removed :
          LET rest == agent[a].removed \ {id}
          IN To(a, IF rest = {} THEN Rest ELSE [at |-> "audit", removed |-> rest])
    /\ UNCHANGED <<Files, Extent>>

-----------------------------------------------------------------------------

\* The agent dies, or the event sink raises.
Die(a) ==
    /\ ~Free(a) /\ Fault
    /\ To(a, Rest)
    /\ UNCHANGED <<Files, clock, ops>>

Pass ==
    /\ clock < MaxClock
    /\ clock' = clock + 1
    /\ UNCHANGED <<Files, agent, ops, faults>>

\* A file that exists is cut short, or takes the place of another.
DamagePayload(id, content) ==
    /\ Fault
    /\ payload[id] # "absent" /\ content # payload[id]
    /\ payload' = [payload EXCEPT ![id] = content]
    /\ agent' = Told(id, agent)
    /\ UNCHANGED <<manifest, clock, ops>>

DamageManifest(id, m) ==
    /\ Fault
    /\ manifest[id] # NoManifest /\ m # manifest[id]
    /\ manifest' = [manifest EXCEPT ![id] = m]
    /\ agent' = Told(id, agent)
    /\ UNCHANGED <<payload, clock, ops>>

\* Manifests that a damaged directory may hold: another artifact's, one that lost
\* its policy (from_dict reads it as unscoped), or no JSON.
Damaged(id) ==
    {Ref(other, Forever) : other \in Ids} \cup
    {[Ref(id, Forever) EXCEPT !.policy = [session |-> "none", run |-> "none"]], Garbage}

ArtifactsNext ==
    \/ \E a \in Agents :
          \/ \E id \in Ids : BeginRead(a, id) \/ BeginDelete(a, id)
          \/ \E id \in Ids, lifetime \in Lifetimes : BeginPut(a, id, lifetime)
          \/ PutPayload(a) \/ LoadManifest(a) \/ CheckManifest(a) \/ WriteManifest(a)
          \/ EndRead(a)
          \/ BeginCleanup(a) \/ NextExpired(a)
          \/ UnlinkPayload(a) \/ UnlinkManifest(a) \/ Audit(a)
          \/ Die(a)
    \/ Pass
    \/ \E id \in Ids :
          \/ \E content \in Contents \cup {"garbage"} : DamagePayload(id, content)
          \/ \E m \in Damaged(id) : DamageManifest(id, m)

ArtifactsSpec == ArtifactsInit /\ [][ArtifactsNext]_artifactVars

-----------------------------------------------------------------------------

\* A manifest with the hash of the content but the identity of another artifact,
\* which neither reads as this one nor is replaced by a later put.
Misfiled(id) ==
    /\ manifest[id] \notin {NoManifest, Garbage} /\ manifest[id].content = id.content
    /\ ~LoadsRef(id)

\* What put_text was given can be read back, whatever dead processes and damage had
\* left there before and whoever puts the same content at once, unless a deletion or
\* damage touches it during or after the put.  It is readable until what put_text
\* returned expires, unless another put wrote a manifest with another expiry after
\* this one had looked for one: then the expiry in place is the other's.
PutIsReadable ==
    \A a \in Agents :
       /\ agent[a].at = "put_done" /\ ~agent[a].disturbed
       /\ ~Misfiled(agent[a].id)
       => /\ LoadsRef(agent[a].id) /\ payload[agent[a].id] = agent[a].id.content
          /\ ~agent[a].raced /\ ~Expired(agent[a].ref) => ~Expired(manifest[agent[a].id])
=============================================================================
