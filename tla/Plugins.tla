------------------------------- MODULE Plugins -------------------------------
(***************************************************************************)
(* Trust in plugins: PluginDiscovery over directories that anybody may     *)
(* edit, PluginTrustManager with its records, and PluginHost.start, which  *)
(* reads a plugin again before it starts a process that imports it.  The   *)
(* requests of a running host are in ToolProcess.                          *)
(*                                                                         *)
(* A plugin is its manifest and the content of its other files, both known *)
(* by their hashes.  The hash leaves out what is in __pycache__, .git and  *)
(* .aihi at the top of the directory; from the first, an import takes byte *)
(* code in place of the sources.  start does not await anything until the  *)
(* process exists, so no other task decides on trust while it verifies.    *)
(***************************************************************************)
EXTENDS Naturals, Sequences, FiniteSets

CONSTANTS Manifests,
          Identity,      \* of each manifest: plugin_id and version
          Pin,           \* the content it declares, or "none"
          Asks,          \* its capabilities and permissions
          Compatible,    \* whether it accepts the version of the harness
          Codes,         \* contents of the other files
          Roots,         \* directories that may hold a plugin
          Hosts,
          HostAllows,    \* PluginHostPolicy of each
          MaxPluginEdits, MaxVerdicts  \* bounds: edits, changes of trust

ASSUME PluginsAssumption ==
    /\ Compatible \in [Manifests -> BOOLEAN]
    /\ Codes \cap {"none", "stale"} = {}
    /\ Pin \in [Manifests -> Codes \cup {"none"}]
    /\ MaxPluginEdits \in Nat /\ MaxVerdicts \in Nat

VARIABLES pluginDisk, \* of each root: a Directory, or Absent
          trusted,    \* the records: candidate hashes, and enabled
          discovered, \* candidates that callers hold
          host,       \* each PluginHost, with the candidate it was made for
          verdicts,   \* what has been decided, in order
          pluginEdits

pluginVars == <<pluginDisk, trusted, discovered, host, verdicts, pluginEdits>>

Absent == [manifest |-> "absent"]
Plugin == [manifest : Manifests, code : Codes]

\* stale: its __pycache__ holds byte code that does not come from its sources, and
\* that an import does not refuse.
Directory == [manifest : Manifests, code : Codes, stale : BOOLEAN]

Stale(d) == d # Absent /\ d.stale

\* What the hashes of a directory cover.
Hashed(d) == [manifest |-> d.manifest, code |-> d.code]

\* _load_candidate accepts what it reads: the content is the one pinned, if any.
Readable(d) == d \in Directory /\ Pin[d.manifest] \in {"none", d.code}

\* discover: one identity twice, or a plugin that does not load, fails the pass.
PassFails ==
    \/ \E d \in Roots : pluginDisk[d] # Absent /\ ~Readable(pluginDisk[d])
    \/ \E d, e \in Roots :
          /\ d # e /\ Absent \notin {pluginDisk[d], pluginDisk[e]}
          /\ Identity[pluginDisk[d].manifest] = Identity[pluginDisk[e].manifest]

PluginsInit ==
    /\ pluginDisk = [d \in Roots |-> Absent]
    /\ trusted = {}
    /\ discovered = {}
    /\ host = [h \in Hosts |-> [at |-> "none"]]
    /\ verdicts = <<>>
    /\ pluginEdits = 0

\* A directory is installed, changed or removed; a start that has read it by then
\* will import something else.  (An import that writes the byte code of a package
\* below the top changes the content too.)
EditPlugin(d, p) ==
    /\ pluginEdits < MaxPluginEdits /\ p # pluginDisk[d]
    /\ pluginDisk' = [pluginDisk EXCEPT ![d] = p]
    /\ host' = [h \in Hosts |->
                  IF host[h].at = "spawned" /\ host[h].candidate.root = d
                  THEN [host[h] EXCEPT !.edited = TRUE] ELSE host[h]]
    /\ pluginEdits' = pluginEdits + 1
    /\ UNCHANGED <<trusted, discovered, verdicts>>

Discover ==
    /\ ~PassFails
    /\ discovered' = discovered \cup
          {[root |-> d, plugin |-> Hashed(pluginDisk[d])] :
              d \in {e \in Roots : pluginDisk[e] # Absent}}
    /\ UNCHANGED <<pluginDisk, trusted, host, verdicts, pluginEdits>>

-----------------------------------------------------------------------------
(* Trust: a record for each identity, of exact content.                    *)

IdentityOf(p) == Identity[p.manifest]
OtherRecords(p) == {r \in trusted : IdentityOf(r.plugin) # IdentityOf(p)}
HashTrusted(p) == \E r \in trusted : r.plugin = p

TrustOps == {"trust", "trust_enabled", "enable", "disable", "remove"}
Enables(op) == op \in {"trust_enabled", "enable"}

Verifying == \E h \in Hosts : host[h].at = "verifying"

\* trust, enable, disable, and removal from the store, of any candidate that
\* somebody holds, whatever its files have become.  disable does nothing unless
\* the record is of the same content.
Decide(p, op) ==
    /\ ~Verifying /\ Len(verdicts) < MaxVerdicts
    /\ op \in {"trust", "trust_enabled"} => Compatible[p.manifest]
    /\ op \in {"enable", "disable"} => HashTrusted(p)
    /\ trusted' = OtherRecords(p) \cup
                     {[plugin |-> p, enabled |-> Enables(op)] : o \in {op} \ {"remove"}}
    /\ verdicts' = Append(verdicts, [plugin |-> p, allowed |-> Enables(op)])
    /\ UNCHANGED <<pluginDisk, discovered, host, pluginEdits>>

\* status(candidate).activatable
Activatable(p) == Compatible[p.manifest] /\ [plugin |-> p, enabled |-> TRUE] \in trusted

-----------------------------------------------------------------------------
(* A host.                                                                 *)

MakeHost(h, c) ==
    /\ host[h].at = "none"
    /\ host' = [host EXCEPT ![h] = [at |-> "off", candidate |-> c]]
    /\ UNCHANGED <<pluginDisk, trusted, discovered, verdicts, pluginEdits>>

\* start reads the manifest of its candidate again.
ReadManifest(h) ==
    LET c == host[h].candidate
    IN /\ host[h].at = "off" /\ ~Verifying
       /\ pluginDisk[c.root].manifest = c.plugin.manifest
       /\ host' = [host EXCEPT ![h] = [at |-> "verifying", candidate |-> c]]
       /\ UNCHANGED <<pluginDisk, trusted, discovered, verdicts, pluginEdits>>

\* Mutant: the content is the one that was discovered.
DiscoveredContent(h) == host[h].candidate.plugin.code

ContentNow(h) == LET d == pluginDisk[host[h].candidate.root]
                 IN IF d = Absent THEN "none" ELSE d.code

\* It hashes the content; what it has read must be the candidate, activatable, and
\* within the policy of the host.  The process is started.
SpawnHost(h) ==
    LET c == host[h].candidate
    IN /\ host[h].at = "verifying"
       /\ ContentNow(h) = c.plugin.code
       /\ Activatable(c.plugin)
       /\ Asks[c.plugin.manifest] \subseteq HostAllows[h]
       /\ host' = [host EXCEPT ![h] = [at |-> "spawned", candidate |-> c, edited |-> FALSE,
                                       stale |-> Stale(pluginDisk[c.root]),
                                       asOf |-> Len(verdicts)]]
       /\ UNCHANGED <<pluginDisk, trusted, discovered, verdicts, pluginEdits>>

\* What an import of a directory may execute.
Imported(d) == {d.code} \cup (IF d.stale THEN {"stale"} ELSE {})

\* The process imports the entrypoint from the directory, and answers initialize.
ImportPlugin(h) ==
    LET d == pluginDisk[host[h].candidate.root]
    IN /\ host[h].at = "spawned" /\ d # Absent
       /\ \E code \in Imported(d) :
             host' = [host EXCEPT ![h] =
                [at |-> "running", candidate |-> @.candidate, edited |-> @.edited,
                 stale |-> @.stale, asOf |-> @.asOf, code |-> code]]
       /\ UNCHANGED <<pluginDisk, trusted, discovered, verdicts, pluginEdits>>

\* The start fails, or the host is stopped, or its process ends.
StopHost(h) ==
    /\ host[h].at \in {"verifying", "spawned", "running"}
    /\ host' = [host EXCEPT ![h] = [at |-> "off", candidate |-> @.candidate]]
    /\ UNCHANGED <<pluginDisk, trusted, discovered, verdicts, pluginEdits>>

PluginsNext ==
    \/ \E d \in Roots, p \in Directory \cup {Absent} : EditPlugin(d, p)
    \/ Discover
    \/ \E c \in discovered, op \in TrustOps : Decide(c.plugin, op)
    \/ \E h \in Hosts :
          \/ \E c \in discovered : MakeHost(h, c)
          \/ ReadManifest(h) \/ SpawnHost(h) \/ ImportPlugin(h) \/ StopHost(h)

PluginsSpec == PluginsInit /\ [][PluginsNext]_pluginVars

-----------------------------------------------------------------------------

\* A plugin process was started for exactly the content that the last decision on
\* its identity allowed when it was started, however old the candidate and whatever
\* was edited meanwhile; and it runs that content, unless the directory was edited
\* in the time between the hash and the import, or held byte code of other sources
\* when it was hashed: no decision covers that.
PluginRunsAsTrusted ==
    \A h \in Hosts :
       host[h].at = "running" =>
          LET p == host[h].candidate.plugin IN
          /\ \E i \in 1 .. host[h].asOf :
                /\ verdicts[i] = [plugin |-> p, allowed |-> TRUE]
                /\ \A j \in i + 1 .. host[h].asOf : IdentityOf(verdicts[j].plugin) # IdentityOf(p)
          /\ host[h].code = p.code \/ host[h].edited \/ host[h].stale
=============================================================================
