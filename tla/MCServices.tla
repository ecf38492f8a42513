----------------------------- MODULE MCServices -----------------------------
(***************************************************************************)
(* An instance of the parts whose state is outside the event log: the      *)
(* model stream, the turn stream, hooks, skills, artifacts, memory,        *)
(* plugins and commands.  They share no state, so a behaviour runs one.    *)
(***************************************************************************)
EXTENDS ModelStream, Turns, Hooks, Skills, Artifacts, Memory, Plugins,
        Commands

VARIABLE part

serviceVars == <<part, streamVars, turnVars, hookVars, skillVars, artifactVars, memoryVars,
                 pluginVars, commandVars>>

Init ==
    /\ part \in {"stream", "turns", "hooks", "skills", "artifacts", "memory", "plugins",
                "commands"}
    /\ StreamInit /\ TurnsInit /\ HooksInit /\ SkillsInit /\ ArtifactsInit /\ MemoryInit
    /\ PluginsInit /\ CommandInit
    /\ part # "stream" => adapter = "openai"
    /\ part # "commands" => backend = "local" /\ proc["leader"].stubborn

\* The other parts stand still.
Others ==
    /\ UNCHANGED part
    /\ part # "stream" => UNCHANGED streamVars
    /\ part # "turns" => UNCHANGED turnVars
    /\ part # "hooks" => UNCHANGED hookVars
    /\ part # "skills" => UNCHANGED skillVars
    /\ part # "artifacts" => UNCHANGED artifactVars
    /\ part # "memory" => UNCHANGED memoryVars
    /\ part # "plugins" => UNCHANGED pluginVars
    /\ part # "commands" => UNCHANGED commandVars

Next ==
    \/ part = "stream" /\ StreamNext /\ Others
    \/ part = "turns" /\ TurnsNext /\ Others
    \/ part = "hooks" /\ HooksNext /\ Others
    \/ part = "skills" /\ SkillsNext /\ Others
    \/ part = "artifacts" /\ ArtifactsNext /\ Others
    \/ part = "memory" /\ MemoryNext /\ Others
    \/ part = "plugins" /\ PluginsNext /\ Others
    \/ part = "commands" /\ CommandNext /\ Others

Spec == Init /\ [][Next]_serviceVars

-----------------------------------------------------------------------------

HookKinds == [priority : {1, 2}, mutates : BOOLEAN, fail_fast : BOOLEAN]

\* One skill name, with two contents of a version and one of the next.
SkillName == [k \in Documents |-> "skill"]
SkillVersion == [k \in Documents |-> IF k = "c" THEN "2.0" ELSE "1.0"]
SkillScope == [user |-> "user", work |-> "workspace", package |-> "builtin"]
SkillShipped == [package |-> "a"]

\* Unscoped artifacts and those of a run; an agent in that run, and one in another.
ScopePolicies == {[session |-> "none", run |-> "none"], [session |-> "s", run |-> "r"]}
AgentAccess == [a |-> [session |-> "s", run |-> "r", delete |-> TRUE],
                b |-> [session |-> "s", run |-> "q", delete |-> TRUE]]

\* Two facts, one of which only one caller may touch.
FactPlace == [f |-> "session", g |-> "global"]
CallerGrants == [a |-> {"session", "global"}, b |-> {"global"}]

\* One plugin in two manifests, the second of which pins its content and asks for
\* more than the host allows; and a plugin for another harness.
PluginIdentity == [m |-> "plugin", n |-> "plugin", o |-> "other"]
PluginPin == [m |-> "none", n |-> "x", o |-> "none"]
PluginAsks == [m |-> {}, n |-> {"net"}, o |-> {}]
PluginFits == [m |-> TRUE, n |-> TRUE, o |-> FALSE]
HostPolicies == [h |-> {}]
=============================================================================
