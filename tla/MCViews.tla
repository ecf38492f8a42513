------------------------------- MODULE MCViews -------------------------------
(***************************************************************************)
(* Instances of the views that are read while their source is written: the *)
(* task graph of a worker, the transcript of a client, and what file tools *)
(* have read of the workspace.  They share no state, so a behaviour runs   *)
(* one.                                                                    *)
(***************************************************************************)
EXTENDS TaskGraph, TerminalClient, Workspace

VARIABLE part

MCInit ==
    /\ part \in {"graph", "client", "file"}
    /\ Init /\ ClientInit /\ WorkspaceInit
    /\ part # "file" => files = <<>>

\* The other parts stand still.
Others ==
    /\ UNCHANGED part
    /\ part # "graph" => UNCHANGED vars
    /\ part # "client" => UNCHANGED clientVars
    /\ part # "file" => UNCHANGED workspaceVars

MCNext ==
    \/ part = "graph" /\ Next /\ Others
    \/ part = "client" /\ ClientNext /\ Others
    \/ part = "file" /\ WorkspaceNext /\ Others

MCSpec == MCInit /\ [][MCNext]_<<part, vars, clientVars, workspaceVars>>
=============================================================================
