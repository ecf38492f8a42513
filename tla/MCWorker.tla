------------------------------ MODULE MCWorker ------------------------------
(***************************************************************************)
(* Instances of the parts that a cancellation must bring to an end: the    *)
(* worker with the runs of its sessions, and a run with the runs below it. *)
(* They share no state, so a behaviour runs one, and only that one is      *)
(* fair.                                                                   *)
(***************************************************************************)
EXTENDS Worker, Subagents

VARIABLE part

MCInit ==
    /\ part \in {"worker", "tree"}
    /\ Init /\ TreeInit
    /\ part # "tree" => access = "full_access" /\ mode = "execute"

MCNext ==
    /\ UNCHANGED part
    /\ \/ part = "worker" /\ Next /\ UNCHANGED treeVars
       \/ part = "tree" /\ TreeNext /\ UNCHANGED vars

\* The fairness of FairSpec and TreeSpec, each for its part.
MCSpec ==
    /\ MCInit /\ [][MCNext]_<<part, vars, treeVars>>
    /\ WF_vars(part = "worker" /\ ~Occupied /\ MainStep)
    /\ WF_vars(part = "worker" /\ PickUp)
    /\ \A r \in Runs : WF_treeVars(part = "tree" /\ Hears(r) /\ Interrupt(r))
=============================================================================
