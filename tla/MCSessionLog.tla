---------------------------- MODULE MCSessionLog ----------------------------
(***************************************************************************)
(* Instances of the log of a session: its owners, and its compaction.      *)
(* They share no state, so a behaviour runs one.                           *)
(***************************************************************************)
EXTENDS SessionLog, Context

VARIABLE part

\* Every owner has its own Session object.
Owned == [t \in Threads |-> t]

MCInit == part \in {"owners", "compaction"} /\ Init /\ ContextInit

MCNext ==
    /\ UNCHANGED part
    /\ \/ part = "owners" /\ Next /\ UNCHANGED contextVars
       \/ part = "compaction" /\ ContextNext /\ UNCHANGED vars

MCSpec == MCInit /\ [][MCNext]_<<part, vars, contextVars>>
=============================================================================
