-------------------------- MODULE MCRunCoordinator --------------------------
(***************************************************************************)
(* Instances of RunCoordinator for TLC.  The tools are the classes of the  *)
(* Coding Agent: a concurrency-safe reader, and a process execution.       *)
(***************************************************************************)
EXTENDS RunCoordinator, TLC

\* Runs are interchangeable: no action tells them apart.
RunSymmetry == Permutations(Runs)

\* read_file needs filesystem.read, bash needs process.exec.
MCCaps == [t \in Tools |->
              CASE t = "read" -> {"filesystem.read"}
                [] t = "probe" -> {"process.exec"}
                [] t = "bash" -> {"process.exec"}]
=============================================================================
