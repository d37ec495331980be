---------------------------- MODULE MCPipeSession ----------------------------
(***************************************************************************)
(* Instances of PipeSession for TLC.                                       *)
(***************************************************************************)
EXTENDS PipeSession, TLC

\* Pids, and command lines, are interchangeable.
PidSymmetry == Permutations(Daemons) \cup Permutations(Clis)
=============================================================================
